CONSTANTS
    Nil = Nil
    CanonicalMIMEHeaderKey <- MCCanonicalMIMEHeaderKey
    Configs <- PathStaticConfigs
    Policies <- MCPolicies
    Requests <- PlainRequests

SPECIFICATION Spec

INVARIANTS
    TypeOK
    AllowJustified
    ErrorsReported

PROPERTIES
    AbstractSafety
