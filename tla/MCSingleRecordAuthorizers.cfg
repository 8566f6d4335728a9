CONSTANTS
    Nil = Nil
    CanonicalMIMEHeaderKey <- MCCanonicalMIMEHeaderKey
    Configs <- SingleRecordConfigs
    Policies <- MCPolicies
    Requests <- PlainRequests

SPECIFICATION Spec

INVARIANT
    TypeOK

PROPERTIES
    AbstractSafety
