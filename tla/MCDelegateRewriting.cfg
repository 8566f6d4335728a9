CONSTANTS
    Nil = Nil
    CanonicalMIMEHeaderKey <- MCCanonicalMIMEHeaderKey
    Configs <- RewritingConfigs
    Policies <- RewritePolicies
    Requests <- RewriteRequests

SPECIFICATION Spec

INVARIANTS
    AllowJustified
    DelegateCallsInOrder
    ErrorsReported

PROPERTIES
    AbstractSafety
