CONSTANTS
    Nil = Nil
    CanonicalMIMEHeaderKey <- MCCanonicalMIMEHeaderKey
    Configs <- G2Configs
    Policies <- MCPolicies
    Requests <- G2Requests

SPECIFICATION Spec

INVARIANTS
    TypeOK
    DelegateCallsInOrder

PROPERTIES
    IntendedSafety
