CONSTANTS
    Nil = Nil
    CanonicalMIMEHeaderKey <- MCCanonicalMIMEHeaderKey
    Configs <- BadPatternConfigs
    Policies <- WidePolicies
    Requests <- PlainRequests

SPECIFICATION Spec

INVARIANT
    AllowListEnforced
