CONSTANTS
    Nil = Nil
    CanonicalMIMEHeaderKey <- MCCanonicalMIMEHeaderKey
    Configs <- BadPatternConfigs
    Policies <- MCPolicies
    Requests <- G2Requests

SPECIFICATION Spec

PROPERTY
    IntendedSafety
