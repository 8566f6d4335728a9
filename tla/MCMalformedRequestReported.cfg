CONSTANTS
    Nil = Nil
    CanonicalMIMEHeaderKey <- MCCanonicalMIMEHeaderKey
    Configs <- RewritingConfigs
    Policies <- MCPolicies
    Requests <- RewriteRequests

SPECIFICATION Spec

INVARIANT
    MalformedRequestReported
