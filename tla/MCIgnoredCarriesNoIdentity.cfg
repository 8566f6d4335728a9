CONSTANTS
    Nil = Nil
    CanonicalMIMEHeaderKey <- MCCanonicalMIMEHeaderKey
    HTMLEscapeString <- MCHTMLEscapeString
    UserFieldName <- MCUserFieldName
    GroupsFieldName <- MCGroupsFieldName
    GroupSeparator <- MCGroupSeparator
    Configs <- SpoofConfigs
    Policies <- MCPolicies
    Requests <- SpoofRequests

SPECIFICATION Spec

INVARIANT
    IgnoredCarriesNoIdentity
