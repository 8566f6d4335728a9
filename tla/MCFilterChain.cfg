CONSTANTS
    Nil = Nil
    CanonicalMIMEHeaderKey <- MCCanonicalMIMEHeaderKey
    HTMLEscapeString <- MCHTMLEscapeString
    UserFieldName <- MCUserFieldName
    GroupsFieldName <- MCGroupsFieldName
    GroupSeparator <- MCGroupSeparator
    Configs <- G1Configs
    Policies <- MCPolicies
    Requests <- G1Requests

SPECIFICATION Spec

INVARIANTS
    TypeOK
    ProxiedJustified
    DelegateCallsInOrder

PROPERTIES
    IntendedSafety
