------------------------------- MODULE MCAuthz -------------------------------
(***************************************************************************)
(* Model values shared by the pipeline models: two users, request paths,  *)
(* the configurations built from every allow/ignore/static/               *)
(* resourceAttributes/rewrites choice below, and every delegate policy   *)
(* over three keys.                                                        *)
(***************************************************************************)
EXTENDS Authorizers

\* paths as token sequences: "/", "/m", "/h", "/*"
PRoot == <<"/">>
PM    == <<"/", "m">>
PH    == <<"/", "h">>
PStar == <<"/", "*">>
\* "/[*": a glob whose character class is never closed
PBad  == <<"/", BadClass, Star>>

MCCanonicalMIMEHeaderKey(n) ==
    CASE n = "x-namespace" -> "X-Namespace"
      [] n = "user"        -> "User"
      [] n = "groups"      -> "Groups"
      [] OTHER             -> n

\* allowPaths/ignorePaths pairs, one of them the startup error of both set
PathChoices ==
    {<<<<>>, <<>>>>, <<<<PM>>, <<>>>>, <<<<PStar>>, <<>>>>,
     <<<<>>, <<PRoot>>>>, <<<<>>, <<PH>>>>, <<<<PM>>, <<PH>>>>}

Rule(u, ns, res, path, rr) ==
    [user |-> u, verb |-> "", namespace |-> ns, resource |-> res,
     path |-> path, resourceRequest |-> rr]

\* static rule lists, the last one refused by NewStaticAuthorizer
StaticChoices ==
    {Nil,
     <<Rule("alice", "ns1", "pods", <<>>, TRUE)>>,
     <<Rule("", "", "", PH, FALSE)>>,
     <<Rule("", "", "pods", PM, TRUE)>>}

RAChoices ==
    {Nil,
     [namespace |-> TplValue, resource |-> "pods"],
     [namespace |-> "ns1", resource |-> "pods"],
     [namespace |-> TplExecError, resource |-> "pods"],
     [namespace |-> TplValue, resource |-> TplParseError]}

RewriteChoices ==
    {Nil} \cup [byQueryParameter : {"", "namespace"}, byHttpHeader : {"", "x-namespace"}]

ConfigsOf(paths, statics, ras, rws) ==
    {[allowPaths |-> p[1], ignorePaths |-> p[2], static |-> s,
      resourceAttributes |-> ra, rewrites |-> rw] :
        p \in paths, s \in statics, ra \in ras, rw \in rws}

\* path and static authorizers in front of the default and bound generators
PathStaticConfigs ==
    ConfigsOf(PathChoices, StaticChoices,
              {Nil, [namespace |-> "ns1", resource |-> "pods"]}, {Nil})

\* the rewriting generator: every template and rewrite source
RewritingConfigs ==
    ConfigsOf({<<<<>>, <<>>>>, <<<<PStar>>, <<>>>>, <<<<>>, <<PRoot>>>>},
              {Nil, <<Rule("alice", "ns1", "pods", <<>>, TRUE)>>},
              RAChoices \ {Nil}, RewriteChoices)

\* the delegate allows or denies three keys and has no opinion on others
PolicyKeys ==
    {<<"alice", <<"ns1", "pods">>>>, <<"alice", <<"ns2", "pods">>>>, <<"bob", PM>>}

MCPolicies == [PolicyKeys -> {DecisionAllow, DecisionDeny}]

\* the keys a rewriting configuration's resource records can reach
RewritePolicies == [PolicyKeys \ {<<"bob", PM>>} -> {DecisionAllow, DecisionDeny}]

\* an allow-list of "/m" and a malformed glob, before the default generator
BadPatternConfigs == ConfigsOf({<<<<PM, PBad>>, <<>>>>}, {Nil}, {Nil}, {Nil})

\* the delegate also judges bob on "/h"
WidePolicies == [PolicyKeys \cup {<<"bob", PH>>} -> {DecisionAllow, DecisionDeny}]

Request(auth, u, path, q, h) ==
    [authenticated |-> auth, user |-> u, method |-> "GET", verb |-> "get", path |-> path,
     query |-> [namespace |-> q], header |-> ("X-Namespace" :> h)]

\* requests without rewrite parameters, one of them unauthenticated
PlainRequests ==
    {Request(FALSE, "bob", PM, <<>>, <<>>)}
    \cup {Request(TRUE, u, p, <<>>, <<>>) : u \in {"alice", "bob"}, p \in {PM, PH}}

\* requests carrying namespaces in the query and in the header
RewriteRequests ==
    {Request(TRUE, u, p, q, h) :
        u \in {"alice", "bob"}, p \in {PM, PH},
        q \in {<<>>, <<"ns1">>, <<"ns1", "ns2">>}, h \in {<<>>, <<"ns2">>}}

====
