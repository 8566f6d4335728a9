---------------------------- MODULE MCFilterChain ----------------------------
(***************************************************************************)
(* The first-generation filter chain with the shared model values, every  *)
(* path list among them written with its leading slash, malformed globs   *)
(* included.                                                               *)
(***************************************************************************)
EXTENDS FilterChain, MCAuthz

\* html/template escapes <, >, &, ' and " in text; "ns<1" is the one value
\* here with such a character.
MCHTMLEscapeString(v) == IF v = "ns<1" THEN "ns&lt;1" ELSE v

G1Configs ==
    ConfigsOf({<<<<>>, <<>>>>, <<<<PM>>, <<>>>>, <<<<PStar>>, <<>>>>, <<<<PM, PBad>>, <<>>>>,
               <<<<>>, <<PH>>>>, <<<<>>, <<PRoot>>>>, <<<<>>, <<PH, PBad>>>>},
              {Nil, <<Rule("alice", "ns1", "pods", <<>>, TRUE)>>, <<Rule("", "", "", PH, FALSE)>>},
              {Nil, [namespace |-> "ns1", resource |-> "pods"],
               [namespace |-> TplValue, resource |-> "pods"],
               [namespace |-> TplExecError, resource |-> "pods"]},
              {Nil, [byQueryParameter |-> "namespace", byHttpHeader |-> "x-namespace"]})

\* the identity headers of the configuration in filters/auth_test.go, with
\* "|" as the groups separator
MCUserFieldName == "user"
MCGroupsFieldName == "groups"
MCGroupSeparator == <<"|">>

\* group names as character sequences: alice is in dev and ops, bob in one
\* group whose name contains the separator
GroupsOf(u) == IF u = "alice" THEN <<<<"d", "v">>, <<"o", "p">>>> ELSE <<<<"a", "|", "b">>>>

\* the authenticated identity: the user's groups
WithIdentity(r) ==
    [authenticated |-> r.authenticated, user |-> r.user, groups |-> GroupsOf(r.user),
     method |-> r.method, verb |-> r.verb, path |-> r.path, query |-> r.query,
     header |-> r.header]

\* a client's own identity headers: a user name and the group "m"
Spoofed(r, name) ==
    [r EXCEPT !.header = @ @@ ("User" :> <<name>>) @@ ("Groups" :> <<<<"m">>>>)]

\* authenticated requests with identity headers of the client's, bob's
\* claiming to be alice
G1Requests ==
    {WithIdentity(Spoofed(r, IF r.user = "bob" THEN "alice" ELSE r.user)) : r \in RewriteRequests}

\* an ignore-list, and bob claiming to be alice on the ignored path
SpoofConfigs == ConfigsOf({<<<<>>, <<PH>>>>}, {Nil}, {Nil}, {Nil})
SpoofRequests == {WithIdentity(Spoofed(Request(TRUE, "bob", PH, <<>>, <<>>), "alice"))}

====
