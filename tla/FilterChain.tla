----------------------------- MODULE FilterChain -----------------------------
(***************************************************************************)
(* The first-generation pipeline (pkg/filters, pkg/authz): HTTP filters  *)
(* in front of the upstream, one request at a time.                       *)
(*   WithAllowPaths   a path no entry matches is 404, a malformed entry   *)
(*                    500;                                                 *)
(*   WithIgnorePaths  a matching path goes to the `ignored` handler (the  *)
(*                    upstream, with no authentication), the rest to the *)
(*                    authentication chain;                                *)
(*   WithAuthentication, then WithAuthorization, which asks the           *)
(*   authorizer about every record of Config.GetRequestAttributes and     *)
(*   serves the request only if each one is allowed.                      *)
(* Entries are matched with path.Match against the raw request path.  The *)
(* authorizer is union(static, SubjectAccessReview).                      *)
(***************************************************************************)
EXTENDS Authorizers

CONSTANTS
    Configs, Policies, Requests,
    HTMLEscapeString(_),    \* html/template's escaping of text in HTML context
    UserFieldName,          \* AuthnHeaderConfig.UserFieldName
    GroupsFieldName,        \* AuthnHeaderConfig.GroupsFieldName
    GroupSeparator          \* AuthnHeaderConfig.GroupSeparator, a character sequence

\* upstreamHeader: the header of the request the upstream handler receives
\* (Nil while nothing has been served).
VARIABLES config, policy, req, pc, attrs, i, calls, resp, upstreamHeader

vars == <<config, policy, req, pc, attrs, i, calls, resp, upstreamHeader>>

Outcomes == {"none", "notfound", "ignored", "unauthorized", "badrequest",
             "error", "deny", "allow", "panic"}
Failures == {"error", "cancelled"}

\* The authorizer handed to WithAuthorization.
Chain == StaticChain(config) \o <<SarAuthorizer>>

\* GetRequestAttributes' mapping of HTTP methods to verbs.
VerbOf(method) ==
    CASE method = "POST"   -> "create"
      [] method = "GET"    -> "get"
      [] method = "PUT"    -> "update"
      [] method = "PATCH"  -> "patch"
      [] method = "DELETE" -> "delete"
      [] OTHER             -> "*"

\* templateWithValue of package authz: html/template, so the value is
\* HTML-escaped where the template prints it.
HTMLTemplateWithValue(t, v) ==
    CASE t = TplValue     -> HTMLEscapeString(v)
      [] t = TplExecError -> ""
      [] OTHER            -> t

\* Config.GetRequestAttributes; a template that does not parse panics.
GetRequestAttributes(r) ==
    LET verb == VerbOf(r.method)
        ra == config.resourceAttributes
        params == RequestToParams(config, r)
    IN CASE ra = Nil ->
              Generated(<<AttributesRecord(r.user, verb, "", "", r.path, FALSE)>>)
         [] config.rewrites = Nil ->
              Generated(<<AttributesRecord(r.user, verb, ra.namespace, ra.resource, <<>>, TRUE)>>)
         [] params = <<>> -> Generated(<<>>)
         [] ~(TemplateParses(ra.namespace) /\ TemplateParses(ra.resource)) ->
              [panic |-> TRUE, attrs |-> <<>>]
         [] OTHER ->
              Generated([k \in 1..Len(params) |->
                 AttributesRecord(r.user, verb,
                                  HTMLTemplateWithValue(ra.namespace, params[k]),
                                  HTMLTemplateWithValue(ra.resource, params[k]),
                                  <<>>, TRUE)])

\* The index of the first entry path.Match matches or fails on, 0 if none.
FirstHit(entries, p) == SelectInSeq(entries, LAMBDA e : PathMatch(e, p) # "nomatch")

\* The key net/http stores and reads the identity header under.
UserKey == CanonicalMIMEHeaderKey(UserFieldName)

\* The key the joined groups are stored under.
GroupsKey == CanonicalMIMEHeaderKey(GroupsFieldName)

\* strings.Join: the group names, character sequences, with sep between.
Join(gs, sep) == IF gs = <<>> THEN <<>>
                 ELSE FoldLeft(LAMBDA acc, g : acc \o sep \o g, Head(gs), Tail(gs))

\* WithAuthHeaders (enabled): with a user in the context, Header.Set
\* replaces every value of the user header by the verified name and of
\* the groups header by the joined groups; without one the headers go on
\* as the client sent them.
WithAuthHeaders(r) ==
    (UserKey :> <<r.user>>) @@ (GroupsKey :> <<Join(r.groups, GroupSeparator)>>) @@ r.header

Init ==
    /\ config \in {c \in Configs : ~(c.allowPaths # <<>> /\ c.ignorePaths # <<>>)
                                  /\ (c.static = Nil \/ StaticConfigValid(c.static))}
    /\ policy \in Policies
    /\ req = Nil
    /\ pc = "idle"
    /\ attrs = <<>>
    /\ i = 1
    /\ calls = <<>>
    /\ resp = "none"
    /\ upstreamHeader = Nil

\* Mutant: the loop index is not reset for the next request.
ReceiveKeepsIndex ==
    /\ pc \in {"idle", "done"}
    /\ \E r \in Requests : req' = r
    /\ pc' = "allowpaths"
    /\ attrs' = <<>>
    /\ calls' = <<>>
    /\ resp' = "none"
    /\ upstreamHeader' = Nil
    /\ UNCHANGED <<config, policy, i>>

Receive ==
    /\ pc \in {"idle", "done"}
    /\ \E r \in Requests : req' = r
    /\ pc' = "allowpaths"
    /\ attrs' = <<>>
    /\ i' = 1
    /\ calls' = <<>>
    /\ resp' = "none"
    /\ upstreamHeader' = Nil
    /\ UNCHANGED <<config, policy>>

\* Mutant: a malformed entry is skipped like one that does not match.
AllowPathsFilterSkipsErrors ==
    LET k == SelectInSeq(config.allowPaths, LAMBDA e : PathMatch(e, req.path) = "match")
    IN /\ pc = "allowpaths"
       /\ CASE config.allowPaths = <<>> -> pc' = "ignorepaths" /\ UNCHANGED resp
            [] k = 0 -> pc' = "done" /\ resp' = "notfound"
            [] OTHER -> pc' = "ignorepaths" /\ UNCHANGED resp
       /\ UNCHANGED <<config, policy, upstreamHeader, req, attrs, i, calls>>

\* WithAllowPaths: the entries in order; the first that matches serves,
\* the first malformed one answers 500, none answers 404.
AllowPathsFilter ==
    LET k == FirstHit(config.allowPaths, req.path)
    IN /\ pc = "allowpaths"
       /\ CASE config.allowPaths = <<>> -> pc' = "ignorepaths" /\ UNCHANGED resp
            [] k = 0 -> pc' = "done" /\ resp' = "notfound"
            [] PathMatch(config.allowPaths[k], req.path) = "error" ->
                  pc' = "done" /\ resp' = "error"
            [] OTHER -> pc' = "ignorepaths" /\ UNCHANGED resp
       /\ UNCHANGED <<config, policy, upstreamHeader, req, attrs, i, calls>>

\* WithIgnorePaths: a match is served by `ignored`, a malformed entry met
\* first answers 500, otherwise the authentication chain runs.
IgnorePathsFilter ==
    LET k == FirstHit(config.ignorePaths, req.path)
    IN /\ pc = "ignorepaths"
       /\ CASE k = 0 -> pc' = "authn" /\ UNCHANGED <<resp, upstreamHeader>>
            [] PathMatch(config.ignorePaths[k], req.path) = "error" ->
                  pc' = "done" /\ resp' = "error" /\ UNCHANGED upstreamHeader
            [] OTHER -> pc' = "done" /\ resp' = "ignored" /\ upstreamHeader' = req.header
       /\ UNCHANGED <<config, policy, req, attrs, i, calls>>

Authenticate ==
    /\ pc = "authn"
    /\ IF req.authenticated
       THEN pc' = "authz" /\ UNCHANGED resp
       ELSE pc' = "done" /\ resp' = "unauthorized"
    /\ UNCHANGED <<config, policy, upstreamHeader, req, attrs, i, calls>>

\* Mutant: the zero-records check is missing.
AuthorizeNoLenCheck ==
    LET g == GetRequestAttributes(req)
    IN /\ pc = "authz"
       /\ IF g.panic
          THEN pc' = "done" /\ resp' = "panic" /\ UNCHANGED attrs
          ELSE pc' = "attr" /\ attrs' = g.attrs /\ UNCHANGED resp
       /\ UNCHANGED <<config, policy, upstreamHeader, req, i, calls>>

\* WithAuthorization up to its loop.  The user is in the context, since
\* WithAuthentication ran; no record is a 400.
Authorize ==
    LET g == GetRequestAttributes(req)
    IN /\ pc = "authz"
       /\ CASE g.panic          -> pc' = "done" /\ resp' = "panic" /\ UNCHANGED attrs
            [] g.attrs = <<>>   -> pc' = "done" /\ resp' = "badrequest" /\ UNCHANGED attrs
            [] OTHER            -> pc' = "attr" /\ attrs' = g.attrs /\ UNCHANGED resp
       /\ UNCHANGED <<config, policy, upstreamHeader, req, i, calls>>

\* Mutant: a denial does not end the loop.
AttrResultNoEarlyExit(d, err) ==
    CASE err   -> pc' = "done" /\ resp' = "error" /\ UNCHANGED i
      [] OTHER -> pc' = "attr" /\ i' = i + 1 /\ UNCHANGED resp

\* The loop body: an error is 500, anything but Allow 403.
AttrResult(d, err) ==
    CASE err               -> pc' = "done" /\ resp' = "error" /\ UNCHANGED i
      [] d # DecisionAllow -> pc' = "done" /\ resp' = "deny" /\ UNCHANGED i
      [] OTHER             -> pc' = "attr" /\ i' = i + 1 /\ UNCHANGED resp

\* authz.Authorize on attrs[i]: the static rules, then the delegate.
EvalLocal ==
    LET u == LocalUnion(Chain, attrs[i])
    IN /\ pc = "attr"
       /\ i <= Len(attrs)
       /\ IF u.decision # DecisionNoOpinion
          THEN AttrResult(u.decision, u.err)
          ELSE pc' = "sar" /\ UNCHANGED <<i, resp>>
       /\ UNCHANGED <<config, policy, upstreamHeader, req, attrs, calls>>

SarReply ==
    LET d == SarDecision(policy, attrs[i])
    IN /\ pc = "sar"
       /\ calls' = Append(calls, [attr |-> attrs[i], result |-> d])
       /\ AttrResult(d, d = DecisionNoOpinion /\ LocalUnion(Chain, attrs[i]).err)
       /\ UNCHANGED <<config, policy, upstreamHeader, req, attrs>>

SarFailure ==
    /\ pc = "sar"
    /\ \E f \in Failures : calls' = Append(calls, [attr |-> attrs[i], result |-> f])
    /\ AttrResult(DecisionNoOpinion, TRUE)
    /\ UNCHANGED <<config, policy, upstreamHeader, req, attrs>>

\* Every record allowed: handler.ServeHTTP.
Finish ==
    /\ pc = "attr"
    /\ i > Len(attrs)
    /\ pc' = "done"
    /\ resp' = "allow"
    /\ upstreamHeader' = WithAuthHeaders(req)
    /\ UNCHANGED <<config, policy, req, attrs, i, calls>>

Next ==
    \/ Receive
    \/ AllowPathsFilter
    \/ IgnorePathsFilter
    \/ Authenticate
    \/ Authorize
    \/ EvalLocal
    \/ SarReply
    \/ SarFailure
    \/ Finish

\* Safety only, as in DelegatePipeline.
Spec == Init /\ [][Next]_vars

-----------------------------------------------------------------------------
TypeOK ==
    /\ pc \in {"idle", "allowpaths", "ignorepaths", "authn", "authz", "attr", "sar", "done"}
    /\ req \in Requests \cup {Nil}
    /\ attrs \in Seq(AttributeRecords)
    /\ i \in 1..Len(attrs) + 1
    /\ \A k \in DOMAIN calls : calls[k].result \in Decisions \cup Failures
    /\ resp \in Outcomes
    /\ upstreamHeader = Nil
       \/ \A n \in DOMAIN upstreamHeader :
             upstreamHeader[n] \in IF n = GroupsKey THEN Seq(Seq(STRING)) ELSE Seq(STRING)

Listed(entries, p) == \E k \in DOMAIN entries : PathMatch(entries[k], p) = "match"

\* Whatever reaches the upstream passed the filters: its path is on the
\* allow-list if there is one; it was either on the ignore-list or
\* authenticated, with at least one record and every record allowed by a
\* static rule or by a delegate call that answered Allow.  (The loop of
\* WithAuthorization has no result to check afterwards: only the
\* zero-records check keeps an empty generation from being served.)
ProxiedJustified ==
    resp \in {"allow", "ignored"} =>
        /\ config.allowPaths = <<>> \/ Listed(config.allowPaths, req.path)
        /\ resp = "ignored" => Listed(config.ignorePaths, req.path)
        /\ resp = "allow" =>
              /\ req.authenticated
              /\ attrs # <<>>
              /\ \A k \in DOMAIN attrs :
                    \/ LocalDecision(Chain, attrs[k]) = DecisionAllow
                    \/ \E c \in Range(calls) : c.attr = attrs[k] /\ c.result = DecisionAllow

\* The loop asks the delegate in record order and stops at the first
\* record that is not allowed.
DelegateCallsInOrder ==
    /\ IsPrefix([m \in DOMAIN calls |-> calls[m].attr],
                SelectSeq(attrs, LAMBDA a : LocalDecision(Chain, a) = DecisionNoOpinion))
    /\ \A m \in 1..Len(calls) - 1 : calls[m].result = DecisionAllow

\* The user the upstream reads: Header.Get gives the first value.
UpstreamUser ==
    LET vs == IF upstreamHeader = Nil THEN <<>> ELSE Lookup(upstreamHeader, UserKey)
    IN IF vs = <<>> THEN "" ELSE Head(vs)

-----------------------------------------------------------------------------
(* Refinement: the filter chain implements spec.md's decision, with the  *)
(* HTTP answers read as decisions: 404 is a denial, an ignored path an    *)
(* allow, 400 (no record) an error.                                       *)
Intended == INSTANCE SpecDecision
    WITH phase <- CASE pc = "idle" -> "idle"
                    [] pc = "done" -> "done"
                    [] OTHER       -> "busy",
         resp <- CASE resp = "notfound"   -> "deny"
                   [] resp = "ignored"    -> "allow"
                   [] resp = "badrequest" -> "error"
                   [] OTHER               -> resp

IntendedSafety == Intended!SafetySpec

-----------------------------------------------------------------------------
(* Statements spec.md makes about the chain, checked against the code.   *)

\* path.go 104-105: the user header tells the upstream the identity the
\* proxy verified, the upstream delegating authentication to the proxy; so
\* a request the proxy did not authenticate carries no user header.  An
\* ignored path skips authentication, WithAuthHeaders sets the header only
\* with a user in the context and never removes the client's.
IgnoredCarriesNoIdentity ==
    resp = "ignored" => UpstreamUser = ""

====
