-------------------------- MODULE RewritingPipeline --------------------------
(***************************************************************************)
(* The earlier wiring of the chain, pkg/authorization: setupAuthorizer     *)
(* wraps union(ignore-paths, union(allow-paths, rewritingAuthorizer)),     *)
(* and the rewritingAuthorizer generates the attribute records itself and *)
(* asks union(static, delegate) about each in turn.  The path authorizers *)
(* therefore see the request's own attributes, and no generated record is *)
(* reported as a malformed request.  One request at a time, as in         *)
(* DelegatePipeline.                                                       *)
(***************************************************************************)
EXTENDS Authorizers

CONSTANTS Configs, Policies, Requests

VARIABLES config, policy, req, pc, ctxParams, attrs, i, authorized, calls, resp

vars == <<config, policy, req, pc, ctxParams, attrs, i, authorized, calls, resp>>

Outcomes == {"none", "unauthorized", "allow", "deny", "error", "panic"}
Failures == {"error", "cancelled"}

OwnAttributes(r) == AttributesRecord(r.user, r.verb, "", "", r.path, FALSE)

\* union(staticAuthorizer, delegatedAuthz.Authorizer); the static authorizer
\* is built even without rules and then has no opinion.
Chain ==
    <<[kind |-> "static", rules |-> IF config.static = Nil THEN <<>> ELSE config.static],
      SarAuthorizer>>

\* Mutant: the bound record keeps the request path.
AuthzAttributesBoundWithPath(params, attr) ==
    LET ra == config.resourceAttributes
    IN CASE ra = Nil              -> DefaultGenerate(attr)
         [] config.rewrites = Nil ->
               Generated(<<AttributesRecord(attr.user, attr.verb, ra.namespace,
                                            ra.resource, attr.path, TRUE)>>)
         [] OTHER                 -> RewritingGenerate(ra, params, attr)

\* getKubeRBACProxyAuthzAttributes: the default record without resource
\* attributes, the bound record without rewrites, else one record per
\* parameter (none without parameters); templateWithValue panics on a
\* template that does not parse.
KubeRBACProxyAuthzAttributes(params, attr) ==
    LET ra == config.resourceAttributes
    IN CASE ra = Nil              -> DefaultGenerate(attr)
         [] config.rewrites = Nil -> BoundGenerate(ra, attr)
         [] OTHER                 -> RewritingGenerate(ra, params, attr)

-----------------------------------------------------------------------------
\* setupAuthorizer fails only on invalid static rules; both path lists
\* may be set.
Init ==
    /\ config \in {c \in Configs : c.static = Nil \/ StaticConfigValid(c.static)}
    /\ policy \in Policies
    /\ req = Nil
    /\ pc = "idle"
    /\ ctxParams = <<>>
    /\ attrs = <<>>
    /\ i = 1
    /\ authorized = DecisionDeny
    /\ calls = <<>>
    /\ resp = "none"

\* A request arrives; Authorize's local authorized starts as DecisionDeny.
Receive ==
    /\ pc \in {"idle", "done"}
    /\ \E r \in Requests : req' = r
    /\ pc' = "authn"
    /\ ctxParams' = <<>>
    /\ attrs' = <<>>
    /\ i' = 1
    /\ authorized' = DecisionDeny
    /\ calls' = <<>>
    /\ resp' = "none"
    /\ UNCHANGED <<config, policy>>

\* WithAuthentication
Authenticate ==
    /\ pc = "authn"
    /\ IF req.authenticated
       THEN pc' = "params" /\ UNCHANGED resp
       ELSE pc' = "done" /\ resp' = "unauthorized"
    /\ UNCHANGED <<config, policy, req, ctxParams, attrs, i, authorized, calls>>

\* WithKubeRBACProxyParamsHandler: the context gets the parameters only
\* when there are some.
ExtractParams ==
    LET params == RequestToParams(config, req)
    IN /\ pc = "params"
       /\ pc' = "paths"
       /\ ctxParams' = IF params # <<>> THEN params ELSE ctxParams
       /\ UNCHANGED <<config, policy, req, attrs, i, authorized, calls, resp>>

\* The ignore-paths authorizer (outermost union) allows the request's own
\* path; the allow-paths authorizer denies it.
IgnoredPath(r) ==
    /\ config.ignorePaths # <<>>
    /\ PathAuthorize(NewAlwaysAllowPathAuthorizer(config.ignorePaths),
                     OwnAttributes(r)).decision = DecisionAllow

UnlistedPath(r) ==
    /\ config.allowPaths # <<>>
    /\ PathAuthorize(NewAllowPathAuthorizer(config.allowPaths),
                     OwnAttributes(r)).decision = DecisionDeny

\* Mutant: an allow-list match is taken as an allow.
PathUnionsAllowListAllows ==
    /\ pc = "paths"
    /\ CASE IgnoredPath(req)         -> pc' = "done" /\ resp' = "allow"
         [] config.allowPaths = <<>> -> pc' = "generate" /\ UNCHANGED resp
         [] UnlistedPath(req)        -> pc' = "done" /\ resp' = "deny"
         [] OTHER                    -> pc' = "done" /\ resp' = "allow"
    /\ UNCHANGED <<config, policy, req, ctxParams, attrs, i, authorized, calls>>

\* The outer unions: a path the ignore list matches is allowed, one the
\* allow list misses is denied; otherwise both abstain and the
\* rewritingAuthorizer decides.
PathUnions ==
    /\ pc = "paths"
    /\ CASE IgnoredPath(req)  -> pc' = "done" /\ resp' = "allow"
         [] UnlistedPath(req) -> pc' = "done" /\ resp' = "deny"
         [] OTHER             -> pc' = "generate" /\ UNCHANGED resp
    /\ UNCHANGED <<config, policy, req, ctxParams, attrs, i, authorized, calls>>

\* rewritingAuthorizer.Authorize up to the loop: no record is a malformed
\* request, reported as Deny with an error.
GenerateAttrs ==
    LET g == KubeRBACProxyAuthzAttributes(ctxParams, OwnAttributes(req))
    IN /\ pc = "generate"
       /\ CASE g.panic        -> pc' = "done" /\ resp' = "panic" /\ UNCHANGED attrs
            [] g.attrs = <<>> -> pc' = "done" /\ resp' = "error" /\ UNCHANGED attrs
            [] OTHER          -> pc' = "attr" /\ attrs' = g.attrs /\ UNCHANGED resp
       /\ UNCHANGED <<config, policy, req, ctxParams, i, authorized, calls>>

\* Mutant: no early return on a denial.
AttrResultNoEarlyExit(d, err) ==
    /\ authorized' = d
    /\ CASE err   -> pc' = "done" /\ resp' = "error" /\ UNCHANGED i
         [] OTHER -> pc' = "attr" /\ i' = i + 1 /\ UNCHANGED resp

\* The loop body once union(static, delegate) has answered for attrs[i].
AttrResult(d, err) ==
    /\ authorized' = d
    /\ CASE err                -> pc' = "done" /\ resp' = "error" /\ UNCHANGED i
         [] d # DecisionAllow  -> pc' = "done" /\ resp' = "deny" /\ UNCHANGED i
         [] OTHER              -> pc' = "attr" /\ i' = i + 1 /\ UNCHANGED resp

\* The static authorizer on attrs[i]; if it abstains the delegate is asked.
EvalLocal ==
    LET d == LocalDecision(Chain, attrs[i])
    IN /\ pc = "attr"
       /\ i <= Len(attrs)
       /\ IF d # DecisionNoOpinion
          THEN AttrResult(d, FALSE)
          ELSE pc' = "sar" /\ UNCHANGED <<i, authorized, resp>>
       /\ UNCHANGED <<config, policy, req, ctxParams, attrs, calls>>

SarReply ==
    LET d == SarDecision(policy, attrs[i])
    IN /\ pc = "sar"
       /\ calls' = Append(calls, [attr |-> attrs[i], result |-> d])
       /\ AttrResult(d, FALSE)
       /\ UNCHANGED <<config, policy, req, ctxParams, attrs>>

SarFailure ==
    /\ pc = "sar"
    /\ \E f \in Failures :
          calls' = Append(calls, [attr |-> attrs[i], result |-> f])
    /\ AttrResult(DecisionNoOpinion, TRUE)
    /\ UNCHANGED <<config, policy, req, ctxParams, attrs>>

Finish ==
    /\ pc = "attr"
    /\ i > Len(attrs)
    /\ pc' = "done"
    /\ resp' = IF authorized = DecisionAllow THEN "allow" ELSE "deny"
    /\ UNCHANGED <<config, policy, req, ctxParams, attrs, i, authorized, calls>>

Next ==
    \/ Receive
    \/ Authenticate
    \/ ExtractParams
    \/ PathUnions
    \/ GenerateAttrs
    \/ EvalLocal
    \/ SarReply
    \/ SarFailure
    \/ Finish

\* Safety only, as in DelegatePipeline.
Spec == Init /\ [][Next]_vars

-----------------------------------------------------------------------------
TypeOK ==
    /\ pc \in {"idle", "authn", "params", "paths", "generate", "attr", "sar", "done"}
    /\ req \in Requests \cup {Nil}
    /\ attrs \in Seq(AttributeRecords)
    /\ i \in 1..Len(attrs) + 1
    /\ authorized \in Decisions
    /\ \A k \in DOMAIN calls : calls[k].result \in Decisions \cup Failures
    /\ resp \in Outcomes

NeedsDelegate == SelectSeq(attrs, LAMBDA a : LocalDecision(Chain, a) = DecisionNoOpinion)
CalledAttrs == [m \in DOMAIN calls |-> calls[m].attr]

\* rewritingAuthorizer.Authorize reports a request that generates no
\* record (a rewriting configuration and no parameter in the request) as
\* an error, never as an ordinary denial.
MalformedRequestReported ==
    (/\ pc = "done"
     /\ req.authenticated
     /\ ~IgnoredPath(req) /\ ~UnlistedPath(req)
     /\ KubeRBACProxyAuthzAttributes(ctxParams, OwnAttributes(req)) = Generated(<<>>))
        => resp = "error"

\* The loop asks the delegate in generation order and stops at the first
\* record that is not allowed.
DelegateCallsInOrder ==
    /\ IsPrefix(CalledAttrs, NeedsDelegate)
    /\ \A m \in 1..Len(calls) - 1 : calls[m].result = DecisionAllow

(* Refinement: this wiring implements the decision spec.md describes.     *)
Intended == INSTANCE SpecDecision
    WITH phase <- CASE pc = "idle" -> "idle"
                    [] pc = "done" -> "done"
                    [] OTHER       -> "busy"

\* Every step of the chain is a step of SpecDecision or leaves it
\* unchanged: the path lists judge the request's own path, no record is an
\* error, and the AND over the static rules and the delegate decides the
\* rest.
IntendedSafety == Intended!SafetySpec

====
