------------------------- MODULE SingleRecordAuthorizers -------------------------
(***************************************************************************)
(* The single-record authorizers of package authorization:                *)
(* ressourceBoundAuthorizer (bound.go) asks its delegate about the        *)
(* configured resource in place of the request, defaultAuthorizer         *)
(* (part_001) about the request's user, verb and path.  Each wraps the    *)
(* SubjectAccessReview delegate, behind authentication, and its answer is *)
(* read the way an HTTP authorization filter reads one: an error is 500,  *)
(* Allow serves, anything else is 403.  A configuration with              *)
(* resourceAttributes selects the bound authorizer, one without the       *)
(* default authorizer.                                                     *)
(***************************************************************************)
EXTENDS Authorizers

CONSTANTS Configs, Policies, Requests

VARIABLES config, policy, req, pc, proxyAttrs, calls, resp

vars == <<config, policy, req, pc, proxyAttrs, calls, resp>>

Outcomes == {"none", "unauthorized", "error", "deny", "allow"}
Failures == {"error", "cancelled"}

\* The attributes the HTTP layer hands to Authorize.
RequestAttributes(r) == AttributesRecord(r.user, r.verb, "", "", r.path, FALSE)

\* Mutant: the request path is kept in the bound record.
BoundRecordKeepsPath(ra, a) ==
    AttributesRecord(a.user, a.verb, ra.namespace, ra.resource, a.path, TRUE)

\* ressourceBoundAuthorizer.Authorize: the configured coordinates verbatim.
BoundRecord(ra, a) ==
    AttributesRecord(a.user, a.verb, ra.namespace, ra.resource, <<>>, TRUE)

\* defaultAuthorizer.Authorize: user, verb and path only.
DefaultRecord(a) == AttributesRecord(a.user, a.verb, "", "", a.path, FALSE)

Init ==
    /\ config \in {c \in Configs : SetupAuthorizer(c).ok}
    /\ policy \in Policies
    /\ req = Nil
    /\ pc = "idle"
    /\ proxyAttrs = Nil
    /\ calls = <<>>
    /\ resp = "none"

Receive ==
    /\ pc \in {"idle", "done"}
    /\ \E r \in Requests : req' = r
    /\ pc' = "authn"
    /\ proxyAttrs' = Nil
    /\ calls' = <<>>
    /\ resp' = "none"
    /\ UNCHANGED <<config, policy>>

Authenticate ==
    /\ pc = "authn"
    /\ IF req.authenticated
       THEN pc' = "authz" /\ UNCHANGED resp
       ELSE pc' = "done" /\ resp' = "unauthorized"
    /\ UNCHANGED <<config, policy, req, proxyAttrs, calls>>

\* Authorize builds its one record and calls the delegate.
Authorize ==
    /\ pc = "authz"
    /\ proxyAttrs' = IF config.resourceAttributes = Nil
                     THEN DefaultRecord(RequestAttributes(req))
                     ELSE BoundRecord(config.resourceAttributes, RequestAttributes(req))
    /\ pc' = "sar"
    /\ UNCHANGED <<config, policy, req, calls, resp>>

\* The delegate answers: Allow is returned as is, anything else as Deny.
SarReply ==
    LET d == SarDecision(policy, proxyAttrs)
    IN /\ pc = "sar"
       /\ calls' = Append(calls, [attr |-> proxyAttrs, result |-> d])
       /\ pc' = "done"
       /\ resp' = IF d = DecisionAllow THEN "allow" ELSE "deny"
       /\ UNCHANGED <<config, policy, req, proxyAttrs>>

\* Mutant: the delegate's error is not checked; its NoOpinion is a denial.
SarFailureIgnored ==
    /\ pc = "sar"
    /\ \E f \in Failures : calls' = Append(calls, [attr |-> proxyAttrs, result |-> f])
    /\ pc' = "done"
    /\ resp' = "deny"
    /\ UNCHANGED <<config, policy, req, proxyAttrs>>

\* The delegate fails: Deny with the error, which the filter answers 500.
SarFailure ==
    /\ pc = "sar"
    /\ \E f \in Failures : calls' = Append(calls, [attr |-> proxyAttrs, result |-> f])
    /\ pc' = "done"
    /\ resp' = "error"
    /\ UNCHANGED <<config, policy, req, proxyAttrs>>

Next == Receive \/ Authenticate \/ Authorize \/ SarReply \/ SarFailure

\* Safety only, as for the pipelines.
Spec == Init /\ [][Next]_vars

-----------------------------------------------------------------------------
TypeOK ==
    /\ pc \in {"idle", "authn", "authz", "sar", "done"}
    /\ req \in Requests \cup {Nil}
    /\ proxyAttrs \in AttributeRecords \cup {Nil}
    /\ \A k \in DOMAIN calls : calls[k].result \in Decisions \cup Failures
    /\ resp \in Outcomes

(* Refinement: each single-record authorizer implements the chain's       *)
(* promise for a chain of only the delegate, with the generator its       *)
(* record corresponds to (bound with resourceAttributes, default without). *)
Abstract == INSTANCE AuthzDecision
    WITH phase <- CASE pc = "idle" -> "idle"
                    [] pc = "done" -> "done"
                    [] OTHER       -> "busy"

\* Each request is answered as AuthzDecision permits: allowed exactly when
\* the delegate allows the one record, an error only when the delegate
\* failed.
AbstractSafety == Abstract!SafetySpec

====
