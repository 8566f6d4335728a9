--------------------------- MODULE DelegatePipeline ---------------------------
(***************************************************************************)
(* One request at a time through kube-rbac-proxy's authorization chain as *)
(* SetupAuthorizer wires it: authentication, the rewrite-parameter       *)
(* middleware, then delegateAuthorizer.Authorize, which generates the     *)
(* attribute records and asks the union of (path, static, delegate)       *)
(* authorizers about each in turn, stopping at the first that is not     *)
(* allowed.  The union's last member, the SubjectAccessReview delegate,   *)
(* is a blocking call that answers, fails, or is abandoned when the       *)
(* request's context ends.  The server keeps accepting requests: after an *)
(* answer the next request arrives.                                       *)
(***************************************************************************)
EXTENDS Authorizers

CONSTANTS
    Configs,     \* candidate configurations (startup errors are filtered out)
    Policies,    \* candidate delegate policies: [key -> Decision]
    Requests     \* candidate requests

VARIABLES
    config,      \* the loaded configuration, immutable while serving
    policy,      \* what the SubjectAccessReview backend answers
    req,         \* the request being served
    pc,          \* where the handler of req is
    ctxParams,   \* the rewrite parameters the middleware put in the context
    attrs,       \* the attribute records generated for req
    i,           \* the record the AND loop is at
    authorized,  \* delegateAuthorizer.Authorize's named result
    calls,       \* the delegate calls made for req: [attr, result]
    resp         \* the outcome for req

vars == <<config, policy, req, pc, ctxParams, attrs, i, authorized, calls, resp>>

\* The outcomes of a request: what the handler chain ends with.
Outcomes == {"none", "unauthorized", "allow", "deny", "error", "panic"}
\* How a delegate call can fail: the backend errs, or the request's
\* context is cancelled or times out first.
Failures == {"error", "cancelled"}

Setup == SetupAuthorizer(config)
Chain == Setup.chain

\* The attributes the HTTP layer builds for the original request.
RequestAttributes(r) == AttributesRecord(r.user, r.verb, "", "", r.path, FALSE)

Transition(from, to) == pc = from /\ pc' = to

-----------------------------------------------------------------------------
Init ==
    /\ config \in {c \in Configs : SetupAuthorizer(c).ok}
    /\ policy \in Policies
    /\ req = Nil
    /\ pc = "idle"
    /\ ctxParams = <<>>
    /\ attrs = <<>>
    /\ i = 1
    /\ authorized = DecisionDeny
    /\ calls = <<>>
    /\ resp = "none"

\* Mutant: DecisionAllow as the zero value of Decision.
ReceiveAllowByDefault ==
    /\ pc \in {"idle", "done"}
    /\ \E r \in Requests : req' = r
    /\ pc' = "authn"
    /\ ctxParams' = <<>>
    /\ attrs' = <<>>
    /\ i' = 1
    /\ authorized' = DecisionAllow
    /\ calls' = <<>>
    /\ resp' = "none"
    /\ UNCHANGED <<config, policy>>

\* A request arrives; the per-request state starts fresh (authorized is a
\* named result: Go's zero value of Decision is DecisionDeny).
Receive ==
    /\ pc \in {"idle", "done"}
    /\ \E r \in Requests : req' = r
    /\ pc' = "authn"
    /\ ctxParams' = <<>>
    /\ attrs' = <<>>
    /\ i' = 1
    /\ authorized' = DecisionDeny
    /\ calls' = <<>>
    /\ resp' = "none"
    /\ UNCHANGED <<config, policy>>

\* Mutant: the !ok check dropped, only an authentication error stops.
AuthenticateIgnoringFailure ==
    /\ pc = "authn"
    /\ pc' = "params"
    /\ UNCHANGED <<config, policy, req, ctxParams, attrs, i, authorized, calls, resp>>

\* WithAuthentication: an error or a failed authentication ends in 401.
Authenticate ==
    /\ pc = "authn"
    /\ IF req.authenticated
       THEN pc' = "params" /\ UNCHANGED resp
       ELSE pc' = "done" /\ resp' = "unauthorized"
    /\ UNCHANGED <<config, policy, req, ctxParams, attrs, i, authorized, calls>>

\* WithKubeRBACProxyParamsHandler: the parameters go into the context.
ExtractParams ==
    /\ Transition("params", "generate")
    /\ ctxParams' = RequestToParams(config, req)
    /\ UNCHANGED <<config, policy, req, attrs, i, authorized, calls, resp>>

\* delegateAuthorizer.Authorize, first line: the generator runs.
GenerateAttrs ==
    LET g == Generate(Setup.generator, config.resourceAttributes, ctxParams,
                      RequestAttributes(req))
    IN /\ pc = "generate"
       /\ IF g.panic
          THEN pc' = "done" /\ resp' = "panic" /\ UNCHANGED attrs
          ELSE pc' = "attr" /\ attrs' = g.attrs /\ UNCHANGED resp
       /\ UNCHANGED <<config, policy, req, ctxParams, i, authorized, calls>>

\* Mutant: no early return on a denial; the loop goes on.
AttrResultNoEarlyExit(d, err) ==
    /\ authorized' = d
    /\ CASE err   -> pc' = "done" /\ resp' = "error" /\ UNCHANGED i
         [] OTHER -> pc' = "attr" /\ i' = i + 1 /\ UNCHANGED resp

\* Mutant: the decision is checked before the error.
AttrResultDenyFirst(d, err) ==
    /\ authorized' = d
    /\ CASE d # DecisionAllow  -> pc' = "done" /\ resp' = "deny" /\ UNCHANGED i
         [] err                -> pc' = "done" /\ resp' = "error" /\ UNCHANGED i
         [] OTHER              -> pc' = "attr" /\ i' = i + 1 /\ UNCHANGED resp

\* The body of the AND loop once the union has answered for attrs[i]:
\* an error ends the request as an error, any decision but Allow as a
\* denial, an Allow moves on to the next record.
AttrResult(d, err) ==
    /\ authorized' = d
    /\ CASE err                -> pc' = "done" /\ resp' = "error" /\ UNCHANGED i
         [] d # DecisionAllow  -> pc' = "done" /\ resp' = "deny" /\ UNCHANGED i
         [] OTHER              -> pc' = "attr" /\ i' = i + 1 /\ UNCHANGED resp

\* Mutant: a Deny of the pure authorizers falls through to the delegate.
EvalLocalDelegatesOnDeny ==
    LET d == LocalDecision(Chain, attrs[i])
    IN /\ pc = "attr"
       /\ i <= Len(attrs)
       /\ IF d = DecisionAllow
          THEN AttrResult(d, FALSE)
          ELSE pc' = "sar" /\ UNCHANGED <<i, authorized, resp>>
       /\ UNCHANGED <<config, policy, req, ctxParams, attrs, calls>>

\* Mutant: an Allow of the pure authorizers still asks the delegate.
EvalLocalDelegatesOnAllow ==
    LET d == LocalDecision(Chain, attrs[i])
    IN /\ pc = "attr"
       /\ i <= Len(attrs)
       /\ IF d = DecisionDeny
          THEN AttrResult(d, FALSE)
          ELSE pc' = "sar" /\ UNCHANGED <<i, authorized, resp>>
       /\ UNCHANGED <<config, policy, req, ctxParams, attrs, calls>>

\* The union on attrs[i]: the pure authorizers before the delegate give
\* their opinion; if none has one the delegate is called.
EvalLocal ==
    LET d == LocalDecision(Chain, attrs[i])
    IN /\ pc = "attr"
       /\ i <= Len(attrs)
       /\ IF d # DecisionNoOpinion
          THEN AttrResult(d, FALSE)
          ELSE pc' = "sar" /\ UNCHANGED <<i, authorized, resp>>
       /\ UNCHANGED <<config, policy, req, ctxParams, attrs, calls>>

\* The delegate answers with the backend's decision for attrs[i].  If it
\* abstains too, the union returns the errors the members before it
\* collected (a malformed path pattern's); an Allow or Deny drops them.
SarReply ==
    LET d == SarDecision(policy, attrs[i])
    IN /\ pc = "sar"
       /\ calls' = Append(calls, [attr |-> attrs[i], result |-> d])
       /\ AttrResult(d, d = DecisionNoOpinion /\ LocalUnion(Chain, attrs[i]).err)
       /\ UNCHANGED <<config, policy, req, ctxParams, attrs>>

\* The delegate call fails: it returns NoOpinion with an error, which the
\* union passes on.
SarFailure ==
    /\ pc = "sar"
    /\ \E f \in Failures :
          calls' = Append(calls, [attr |-> attrs[i], result |-> f])
    /\ AttrResult(DecisionNoOpinion, TRUE)
    /\ UNCHANGED <<config, policy, req, ctxParams, attrs>>

\* After the loop: Allow only if the last decision was Allow.
Finish ==
    /\ pc = "attr"
    /\ i > Len(attrs)
    /\ pc' = "done"
    /\ resp' = IF authorized = DecisionAllow THEN "allow" ELSE "deny"
    /\ UNCHANGED <<config, policy, req, ctxParams, attrs, i, authorized, calls>>

Next ==
    \/ Receive
    \/ Authenticate
    \/ ExtractParams
    \/ GenerateAttrs
    \/ EvalLocal
    \/ SarReply
    \/ SarFailure
    \/ Finish

\* Only safety is checked: the handler is straight-line code around one
\* loop, and its termination rests on the webhook client's timeout, which
\* the model could only assume.
Spec == Init /\ [][Next]_vars

-----------------------------------------------------------------------------
TypeOK ==
    /\ pc \in {"idle", "authn", "params", "generate", "attr", "sar", "done"}
    /\ req \in Requests \cup {Nil}
    /\ attrs \in Seq(AttributeRecords)
    /\ i \in 1..Len(attrs) + 1
    /\ authorized \in Decisions
    /\ \A k \in DOMAIN calls : calls[k].result \in Decisions \cup Failures
    /\ resp \in Outcomes

(* The records the union could not decide alone, in generation order, and *)
(* the records the delegate was asked about, in call order.               *)
NeedsDelegate == SelectSeq(attrs, LAMBDA a : LocalDecision(Chain, a) = DecisionNoOpinion)
CalledAttrs == [m \in DOMAIN calls |-> calls[m].attr]

\* AND semantics of delegateAuthorizer.Authorize: a request is allowed only
\* if it was authenticated, at least one record was generated, and every
\* generated record was allowed, by a pure authorizer of the union or by a
\* delegate call that answered Allow.  (An empty generation must not fall
\* through to Allow: the loop's named result keeps its zero value.)
AllowJustified ==
    resp = "allow" =>
        /\ req.authenticated
        /\ attrs # <<>>
        /\ \A k \in DOMAIN attrs :
              \/ LocalDecision(Chain, attrs[k]) = DecisionAllow
              \/ /\ LocalDecision(Chain, attrs[k]) = DecisionNoOpinion
                 /\ \E c \in Range(calls) :
                       c.attr = attrs[k] /\ c.result = DecisionAllow

\* The AND loop asks the delegate in generation order and stops at the
\* first record that is not allowed: the delegate calls of a request are
\* a prefix of the records needing one, and every call but the last
\* answered Allow.
DelegateCallsInOrder ==
    /\ IsPrefix(CalledAttrs, NeedsDelegate)
    /\ \A m \in 1..Len(calls) - 1 : calls[m].result = DecisionAllow

\* A failed or abandoned delegate call is reported as an authorization
\* error, never as an ordinary denial (nor an allow).
ErrorsReported ==
    (pc = "done" /\ \E c \in Range(calls) : c.result \in Failures)
        => resp = "error"

-----------------------------------------------------------------------------
(* Refinement: the step-by-step chain implements AuthzDecision.  A       *)
(* request is "busy" from its arrival until the step that answers it.    *)
Abstract == INSTANCE AuthzDecision
    WITH phase <- CASE pc = "idle" -> "idle"
                    [] pc = "done" -> "done"
                    [] OTHER       -> "busy"

\* Every step of the chain is a step of AuthzDecision or leaves its state
\* unchanged: a request is answered Allow exactly when the AND over the
\* generated records of the union's verdicts allows, and an error only
\* where a delegate call was due.
AbstractSafety == Abstract!SafetySpec

-----------------------------------------------------------------------------
(* Statements spec.md makes about the chain, checked against the code.   *)

\* spec.md 4.3/7: when the generator yields no attribute record (a
\* rewriting configuration and a request without the parameter) the call
\* fails closed with a "malformed request" error, distinct from an
\* ordinary denial.
MalformedRequestReported ==
    (pc = "done" /\ req.authenticated /\ attrs = <<>> /\ resp # "panic")
        => resp = "error"

\* spec.md 2/4.5/8: the ignore list is matched against the request's path:
\* without static rules, a request is allowed without asking the delegate
\* only if its own path is on the ignore list.
AllowedWithoutReviewOnlyIfIgnored ==
    (resp = "allow" /\ calls = <<>> /\ config.static = Nil)
        => PathAuthorize(NewAlwaysAllowPathAuthorizer(config.ignorePaths),
                         RequestAttributes(req)).decision = DecisionAllow

\* spec.md 4.2/9: a template field that fails to parse renders as the empty
\* string; it does not fail the request.
TemplateErrorsRenderEmpty == resp # "panic"

(* spec.md 4.5: an allow-list denies every path it does not list.  With   *)
(* a malformed pattern in the list the path authorizer abstains with an   *)
(* error (path.go:77-78), the union asks the delegate and drops that      *)
(* error once the delegate decides, so an unlisted path is allowed.       *)
AllowListEnforced ==
    (resp = "allow" /\ config.allowPaths # <<>>)
        => \E k \in DOMAIN config.allowPaths :
              PathMatch(TrimSlash(config.allowPaths[k]), TrimSlash(req.path)) = "match"

====
