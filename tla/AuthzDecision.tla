----------------------------- MODULE AuthzDecision -----------------------------
(***************************************************************************)
(* What the authorization chain promises for one request, decided in one  *)
(* step: the request is allowed exactly when at least one attribute      *)
(* record is generated and the union of authorizers allows every one (an  *)
(* AND over the generated records of an OR over the authorizers).  The   *)
(* only other outcome a request may get is an authorization error, and    *)
(* only if deciding it needs the SubjectAccessReview delegate for some    *)
(* record the AND would reach.                                            *)
(***************************************************************************)
EXTENDS Authorizers

CONSTANTS Configs, Policies, Requests

VARIABLES config, policy, req, phase, resp

vars == <<config, policy, req, phase, resp>>

\* The union's verdict on one record with the delegate answering.
Verdict(chain, a) ==
    LET d == LocalDecision(chain, a)
    IN IF d # DecisionNoOpinion THEN d ELSE SarDecision(policy, a)

PermittedOutcomes(r) ==
    LET setup == SetupAuthorizer(config)
        g == Generate(setup.generator, config.resourceAttributes,
                      RequestToParams(config, r),
                      AttributesRecord(r.user, r.verb, "", "", r.path, FALSE))
        seq == g.attrs
        firstBad == SelectInSeq(seq, LAMBDA a : Verdict(setup.chain, a) # DecisionAllow)
        reached == IF firstBad = 0 THEN Len(seq) ELSE firstBad
        decided == IF seq # <<>> /\ firstBad = 0 THEN "allow" ELSE "deny"
        mayFail == \E k \in 1..reached :
                      LocalDecision(setup.chain, seq[k]) = DecisionNoOpinion
    IN CASE ~r.authenticated -> {"unauthorized"}
         [] g.panic          -> {"panic"}
         [] OTHER            -> {decided} \cup (IF mayFail THEN {"error"} ELSE {})

Init ==
    /\ config \in {c \in Configs : SetupAuthorizer(c).ok}
    /\ policy \in Policies
    /\ req = Nil
    /\ phase = "idle"
    /\ resp = "none"

Receive ==
    /\ phase \in {"idle", "done"}
    /\ \E r \in Requests : req' = r
    /\ phase' = "busy"
    /\ resp' = "none"
    /\ UNCHANGED <<config, policy>>

Decide ==
    /\ phase = "busy"
    /\ resp' \in PermittedOutcomes(req)
    /\ phase' = "done"
    /\ UNCHANGED <<config, policy, req>>

Next == Receive \/ Decide

SafetySpec == Init /\ [][Next]_vars

\* Every request that arrives is answered.
Spec == SafetySpec /\ WF_vars(Decide)

====
