------------------------------ MODULE SpecDecision ------------------------------
(***************************************************************************)
(* The authorization decision as spec.md states it (sections 2, 4 and 7), *)
(* decided in one step per request:                                        *)
(*   - the path matcher looks at the request's own path, before anything  *)
(*     is generated: an ignore-list match allows, an allow-list miss      *)
(*     denies;                                                             *)
(*   - the generator's records are then each decided by the static rules  *)
(*     and, where those abstain, the SubjectAccessReview delegate, and    *)
(*     the AND over them allows only if every one is allowed;             *)
(*   - no record at all is a "malformed request" error;                   *)
(*   - a template that fails to parse renders as "" and never fails the   *)
(*     request, so a panic is no permitted outcome.                        *)
(***************************************************************************)
EXTENDS Authorizers

CONSTANTS Configs, Policies, Requests

VARIABLES config, policy, req, phase, resp

vars == <<config, policy, req, phase, resp>>

\* spec.md 3/4.5: both path lists, or an invalid static rule, are startup
\* errors.
ConfigValid(c) ==
    /\ ~(c.allowPaths # <<>> /\ c.ignorePaths # <<>>)
    /\ c.static = Nil \/ StaticConfigValid(c.static)

OwnAttributes(r) == AttributesRecord(r.user, r.verb, "", "", r.path, FALSE)

Ignored(r) ==
    /\ config.ignorePaths # <<>>
    /\ PathAuthorize(NewAlwaysAllowPathAuthorizer(config.ignorePaths),
                     OwnAttributes(r)).decision = DecisionAllow

NotAllowListed(r) ==
    /\ config.allowPaths # <<>>
    /\ PathAuthorize(NewAllowPathAuthorizer(config.allowPaths),
                     OwnAttributes(r)).decision = DecisionDeny

\* A malformed pattern in the configured list fails the match; spec.md 2
\* has the union stop at an error.
PathFailed(r) ==
    \/ PathAuthorize(NewAlwaysAllowPathAuthorizer(config.ignorePaths), OwnAttributes(r)).err
    \/ PathAuthorize(NewAllowPathAuthorizer(config.allowPaths), OwnAttributes(r)).err

\* spec.md 4.4: static rules grant, they never deny.
StaticVerdict(a) ==
    IF config.static = Nil THEN DecisionNoOpinion ELSE StaticAuthorize(config.static, a)

RecordVerdict(a) ==
    IF StaticVerdict(a) # DecisionNoOpinion THEN StaticVerdict(a)
    ELSE SarDecision(policy, a)

PermittedOutcomes(r) ==
    LET g == Generate(GeneratorKind(config), config.resourceAttributes,
                      RequestToParams(config, r), OwnAttributes(r))
        seq == g.attrs
        firstBad == SelectInSeq(seq, LAMBDA a : RecordVerdict(a) # DecisionAllow)
        reached == IF firstBad = 0 THEN Len(seq) ELSE firstBad
        decided == IF firstBad = 0 THEN "allow" ELSE "deny"
        mayFail == \E k \in 1..reached : StaticVerdict(seq[k]) = DecisionNoOpinion
    IN CASE ~r.authenticated  -> {"unauthorized"}
         [] PathFailed(r)     -> {"error"}
         [] Ignored(r)        -> {"allow"}
         [] NotAllowListed(r) -> {"deny"}
         [] g.panic           -> {}
         [] seq = <<>>        -> {"error"}
         [] OTHER             -> {decided} \cup (IF mayFail THEN {"error"} ELSE {})

Init ==
    /\ config \in {c \in Configs : ConfigValid(c)}
    /\ policy \in Policies
    /\ req = Nil
    /\ phase = "idle"
    /\ resp = "none"

Receive ==
    /\ phase \in {"idle", "done"}
    /\ \E r \in Requests : req' = r
    /\ phase' = "busy"
    /\ resp' = "none"
    /\ UNCHANGED <<config, policy>>

Decide ==
    /\ phase = "busy"
    /\ resp' \in PermittedOutcomes(req)
    /\ phase' = "done"
    /\ UNCHANGED <<config, policy, req>>

Next == Receive \/ Decide

SafetySpec == Init /\ [][Next]_vars

====
