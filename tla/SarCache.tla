------------------------------- MODULE SarCache -------------------------------
(***************************************************************************)
(* The SubjectAccessReview delegate NewSarAuthorizer builds (authz/auth.go *)
(* 194-207): the Kubernetes webhook authorizer of DelegatingAuthorizerConfig*)
(* behind its expiring response cache.  Request goroutines ask it about    *)
(* attribute keys concurrently; on a miss the review goes to the API       *)
(* server, which evaluates the cluster's RBAC policy at some moment of the *)
(* call; the answer is cached for AllowCacheTTL when allowed and for       *)
(* DenyCacheTTL otherwise, in the order the answers arrive.  A call that   *)
(* fails (its retries exhausted) answers with an error and caches nothing. *)
(* The policy changes at any time: grants and revocations.  The clock      *)
(* counts ticks of 30 seconds.                                             *)
(***************************************************************************)
EXTENDS Naturals

CONSTANTS
    Keys,           \* the review specs (user and attributes) asked about
    Workers,        \* request goroutines sharing the delegate
    AllowCacheTTL,  \* ticks an allowed answer stays cached
    DenyCacheTTL,   \* ticks any other answer stays cached
    MaxCallTicks,   \* the latency bound of one call, retries included
    MaxTime,        \* bound on the clock
    Nil

VARIABLES
    now,        \* the clock
    policy,     \* the API server's answer per key
    changedAt,  \* history: the tick of the last change of policy[k]
    cache,      \* responseCache: Nil or [decision, expires]
    worker,     \* per goroutine: idle, or calling about key since sentAt
    reply       \* history: the answer returned by the last step, Nil if none

vars == <<now, policy, changedAt, cache, worker, reply>>

Decisions == {"allow", "deny"}

Idle == [state |-> "idle", key |-> Nil, sentAt |-> 0, result |-> Nil]

\* Mutant: the two TTLs swapped.
CacheTTLSwapped(d) == IF d = "allow" THEN DenyCacheTTL ELSE AllowCacheTTL

\* The TTL an answer is cached with: AllowCacheTTL (5 min) if allowed,
\* DenyCacheTTL (30 s) otherwise.
CacheTTL(d) == IF d = "allow" THEN AllowCacheTTL ELSE DenyCacheTTL

\* The LRU expire cache returns an entry until its expiry instant.
Hit(k) == cache[k] # Nil /\ now < cache[k].expires

Init ==
    /\ now = 0
    /\ policy \in [Keys -> Decisions]
    /\ changedAt = [k \in Keys |-> 0]
    /\ cache = [k \in Keys |-> Nil]
    /\ worker = [w \in Workers |-> Idle]
    /\ reply = Nil

Answer(k, d) == reply' = [key |-> k, decision |-> d]

\* Authorize with the review found in the cache.
CacheHit(w, k) ==
    /\ worker[w].state = "idle"
    /\ Hit(k)
    /\ Answer(k, cache[k].decision)
    /\ UNCHANGED <<now, policy, changedAt, cache, worker>>

\* Authorize on a miss: the review is sent.
SendReview(w, k) ==
    /\ worker[w].state = "idle"
    /\ ~Hit(k)
    /\ worker' = [worker EXCEPT ![w] = [Idle EXCEPT !.state = "calling", !.key = k,
                                                    !.sentAt = now]]
    /\ reply' = Nil
    /\ UNCHANGED <<now, policy, changedAt, cache>>

\* The API server evaluates the review against the policy of this moment.
Evaluate(w) ==
    /\ worker[w].state = "calling"
    /\ worker[w].result = Nil
    /\ worker' = [worker EXCEPT ![w].result = policy[worker[w].key]]
    /\ reply' = Nil
    /\ UNCHANGED <<now, policy, changedAt, cache>>

\* The answer arrives: it is cached, replacing any entry, and returned.
Respond(w) ==
    LET k == worker[w].key
        d == worker[w].result
    IN /\ worker[w].state = "calling"
       /\ d # Nil
       /\ cache' = [cache EXCEPT ![k] = [decision |-> d, expires |-> now + CacheTTL(d)]]
       /\ Answer(k, d)
       /\ worker' = [worker EXCEPT ![w] = Idle]
       /\ UNCHANGED <<now, policy, changedAt>>

\* Mutant: the failed review is cached like a denial.
FailCachesError(w) ==
    /\ worker[w].state = "calling"
    /\ cache' = [cache EXCEPT ![worker[w].key] = [decision |-> "error",
                                                  expires |-> now + DenyCacheTTL]]
    /\ Answer(worker[w].key, "error")
    /\ worker' = [worker EXCEPT ![w] = Idle]
    /\ UNCHANGED <<now, policy, changedAt>>

\* The call fails: NoOpinion with the error, nothing cached.
Fail(w) ==
    /\ worker[w].state = "calling"
    /\ Answer(worker[w].key, "error")
    /\ worker' = [worker EXCEPT ![w] = Idle]
    /\ UNCHANGED <<now, policy, changedAt, cache>>

\* A grant or a revocation in the cluster.
ChangePolicy(k) ==
    /\ policy' = [policy EXCEPT ![k] = IF @ = "allow" THEN "deny" ELSE "allow"]
    /\ changedAt' = [changedAt EXCEPT ![k] = now]
    /\ reply' = Nil
    /\ UNCHANGED <<now, cache, worker>>

\* Time passes; no call outlives its latency bound.
Tick ==
    /\ now < MaxTime
    /\ \A w \in Workers : worker[w].state = "calling" => now + 1 - worker[w].sentAt <= MaxCallTicks
    /\ now' = now + 1
    /\ reply' = Nil
    /\ UNCHANGED <<policy, changedAt, cache, worker>>

Next ==
    \/ \E w \in Workers, k \in Keys : CacheHit(w, k) \/ SendReview(w, k)
    \/ \E w \in Workers : Evaluate(w) \/ Respond(w) \/ Fail(w)
    \/ \E k \in Keys : ChangePolicy(k)
    \/ Tick

\* Safety only: that a call ends rests on the client's timeout, which Tick
\* assumes through MaxCallTicks.
Spec == Init /\ [][Next]_vars

-----------------------------------------------------------------------------
TypeOK ==
    /\ now \in 0..MaxTime
    /\ policy \in [Keys -> Decisions]
    /\ changedAt \in [Keys -> 0..MaxTime]
    /\ \A k \in Keys : cache[k] = Nil \/ cache[k].decision \in Decisions
    /\ \A w \in Workers : worker[w].state \in {"idle", "calling"}
    /\ reply = Nil \/ reply.decision \in Decisions \cup {"error"}

\* The bound the configuration promises on staleness: a revoked permission
\* is still granted, and a granted one still refused, for at most the
\* answer's TTL plus one call's latency after the change.
StaleBound(d) == (IF d = "allow" THEN AllowCacheTTL ELSE DenyCacheTTL) + MaxCallTicks

\* Every answer the delegate returns, from the cache or fresh, either agrees
\* with the current policy or the policy changed less than StaleBound ago,
\* however calls about the same key overlap and in whatever order their
\* answers are cached.
StaleAnswerBounded ==
    (reply # Nil /\ reply.decision \in Decisions /\ reply.decision # policy[reply.key])
        => now - changedAt[reply.key] < StaleBound(reply.decision)

====
