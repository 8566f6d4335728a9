# TLA+ models of kube-rbac-proxy's authorization core

This directory holds TLA+ models of the authorization pipeline of
kube-rbac-proxy (`src/`). It covers how a request's attributes are turned
into one or more attribute records and how each record is decided by the
union of the path, static and SubjectAccessReview authorizers. TLC checks
every model with the configurations listed below. `PROJECT.json` lists:

- the components;
- the runs and their properties;
- the mutants that show each property can fail;
- the map from every definition to the source lines it models;
- the findings;
- the hazards.

## The system

The source contains three generations of the same pipeline:

| Generation | Files | Status |
|---|---|---|
| G1 | `pkg/authz/auth.go` (`GetRequestAttributes`, static rules, `NewSarAuthorizer`) with `pkg/filters/authz.go` and `pkg/filters/path.go` | the oldest |
| G2 | `pkg/authorization/{authorization,config}.go`, and the single-record authorizers `bound.go` and `unnamed/part_001` (never constructed) | not wired by G3 |
| G3 | `unnamed/part_002` (`SetupAuthorizer`), `unnamed/part_000` (`delegateAuthorizer` and the generators), `pkg/authorization/path/path.go`, `pkg/authorization/rewrite/middleware.go` | the current design, and the one spec.md follows |

The G3 chain for one request:

1. **`WithAuthentication`** (`filters/path.go:72`). Answers 401 on an error or a failed authentication.
2. **`WithKubeRBACProxyParamsHandler`** (`rewrite/middleware.go:14`). Stores the rewrite parameters in the context. `requestToParams` takes the values of the configured query parameter, then those of the configured header.
3. **`delegateAuthorizer.Authorize`** (`part_000:36`):
   - calls the generator (default, bound or rewriting);
   - then, for each generated record in order, asks the union and stops at the first answer that is an error or not Allow;
   - finally allows only if the last answer (its named result `authorized`) is Allow.
4. **The union** built by `SetupAuthorizer` (`part_002:47`), in this order:
   - the path authorizer (allow-list or ignore-list), if configured;
   - the static authorizer, if configured;
   - the SubjectAccessReview delegate. `NewSarAuthorizer` (`authz/auth.go:195`) builds it as the Kubernetes webhook authorizer. This authorizer caches each review's answer for 5 minutes if allowed and 30 seconds otherwise, and this cache is shared by all requests.

   The first Allow or Deny wins. A member that abstains with an error (the path authorizer on a malformed glob) does not stop the union: its error is kept and returned only if every member abstains.

The G1 chain puts HTTP filters in front of the upstream:

1. **`WithAllowPaths`** (`filters/path.go:8`): a path no entry matches is 404, a malformed entry met first is 500.
2. **`WithIgnorePaths`** (`filters/path.go:35`): a matching path goes to the `ignored` handler, the rest to the authentication chain.
3. **`WithAuthentication`**, then **`WithAuthorization`** (`filters/authz.go:14`). It answers 400 when `GetRequestAttributes` yields no record. It then asks `union(static, delegate)` about each record, answering 500 on an error and 403 on anything but Allow. Otherwise it serves the request.

The entries are matched by `path.Match` against the raw request path.

## Modules

| Module | Models |
|---|---|
| `Authorizers` | The pure parts, as operators: `templateWithValue`, the static matcher, the path authorizer, `requestToParams`, the three generators, the union's evaluation of the pure authorizers, and `SetupAuthorizer`. |
| `DelegatePipeline` | One server handling requests one after another through the whole G3 chain. Its state is given below. |
| `AuthzDecision` | The abstract promise: one step maps a request to the set of outcomes permitted for it. The request is allowed iff some record is generated and the union allows every record. An error is permitted only if a record the AND loop reaches needs the delegate. |
| `RewritingPipeline` | The G2 wiring as a step model with the same state, plus a `paths` step. The unions `union(ignore, union(allow, rewritingAuthorizer))` judge the request's own path first (`PathUnions`). `GenerateAttrs` then answers an error when no record is generated. The AND loop asks `union(static, delegate)` about each record. |
| `SpecDecision` | The decision as spec.md states it: path lists on the request path (a malformed pattern is an error), static rules then the delegate per record, no record means an error, and a template never panics. Modelled from spec.md. |
| `FilterChain` | The G1 chain as a step model: `AllowPathsFilter`, `IgnorePathsFilter`, `Authenticate`, `Authorize` (`GetRequestAttributes` and the 400), then the loop `EvalLocal`/`SarReply`/`SarFailure`/`AttrResult`, and `Finish` (serve). `Finish` passes the request through `WithAuthHeaders`, and `upstreamHeader` is the header the upstream receives. It is the client's own header on an ignored path. On a served one, `Header.Set` puts the verified user in the user header and the verified groups, joined with `strings.Join`, in the groups header. `UserFieldName` and `GroupsFieldName` are constants: `"user"` and `"groups"`, as in `filters/auth_test.go`. `GroupSeparator` is one too. Group names and the separator are sequences of characters, and `Join` (a `FoldLeft`) puts the separator between the names, so the joined value is exact. `GetRequestAttributes` maps the HTTP method to a verb and renders templates with `html/template`. `HTMLEscapeString` is a constant operator given a value in the MC module. |
| `SarCache` | The delegate behind its response cache, shared by the request goroutines `Workers`. `CacheHit` answers from an unexpired entry. On a miss, `SendReview`, `Evaluate` and `Respond` send the review, let the API server evaluate the policy of that moment, and then cache and return the answer in arrival order with `CacheTTL(decision)`. `Fail` answers an error and caches nothing. `ChangePolicy` (grants and revocations) and `Tick` (30 s) are the environment, and `Tick` never lets a call outlive `MaxCallTicks`. The cache mechanics belong to the webhook authorizer in k8s.io/apiserver and are mapped as modelled from the spec. The TTLs come from `auth.go:203-204`. |
| `SingleRecordAuthorizers` | `ressourceBoundAuthorizer` (`bound.go`) and `defaultAuthorizer` (`part_001`) behind authentication. `Authorize` builds the one record, and `SarReply`/`SarFailure` are the delegate's answer. A configuration with `resourceAttributes` selects the bound authorizer. |
| `MCAuthz` | The constants TLC runs with: configurations, delegate policies and requests. |
| `MCDelegatePipeline`, `MCRewritingPipeline`, `MCFilterChain`, `MCSingleRecordAuthorizers` | Instantiate the step models with `MCAuthz`. |

`DelegatePipeline` has the following state:

- `config` and `policy` are fixed per behaviour.
- The handler's program counter `pc` has these values:
  - `authn`
  - `params`
  - `generate`
  - `attr` (the loop head)
  - `sar` (a delegate call in flight)
  - `done`
- The context parameters `ctxParams`.
- The generated `attrs` and the loop index `i`.
- The named result `authorized`.
- The record of delegate `calls`.
- The response `resp`.

Each action is one handler step of the code:

| Action | Code it models |
|---|---|
| `Receive` | A request arrives. The named result starts at Go's zero value, `DecisionDeny`. |
| `Authenticate` | `WithAuthentication`. |
| `ExtractParams` | The params middleware. |
| `GenerateAttrs` | `a.attrGen.Generate`. A template parse error panics here. |
| `EvalLocal` | The union up to the delegate, for `attrs[i]`. |
| `SarReply` | The delegate call answers. |
| `SarFailure` | The delegate call fails. Either the backend errs or the request context ends. |
| `AttrResult` | The loop body's two early returns. This is a helper used by `EvalLocal`, `SarReply` and `SarFailure`. |
| `Finish` | The check after the loop. |

### Data abstraction

- Paths are sequences of tokens: `"/"`, a segment letter, the glob `"*"`, or `"["`, an unterminated character class. `path.Match` (`PathMatch`) answers match, no match or `ErrBadPattern`. Since Go 1.16 it checks the whole pattern before answering, so a pattern containing `"["` always fails.
- Headers are keyed by their canonical name. `CanonicalMIMEHeaderKey` is a constant operator given a value in the MC module.
- Templates are three texts, and their rendering is what Go's `text/template` does with each:
  - `{{ .Value }}` renders the value;
  - `{{ .Namespace }}` fails at execution and renders `""`;
  - `{{ .Value ` fails to parse, so the code calls `Execute` on a nil template and panics.

  Any other text renders as itself.
- Records keep the user, verb, namespace, resource, path and resourceRequest fields. The remaining coordinates (apiGroup, subresource, name, ...) are copied, templated and matched exactly as namespace and resource are.

### External collaborators

These are modelled from spec.md (`spec_modelled` in the map):

- The union combinator (k8s `union`, `UnionOf`): the first Allow or Deny, returned with its own error. A NoOpinion's error is collected and the next member asked, and if every member abstains the result is NoOpinion with the collected errors. spec.md 2 says instead that an error stops the union. `SpecDecision` follows spec.md, so the two differ exactly when a path pattern is malformed (run `bad_pattern`).
- `path.Match`, for patterns of literals, `*` and an unterminated `[`.
- The authorizer G1 hands to `WithAuthorization` is `union(static, delegate)`, and the G1 filters are composed as their signatures imply: allow filter, then ignore filter with the upstream as `ignored`, then authentication and authorization. The handler chain is assembled outside `src/`.
- The SubjectAccessReview backend: a policy from <<user, target>> to a decision. Absent keys answer NoOpinion.

## Runs

| Run | Expect | What it shows |
|---|---|---|
| `pipeline` (`MCDelegatePipeline.cfg`) | pass | Path (allow/ignore, exact and glob), static (valid and invalid), bound and default configurations, with the invalid configurations filtered out by `SetupAuthorizer`. About 7.6k states. |
| `rewriting` (`MCDelegateRewriting.cfg`) | pass | Rewriting configurations, with templates that render, fail at execution and fail to parse. Requests carry 0-2 query values and 0-1 header values. About 142k states. |
| `g2_pipeline` (`MCRewritingPipeline.cfg`) | pass | G2 implements `SpecDecision` (`IntendedSafety`), which includes reporting a request that generates no record as an error. It keeps the AND loop's order (`DelegateCallsInOrder`). The configurations hold one path list at a time (ignore `/` among them), only templates that parse and no malformed glob: with one, G2 does not implement `SpecDecision` (run `g2_bad_pattern`). About 216k states. |
| `g1_filters` (`MCFilterChain.cfg`) | pass | The G1 chain with allow and ignore lists (exact, glob, `/`, and a malformed glob after an exact entry), static rules, default, bound and rewriting records. Whatever is served passed every filter and, unless ignored, was allowed record by record (`ProxiedJustified`). The chain implements `SpecDecision` with 404 read as a denial, an ignored path as an allow and 400 as an error (`IntendedSafety`). The loop asks the delegate in record order and stops at the first non-Allow (`DelegateCallsInOrder`). The requests are authenticated: the filters answer before authentication, which is the documented design (`part_002:23-25`). Bob's requests carry a user header naming alice and a groups header `m`. About 215k states, about 2 minutes. The templates parse, as for `g2_pipeline`. |
| `single_record` (`MCSingleRecordAuthorizers.cfg`) | pass | Both single-record authorizers implement `AuthzDecision` for a chain of only the delegate, so a delegate failure is an error and never a denial (`AbstractSafety`). 648 states. |
| `malformed` | violation | `MalformedRequestReported`: zero generated records give a plain Deny, not the malformed-request error of spec.md 4.3/7. |
| `ignore_generated` | violation | `AllowedWithoutReviewOnlyIfIgnored`: ignore path `/` matches the empty path of every generated resource record. The request is allowed with no SubjectAccessReview, whatever its path. |
| `template_panic` | violation | `TemplateErrorsRenderEmpty`: a parse error panics rather than rendering `""`. |
| `bad_pattern` | violation | `AllowListEnforced`, with allow-list `[/m, /[*]`. For `/h` the malformed glob makes the path authorizer abstain with an error (`path.go:78`). The union asks the delegate, whose Allow is returned without the error, so an unlisted path is served. |
| `g2_bad_pattern` (`MCRewritingBadPattern.cfg`) | violation | `IntendedSafety` for G2 with allow-list `[/m, /[*]`. For `/h` the allow-path authorizer abstains with the `path.Match` error, and the union built at `authorization.go:30` returns the rewriting authorizer's decision without it. The request is denied (or allowed, when RBAC allows) where `SpecDecision` ends it as an error. This is G3's `bad_pattern` divergence in the earlier wiring. |
| `g1_spoof` (`MCIgnoredCarriesNoIdentity.cfg`) | violation | `IgnoredCarriesNoIdentity`: on an ignored path, bob's own `User: alice` header reaches the upstream. `WithAuthHeaders` sets the header only for a user in the context and never deletes the client's, and ignored paths skip authentication. |

Properties of the passing runs:

- `TypeOK`: the types. It includes the data model's rule that a resource record has no path and a non-resource record has no coordinates.
- `AllowJustified`: an allow implies all of the following:
  - the request was authenticated;
  - at least one record was generated;
  - every record was allowed, either by a pure authorizer or by a delegate call that answered Allow.
- `DelegateCallsInOrder`: the delegate calls of a request are a prefix, in generation order, of the records the pure authorizers left undecided. Every call but the last answered Allow. This is spec.md 8's recording-stub test, for all configurations at once.
- `ErrorsReported`: a failed or cancelled delegate call ends as an error, never as a denial or an allow.
- `AbstractSafety`: `DelegatePipeline` implements `AuthzDecision`'s safety part under the refinement mapping `phase`. The mapping sends `idle` and `done` to themselves and every other `pc` value to `busy`.
- `StaleAnswerBounded` (`SarCache`): when the delegate answers Allow (or Deny) against the current policy, the policy changed less than `AllowCacheTTL` (or `DenyCacheTTL`) plus `MaxCallTicks` ago. The bound is stated with the configured constants, independently of the `CacheTTL` the code uses. Its mutant swaps the TTLs.
- `ProxiedJustified` (G1): a served request matched the allow-list, if there is one. It was either ignored, or it was authenticated with at least one record, each allowed by a static rule or a delegate Allow. G1's loop keeps no result, so only the zero-records check stands between an empty generation and the upstream.
- `IntendedSafety` (G1, G2) and `AbstractSafety` (G3, single-record): the refinements described above.

Each property has a mutant in `PROJECT.json` that TLC finds violating it.

G2 and G3 compared: G2 satisfies, including with ignore path `/`, the statements that G3 violates in `malformed` and `ignore_generated`. Those two violations are therefore differences between the generations, not properties of every wiring. G2 still panics on a template that does not parse.

G1 compared: G1 also judges the path lists on the request's own path, answers 400 for no record, and fails closed on a malformed glob (500). It therefore meets `SpecDecision` for authenticated requests. It differs in three ways:
- its filters run before authentication;
- it escapes rewrite values as HTML (`ns<1` is reviewed as `ns&lt;1`). This fails closed because namespace names are DNS labels, so it is a hazard without a run;
- like G2 and G3, it panics on a template that does not parse.

| `sar_cache` (`MCSarCache.cfg`) | pass | Two goroutines ask about one review key while the policy flips at any moment and the clock runs 12 ticks, past the 10-tick allow TTL. Every answer is current or stale by less than its TTL plus one call latency (`StaleAnswerBounded`). This includes answers evaluated before a change and cached after it, and an older answer overwriting a fresher one. Without the latency term the bound fails: a deny evaluated just before a grant is cached when it arrives one tick later. About 66k states. |

The query-and-header divergence (`requestToParams` concatenates the two sources, which spec.md 4.1 forbids) was checked by a violation run that was later retired in favour of `sar_cache`. It fails closed: extra values only add records to the AND. It is kept as a hazard.

## Bounds

- Paths: `/`, `/m`, `/h`, the glob `/*` and the malformed glob `/[*`.
- Two namespaces and one resource.
- Two users.
- Three policy keys whose answers range over {Allow, Deny}. NoOpinion comes from every key not listed.

These are enough for the following to happen:

- each decision comes from each authorizer;
- the AND loop runs over one, two and three records, with a denial, an error or a cancellation at every position;
- a template fails in each of the three ways.

`sar_cache`: a tick is 30 s, so the TTLs are 10 and 1 ticks. One key and two workers are enough for two misses on the same key to overlap. The clock bound of 12 lets a cached allow expire.

The configurations are split into runs that each finish in about two minutes or less. The `rewriting` run's policies range over the two resource keys its records can reach.

## Fairness

No liveness property is checked, and `Spec` has no fairness conjunct. Each handler is straight-line code around one loop over the generated records. That a request is answered therefore rests only on the webhook client's timeout, which a model could only assume: a liveness property would hold by that assumption and show nothing about the code. For the same reason `SarCache` checks only safety, with the call latency bounded by `MaxCallTicks` in `Tick`'s guard. The runs check deadlock freedom: a new request can always arrive.

## Not modelled yet (plan for later sittings)

- **G2 with both path lists.** G2 accepts allow and ignore paths together, and the outer ignore union wins. spec.md 4.5 makes this a startup error, so the G2 run leaves it out.
- **G1 entry order and spelling.** `WithAllowPaths` tries entries in list order and answers 500 at the first malformed glob, even before an exact entry that matches. It also matches raw strings, so an entry without its leading slash never matches. Both fail closed, and both are listed as hazards. The `g1_filters` configurations put malformed globs last and write every leading slash.
- **How the upstream reads the groups header.** The model gives the upstream the exact joined value. Splitting it back is the upstream's business and nothing in the code or spec states it. A group name containing the separator, or an empty separator (the tests leave it unset), makes it ambiguous, and this is listed as a hazard at `path.go:108`.
- **A disabled `WithAuthHeaders`.** With `Enabled` false the filter is the identity, and nothing reads the header.
- **`WithAuthorization`'s missing-user 401.** It is unreachable behind `WithAuthentication`.
- **Concurrency in the pipelines.** spec.md 5 has requests share only immutable configuration. The one shared mutable state is the delegate's cache, and `SarCache` models it with concurrent workers. The pipeline modules keep one request at a time and a fixed policy.
- **The cache's LRU capacity (1024 entries) and the retry backoff.** Eviction only shortens staleness. The backoff is folded into `MaxCallTicks`.
- **Not modelled at all:**
  - TLS, flags and the reverse proxy, which are out of the spec's scope.
