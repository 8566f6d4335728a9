---------------------------- MODULE Authorizers ----------------------------
(***************************************************************************)
(* The pure parts of kube-rbac-proxy's authorization core, as operators:  *)
(* the attribute record, the static matcher, the path authorizer, the     *)
(* attribute generators with their template rendering, the extraction of  *)
(* rewrite parameters and the composition root (SetupAuthorizer).         *)
(*                                                                         *)
(* Data is abstracted to what the decisions tell apart: the resource      *)
(* coordinates are reduced to namespace and resource (apiGroup,           *)
(* apiVersion, subresource and name are copied and templated exactly as   *)
(* these two are), a path is a sequence of tokens ("/", a segment letter, *)
(* or the glob "*"), and a template is one of the few Go template texts   *)
(* whose rendering is modelled by what text/template does with them.      *)
(***************************************************************************)
EXTENDS Naturals, Sequences, SequencesExt, Functions

CONSTANTS
    Nil,                        \* a nil pointer / absent configuration
    CanonicalMIMEHeaderKey(_)   \* net/textproto's header key canonicalisation

\* authorizer.Decision
DecisionAllow     == "Allow"
DecisionDeny      == "Deny"
DecisionNoOpinion == "NoOpinion"
Decisions == {DecisionAllow, DecisionDeny, DecisionNoOpinion}

\* path tokens: the separator and the glob star of path.Match
Slash == "/"
Star  == "*"

-----------------------------------------------------------------------------
(* Template rendering (templateWithValue).  The template texts that occur *)
(* in the configurations checked here: a placeholder for the value, a     *)
(* reference to a field struct{ Value string } does not have (an          *)
(* execution error), and an unterminated action (a parse error).  Any     *)
(* other text has no action and renders as itself.                        *)
TplValue     == "{{ .Value }}"
TplExecError == "{{ .Namespace }}"
TplParseError == "{{ .Value "

\* template.New(..).Parse(t) returns a nil *Template on a parse error, and
\* the unchecked tmpl.Execute on it dereferences nil: the goroutine panics.
TemplateParses(t) == t # TplParseError

\* Execute's output, or "" when Execute returns an error.
TemplateWithValue(t, v) ==
    CASE t = TplValue     -> v
      [] t = TplExecError -> ""
      [] OTHER            -> t

-----------------------------------------------------------------------------
(* authorizer.AttributesRecord, reduced to the fields the decisions read. *)
AttributesRecord(u, verb, ns, res, path, rr) ==
    [user |-> u, verb |-> verb, namespace |-> ns, resource |-> res,
     path |-> path, resourceRequest |-> rr]

\* Attribute records as the data model has them: a resource request
\* carries no path, a non-resource request no resource coordinates.
AttributeRecords ==
    {a \in [user : STRING, verb : STRING, namespace : STRING, resource : STRING,
            path : Seq(STRING), resourceRequest : BOOLEAN] :
        IF a.resourceRequest THEN a.path = <<>>
        ELSE a.namespace = "" /\ a.resource = ""}

-----------------------------------------------------------------------------
(* Static authorization: StaticAuthorizationConfig.Matches and           *)
(* staticAuthorizer.Authorize.  An empty rule field matches any value;    *)
(* resourceRequest must be equal.                                         *)
IsAllowed(conf, val, empty) == conf = empty \/ conf = val

Matches(rule, a) ==
    /\ IsAllowed(rule.user, a.user, "")
    /\ IsAllowed(rule.verb, a.verb, "")
    /\ IsAllowed(rule.namespace, a.namespace, "")
    /\ IsAllowed(rule.resource, a.resource, "")
    /\ IsAllowed(rule.path, a.path, <<>>)
    /\ rule.resourceRequest = a.resourceRequest

StaticAuthorize(rules, a) ==
    IF \E k \in DOMAIN rules : Matches(rules[k], a)
    THEN DecisionAllow ELSE DecisionNoOpinion

\* NewStaticAuthorizer refuses a rule whose resourceRequest flag and path
\* disagree.
StaticConfigValid(rules) ==
    \A k \in DOMAIN rules : rules[k].resourceRequest = (rules[k].path = <<>>)

-----------------------------------------------------------------------------
(* Path authorization (package path).                                     *)

\* strings.TrimPrefix(p, "/")
TrimSlash(p) == IF p # <<>> /\ Head(p) = Slash THEN Tail(p) ELSE p

\* path.Match for patterns of literal tokens and "*": a star matches any
\* run of tokens that contains no separator.
RECURSIVE GlobMatch(_, _)
GlobMatch(pat, name) ==
    IF pat = <<>> THEN name = <<>>
    ELSE IF Head(pat) = Star
         THEN \/ GlobMatch(Tail(pat), name)
              \/ /\ name # <<>>
                 /\ Head(name) # Slash
                 /\ GlobMatch(pat, Tail(name))
         ELSE /\ name # <<>>
              /\ Head(name) = Head(pat)
              /\ GlobMatch(Tail(pat), Tail(name))

\* path.Match's result: "match", "nomatch", or "error" (ErrBadPattern).  Since Go
\* 1.16 Match checks the whole pattern before it answers FALSE, so a
\* pattern with an unterminated character class always fails.
BadClass == "["
PathMatch(pat, name) ==
    CASE \E j \in DOMAIN pat : pat[j] = BadClass -> "error"
      [] GlobMatch(pat, name) -> "match"
      [] OTHER                -> "nomatch"

\* newPathAuthorizer: the trimmed entries are split into an exact-match set
\* (the empty entry, standing for "/", always goes there) and, in list
\* order, the patterns containing a star.
NewPathAuthorizer(onMatch, onNoMatch, inputPaths) ==
    LET trimmed == [k \in DOMAIN inputPaths |-> TrimSlash(inputPaths[k])]
        isPattern(p) == \E j \in DOMAIN p : p[j] = Star
    IN [kind |-> "path", matchDecision |-> onMatch,
        noMatchDecision |-> onNoMatch,
        paths |-> {trimmed[k] : k \in {j \in DOMAIN trimmed : ~isPattern(trimmed[j])}},
        pathPatterns |-> SelectSeq(trimmed, isPattern)]

\* pathAuthorizer.Authorize: [decision, err].  The patterns are tried in
\* order; the first that matches decides, the first that is malformed
\* ends the search with NoOpinion and an error.
PathAuthorize(pa, a) ==
    LET pth == TrimSlash(a.path)
        results == [j \in DOMAIN pa.pathPatterns |-> PathMatch(pa.pathPatterns[j], pth)]
        k == SelectInSeq(results, LAMBDA m : m # "nomatch")
    IN CASE pth \in pa.paths       -> [decision |-> pa.matchDecision, err |-> FALSE]
         [] k = 0                  -> [decision |-> pa.noMatchDecision, err |-> FALSE]
         [] results[k] = "match"   -> [decision |-> pa.matchDecision, err |-> FALSE]
         [] OTHER                  -> [decision |-> DecisionNoOpinion, err |-> TRUE]

NewAllowPathAuthorizer(allowPaths) ==
    NewPathAuthorizer(DecisionNoOpinion, DecisionDeny, allowPaths)

NewAlwaysAllowPathAuthorizer(ignorePaths) ==
    NewPathAuthorizer(DecisionAllow, DecisionNoOpinion, ignorePaths)

-----------------------------------------------------------------------------
(* Rewrite parameters (requestToParams).  A request's query and headers   *)
(* are functions from names to the sequence of values sent under that    *)
(* name; a name that is absent maps to nothing.                           *)
Lookup(f, name) == IF name \in DOMAIN f THEN f[name] ELSE <<>>

RequestToParams(config, req) ==
    LET rw == config.rewrites
    IN IF rw = Nil THEN <<>>
       ELSE (IF rw.byQueryParameter # ""
             THEN Lookup(req.query, rw.byQueryParameter) ELSE <<>>)
            \o
            (IF rw.byHttpHeader # ""
             THEN Lookup(req.header, CanonicalMIMEHeaderKey(rw.byHttpHeader))
             ELSE <<>>)

-----------------------------------------------------------------------------
(* Attribute generators.  Each yields [panic |-> BOOLEAN, attrs |-> ...]: *)
(* the generated sequence, or the panic of a template that does not      *)
(* parse.                                                                 *)
Generated(seq) == [panic |-> FALSE, attrs |-> seq]

\* DefaultAttributesGenerator.Generate: user, verb and path only.
DefaultGenerate(attr) ==
    Generated(<<AttributesRecord(attr.user, attr.verb, "", "", attr.path, FALSE)>>)

\* Mutant: the request path is copied into the bound record too.
BoundGenerateKeepsPath(ra, attr) ==
    Generated(<<AttributesRecord(attr.user, attr.verb, ra.namespace,
                                 ra.resource, attr.path, TRUE)>>)

\* BoundAttributesGenerator.Generate: the configured coordinates verbatim.
BoundGenerate(ra, attr) ==
    Generated(<<AttributesRecord(attr.user, attr.verb, ra.namespace,
                                 ra.resource, <<>>, TRUE)>>)

\* RewritingAttributesGenerator.Generate: one record per parameter, in
\* parameter order, each field rendered with that parameter; nil when there
\* are no parameters.
RewritingGenerate(ra, params, attr) ==
    IF params = <<>> THEN Generated(<<>>)
    ELSE IF ~(TemplateParses(ra.namespace) /\ TemplateParses(ra.resource))
    THEN [panic |-> TRUE, attrs |-> <<>>]
    ELSE Generated([k \in 1..Len(params) |->
            AttributesRecord(attr.user, attr.verb,
                             TemplateWithValue(ra.namespace, params[k]),
                             TemplateWithValue(ra.resource, params[k]),
                             <<>>, TRUE)])

Generate(kind, ra, params, attr) ==
    CASE kind = "bound"     -> BoundGenerate(ra, attr)
      [] kind = "rewriting" -> RewritingGenerate(ra, params, attr)
      [] OTHER              -> DefaultGenerate(attr)

-----------------------------------------------------------------------------
(* The union of authorizers: the first opinion that is not NoOpinion.     *)
(* The chain's last member is the SubjectAccessReview delegate; the ones  *)
(* before it are pure and evaluated here.                                 *)
SarAuthorizer == [kind |-> "sar"]

AuthorizeWith(z, a) ==
    IF z.kind = "path" THEN PathAuthorize(z, a)
    ELSE [decision |-> StaticAuthorize(z.rules, a), err |-> FALSE]

\* union.Authorize over results [decision, err]: the first Allow or Deny
\* is returned with its own error; a NoOpinion's error is collected and
\* the next member asked; if all abstain, NoOpinion with the collected
\* errors.
UnionOf(rs) ==
    LET k == SelectInSeq(rs, LAMBDA r : r.decision # DecisionNoOpinion)
    IN IF k = 0
       THEN [decision |-> DecisionNoOpinion, err |-> \E j \in DOMAIN rs : rs[j].err]
       ELSE rs[k]

\* The union of the members before the delegate (the chain's last member).
LocalUnion(chain, a) ==
    UnionOf([k \in 1..Len(chain) - 1 |-> AuthorizeWith(chain[k], a)])

LocalDecision(chain, a) == LocalUnion(chain, a).decision

\* The delegate's answer: policy maps <<user, target>> keys to decisions,
\* the target being the coordinates of a resource request or the path.
SarKey(a) ==
    <<a.user, IF a.resourceRequest THEN <<a.namespace, a.resource>> ELSE a.path>>

SarDecision(policy, a) ==
    IF SarKey(a) \in DOMAIN policy THEN policy[SarKey(a)] ELSE DecisionNoOpinion

-----------------------------------------------------------------------------
(* SetupAuthorizer: the composition root.  Returns the authorizer chain   *)
(* of the union and the generator kind, or ok |-> FALSE on a startup     *)
(* error.                                                                 *)
PathChain(config) ==
    IF config.allowPaths # <<>>
    THEN <<NewAllowPathAuthorizer(config.allowPaths)>>
    ELSE IF config.ignorePaths # <<>>
    THEN <<NewAlwaysAllowPathAuthorizer(config.ignorePaths)>>
    ELSE <<>>

StaticChain(config) ==
    IF config.static = Nil THEN <<>> ELSE <<[kind |-> "static", rules |-> config.static]>>

GeneratorKind(config) ==
    IF config.resourceAttributes = Nil THEN "default"
    ELSE IF config.rewrites = Nil THEN "bound" ELSE "rewriting"

SetupAuthorizer(config) ==
    IF \/ config.allowPaths # <<>> /\ config.ignorePaths # <<>>
       \/ config.static # Nil /\ ~StaticConfigValid(config.static)
    THEN [ok |-> FALSE]
    ELSE [ok |-> TRUE,
          chain |-> PathChain(config) \o StaticChain(config) \o <<SarAuthorizer>>,
          generator |-> GeneratorKind(config)]

====
