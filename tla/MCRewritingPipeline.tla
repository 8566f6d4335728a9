------------------------- MODULE MCRewritingPipeline -------------------------
(* RewritingPipeline under the model values of MCAuthz. *)
EXTENDS RewritingPipeline, MCAuthz

\* one path list at a time (SpecDecision refuses both), ignore "/" among them,
\* templates that parse
G2Configs ==
    ConfigsOf({<<<<>>, <<>>>>, <<<<PM>>, <<>>>>, <<<<>>, <<PH>>>>, <<<<>>, <<PRoot>>>>},
              {Nil, <<Rule("alice", "ns1", "pods", <<>>, TRUE)>>},
              RAChoices \ {[namespace |-> TplValue, resource |-> TplParseError]},
              RewriteChoices)

G2Requests == RewriteRequests \cup {Request(FALSE, "bob", PM, <<>>, <<>>)}

====
