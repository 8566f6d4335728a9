------------------------- MODULE MCDelegatePipeline -------------------------
(* DelegatePipeline under the model values of MCAuthz. *)
EXTENDS DelegatePipeline, MCAuthz

====
