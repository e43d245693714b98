---------------------------- MODULE MCFusedDispatch ----------------------------
(* Rounds of FusedDispatch with two experts: several M-blocks for one of them,
   which may share rows, or an expert without tokens. *)
EXTENDS FusedDispatch, TLC

MCPlans == {(0 :> 2 @@ 1 :> 1), (0 :> 0 @@ 1 :> 1)}
=============================================================================
