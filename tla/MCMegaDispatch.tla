---------------------------- MODULE MCMegaDispatch ----------------------------
(* Small deployments for MegaDispatch; experts 0 and 1. *)
EXTENDS MegaDispatch, TLC

\* Two ranks with one token CTA, over the end of the generations: every token goes
\* to one or to both owners.
Peers ==
  [ranks |-> 2, localExperts |-> 1, tokens |-> 2, tokenBlocks |-> 1, sourceCapacity |-> 2,
   firstGeneration |-> 4,
   routings |-> {(0 :> {1} @@ 1 :> {0, 1}), (0 :> {} @@ 1 :> {0})}]

\* One rank whose token CTAs compete for the slots of both experts, from fresh memory.
Alone ==
  [ranks |-> 1, localExperts |-> 2, tokens |-> 3, tokenBlocks |-> 2, sourceCapacity |-> 3,
   firstGeneration |-> 0,
   routings |-> {(0 :> {0, 1} @@ 1 :> {0, 1} @@ 2 :> {1}), (0 :> {0} @@ 1 :> {} @@ 2 :> {0})}]

MCSetups == {Peers, Alone}
MCLive == {Alone}
=============================================================================
