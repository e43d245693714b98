--------------------------- MODULE MCScatterBarrier ---------------------------
(* Deployments of two ranks for ScatterBarrier: with a bank each, long enough for *)
(* every phase to count up, down and up again, and sharing the word of one bank.  *)
EXTENDS ScatterBarrier

Apart  == [ranksPerBank |-> 1, secondSync |-> TRUE,  rounds |-> 5]
Shared == [ranksPerBank |-> 8, secondSync |-> FALSE, rounds |-> 3]

MCSetups == {Apart, Shared}
MCLive == {Shared}
=============================================================================
