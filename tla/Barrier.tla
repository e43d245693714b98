------------------------------- MODULE Barrier -------------------------------
(***************************************************************************)
(* What a reusable barrier promises, independent of any implementation.   *)
(*                                                                         *)
(* Every participant alternates between arriving and leaving, and it may   *)
(* leave its k-th use of the barrier only when all participants have       *)
(* arrived at their k-th use.  GridSync implements this module, and        *)
(* ScatterBarrier uses it for the grid synchronisations of every rank.     *)
(***************************************************************************)
EXTENDS Naturals

CONSTANT Blocks      \* the participants

VARIABLES arrived,   \* arrived[b]: how many times b has entered the barrier
          left       \* left[b]: how many times b has been let through

barrierVars == <<arrived, left>>

Init ==
  /\ arrived = [b \in Blocks |-> 0]
  /\ left = [b \in Blocks |-> 0]

Enter(b) ==
  /\ arrived[b] = left[b]
  /\ arrived' = [arrived EXCEPT ![b] = @ + 1]
  /\ UNCHANGED left

Leave(b) ==
  /\ left[b] < arrived[b]
  /\ \A c \in Blocks : left[b] < arrived[c]
  /\ left' = [left EXCEPT ![b] = @ + 1]
  /\ UNCHANGED arrived

Next == \E b \in Blocks : Enter(b) \/ Leave(b)

Spec == Init /\ [][Next]_barrierVars
=============================================================================
