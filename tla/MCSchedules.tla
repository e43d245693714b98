----------------------------- MODULE MCSchedules -----------------------------
(* Who computes which tile, in two parts without common state that are explored  *)
(* side by side: the GEMM tile schedulers (TileSchedule) and paged logits with    *)
(* their schedule (PagedLogits).                                                  *)
EXTENDS MCTileSchedule, MCPagedLogits

VARIABLE side   \* the part this behaviour belongs to: "tiles" or "logits"

\* The part that does not run is at rest.
RestingJob == CHOOSE j \in Flat : TRUE
RestingContext == [planned |-> [i \in {0} |-> 0], actual |-> [i \in {0} |-> 0]]
RestingTile == [groups |-> 1, stageQ |-> 1, turns |-> FALSE]

ScheduleInit ==
    \/ side = "tiles" /\ context = RestingContext /\ tile = RestingTile /\ Init /\ TileInit
    \/ side = "logits" /\ job = RestingJob /\ TileInit /\ Init

ScheduleNext ==
    /\ \/ side = "tiles" /\ TileNext /\ UNCHANGED vars
       \/ side = "logits" /\ (Next \/ Finished) /\ UNCHANGED tileVars
    /\ UNCHANGED side

ScheduleSpec == ScheduleInit /\ [][ScheduleNext]_<<side, vars, tileVars>>
=============================================================================
