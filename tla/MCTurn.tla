------------------------------- MODULE MCTurn -------------------------------
(* Small instances of Turn.                                                *)
EXTENDS Turn

ReadWriteOrBad == {[kinds |-> <<"read">>, empty |-> FALSE], [kinds |-> <<"bad", "read">>, empty |-> FALSE],
              [kinds |-> <<"bad">>, empty |-> TRUE], [kinds |-> <<"write">>, empty |-> FALSE]}
Sizes == {1, 6}

Budget(runs, stops, batches, notes, faults, settles, restarts) ==
  [runs |-> runs, stops |-> stops, batches |-> batches, notes |-> notes, faults |-> faults,
   settles |-> settles, restarts |-> restarts]
Scenarios ==
  {Budget(1, 1, 1, 0, 0, 0, 0), Budget(1, 1, 0, 1, 1, 0, 0),  \* a run is stopped, or the model server fails
   Budget(1, 0, 3, 0, 0, 0, 0), Budget(1, 0, 2, 0, 1, 0, 0),  \* a long run: compaction, repair, the ceilings
   Budget(2, 1, 0, 0, 0, 0, 0),  \* a stopped run overlaps its successor
   Budget(2, 0, 0, 0, 1, 1, 0),  \* a plan is accepted while a run writes
   Budget(1, 0, 1, 0, 0, 1, 0),
   Budget(2, 0, 1, 0, 0, 0, 1)}  \* the process restarts
=============================================================================
