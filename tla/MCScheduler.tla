---------------------------- MODULE MCScheduler ----------------------------
(* Instances of Scheduler for TLC.                                         *)
EXTENDS Scheduler, TLC

CONSTANTS a, b, p

OneServer == [s \in Sessions |-> p]
ThreeAndOnes == [s \in Sessions |-> IF s = a THEN 3 ELSE 1]
TwoAndOnes == [s \in Sessions |-> IF s = a THEN 2 ELSE 1]
====
