------------------------------- MODULE MCGate -------------------------------
(* Instances of Gate for TLC: two runs of one session.                     *)
EXTENDS Gate

Call(i, k) == [id |-> i, kind |-> k]

OneSession == [r \in Runs |-> "s"]
ShellAndCycle ==
  [r \in Runs |-> IF r = "r1" THEN {Call("c1", "shell")} ELSE {Call("c2", "cycle")}]
TwoAndOnes == [r \in Runs |-> IF r = "r1" THEN 2 ELSE 1]
=============================================================================
