---------------------------- MODULE MCEventLog ----------------------------
(***************************************************************************)
(* EventLog for TLC: see EventLog_safety.cfg for the bounds.               *)
(***************************************************************************)
EXTENDS EventLog

\* Publishers are interchangeable: no action or property tells them apart.
PublisherSymmetry == Permutations(Publishers)
=============================================================================
