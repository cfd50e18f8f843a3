-------------------------------- MODULE Reach --------------------------------
(***************************************************************************)
(* An unreachable model server: sessions are held (agent/scheduler.go),    *)
(* timers start probes of its profile (web/reachability.go), a probe that  *)
(* succeeds saves what it found and releases the sessions                  *)
(* (web/server_profiles.go, probe/probe.go).                               *)
(*                                                                         *)
(* The retry state, the probes and the sessions have a mutex each, and a   *)
(* timer that has fired cannot be stopped any more.  The length of the     *)
(* delays is left out.                                                     *)
(***************************************************************************)
EXTENDS Integers, FiniteSets, FiniteSetsExt

CONSTANTS
  Chats,     \* sessions of the profile
  TimerIds,  \* 1..n: bound on the timers
  ProbeIds,  \* 1..n: bound on the probes
  Blinks,    \* bound: how often the server goes away
  Fleets     \* bounds: how many probes there may be for which sessions

\* 0 stands for "no timer" and "no probe".
ASSUME ReachAssumption == TimerIds \subseteq Nat \ {0} /\ ProbeIds \subseteq Nat \ {0}

VARIABLES
  up,       \* the model server answers
  usable,   \* the saved capabilities make the profile runnable
  chat,     \* session -> what its run is at
  bound,    \* sessions bound to the profile
  holds,    \* Scheduler.unreachable
  retry,    \* Server.reachability[profile]: object (0: none), timer (0: none), objects so far
  timers,   \* timer -> its object and what became of it
  probes,   \* probe -> its goroutine
  current,  \* Server.probeCancels[profile], 0 if none
  known,    \* the profile is configured
  blinks,
  lost      \* sessions nobody will release: see RetryPending

reachVars == <<up, usable, chat, bound, holds, retry, timers, probes, current, known, blinks, lost>>

NoTimer == [obj |-> 0, st |-> "none"]
NoProbe == [st |-> "none", cancel |-> FALSE, ok |-> FALSE, good |-> FALSE]
Unused(f) == {i \in DOMAIN f : f[i].st = "none"}

\* scheduleReachabilityProbeLocked arms the next timer for object o.
Arms(o, was) ==
  \E t \in Unused(timers) :
    /\ \A u \in Unused(timers) : t <= u
    /\ timers' = [timers EXCEPT ![t] = [obj |-> o, st |-> "armed"]]
    /\ retry' = [was EXCEPT !.obj = o, !.timer = t]

\* Timer.Stop: too late for one that has fired.
Halt(t) == IF t # 0 /\ timers[t].st = "armed" THEN [timers EXCEPT ![t].st = "gone"] ELSE timers

\* startProbe: the scheduled timer is stopped and a probe under way canceled.
StartProbe(ts) ==
  \E p \in Unused(probes) :
    /\ \A q \in Unused(probes) : p <= q
    /\ probes' = [q \in ProbeIds |->
                    IF q = p THEN [NoProbe EXCEPT !.st = "ask"]
                    ELSE IF q = current THEN [probes[q] EXCEPT !.cancel = TRUE] ELSE probes[q]]
    /\ current' = p
    /\ timers' = ts
    /\ retry' = [retry EXCEPT !.timer = 0]

\* completeReachabilityProbe.
Complete(ok) ==
  \/ retry.obj = 0 /\ UNCHANGED <<retry, timers>>
  \/ /\ retry.obj # 0 /\ ok
     /\ timers' = Halt(retry.timer)
     /\ retry' = [retry EXCEPT !.obj = 0, !.timer = 0]
  \/ retry.obj # 0 /\ ~ok /\ retry.timer = 0 /\ Arms(retry.obj, retry)
  \/ retry.obj # 0 /\ ~ok /\ retry.timer # 0 /\ UNCHANGED <<retry, timers>>

----------------------------------------------------------------------------
(* Runs.                                                                   *)

RunBegins(c) ==
  /\ chat[c] = "idle" /\ c \notin holds /\ c \in bound /\ known /\ blinks > 0
  /\ chat' = [chat EXCEPT ![c] = "runs"]
  /\ UNCHANGED <<up, usable, bound, holds, retry, timers, probes, current, known, blinks, lost>>

RunFinishes(c) ==
  /\ chat[c] = "runs" /\ up
  /\ chat' = [chat EXCEPT ![c] = "idle"]
  /\ UNCHANGED <<up, usable, bound, holds, retry, timers, probes, current, known, blinks, lost>>

\* publishModelUnreachable calls HoldModel, then scheduleReachabilityProbe; the run returns.
Holds(c) ==
  /\ chat[c] = "runs" /\ ~up
  /\ chat' = [chat EXCEPT ![c] = "held"]
  /\ holds' = holds \cup {c}
  /\ UNCHANGED <<up, usable, bound, retry, timers, probes, current, known, blinks, lost>>
Schedules(c) ==
  /\ chat[c] = "held"
  /\ chat' = [chat EXCEPT ![c] = "returns"]
  /\ \/ retry.timer = 0 /\ retry.obj # 0 /\ Arms(retry.obj, retry)
     \/ retry.obj = 0 /\ Arms(retry.made + 1, [retry EXCEPT !.made = @ + 1])
     \/ retry.timer # 0 /\ UNCHANGED <<retry, timers>>
  /\ UNCHANGED <<up, usable, bound, holds, probes, current, known, blinks, lost>>

\* finish marks the session again, released in between or not.
Marks(c) ==
  /\ chat[c] = "returns"
  /\ chat' = [chat EXCEPT ![c] = "idle"]
  /\ holds' = holds \cup {c}
  /\ lost' = IF c \in holds THEN lost ELSE lost \cup {c}
  /\ UNCHANGED <<up, usable, bound, retry, timers, probes, current, known, blinks>>

----------------------------------------------------------------------------
(* Timers and probes.                                                      *)

Fires(t) ==
  /\ timers[t].st = "armed"
  /\ timers' = [timers EXCEPT ![t].st = "fired"]
  /\ UNCHANGED <<up, usable, chat, bound, holds, retry, probes, current, known, blinks, lost>>

\* The callback: only for the state it was armed for, then the profile is looked up.
Callback(t) ==
  /\ timers[t].st = "fired"
  /\ \/ /\ timers[t].obj = retry.obj
        /\ timers' = [timers EXCEPT ![t].st = "probe"]
        /\ retry' = [retry EXCEPT !.timer = 0]
     \/ /\ timers[t].obj # retry.obj
        /\ timers' = [timers EXCEPT ![t].st = "gone"]
        /\ UNCHANGED retry
  /\ UNCHANGED <<up, usable, chat, bound, holds, probes, current, known, blinks, lost>>
CallbackProbes(t) ==
  /\ timers[t].st = "probe"
  /\ \/ known /\ StartProbe([Halt(retry.timer) EXCEPT ![t].st = "gone"])
     \/ /\ ~known  \* clearReachabilityProbe
        /\ timers' = [Halt(retry.timer) EXCEPT ![t].st = "gone"]
        /\ retry' = [retry EXCEPT !.obj = 0, !.timer = 0]
        /\ UNCHANGED <<probes, current>>
  /\ UNCHANGED <<up, usable, chat, bound, holds, known, blinks, lost>>

OperatorProbes ==
  /\ known /\ StartProbe(Halt(retry.timer))
  /\ UNCHANGED <<up, usable, chat, bound, holds, known, blinks, lost>>

\* Stop cancels the probe under way.
OperatorStops ==
  /\ current # 0
  /\ probes' = [probes EXCEPT ![current].cancel = TRUE]
  /\ UNCHANGED <<up, usable, chat, bound, holds, retry, timers, current, known, blinks, lost>>

ProbeKept == UNCHANGED <<up, chat, bound, known, blinks>>

\* Probe asks who the server is, and fails if nothing answers; what it asks after that only
\* lowers the capabilities.
AsksServer(p) ==
  /\ probes[p].st = "ask"
  /\ probes' = [probes EXCEPT ![p].st = IF up THEN "caps" ELSE "clear", ![p].ok = up]
  /\ ProbeKept /\ UNCHANGED <<usable, holds, retry, timers, current, lost>>
Capabilities(p) ==
  /\ probes[p].st = "caps"
  /\ probes' = [probes EXCEPT ![p].st = "clear", ![p].good = up]
  /\ ProbeKept /\ UNCHANGED <<usable, holds, retry, timers, current, lost>>

\* Bug: a canceled probe ends, whether it was the current one or not.
ClearsSilently(p) ==
  /\ probes[p].st = "clear"
  /\ current' = IF current = p THEN 0 ELSE current
  /\ probes' = [probes EXCEPT ![p].st = IF probes[p].cancel THEN "gone" ELSE "complete"]
  /\ ProbeKept /\ UNCHANGED <<usable, holds, retry, timers, lost>>
\* clearProbe: a canceled probe is tried again later if it was the current one.
Clears(p) ==
  /\ probes[p].st = "clear"
  /\ current' = IF current = p THEN 0 ELSE current
  /\ probes' = [probes EXCEPT ![p].st = IF ~probes[p].cancel THEN "complete"
                                        ELSE IF current = p THEN "again" ELSE "gone"]
  /\ ProbeKept /\ UNCHANGED <<usable, holds, retry, timers, lost>>

Completes(p) ==
  /\ probes[p].st \in {"again", "complete"}
  /\ Complete(probes[p].st = "complete" /\ probes[p].ok)
  /\ probes' = [probes EXCEPT ![p].st = IF @ = "again" THEN "gone" ELSE "save"]
  /\ ProbeKept /\ UNCHANGED <<usable, holds, current, lost>>

\* The capabilities are saved, those of a failed probe are the old ones; if the file cannot be
\* written nobody is released.
Saves(p) ==
  /\ probes[p].st = "save"
  /\ usable' = IF probes[p].ok /\ known THEN probes[p].good ELSE usable
  /\ \/ /\ probes' = [probes EXCEPT ![p].st = IF probes[p].ok THEN "release" ELSE "gone"]
        /\ UNCHANGED lost
     \/ /\ probes' = [probes EXCEPT ![p].st = "gone"]
        /\ lost' = IF probes[p].ok THEN lost \cup holds ELSE lost
  /\ ProbeKept /\ UNCHANGED <<holds, retry, timers, current>>

\* ReleaseModel: the sessions that are bound to the profile.
Releases(p) ==
  /\ probes[p].st = "release"
  /\ probes' = [probes EXCEPT ![p].st = "gone"]
  /\ holds' = holds \ bound
  /\ lost' = lost \ bound
  /\ ProbeKept /\ UNCHANGED <<usable, retry, timers, current>>

----------------------------------------------------------------------------
(* The world.                                                              *)

Blink ==
  /\ up' = ~up
  /\ up => blinks > 0
  /\ blinks' = IF up THEN blinks - 1 ELSE blinks
  /\ UNCHANGED <<usable, chat, bound, holds, retry, timers, probes, current, known, lost>>

\* A session is bound to another server; a profile no session uses is deleted.
Rebinds(c) ==
  /\ c \in bound /\ chat[c] = "idle"
  /\ bound' = bound \ {c}
  /\ lost' = IF c \in holds THEN lost \cup {c} ELSE lost
  /\ UNCHANGED <<up, usable, chat, holds, retry, timers, probes, current, known, blinks>>
DeleteProfile ==
  /\ known /\ bound = {}
  /\ known' = FALSE
  /\ UNCHANGED <<up, usable, chat, bound, holds, retry, timers, probes, current, blinks, lost>>

ReachInit ==
  /\ up = TRUE /\ usable = TRUE /\ known = TRUE /\ current = 0 /\ blinks = Blinks
  /\ chat = [c \in Chats |-> "idle"] /\ holds = {} /\ lost = {}
  /\ retry = [obj |-> 0, timer |-> 0, made |-> 0]
  /\ timers = [t \in TimerIds |-> NoTimer]
  /\ \E f \in Fleets :
       /\ bound = f.chats
       /\ probes = [p \in ProbeIds |-> IF p <= f.probes THEN NoProbe ELSE [NoProbe EXCEPT !.st = "gone"]]

ReachNext ==
  \/ \E c \in Chats : RunBegins(c) \/ RunFinishes(c) \/ Holds(c) \/ Schedules(c) \/ Marks(c) \/ Rebinds(c)
  \/ \E t \in TimerIds : Fires(t) \/ Callback(t) \/ CallbackProbes(t)
  \/ \E p \in ProbeIds : AsksServer(p) \/ Capabilities(p) \/ Clears(p) \/ Completes(p) \/ Saves(p)
                         \/ Releases(p)
  \/ OperatorProbes \/ OperatorStops \/ Blink \/ DeleteProfile

ReachSpec == ReachInit /\ [][ReachNext]_reachVars

----------------------------------------------------------------------------
\* Something will ask the server again.
Trying ==
  \/ \E t \in TimerIds : timers[t].obj = retry.obj /\ timers[t].st \in {"armed", "fired", "probe"}
  \/ current # 0
  \/ \E p \in ProbeIds : \/ probes[p].st \in {"again", "complete"}
                         \/ probes[p].st \in {"save", "release"} /\ probes[p].ok

\* A held session is not forgotten: a timer of the current retry state, a probe, or the end of
\* one will try the server again or release it (reachability.go, server_profiles.go), unless
\* finish marked it after the release, its release was cut off by a failed save, or it was
\* bound to another server.
RetryPending == \A c \in holds \ lost : chat[c] = "held" \/ Trying

=============================================================================
