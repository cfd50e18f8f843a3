----------------------------- MODULE Scheduler -----------------------------
(***************************************************************************)
(* The run scheduler of Agent_b (internal/agent/scheduler.go) with the     *)
(* part of a session it drives (internal/session/session.go: run status,   *)
(* closed flag) and the status writes a run makes on its own               *)
(* (internal/agent/run.go, internal/agent/gate.go).                        *)
(*                                                                         *)
(* Every operation of the scheduler runs under one mutex and is one action *)
(* here.  A run is a goroutine: it is live from startLocked until its call *)
(* of finish, also after Stop has given up waiting for it (a detached      *)
(* run).  What the idle callback does (a pending server change of an agent *)
(* is applied) is not part of this module: the server binding is constant. *)
(* The deletion of a session (internal/session/registry.go) looks at its   *)
(* status and not at the scheduler, so a run may lose its session.         *)
(*                                                                         *)
(* A user message is the number of its acceptance within its session.  The *)
(* run queue is a set: every append takes the next run id, so the queue's  *)
(* order is the order of the ids.                                          *)
(***************************************************************************)
EXTENDS Naturals, Sequences, FiniteSets, FiniteSetsExt

CONSTANTS Sessions,      \* the sessions of the registry
          Texts,         \* message contents, told apart by the dedupe only
          Profiles,      \* model server profiles
          ServerOf,      \* the profile each session is bound to
          MaxConcurrent, \* cfg.Run.MaxConcurrent
          QueueDepth,    \* cfg.Run.QueueDepth; 0 is unbounded
          MaxSent,       \* bound: session -> messages it may have accepted
          MaxInCall,     \* bound: runs inside a turn's update or a gate wait
          Deletable      \* bound: the sessions the operator may delete

ASSUME ConstantsAssumption ==
  /\ IsFiniteSet(Sessions)
  /\ ServerOf \in [Sessions -> Profiles]
  /\ MaxConcurrent \in Nat \ {0}
  /\ QueueDepth \in Nat
  /\ MaxSent \in [Sessions -> Nat]
  /\ MaxInCall \in Nat
  /\ Deletable \subseteq Sessions

VARIABLES
  active,       \* session -> id of the run in its slot, or NoRun
  queue,        \* queued runs waiting for a slot
  pending,      \* session -> messages waiting for the session's own run
  held,         \* sessions under a manual Stop hold
  unreachable,  \* sessions held until their model answers again
  ids,          \* the run id counter
  sent,         \* session -> number of messages accepted
  delivered,    \* session -> messages appended to the chat history
  dropped,      \* session -> messages of runs stopped before dispatch
  stopped,      \* runs whose run.stopped was published
  stoppedAgain, \* runs whose run.stopped was published a second time
  status,       \* session -> Session.Run.Status
  closed,       \* sessions with Closed set
  live,         \* goroutines that have not returned from finish
  stopReason,   \* live runs that have a stop reason: a Stop cancelled them
  stopWaits,    \* runs a Stop call is still waiting for
  views,        \* run states read by a run and not yet written back
  gate,         \* runs in awaitDecision of the approval gate
  deleting,     \* sessions whose files Delete is removing, checks passed
  gone,         \* sessions that are no longer in the registry
  unfilled,     \* slots freed since the queue was last dispatched
  blind,        \* waits of a Stop that did not find the session
  lost          \* waits given up because their Stop call died

chatVars == <<sent, delivered, dropped>>
stopVars == <<stopped, stoppedAgain>>
runVars  == <<views, gate>>
goneVars == <<deleting, gone, unfilled, blind, lost>>
vars == <<active, queue, pending, held, unreachable, ids, sent, delivered,
          dropped, stopped, stoppedAgain, status, closed, live, stopReason,
          stopWaits, views, gate, deleting, gone, unfilled, blind, lost>>

NoRun  == 0
Status == {"idle", "queued", "running", "paused", "stopping", "held"}
Msg    == [id : Nat, text : Texts]
\* A queued run.  fresh: its user message is not in the history yet.
Entry  == [s : Sessions, run : Nat, msg : Nat, fresh : BOOLEAN]
\* A started run.
Run    == [s : Sessions, run : Nat]
\* The status in the run state a turn has read.
View   == [s : Sessions, run : Nat, st : Status]
\* A run at the gate: undecided, decided, or superseded by another wait.
Wait   == [s : Sessions, run : Nat, at : {"waiting", "decided", "superseded"}]
\* A wait of Stop for a run whose session is gone, and the call's other waits.
Blind  == [s : Sessions, run : Nat, rest : SUBSET Run]

----------------------------------------------------------------------------
(* Helpers.                                                                *)

IsRunning(s) == status[s] \in {"running", "queued", "paused", "stopping", "held"}

\* len(s.active) for a value act of the active map.
Slots(act) == Cardinality({s \in Sessions : act[s] # NoRun})
HasSlot(act) == Slots(act) < MaxConcurrent

\* identicalPendingPosition(...) > 0
IdenticalPending(s, text) ==
  \E i \in 1..Len(pending[s]) : pending[s][i].text = text

\* Bug for the mutation check: the message is started and stays pending.
PopPendingKeeps(s) == pending
PopPending(s) == [pending EXCEPT ![s] = Tail(@)]
NextMsg(s, text) == [id |-> sent[s] + 1, text |-> text]

RunOf(x) == [s |-> x.s, run |-> x.run]
\* The run is in none of the calls that write the status (see TurnReads).
Free(g) ==
  /\ g \in live
  /\ \A v \in views : RunOf(v) # g
  /\ \A x \in gate : RunOf(x) # g

PublishStopped(R) ==
  /\ stopped' = stopped \cup R
  /\ stoppedAgain' = stoppedAgain \cup (stopped \cap R)

FreshMsgs(E, s) == {e.msg : e \in {x \in E : x.s = s /\ x.fresh}}

----------------------------------------------------------------------------
(* startLocked, for every entry of the set started at once.  A later start *)
(* of a session overwrites the slot of an earlier one.                     *)

ActiveAfter(act, started) ==
  [s \in Sessions |->
     IF \E e \in started : e.s = s
     THEN Max({e.run : e \in {x \in started : x.s = s}})
     ELSE act[s]]

StartLocked(started, act, stat, lv, del) ==
  /\ delivered' = [s \in Sessions |-> del[s] \cup FreshMsgs(started, s)]
  /\ active' = ActiveAfter(act, started)
  /\ status' = [s \in Sessions |->
                  IF \E e \in started : e.s = s THEN "running" ELSE stat[s]]
  /\ live' = lv \cup {RunOf(e) : e \in started}

\* "if len(s.active) < MaxConcurrent start it, else append it to the queue",
\* the tail of two branches of SubmitAttachments.
StartOrQueue(e, del) ==
  \/ /\ HasSlot(active)
     /\ StartLocked({e}, active, status, live, del)
     /\ UNCHANGED queue
  \/ /\ ~HasSlot(active)
     /\ queue' = queue \cup {e}
     /\ status' = [status EXCEPT ![e.s] = "queued"]
     /\ delivered' = del
     /\ UNCHANGED <<active, live>>

\* The loop "start the head of the queue while a slot is free" at the end of
\* finish and forceFinish starts exactly the entries of one set: the shortest
\* prefix of q after which the queue is empty or no slot is free.
IsPrefix(started, q) ==
  \A e \in started, f \in q : f.run < e.run => f \in started

Dispatches(started, act, q) ==
  /\ IsPrefix(started, q)
  /\ started = q \/ ~HasSlot(ActiveAfter(act, started))
  /\ \A shorter \in SUBSET started :
       shorter # started /\ IsPrefix(shorter, q)
         => HasSlot(ActiveAfter(act, shorter))

\* Bug: the loop is missing.
DispatchNothing(act, q, stat, lv) ==
  /\ active' = act
  /\ queue' = q
  /\ status' = stat
  /\ live' = lv
  /\ UNCHANGED delivered

Dispatch(act, q, stat, lv) ==
  \E started \in SUBSET q :
    /\ Dispatches(started, act, q)
    /\ StartLocked(started, act, stat, lv, delivered)
    /\ queue' = q \ started

----------------------------------------------------------------------------
(* SubmitAttachments: the refusals (closed session, identical text already *)
(* pending, full queue) change nothing and are not steps.                  *)

Accept(s) == s \notin closed /\ sent[s] < MaxSent[s]

Enqueue(s, text) ==
  /\ pending' = [pending EXCEPT ![s] = Append(@, NextMsg(s, text))]
  /\ sent' = [sent EXCEPT ![s] = @ + 1]

SubmitUnreachable(s, text) ==
  /\ Accept(s)
  /\ s \in unreachable
  /\ ~IdenticalPending(s, text)
  /\ Enqueue(s, text)
  /\ status' = [status EXCEPT ![s] = "held"]
  /\ UNCHANGED <<active, queue, held, unreachable, ids, delivered, dropped,
                 stopVars, closed, live, stopReason, stopWaits, runVars,
                 goneVars>>

\* The message joins the tail of the held messages and releases their head.
SubmitHeld(s, text) ==
  /\ Accept(s)
  /\ s \notin unreachable
  /\ s \in held
  /\ LET waitList == Append(pending[s], NextMsg(s, text)) IN
       /\ pending' = [pending EXCEPT ![s] = Tail(waitList)]
       /\ StartOrQueue([s |-> s, run |-> ids + 1, msg |-> Head(waitList).id,
                        fresh |-> TRUE], delivered)
  /\ sent' = [sent EXCEPT ![s] = @ + 1]
  /\ held' = held \ {s}
  /\ ids' = ids + 1
  /\ UNCHANGED <<unreachable, dropped, stopVars, closed, stopReason,
                 stopWaits, runVars, goneVars>>

SubmitBusy(s, text) ==
  /\ Accept(s)
  /\ s \notin unreachable \cup held
  /\ active[s] # NoRun \/ IsRunning(s)
  /\ ~IdenticalPending(s, text)
  /\ QueueDepth = 0 \/ Len(pending[s]) < QueueDepth
  /\ Enqueue(s, text)
  /\ UNCHANGED <<active, queue, held, unreachable, ids, delivered, dropped,
                 stopVars, status, closed, live, stopReason,
                 stopWaits, runVars, goneVars>>

\* AddUserAttachments appends the message before the run is started or
\* queued, so the entry is not fresh.
SubmitIdle(s, text) ==
  /\ Accept(s)
  /\ s \notin unreachable \cup held
  /\ active[s] = NoRun /\ ~IsRunning(s)
  /\ sent' = [sent EXCEPT ![s] = @ + 1]
  /\ ids' = ids + 1
  /\ StartOrQueue([s |-> s, run |-> ids + 1, msg |-> sent[s] + 1,
                   fresh |-> FALSE],
                  [delivered EXCEPT ![s] = @ \cup {sent[s] + 1}])
  /\ UNCHANGED <<pending, held, unreachable, dropped, stopVars, closed,
                 stopReason, stopWaits, runVars, goneVars>>

Submit(s, text) ==
  \/ SubmitUnreachable(s, text)
  \/ SubmitHeld(s, text)
  \/ SubmitBusy(s, text)
  \/ SubmitIdle(s, text)

----------------------------------------------------------------------------
(* finish: the run's goroutine returns.  modelDown: the run ended because  *)
(* its model could not be reached; a stop reason takes precedence.         *)

\* Bug: the new run state is left without a status.
EndStatusUnset(s, unr, pend) ==
  IF s \in held \cup unr /\ pend[s] # <<>> THEN "held" ELSE ""

\* The status finish and forceFinish leave behind for session s.
EndStatus(s, unr, pend) ==
  IF s \in held \cup unr /\ pend[s] # <<>> THEN "held" ELSE "idle"

\* The pending message goes to the queue before the final status is set, so
\* the "queued" status of the new entry does not survive the step unless the
\* loop starts it.
Finish(g, modelDown) ==
  /\ Free(g)
  /\ active[g.s] = g.run
  /\ LET s    == g.s
         unr  == IF modelDown /\ g.run \notin stopReason
                 THEN unreachable \cup {s} ELSE unreachable
         more == pending[s] # <<>> /\ s \notin held \cup unr
         pend == IF more THEN PopPending(s) ELSE pending
         next == IF more
                 THEN {[s |-> s, run |-> ids + 1, msg |-> Head(pending[s]).id,
                        fresh |-> TRUE]}
                 ELSE {}
     IN  /\ unreachable' = unr
         /\ pending' = pend
         /\ ids' = IF more THEN ids + 1 ELSE ids
         /\ Dispatch([active EXCEPT ![s] = NoRun], queue \cup next,
                     [status EXCEPT ![s] = EndStatus(s, unr, pend)],
                     live \ {g})
  /\ PublishStopped({g.run})
  /\ stopReason' = stopReason \ {g.run}
  /\ unfilled' = 0
  /\ UNCHANGED <<held, sent, dropped, closed, stopWaits, runVars, deleting,
                 gone, blind, lost>>

\* Bug: the fence is missing, a late return publishes run.stopped.
FinishLateUnfenced(g) ==
  /\ Free(g)
  /\ active[g.s] # g.run
  /\ live' = live \ {g}
  /\ stopReason' = stopReason \ {g.run}
  /\ PublishStopped({g.run})
  /\ UNCHANGED <<active, queue, pending, held, unreachable, ids, chatVars,
                 status, closed, stopWaits, runVars, goneVars>>

\* finish of a run that no longer owns its slot: fenced, nothing happens.
FinishLate(g) ==
  /\ Free(g)
  /\ active[g.s] # g.run
  /\ live' = live \ {g}
  /\ stopReason' = stopReason \ {g.run}
  /\ UNCHANGED <<active, queue, pending, held, unreachable, ids, chatVars,
                 stopVars, status, closed, stopWaits, runVars, goneVars>>

----------------------------------------------------------------------------
(* Stop: targets is one session or, for all, every session.  The locked    *)
(* part is one action; each wait for a cancelled run ends in StopReturns   *)
(* (the run yielded) or ForceFinish (the 2 s cancellation bound passed).   *)

\* Bug: the hold is set without a look at the pending messages.
HoldAfterStopAlways(S) == held \cup S
HoldAfterStop(S) == held \cup {s \in S : pending[s] # <<>>}

Stop(targets) ==
  LET running == {s \in targets : active[s] # NoRun}
      found   == running \ gone
      waits   == {[s |-> s, run |-> active[s]] : s \in found}
      cut     == {e \in queue : e.s \in targets}
      queued  == {e.s : e \in cut}
      hold    == HoldAfterStop(running \cup queued)
  IN
  /\ running \cup queued # {}
  /\ held' = hold
  /\ status' = [s \in Sessions |->
                  IF s \in queued
                  THEN IF s \in hold THEN "held" ELSE "idle"
                  ELSE IF s \in found THEN "stopping" ELSE status[s]]
  /\ stopReason' = stopReason \cup {active[s] : s \in running}
  /\ stopWaits' = stopWaits \cup waits
  /\ blind' = blind \cup {[s |-> s, run |-> active[s], rest |-> waits] :
                           s \in running \ found}
  /\ queue' = queue \ cut
  /\ PublishStopped({e.run : e \in cut})
  /\ dropped' = [s \in Sessions |-> dropped[s] \cup FreshMsgs(cut, s)]
  /\ UNCHANGED <<active, pending, unreachable, ids, sent, delivered, closed,
                 live, runVars, deleting, gone, unfilled, lost>>

StopReturns(w) ==
  /\ w \in stopWaits
  /\ w \notin live
  /\ stopWaits' = stopWaits \ {w}
  /\ UNCHANGED <<active, queue, pending, held, unreachable, ids, chatVars,
                 stopVars, status, closed, live, stopReason, runVars,
                 goneVars>>

\* Bug: the slot is not given back.
ForceFinishKeepsSlot(w) ==
  /\ w \in stopWaits
  /\ stopWaits' = stopWaits \ {w}
  /\ UNCHANGED <<active, queue, pending, held, unreachable, ids, chatVars,
                 stopVars, status, closed, live, stopReason, runVars,
                 goneVars>>

\* The slot is taken from the run; pending messages stay where they are.  When
\* the session left the registry during the wait forceFinish returns after it
\* deleted the slot: no run.stopped, no status, no look at the queue.
ForceFinish(w) ==
  /\ w \in stopWaits
  /\ stopWaits' = stopWaits \ {w}
  /\ \/ /\ active[w.s] = w.run /\ w.s \notin gone
        /\ Dispatch([active EXCEPT ![w.s] = NoRun], queue,
                    [status EXCEPT ![w.s] =
                       EndStatus(w.s, unreachable, pending)], live)
        /\ PublishStopped({w.run})
        /\ unfilled' = 0
     \/ /\ active[w.s] = w.run /\ w.s \in gone
        /\ active' = [active EXCEPT ![w.s] = NoRun]
        /\ unfilled' = unfilled + 1
        /\ UNCHANGED <<queue, delivered, status, live, stopVars>>
     \/ /\ active[w.s] # w.run
        /\ UNCHANGED <<active, queue, delivered, status, live, stopVars,
                       unfilled>>
  /\ UNCHANGED <<pending, held, unreachable, ids, sent, dropped, closed,
                 stopReason, runVars, deleting, gone, blind, lost>>

\* A run whose session was gone when Stop looked it up returned in time.
BlindReturns(b) ==
  /\ b \in blind
  /\ RunOf(b) \notin live
  /\ blind' = blind \ {b}
  /\ UNCHANGED <<active, queue, pending, held, unreachable, ids, chatVars,
                 stopVars, status, closed, live, stopReason, stopWaits, runVars,
                 deleting, gone, unfilled, lost>>

\* It did not: recordAbort dereferences the session that was not found and the
\* call panics before forceFinish.  Its waits not yet reached are never taken
\* up, their runs keep their slots until they return.
StopDies(b) ==
  /\ b \in blind
  /\ blind' = blind \ {b}
  /\ \E late \in SUBSET (b.rest \cap stopWaits) :
       /\ stopWaits' = stopWaits \ late
       /\ lost' = lost \cup late
  /\ UNCHANGED <<active, queue, pending, held, unreachable, ids, chatVars,
                 stopVars, status, closed, live, stopReason, runVars, deleting,
                 gone, unfilled>>

----------------------------------------------------------------------------
(* Model reachability.                                                     *)

HoldModel(s) ==
  /\ unreachable' = unreachable \cup {s}
  /\ UNCHANGED <<active, queue, pending, held, ids, chatVars, stopVars, status,
                 closed, live, stopReason, stopWaits, runVars, goneVars>>

\* A released session that has a message to run now.
\* Bug: a manual hold is ignored.
ReadyWhenHeld(s) == pending[s] # <<>> /\ active[s] = NoRun
Ready(s) == pending[s] # <<>> /\ s \notin held /\ active[s] = NoRun

\* One pass over the unreachable sessions of the profile, in any order (the
\* range over a Go map): order[s] is the place of s among those that have
\* something to run.
ReleaseModel(p) ==
  LET released == {s \in unreachable \ gone : ServerOf[s] = p}
      ready    == {s \in released : Ready(s)}
      n        == Cardinality(ready)
  IN
  /\ released # {}
  /\ unreachable' = unreachable \ released
  /\ pending' = [s \in Sessions |->
                   IF s \in ready THEN Tail(pending[s]) ELSE pending[s]]
  /\ ids' = ids + n
  /\ \E order \in [ready -> 1..n] :
       /\ \A s, t \in ready : s # t => order[s] # order[t]
       /\ LET entry(s) == [s |-> s, run |-> ids + order[s],
                           msg |-> Head(pending[s]).id, fresh |-> TRUE]
              first    == {s \in ready : Slots(active) + order[s] <= MaxConcurrent}
          IN  /\ StartLocked({entry(s) : s \in first}, active,
                             [s \in Sessions |->
                                IF s \in ready THEN "queued" ELSE status[s]],
                             live, delivered)
              /\ queue' = queue \cup {entry(s) : s \in ready \ first}
  /\ UNCHANGED <<held, sent, dropped, stopVars, closed, stopReason,
                 stopWaits, runVars, goneVars>>

----------------------------------------------------------------------------
(* The session's own operations.  Close reads the status, not the queue.   *)
(* None of these, nor a submission, asks whether the session is gone: the  *)
(* request may have looked it up before.                                   *)

Close(s) ==
  /\ s \notin closed
  /\ ~IsRunning(s)
  /\ closed' = closed \cup {s}
  /\ UNCHANGED <<active, queue, pending, held, unreachable, ids, chatVars,
                 stopVars, status, live, stopReason, stopWaits, runVars,
                 goneVars>>

Reopen(s) ==
  /\ s \in closed
  /\ closed' = closed \ {s}
  /\ UNCHANGED <<active, queue, pending, held, unreachable, ids, chatVars,
                 stopVars, status, live, stopReason, stopWaits, runVars,
                 goneVars>>

\* Registry.Delete: the checks read the closed flag and the status, the files
\* are removed without a lock, then the session leaves the registry.
DeleteChecks(s) ==
  /\ s \in (Deletable \cap closed) \ (gone \cup deleting)
  /\ ~IsRunning(s)
  /\ deleting' = deleting \cup {s}
  /\ UNCHANGED <<active, queue, pending, held, unreachable, ids, chatVars,
                 stopVars, status, closed, live, stopReason, stopWaits, runVars,
                 gone, unfilled, blind, lost>>

\* The files may not be removable: the session stays.
DeleteEnds(s) ==
  /\ s \in deleting
  /\ deleting' = deleting \ {s}
  /\ gone' \in {gone, gone \cup {s}}
  /\ UNCHANGED <<active, queue, pending, held, unreachable, ids, chatVars,
                 stopVars, status, closed, live, stopReason, stopWaits, runVars,
                 unfilled, blind, lost>>

----------------------------------------------------------------------------
(* A run writes the run state of its session without the scheduler's lock. *)
(* Its turn reads the state, sets the turn number and writes the state     *)
(* back; the gate sets "paused" when a wait begins and "running" when it   *)
(* was decided, and leaves the status alone when the wait was dismissed    *)
(* (Stop or the wall clock) or superseded.  A run is at one of these calls *)
(* at a time, and returns from none of them into finish.                   *)

EnterCall(g) == Free(g) /\ Cardinality(views) + Cardinality(gate) < MaxInCall

TurnReads(g) ==
  /\ EnterCall(g)
  /\ views' = views \cup {[s |-> g.s, run |-> g.run, st |-> status[g.s]]}
  /\ UNCHANGED <<active, queue, pending, held, unreachable, ids, chatVars,
                 stopVars, status, closed, live, stopReason, stopWaits, gate,
                 goneVars>>

TurnWrites(v) ==
  /\ v \in views
  /\ views' = views \ {v}
  /\ status' = [status EXCEPT ![v.s] = v.st]
  /\ UNCHANGED <<active, queue, pending, held, unreachable, ids, chatVars,
                 stopVars, closed, live, stopReason, stopWaits, gate,
                 goneVars>>

\* beginWait: an undecided wait of the same session is superseded.
GatePauses(g) ==
  /\ EnterCall(g)
  /\ LET prior == {x \in gate : x.s = g.s /\ x.at = "waiting"} IN
       gate' = (gate \ prior) \cup {[x EXCEPT !.at = "superseded"] : x \in prior}
                 \cup {[s |-> g.s, run |-> g.run, at |-> "waiting"]}
  /\ status' = [status EXCEPT ![g.s] = "paused"]
  /\ UNCHANGED <<active, queue, pending, held, unreachable, ids, chatVars,
                 stopVars, closed, live, stopReason, stopWaits, views,
                 goneVars>>

\* DecideWith: the operator's answer; the run has not woken up yet.
Decide(x) ==
  /\ x \in gate /\ x.at = "waiting"
  /\ gate' = (gate \ {x}) \cup {[x EXCEPT !.at = "decided"]}
  /\ UNCHANGED <<active, queue, pending, held, unreachable, ids, chatVars,
                 stopVars, status, closed, live, stopReason, stopWaits, views,
                 goneVars>>

\* The end of awaitDecision.  A decision wins over a cancelled context; the
\* context of an undecided run may be cancelled at any time.
GateReturns(x) ==
  /\ x \in gate
  /\ gate' = gate \ {x}
  /\ status' = IF x.at = "decided" THEN [status EXCEPT ![x.s] = "running"]
               ELSE status
  /\ UNCHANGED <<active, queue, pending, held, unreachable, ids, chatVars,
                 stopVars, closed, live, stopReason, stopWaits, views,
                 goneVars>>

----------------------------------------------------------------------------

Init ==
  /\ active = [s \in Sessions |-> NoRun]
  /\ queue = {}
  /\ pending = [s \in Sessions |-> <<>>]
  /\ held = {}
  /\ unreachable = {}
  /\ ids = 0
  /\ sent = [s \in Sessions |-> 0]
  /\ delivered = [s \in Sessions |-> {}]
  /\ dropped = [s \in Sessions |-> {}]
  /\ stopped = {}
  /\ stoppedAgain = {}
  /\ status = [s \in Sessions |-> "idle"]
  /\ closed = {}
  /\ live = {}
  /\ stopReason = {}
  /\ stopWaits = {}
  /\ views = {}
  /\ gate = {}
  /\ deleting = {}
  /\ gone = {}
  /\ unfilled = 0
  /\ blind = {}
  /\ lost = {}

OperatorStep ==
  \/ \E s \in Sessions, text \in Texts : Submit(s, text)
  \/ \E s \in Sessions : Stop({s}) \/ Close(s) \/ Reopen(s)
  \/ \E s \in Sessions : DeleteChecks(s) \/ DeleteEnds(s)
  \/ Stop(Sessions)
  \/ \E x \in gate : Decide(x)

StopStep(w) == StopReturns(w) \/ ForceFinish(w)
BlindStep(b) == BlindReturns(b) \/ StopDies(b)

RunStep(g) ==
  \/ \E modelDown \in BOOLEAN : Finish(g, modelDown)
  \/ FinishLate(g)
  \/ TurnReads(g)
  \/ \E v \in views : RunOf(v) = g /\ TurnWrites(v)
  \/ GatePauses(g)
  \/ \E x \in gate : RunOf(x) = g /\ GateReturns(x)

ModelStep ==
  \/ \E s \in Sessions : HoldModel(s)
  \/ \E p \in Profiles : ReleaseModel(p)

Next ==
  \/ OperatorStep
  \/ \E w \in stopWaits : StopStep(w)
  \/ \E b \in blind : BlindStep(b)
  \/ \E g \in live : RunStep(g)
  \/ ModelStep

Spec == Init /\ [][Next]_vars

\* Runs are bounded by messages: every run id is taken for one message.
RunIds == 1..MapThenSumSet(LAMBDA s : MaxSent[s], Sessions)
Runs   == [s : Sessions, run : RunIds]

\* Only the wait of Stop is fair: it ends at the timer at the latest.  Whether
\* a run ever returns is up to its model and its tools.
FairSpec == Spec /\ \A w \in Runs : WF_vars(w \in stopWaits /\ StopStep(w))

----------------------------------------------------------------------------
(* Properties.                                                             *)

CoreTypes ==
  /\ active \in [Sessions -> Nat]
  /\ queue \subseteq Entry
  /\ pending \in [Sessions -> Seq(Msg)]
  /\ held \subseteq Sessions
  /\ unreachable \subseteq Sessions
  /\ ids \in Nat
  /\ sent \in [Sessions -> Nat]
  /\ delivered \in [Sessions -> SUBSET Nat]
  /\ dropped \in [Sessions -> SUBSET Nat]
  /\ stopped \subseteq Nat
  /\ stoppedAgain \subseteq Nat
  /\ status \in [Sessions -> Status]
  /\ closed \subseteq Sessions
  /\ live \subseteq Run
  /\ stopReason \subseteq Nat
  /\ stopWaits \subseteq Run
  /\ views \subseteq View
  /\ gate \subseteq Wait

RegistryTypes ==
  /\ deleting \subseteq Sessions
  /\ gone \subseteq Sessions
  /\ unfilled \in Nat
  /\ blind \subseteq Blind
  /\ lost \subseteq Run

TypeOK == CoreTypes /\ RegistryTypes

\* A run id is in one place of its life at a time: in the queue, in a slot, or
\* over.  Ids are not reused, two queue entries or two slots never share one,
\* and a run that has published run.stopped (by finish, by the stop of a queued
\* run or by force) never holds a slot or a queue entry again.  The fences of
\* finish and forceFinish publish run.stopped at most once for a run, however
\* late its goroutine returns.
RunLedger ==
  /\ \A e, f \in queue : e.run = f.run => e = f
  /\ \A e \in queue : e.run \in 1..ids /\ e.run \notin stopped
  /\ \A e \in queue, s \in Sessions : active[s] # e.run
  /\ \A s, t \in Sessions : active[s] = active[t] /\ active[s] # NoRun => s = t
  /\ \A s \in Sessions : active[s] <= ids /\ active[s] \notin stopped
  /\ \A r \in stopped : r \in 1..ids
  /\ stoppedAgain = {}

\* Every accepted message has exactly one place: waiting for its session,
\* waiting in the queue for a slot, appended to the history, or dropped by the
\* stop of its queued run.  No order of submits, stops, forced stops, late
\* returns and model holds loses one or appends it twice.
PendingIds(s) == {pending[s][i].id : i \in DOMAIN pending[s]}
QueuedMsgs(s) == FreshMsgs(queue, s)
MessageLedger ==
  \A s \in Sessions :
    /\ PendingIds(s) \cup QueuedMsgs(s) \cup delivered[s] \cup dropped[s]
         = 1..sent[s]
    /\ \A i, j \in DOMAIN pending[s] :
         pending[s][i].id = pending[s][j].id => i = j
    /\ \A e, f \in queue : e.s = s /\ f.s = s /\ e.msg = f.msg => e = f
    /\ PendingIds(s) \cap (QueuedMsgs(s) \cup delivered[s] \cup dropped[s]) = {}
    /\ QueuedMsgs(s) \cap (delivered[s] \cup dropped[s]) = {}
    /\ delivered[s] \cap dropped[s] = {}

\* run.max_concurrent bounds the slots, and while a run waits in the queue only
\* a slot that forceFinish freed for a session gone from the registry may be
\* free: every other path that frees a slot refills it, and the next of them
\* fills these too.
SlotsFull ==
  /\ Slots(active) <= MaxConcurrent
  /\ queue # {} => Slots(active) + unfilled >= MaxConcurrent

\* A manual Stop hold ends only by an explicit send, and neither it nor a model
\* hold lets a waiting message go ("A manual Stop hold remains in force until
\* the operator explicitly sends again", the comment of ReleaseModel).
HoldStep ==
  \A s \in Sessions :
    /\ s \in held /\ s \notin held' => sent'[s] = sent[s] + 1
    /\ Len(pending'[s]) < Len(pending[s]) => s \notin held' \cup unreachable'
HoldKept == [][HoldStep]_vars

\* The messages under a manual hold are exactly those of a session that has
\* some: a hold never outlives them, so it never blocks a session for nothing.
HeldHasPending == \A s \in held : pending[s] # <<>>

\* Provided that every started run returns, no queued run waits for ever, but
\* beside a slot freed without a dispatch (see SlotsFull): the queue is not
\* looked at again before another run ends.
RunsReturn == \A g \in Runs : []<>(g \notin live)
QueuedRunStarts ==
  RunsReturn =>
    \A r \in RunIds :
      (\E e \in queue : e.run = r) ~> (unfilled > 0 \/ \A e \in queue : e.run # r)

\* A stopped run loses its slot even if its goroutine never returns
\* ("Cancellation gets 2 seconds to yield, then the scheduler terminates the
\* run", INTERFACES.md), unless the Stop call that waits for it died on a session
\* that was gone.
StopFreesSlot ==
  \A g \in Runs : (g \in stopWaits) ~> (active[g.s] # g.run \/ g \in lost)

----------------------------------------------------------------------------
(* What INTERFACES.md says and the code does not keep.                     *)

Queued(s) == \E e \in queue : e.s = s

\* "Messages posted during a run wait per session and start in order after it
\* ends, including after `user_stop`" (INTERFACES.md:126): no message is
\* appended to the history while an older one of its session still waits.
StartInOrder ==
  [][\A s \in Sessions : \A m \in delivered'[s] \ delivered[s] :
       \A k \in 1..(m - 1) : k \in delivered'[s] \cup dropped'[s]]_vars

\* The same line: a waiting message has a run of its session to wait for, or
\* is under a hold.
WaitsForSomething ==
  \A s \in Sessions : pending[s] # <<>> =>
    active[s] # NoRun \/ Queued(s) \/ s \in held \cup unreachable

\* The same line, "after it ends": a run takes the slot of its session only
\* when the session's last run has published run.stopped.
StartsAfterEnd ==
  [][\A s \in Sessions :
       active'[s] # active[s] /\ active'[s] # NoRun
         => active[s] = NoRun \/ active[s] \in stopped']_vars

\* "Cancellation gets 2 seconds to yield, then the scheduler terminates the
\* run, fences its late completion, and returns the session to use"
\* (INTERFACES.md:74): a session that no run holds, waits for or still runs in
\* the background, and no hold keeps back, is idle.
BackInUse ==
  \A s \in Sessions :
    /\ active[s] = NoRun /\ ~Queued(s)
    /\ \A g \in live : g.s # s
    /\ s \notin held \cup unreachable
    => ~IsRunning(s)
====
