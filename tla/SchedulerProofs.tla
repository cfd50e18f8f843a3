-------------------------- MODULE SchedulerProofs --------------------------
(***************************************************************************)
(* Proofs about Scheduler for every set of sessions, every slot count and  *)
(* every queue depth.                                                      *)
(***************************************************************************)
EXTENDS Scheduler, TLAPS, FiniteSetTheorems, WellFoundedInduction

USE DEF NoRun

(* A bounded non-empty set of naturals has a maximum: the run id a session *)
(* is left with when startLocked has started several of its runs.          *)
LEMMA MaxIn ==
  ASSUME NEW n \in Nat, NEW S \in SUBSET (0..n), S # {}
  PROVE  Max(S) \in S /\ \A y \in S : y <= Max(S)
<1> DEFINE T == {n - x : x \in S}
<1>0. \A x \in S : x \in Nat /\ x <= n /\ n - x \in Nat
  OBVIOUS
<1>1. T \subseteq Nat /\ T # {}
  BY <1>0
<1>2. PICK t \in T : \A u \in T : ~(u < t)
  <2> DEFINE R == OpToRel(<, Nat)
  <2> HIDE DEF T, R
  <2>1. IsWellFoundedOn(R, Nat)
    BY NatLessThanWellFounded DEF R
  <2>2. PICK t \in T : \A u \in T : ~(<<u, t>> \in R)
    BY <1>1, <2>1, WFMin
  <2>3. \A u \in T : u < t => <<u, t>> \in R
    BY <1>1 DEF R, OpToRel
  <2> QED BY <2>2, <2>3
<1>3. PICK x \in S : t = n - x
  BY <1>2
<1>4. \A y \in S : x >= y
  <2> TAKE y \in S
  <2>1. n - y \in T
    OBVIOUS
  <2>2. ~(n - y < n - x)
    BY <2>1, <1>2, <1>3
  <2> QED BY <2>2, <1>0
<1> QED BY <1>4 DEF Max

----------------------------------------------------------------------------
(* What startLocked and the dispatch loop leave in the slots.              *)

EntriesFit(n, E)  == E \subseteq Entry /\ \A e \in E : e.run \in 1..n
SlotsFit(n, act)  == act \in [Sessions -> Nat] /\ \A s \in Sessions : act[s] <= n
RunsFit(n, R)     == R \subseteq Run /\ \A g \in R : g.run \in 1..n
StatusOK(stat)    == stat \in [Sessions -> Status]
DeliveredOK(del)  == del \in [Sessions -> SUBSET Nat]

\* Every slot of act2 is the one of act or was given to an entry of started.
SlotsFrom(act, started, act2) ==
  \A s \in Sessions :
    \/ \E e \in started : e.s = s /\ act2[s] = e.run
    \/ (\A e \in started : e.s # s) /\ act2[s] = act[s]

(* A slot holds its old run or one of the runs just started for it.        *)
LEMMA ActiveAfterOK ==
  ASSUME NEW n \in Nat, NEW started, EntriesFit(n, started),
         NEW act, SlotsFit(n, act)
  PROVE  /\ SlotsFit(n, ActiveAfter(act, started))
         /\ SlotsFrom(act, started, ActiveAfter(act, started))
<1> DEFINE runs(s) == {e.run : e \in {x \in started : x.s = s}}
<1>1. ASSUME NEW s \in Sessions, \E e \in started : e.s = s
      PROVE  Max(runs(s)) \in runs(s)
  <2>1. runs(s) \in SUBSET (0..n) /\ runs(s) # {}
    BY <1>1 DEF EntriesFit
  <2> HIDE DEF runs
  <2> QED BY <2>1, MaxIn
<1>2. ASSUME NEW s \in Sessions, \E e \in started : e.s = s
      PROVE  \E e \in started : e.s = s /\ Max(runs(s)) = e.run
  BY <1>1, <1>2
<1>3. ActiveAfter(act, started) =
        [s \in Sessions |-> IF \E e \in started : e.s = s
                            THEN Max(runs(s)) ELSE act[s]]
  BY DEF ActiveAfter
<1> HIDE DEF runs
<1>4. \A e \in started : e.run \in Nat /\ e.run <= n
  BY DEF EntriesFit
<1> QED BY <1>2, <1>3, <1>4 DEF SlotsFit, SlotsFrom

(* The variables startLocked assigns keep their types.                     *)
LEMMA StartLockedOK ==
  ASSUME NEW n \in Nat, NEW started, EntriesFit(n, started),
         NEW act, SlotsFit(n, act), NEW stat, StatusOK(stat),
         NEW lv, RunsFit(n, lv), NEW del, DeliveredOK(del),
         StartLocked(started, act, stat, lv, del)
  PROVE  /\ DeliveredOK(delivered') /\ StatusOK(status')
         /\ SlotsFit(n, active') /\ RunsFit(n, live')
         /\ SlotsFrom(act, started, active')
<1>1. active' = ActiveAfter(act, started)
  BY DEF StartLocked
<1>2. DeliveredOK(delivered')
  BY DEF StartLocked, FreshMsgs, Entry, EntriesFit, DeliveredOK
<1>3. StatusOK(status')
  BY DEF StartLocked, Status, StatusOK
<1>4. RunsFit(n, live')
  BY DEF StartLocked, RunOf, Run, Entry, EntriesFit, RunsFit
<1> QED BY <1>1, <1>2, <1>3, <1>4, ActiveAfterOK

(* A run that is started or queued by a submission keeps the types.        *)
LEMMA StartOrQueueOK ==
  ASSUME NEW n \in Nat, NEW e, EntriesFit(n, {e}),
         SlotsFit(n, active), StatusOK(status), RunsFit(n, live),
         NEW del, DeliveredOK(del), EntriesFit(n, queue),
         StartOrQueue(e, del)
  PROVE  /\ DeliveredOK(delivered') /\ StatusOK(status')
         /\ SlotsFit(n, active') /\ RunsFit(n, live') /\ EntriesFit(n, queue')
<1>1. CASE StartLocked({e}, active, status, live, del) /\ UNCHANGED queue
  BY <1>1, StartLockedOK
<1>2. CASE /\ queue' = queue \cup {e}
           /\ status' = [status EXCEPT ![e.s] = "queued"]
           /\ delivered' = del
           /\ UNCHANGED <<active, live>>
  <2>1. EntriesFit(n, queue')
    BY <1>2 DEF EntriesFit
  <2>2. StatusOK(status')
    BY <1>2 DEF StatusOK, EntriesFit, Entry, Status
  <2> QED BY <1>2, <2>1, <2>2
<1> QED BY <1>1, <1>2 DEF StartOrQueue

(* The dispatch loop keeps the types.                                      *)
LEMMA DispatchOK ==
  ASSUME NEW n \in Nat, NEW q, EntriesFit(n, q),
         NEW act, SlotsFit(n, act), NEW stat, StatusOK(stat),
         NEW lv, RunsFit(n, lv), DeliveredOK(delivered),
         Dispatch(act, q, stat, lv)
  PROVE  /\ DeliveredOK(delivered') /\ StatusOK(status')
         /\ SlotsFit(n, active') /\ RunsFit(n, live') /\ EntriesFit(n, queue')
<1>1. PICK started \in SUBSET q :
        /\ StartLocked(started, act, stat, lv, delivered)
        /\ queue' = q \ started
  BY DEF Dispatch
<1>2. EntriesFit(n, started) /\ EntriesFit(n, queue')
  BY <1>1 DEF EntriesFit
<1> QED BY <1>1, <1>2, StartLockedOK

----------------------------------------------------------------------------
(* Type correctness.  The types alone are not inductive: that a slot holds *)
(* a natural needs a maximum of the started ids, and so that no id exceeds *)
(* the counter.                                                            *)

Fits ==
  /\ EntriesFit(ids, queue)
  /\ SlotsFit(ids, active)
  /\ RunsFit(ids, live)
  /\ RunsFit(ids, stopWaits)

TypeInv == CoreTypes /\ Fits

\* The operations of the registry.
RegistryStep(s) == Close(s) \/ Reopen(s) \/ DeleteChecks(s) \/ DeleteEnds(s)

(* A larger id counter bounds what a smaller one did.                      *)
LEMMA FitsGrow ==
  ASSUME NEW n \in Nat, NEW m \in Nat, n <= m
  PROVE  /\ \A E : EntriesFit(n, E) => EntriesFit(m, E)
         /\ \A act : SlotsFit(n, act) => SlotsFit(m, act)
         /\ \A R : RunsFit(n, R) => RunsFit(m, R)
BY DEF EntriesFit, SlotsFit, RunsFit

(* The parts of CoreTypes that Fits and the two predicates below it state.    *)
LEMMA TypeSplit ==
  ASSUME CoreTypes
  PROVE  StatusOK(status) /\ DeliveredOK(delivered)
BY DEF CoreTypes, StatusOK, DeliveredOK

(* The scheduler NewScheduler builds is well typed.                        *)
LEMMA TypeInit ==
  ASSUME Init
  PROVE  TypeInv
BY ConstantsAssumption
   DEF Init, TypeInv, CoreTypes, Fits, EntriesFit, SlotsFit, RunsFit, Entry, Run,
       Status, View, Wait, Msg

(* A sequence that was appended to can be split again.                     *)
LEMMA AppendSplit ==
  ASSUME NEW T, NEW q \in Seq(T), NEW x \in T
  PROVE  Head(Append(q, x)) \in T /\ Tail(Append(q, x)) \in Seq(T)
<1>1. Append(q, x) \in Seq(T) /\ Len(Append(q, x)) = Len(q) + 1
  OBVIOUS
<1>2. Len(q) \in Nat
  OBVIOUS
<1>3. Append(q, x) # <<>>
  BY <1>1, <1>2
<1> QED BY <1>1, <1>3

(* A submission accepts one message, whatever its branch.                  *)
LEMMA SubmitType ==
  ASSUME TypeInv, NEW s \in Sessions, NEW text \in Texts, Submit(s, text)
  PROVE  TypeInv'
<1> USE DEF chatVars, stopVars, runVars, goneVars
<1>0. ids \in Nat /\ ids + 1 \in Nat /\ ids <= ids + 1
  BY DEF TypeInv, CoreTypes
<1>1. NextMsg(s, text) \in Msg
  BY DEF NextMsg, Msg, TypeInv, CoreTypes
<1>2. Append(pending[s], NextMsg(s, text)) \in Seq(Msg)
  BY <1>1 DEF TypeInv, CoreTypes
<1>3. CASE SubmitUnreachable(s, text)
  BY <1>2, <1>3 DEF SubmitUnreachable, Enqueue, TypeInv, CoreTypes, Fits, Status
<1>4. CASE SubmitBusy(s, text)
  BY <1>2, <1>4 DEF SubmitBusy, Enqueue, TypeInv, CoreTypes, Fits
<1>5. CASE SubmitHeld(s, text)
  <2> DEFINE waitList == Append(pending[s], NextMsg(s, text))
             e == [s |-> s, run |-> ids + 1, msg |-> Head(waitList).id,
                   fresh |-> TRUE]
  <2>1. /\ pending' = [pending EXCEPT ![s] = Tail(waitList)]
        /\ StartOrQueue(e, delivered)
    BY <1>5 DEF SubmitHeld
  <2>2. pending[s] \in Seq(Msg)
    BY DEF TypeInv, CoreTypes
  <2>3. Head(waitList) \in Msg /\ Tail(waitList) \in Seq(Msg)
    BY <1>1, <2>2, AppendSplit
  <2>4. EntriesFit(ids + 1, {e})
    BY <2>3, <1>0 DEF EntriesFit, Entry, Msg
  <2> HIDE DEF waitList, e
  <2>5. /\ DeliveredOK(delivered') /\ StatusOK(status')
        /\ SlotsFit(ids + 1, active') /\ RunsFit(ids + 1, live')
        /\ EntriesFit(ids + 1, queue')
    BY <1>0, <2>1, <2>4, FitsGrow, TypeSplit, StartOrQueueOK DEF TypeInv, Fits
  <2>6. RunsFit(ids + 1, stopWaits)
    BY <1>0, FitsGrow DEF TypeInv, Fits
  <2>7. Fits'
    BY <1>5, <2>5, <2>6 DEF SubmitHeld, Fits
  <2>8. CoreTypes'
    <3>1. /\ active' \in [Sessions -> Nat] /\ queue' \subseteq Entry
          /\ delivered' \in [Sessions -> SUBSET Nat]
          /\ status' \in [Sessions -> Status] /\ live' \subseteq Run
      BY <2>5 DEF DeliveredOK, StatusOK, SlotsFit, RunsFit, EntriesFit
    <3>2. pending' \in [Sessions -> Seq(Msg)]
      BY <2>1, <2>3 DEF TypeInv, CoreTypes
    <3>3. sent' \in [Sessions -> Nat] /\ ids' \in Nat /\ held' \subseteq Sessions
      BY <1>0, <1>5 DEF SubmitHeld, TypeInv, CoreTypes
    <3> QED BY <1>5, <3>1, <3>2, <3>3 DEF SubmitHeld, TypeInv, CoreTypes
  <2> QED BY <2>7, <2>8 DEF TypeInv
<1>6. CASE SubmitIdle(s, text)
  <2> DEFINE e == [s |-> s, run |-> ids + 1, msg |-> sent[s] + 1,
                   fresh |-> FALSE]
             del == [delivered EXCEPT ![s] = @ \cup {sent[s] + 1}]
  <2>1. StartOrQueue(e, del)
    BY <1>6 DEF SubmitIdle
  <2>2. EntriesFit(ids + 1, {e})
    BY <1>0 DEF EntriesFit, Entry, TypeInv, CoreTypes
  <2>3. DeliveredOK(del)
    BY DEF DeliveredOK, TypeInv, CoreTypes
  <2> HIDE DEF e, del
  <2>4. /\ DeliveredOK(delivered') /\ StatusOK(status')
        /\ SlotsFit(ids + 1, active') /\ RunsFit(ids + 1, live')
        /\ EntriesFit(ids + 1, queue')
    BY <1>0, <2>1, <2>2, <2>3, FitsGrow, TypeSplit, StartOrQueueOK
       DEF TypeInv, Fits
  <2>5. RunsFit(ids + 1, stopWaits)
    BY <1>0, FitsGrow DEF TypeInv, Fits
  <2>6. Fits'
    BY <1>6, <2>4, <2>5 DEF SubmitIdle, Fits
  <2>7. CoreTypes'
    <3>1. /\ active' \in [Sessions -> Nat] /\ queue' \subseteq Entry
          /\ delivered' \in [Sessions -> SUBSET Nat]
          /\ status' \in [Sessions -> Status] /\ live' \subseteq Run
      BY <2>4 DEF DeliveredOK, StatusOK, SlotsFit, RunsFit, EntriesFit
    <3>2. sent' \in [Sessions -> Nat] /\ ids' \in Nat
      BY <1>0, <1>6 DEF SubmitIdle, TypeInv, CoreTypes
    <3> QED BY <1>6, <3>1, <3>2 DEF SubmitIdle, TypeInv, CoreTypes
  <2> QED BY <2>6, <2>7 DEF TypeInv
<1> QED BY <1>3, <1>4, <1>5, <1>6 DEF Submit

(* finish frees a slot, queues at most the head of the pending messages    *)
(* under the next id, and dispatches.                                      *)
FinishQueues(g, E) ==
  \/ /\ E = {}
     /\ ids' = ids
     /\ pending' = pending
  \/ /\ pending[g.s] # <<>>
     /\ E = {[s |-> g.s, run |-> ids + 1, msg |-> Head(pending[g.s]).id,
              fresh |-> TRUE]}
     /\ ids' = ids + 1
     /\ pending' = PopPending(g.s)

(* finish in that shape, with the types of what it dispatches from.        *)
LEMMA FinishShape ==
  ASSUME TypeInv, NEW g \in live, NEW modelDown \in BOOLEAN,
         Finish(g, modelDown)
  PROVE  \E E, stat :
           /\ FinishQueues(g, E)
           /\ ids' \in Nat /\ ids <= ids'
           /\ EntriesFit(ids', queue \cup E)
           /\ SlotsFit(ids', [active EXCEPT ![g.s] = NoRun])
           /\ StatusOK(stat)
           /\ RunsFit(ids', live \ {g})
           /\ Dispatch([active EXCEPT ![g.s] = NoRun], queue \cup E, stat,
                       live \ {g})
<1> DEFINE s    == g.s
           unr  == IF modelDown /\ g.run \notin stopReason
                   THEN unreachable \cup {s} ELSE unreachable
           more == pending[s] # <<>> /\ s \notin held \cup unr
           pend == IF more THEN PopPending(s) ELSE pending
           e    == [s |-> s, run |-> ids + 1, msg |-> Head(pending[s]).id,
                    fresh |-> TRUE]
           next == IF more THEN {e} ELSE {}
           act  == [active EXCEPT ![s] = NoRun]
           stat == [status EXCEPT ![s] = EndStatus(s, unr, pend)]
<1>0. s \in Sessions /\ g.run \in Nat
  BY DEF TypeInv, CoreTypes, Run
<1>1. /\ pending' = pend /\ ids' = IF more THEN ids + 1 ELSE ids
      /\ Dispatch(act, queue \cup next, stat, live \ {g})
  BY DEF Finish
<1>2. ids' \in Nat /\ ids \in Nat /\ ids <= ids'
  BY <1>1 DEF TypeInv, CoreTypes
<1>3. EntriesFit(ids', queue \cup next)
  <2>1. EntriesFit(ids', queue)
    BY <1>2, FitsGrow DEF TypeInv, Fits
  <2>2. CASE more
    <3>1. pending[s] \in Seq(Msg) /\ pending[s] # <<>>
      BY <1>0, <2>2 DEF TypeInv, CoreTypes
    <3>2. Head(pending[s]) \in Msg
      BY <3>1
    <3>3. next = {e} /\ ids' = ids + 1
      BY <1>1, <2>2
    <3>4. e \in Entry /\ e.run \in 1..ids'
      BY <1>0, <1>2, <3>2, <3>3 DEF Entry, Msg
    <3> HIDE DEF e, next
    <3> QED BY <2>1, <3>3, <3>4 DEF EntriesFit
  <2>3. CASE ~more
    BY <2>1, <2>3
  <2> QED BY <2>2, <2>3
<1>4. SlotsFit(ids', act)
  BY <1>0, <1>2 DEF TypeInv, CoreTypes, Fits, SlotsFit
<1>5. StatusOK(stat)
  BY <1>0 DEF StatusOK, TypeInv, CoreTypes, EndStatus, Status
<1>6. RunsFit(ids', live \ {g})
  BY <1>2 DEF RunsFit, TypeInv, Fits
<1>7. FinishQueues(g, next)
  <2>1. CASE more
    BY <1>1, <2>1 DEF FinishQueues
  <2>2. CASE ~more
    BY <1>1, <2>2 DEF FinishQueues
  <2> QED BY <2>1, <2>2
<1> HIDE DEF next, stat
<1> QED BY <1>1, <1>2, <1>3, <1>4, <1>5, <1>6, <1>7

(* finish keeps the types.                                                 *)
LEMMA FinishType ==
  ASSUME TypeInv, NEW g \in live, NEW modelDown \in BOOLEAN,
         Finish(g, modelDown)
  PROVE  TypeInv'
<1> USE DEF chatVars, stopVars, runVars, goneVars
<1>0. g.s \in Sessions /\ g.run \in Nat
  BY DEF TypeInv, CoreTypes, Run
<1>1. PICK E, stat :
        /\ FinishQueues(g, E)
        /\ ids' \in Nat /\ ids <= ids'
        /\ EntriesFit(ids', queue \cup E)
        /\ SlotsFit(ids', [active EXCEPT ![g.s] = NoRun])
        /\ StatusOK(stat)
        /\ RunsFit(ids', live \ {g})
        /\ Dispatch([active EXCEPT ![g.s] = NoRun], queue \cup E, stat,
                    live \ {g})
  BY FinishShape
<1>2. pending' \in [Sessions -> Seq(Msg)]
  <2>1. pending \in [Sessions -> Seq(Msg)]
    BY DEF TypeInv, CoreTypes
  <2>2. pending[g.s] # <<>> => Tail(pending[g.s]) \in Seq(Msg)
    BY <1>0, <2>1
  <2>3. pending[g.s] # <<>> => PopPending(g.s) \in [Sessions -> Seq(Msg)]
    BY <1>0, <2>1, <2>2 DEF PopPending
  <2> QED BY <1>1, <2>1, <2>3 DEF FinishQueues
<1>3. RunsFit(ids', stopWaits)
  BY <1>1, FitsGrow DEF TypeInv, CoreTypes, Fits
<1>4. unreachable' \subseteq Sessions
  BY <1>0 DEF Finish, TypeInv, CoreTypes
<1>5. /\ DeliveredOK(delivered') /\ StatusOK(status')
      /\ SlotsFit(ids', active') /\ RunsFit(ids', live')
      /\ EntriesFit(ids', queue')
  BY <1>1, TypeSplit, DispatchOK DEF TypeInv
<1>6. stopped' \subseteq Nat /\ stoppedAgain' \subseteq Nat
  BY <1>0 DEF Finish, PublishStopped, TypeInv, CoreTypes
<1>7. stopReason' \subseteq Nat
  BY DEF Finish, TypeInv, CoreTypes
<1>8. UNCHANGED <<held, sent, dropped, closed, stopWaits, views, gate>>
  BY DEF Finish
<1>9. Fits'
  BY <1>3, <1>5, <1>8 DEF Fits
<1>10. CoreTypes'
  <2>1. /\ active' \in [Sessions -> Nat] /\ queue' \subseteq Entry
        /\ delivered' \in [Sessions -> SUBSET Nat]
        /\ status' \in [Sessions -> Status] /\ live' \subseteq Run
    BY <1>5 DEF DeliveredOK, StatusOK, SlotsFit, RunsFit, EntriesFit
  <2> QED BY <2>1, <1>1, <1>2, <1>4, <1>6, <1>7, <1>8 DEF TypeInv, CoreTypes
<1> QED BY <1>9, <1>10 DEF TypeInv

(* Stop drops queue entries and marks runs; it starts nothing.             *)
LEMMA StopType ==
  ASSUME TypeInv, NEW targets \in SUBSET Sessions, Stop(targets)
  PROVE  TypeInv'
<1> USE DEF chatVars, stopVars, runVars, goneVars
<1> DEFINE running == {s \in targets : active[s] # NoRun}
           found   == running \ gone
           cut     == {e \in queue : e.s \in targets}
           queued  == {e.s : e \in cut}
           hold    == HoldAfterStop(running \cup queued)
<1>1. /\ cut \subseteq queue /\ cut \subseteq Entry /\ running \subseteq Sessions
      /\ found \subseteq Sessions
  BY DEF TypeInv, CoreTypes
<1>2. /\ held' = hold
      /\ status' = [s \in Sessions |->
                      IF s \in queued
                      THEN IF s \in hold THEN "held" ELSE "idle"
                      ELSE IF s \in found THEN "stopping" ELSE status[s]]
      /\ stopReason' = stopReason \cup {active[s] : s \in running}
      /\ stopWaits' = stopWaits \cup {[s |-> s, run |-> active[s]] : s \in found}
      /\ queue' = queue \ cut
      /\ PublishStopped({e.run : e \in cut})
      /\ dropped' = [s \in Sessions |-> dropped[s] \cup FreshMsgs(cut, s)]
      /\ UNCHANGED <<active, pending, unreachable, ids, sent, delivered, closed,
                     live, views, gate>>
  BY DEF Stop
<1>3. held' \subseteq Sessions
  BY <1>1, <1>2 DEF HoldAfterStop, TypeInv, CoreTypes, Entry
<1>4. RunsFit(ids, stopWaits')
  <2>1. \A s \in found : active[s] \in 1..ids
    BY <1>1 DEF TypeInv, CoreTypes, Fits, SlotsFit
  <2> QED BY <1>1, <1>2, <2>1 DEF RunsFit, TypeInv, CoreTypes, Fits, Run
<1>5. stopReason' \subseteq Nat
  BY <1>1, <1>2 DEF TypeInv, CoreTypes
<1>6. stopped' \subseteq Nat /\ stoppedAgain' \subseteq Nat
  <2>1. {e.run : e \in cut} \subseteq Nat
    BY <1>1 DEF Entry
  <2> HIDE DEF cut
  <2> QED BY <1>2, <2>1 DEF PublishStopped, TypeInv, CoreTypes
<1>7. dropped' \in [Sessions -> SUBSET Nat]
  <2>1. \A s \in Sessions : FreshMsgs(cut, s) \subseteq Nat
    BY <1>1 DEF FreshMsgs, Entry
  <2> HIDE DEF cut
  <2> QED BY <1>2, <2>1 DEF TypeInv, CoreTypes
<1>8. status' \in [Sessions -> Status]
  <2> HIDE DEF running, found, cut, queued, hold
  <2> QED BY <1>2 DEF TypeInv, CoreTypes, Status
<1>9. EntriesFit(ids, queue')
  BY <1>2 DEF TypeInv, Fits, EntriesFit
<1> HIDE DEF running, found, cut, queued, hold
<1>10. Fits'
  BY <1>2, <1>4, <1>9 DEF TypeInv, Fits
<1>11. CoreTypes'
  <2>1. queue' \subseteq Entry /\ stopWaits' \subseteq Run
    BY <1>4, <1>9 DEF EntriesFit, RunsFit
  <2> QED BY <1>2, <1>3, <1>5, <1>6, <1>7, <1>8, <2>1 DEF TypeInv, CoreTypes
<1> QED BY <1>10, <1>11 DEF TypeInv

(* forceFinish frees a slot and dispatches, unless it lost the race.       *)
LEMMA ForceFinishType ==
  ASSUME TypeInv, NEW w \in stopWaits, ForceFinish(w)
  PROVE  TypeInv'
<1> USE DEF chatVars, stopVars, runVars, goneVars
<1>0. w.s \in Sessions /\ w.run \in Nat /\ ids \in Nat
  BY DEF TypeInv, CoreTypes, Run
<1>1. /\ stopWaits' = stopWaits \ {w}
      /\ UNCHANGED <<pending, held, unreachable, ids, sent, dropped, closed,
                     stopReason, views, gate>>
  BY DEF ForceFinish
<1>2. CASE active[w.s] = w.run /\ w.s \notin gone
  <2> DEFINE act  == [active EXCEPT ![w.s] = NoRun]
             stat == [status EXCEPT ![w.s] = EndStatus(w.s, unreachable, pending)]
  <2>1. Dispatch(act, queue, stat, live) /\ PublishStopped({w.run})
    BY <1>2 DEF ForceFinish
  <2>2. SlotsFit(ids, act)
    BY <1>0 DEF TypeInv, CoreTypes, Fits, SlotsFit
  <2>3. StatusOK(stat)
    BY <1>0 DEF StatusOK, TypeInv, CoreTypes, EndStatus, Status
  <2> HIDE DEF act, stat
  <2>4. /\ DeliveredOK(delivered') /\ StatusOK(status')
        /\ SlotsFit(ids, active') /\ RunsFit(ids, live')
        /\ EntriesFit(ids, queue')
    BY <1>0, <2>1, <2>2, <2>3, TypeSplit, DispatchOK DEF TypeInv, Fits
  <2>5. stopped' \subseteq Nat /\ stoppedAgain' \subseteq Nat
    BY <1>0, <2>1 DEF PublishStopped, TypeInv, CoreTypes
  <2>6. Fits'
    BY <1>1, <2>4 DEF TypeInv, Fits, RunsFit
  <2>7. CoreTypes'
    <3>1. /\ active' \in [Sessions -> Nat] /\ queue' \subseteq Entry
          /\ delivered' \in [Sessions -> SUBSET Nat]
          /\ status' \in [Sessions -> Status] /\ live' \subseteq Run
      BY <2>4 DEF DeliveredOK, StatusOK, SlotsFit, RunsFit, EntriesFit
    <3> QED BY <1>1, <2>5, <3>1 DEF TypeInv, CoreTypes
  <2> QED BY <2>6, <2>7 DEF TypeInv
<1>3. CASE active[w.s] # w.run
  <2>1. UNCHANGED <<active, queue, delivered, status, live, stopped, stoppedAgain>>
    BY <1>3 DEF ForceFinish
  <2> QED BY <1>1, <2>1 DEF TypeInv, CoreTypes, Fits, RunsFit
<1>4. CASE active[w.s] = w.run /\ w.s \in gone
  <2>1. /\ active' = [active EXCEPT ![w.s] = NoRun]
        /\ UNCHANGED <<queue, delivered, status, live, stopped, stoppedAgain>>
    BY <1>4 DEF ForceFinish
  <2> QED BY <1>0, <1>1, <2>1
          DEF TypeInv, CoreTypes, Fits, RunsFit, SlotsFit
<1> QED BY <1>2, <1>3, <1>4

(* The entries of E are the heads of the pending messages that the step    *)
(* removes, at most one for a session.                                     *)
Takes(E) ==
  \A s \in Sessions :
    \/ pending'[s] = pending[s] /\ \A e \in E : e.s # s
    \/ /\ pending[s] # <<>>
       /\ pending'[s] = Tail(pending[s])
       /\ \E e \in E : /\ e.s = s /\ e.msg = Head(pending[s]).id
                       /\ e.fresh = TRUE
                       /\ \A f \in E : f.s = s => f = e

(* ReleaseModel takes one pending message of every ready session: it       *)
(* starts some of them and queues the others, under new, distinct ids.     *)
ReleaseStarts(started, waiting, stat) ==
  /\ StartLocked(started, active, stat, live, delivered)
  /\ queue' = queue \cup waiting
  /\ EntriesFit(ids', started \cup waiting)
  /\ \A e \in started \cup waiting : e.run \in (ids + 1)..ids'
  /\ \A e, f \in started \cup waiting : e.run = f.run => e = f
  /\ started \cap waiting = {}
  /\ StatusOK(stat)
  /\ Takes(started \cup waiting)

(* ReleaseModel in that shape.                                             *)
LEMMA ReleaseShape ==
  ASSUME TypeInv, NEW p \in Profiles, ReleaseModel(p)
  PROVE  /\ ids' \in Nat /\ ids <= ids'
         /\ pending' \in [Sessions -> Seq(Msg)]
         /\ \E started, waiting, stat : ReleaseStarts(started, waiting, stat)
<1> DEFINE released == {s \in unreachable \ gone : ServerOf[s] = p}
           ready    == {s \in released : Ready(s)}
           n        == Cardinality(ready)
           stat     == [s \in Sessions |->
                          IF s \in ready THEN "queued" ELSE status[s]]
<1>0. released \subseteq Sessions /\ ready \subseteq Sessions
  BY DEF TypeInv, CoreTypes
<1>1. n \in Nat
  BY <1>0, ConstantsAssumption, FS_Subset, FS_CardinalityType
<1>2. ids' = ids + n /\ ids \in Nat /\ ids + n \in Nat /\ ids <= ids + n
  BY <1>1 DEF ReleaseModel, TypeInv, CoreTypes
<1>3. PICK order \in [ready -> 1..n] :
        /\ \A s, t \in ready : s # t => order[s] # order[t]
        /\ LET entry(s) == [s |-> s, run |-> ids + order[s],
                            msg |-> Head(pending[s]).id, fresh |-> TRUE]
               first    == {s \in ready : Slots(active) + order[s] <= MaxConcurrent}
           IN  /\ StartLocked({entry(s) : s \in first}, active, stat, live,
                              delivered)
               /\ queue' = queue \cup {entry(s) : s \in ready \ first}
  BY DEF ReleaseModel
<1> DEFINE entry(s) == [s |-> s, run |-> ids + order[s],
                        msg |-> Head(pending[s]).id, fresh |-> TRUE]
           first    == {s \in ready : Slots(active) + order[s] <= MaxConcurrent}
           started  == {entry(s) : s \in first}
           waiting  == {entry(s) : s \in ready \ first}
<1>4. /\ StartLocked(started, active, stat, live, delivered)
      /\ queue' = queue \cup waiting
  BY <1>3
<1>5. \A s \in ready : Tail(pending[s]) \in Seq(Msg) /\ Head(pending[s]) \in Msg
  <2> TAKE s \in ready
  <2>1. pending[s] \in Seq(Msg) /\ pending[s] # <<>>
    BY <1>0 DEF Ready, TypeInv, CoreTypes
  <2> QED BY <2>1
<1>6. \A s \in ready : order[s] \in 1..n /\ order[s] \in Nat
  <2> HIDE DEF ready, n
  <2>1. order \in [ready -> 1..n]
    BY <1>3
  <2> QED BY <1>1, <2>1
<1>7. pending' \in [Sessions -> Seq(Msg)]
  <2>1. pending' = [s \in Sessions |->
                      IF s \in ready THEN Tail(pending[s]) ELSE pending[s]]
    BY DEF ReleaseModel
  <2> HIDE DEF ready
  <2> QED BY <1>5, <2>1 DEF TypeInv, CoreTypes
<1>8. StatusOK(stat)
  <2> HIDE DEF ready
  <2> QED BY DEF StatusOK, TypeInv, CoreTypes, Status
<1> HIDE DEF released, ready, n, stat
<1>9. \A s \in ready : entry(s) \in Entry /\ entry(s).run \in (ids + 1)..ids'
  <2> TAKE s \in ready
  <2>1. s \in Sessions /\ Head(pending[s]).id \in Nat
    BY <1>0, <1>5 DEF Msg
  <2>2. ids + order[s] \in (ids + 1)..ids' /\ ids + order[s] \in Nat
    BY <1>1, <1>2, <1>6
  <2> QED BY <2>1, <2>2 DEF Entry
<1>10. \A s, t \in ready : entry(s).run = entry(t).run => s = t
  <2> TAKE s, t \in ready
  <2>1. entry(s).run = ids + order[s] /\ entry(t).run = ids + order[t]
    OBVIOUS
  <2> QED BY <1>2, <1>3, <1>6, <2>1
<1>11. Takes(started \cup waiting)
  <2>1. pending' = [s \in Sessions |->
                      IF s \in ready THEN Tail(pending[s]) ELSE pending[s]]
    BY DEF ReleaseModel, ready, released
  <2>2. \A s \in ready : pending[s] # <<>>
    BY DEF ready, Ready
  <2>3. \A s \in ready : /\ entry(s).s = s /\ entry(s).fresh = TRUE
                         /\ entry(s).msg = Head(pending[s]).id
    OBVIOUS
  <2>4. /\ \A e \in started \cup waiting : \E s \in ready : e = entry(s)
        /\ \A s \in ready : entry(s) \in started \cup waiting
    OBVIOUS
  <2> HIDE DEF entry, started, waiting
  <2> SUFFICES ASSUME NEW s \in Sessions
               PROVE
    \/ pending'[s] = pending[s] /\ \A e \in started \cup waiting : e.s # s
    \/ /\ pending[s] # <<>>
       /\ pending'[s] = Tail(pending[s])
       /\ \E e \in started \cup waiting :
            /\ e.s = s /\ e.msg = Head(pending[s]).id
            /\ e.fresh = TRUE
            /\ \A f \in started \cup waiting : f.s = s => f = e
    BY DEF Takes
  <2>5. CASE s \in ready
    <3>1. pending'[s] = Tail(pending[s]) /\ pending[s] # <<>>
      BY <2>1, <2>2, <2>5
    <3>2. \A f \in started \cup waiting : f.s = s => f = entry(s)
      BY <2>3, <2>4
    <3> QED BY <2>3, <2>4, <2>5, <3>1, <3>2
  <2>6. CASE s \notin ready
    <3>1. pending'[s] = pending[s]
      BY <2>1, <2>6
    <3> QED BY <2>3, <2>4, <2>6, <3>1
  <2> QED BY <2>5, <2>6
<1> HIDE DEF entry
<1>12. \A e \in started \cup waiting :
         e \in Entry /\ e.run \in (ids + 1)..ids' /\ e.run \in 1..ids'
  BY <1>2, <1>9
<1>13. \A e, f \in started \cup waiting : e.run = f.run => e = f
  BY <1>10
<1>14. started \cap waiting = {}
  BY <1>10
<1> HIDE DEF started, waiting
<1>15. ReleaseStarts(started, waiting, stat)
  BY <1>4, <1>8, <1>12, <1>13, <1>14, <1>11 DEF ReleaseStarts, EntriesFit
<1> QED BY <1>2, <1>7, <1>15

(* ReleaseModel keeps the types.                                           *)
LEMMA ReleaseModelType ==
  ASSUME TypeInv, NEW p \in Profiles, ReleaseModel(p)
  PROVE  TypeInv'
<1> USE DEF chatVars, stopVars, runVars, goneVars
<1>1. /\ ids' \in Nat /\ ids <= ids' /\ ids \in Nat
      /\ pending' \in [Sessions -> Seq(Msg)]
  BY ReleaseShape DEF TypeInv, CoreTypes
<1>2. PICK started, waiting, stat : ReleaseStarts(started, waiting, stat)
  BY ReleaseShape
<1>3. EntriesFit(ids', started) /\ EntriesFit(ids', waiting)
  BY <1>2 DEF ReleaseStarts, EntriesFit
<1>4. EntriesFit(ids', queue')
  <2>1. EntriesFit(ids', queue)
    BY <1>1, FitsGrow DEF TypeInv, Fits
  <2> QED BY <1>2, <1>3, <2>1 DEF EntriesFit, ReleaseStarts
<1>5. /\ DeliveredOK(delivered') /\ StatusOK(status')
      /\ SlotsFit(ids', active') /\ RunsFit(ids', live')
  BY <1>1, <1>2, <1>3, FitsGrow, TypeSplit, StartLockedOK
     DEF TypeInv, Fits, ReleaseStarts
<1>6. RunsFit(ids', stopWaits)
  BY <1>1, FitsGrow DEF TypeInv, Fits
<1>7. /\ unreachable' \subseteq Sessions
      /\ UNCHANGED <<held, sent, dropped, stopped, stoppedAgain, closed,
                     stopReason, stopWaits, views, gate>>
  BY DEF ReleaseModel, TypeInv, CoreTypes
<1>8. Fits'
  BY <1>4, <1>5, <1>6, <1>7 DEF Fits
<1>9. CoreTypes'
  <2>1. /\ active' \in [Sessions -> Nat] /\ queue' \subseteq Entry
        /\ delivered' \in [Sessions -> SUBSET Nat]
        /\ status' \in [Sessions -> Status] /\ live' \subseteq Run
    BY <1>4, <1>5 DEF DeliveredOK, StatusOK, SlotsFit, RunsFit, EntriesFit
  <2> QED BY <1>1, <1>7, <2>1 DEF TypeInv, CoreTypes
<1> QED BY <1>8, <1>9 DEF TypeInv

(* The steps that touch neither slots nor queue.                           *)
LEMMA RunCallType ==
  ASSUME TypeInv, NEW g \in live,
         FinishLate(g) \/ TurnReads(g) \/ GatePauses(g)
  PROVE  TypeInv'
<1> USE DEF chatVars, stopVars, runVars, goneVars
<1>0. g.s \in Sessions /\ g.run \in Nat
  BY DEF TypeInv, CoreTypes, Run
<1>1. CASE FinishLate(g)
  BY <1>1 DEF FinishLate, TypeInv, CoreTypes, Fits, RunsFit
<1>2. CASE TurnReads(g)
  <2>1. views' \subseteq View
    BY <1>0, <1>2 DEF TurnReads, View, TypeInv, CoreTypes
  <2> QED BY <1>2, <2>1 DEF TurnReads, TypeInv, CoreTypes, Fits
<1>3. CASE GatePauses(g)
  <2>1. \A x \in Wait : [x EXCEPT !.at = "superseded"] \in Wait
    BY DEF Wait
  <2>2. gate \subseteq Wait
    BY DEF TypeInv, CoreTypes
  <2>3. [s |-> g.s, run |-> g.run, at |-> "waiting"] \in Wait
    BY <1>0 DEF Wait
  <2>4. gate' \subseteq Wait
    BY <1>3, <2>1, <2>2, <2>3 DEF GatePauses
  <2>5. status' \in [Sessions -> Status]
    BY <1>0, <1>3 DEF GatePauses, Status, TypeInv, CoreTypes
  <2> QED BY <1>3, <2>4, <2>5 DEF GatePauses, TypeInv, CoreTypes, Fits
<1> QED BY <1>1, <1>2, <1>3

(* The status writes of a run (turn, gate) keep the types.                 *)
LEMMA StatusWriteType ==
  ASSUME TypeInv,
         \/ \E v \in views : TurnWrites(v)
         \/ \E x \in gate : Decide(x) \/ GateReturns(x)
  PROVE  TypeInv'
<1> USE DEF chatVars, stopVars, runVars, goneVars
<1>1. CASE \E v \in views : TurnWrites(v)
  <2>1. status' \in [Sessions -> Status] /\ views' \subseteq View
    BY <1>1 DEF TurnWrites, View, TypeInv, CoreTypes
  <2> QED BY <1>1, <2>1 DEF TurnWrites, TypeInv, CoreTypes, Fits
<1>2. CASE \E x \in gate : Decide(x) \/ GateReturns(x)
  <2>1. \A x \in Wait : [x EXCEPT !.at = "decided"] \in Wait
    BY DEF Wait
  <2>2. gate \subseteq Wait
    BY DEF TypeInv, CoreTypes
  <2>3. gate' \subseteq Wait
    BY <1>2, <2>1, <2>2 DEF Decide, GateReturns
  <2>4. status' \in [Sessions -> Status]
    BY <1>2 DEF Decide, GateReturns, Wait, Status, TypeInv, CoreTypes
  <2> QED BY <1>2, <2>3, <2>4 DEF Decide, GateReturns, TypeInv, CoreTypes, Fits
<1> QED BY <1>1, <1>2

(* Every step keeps the types and the bound on the run ids.                *)
LEMMA TypeStep ==
  ASSUME TypeInv, [Next]_vars
  PROVE  TypeInv'
<1> USE DEF chatVars, stopVars, runVars, goneVars
<1>1. CASE OperatorStep
  <2>1. CASE \E s \in Sessions, text \in Texts : Submit(s, text)
    BY <2>1, SubmitType
  <2>2. CASE \E s \in Sessions : Stop({s})
    BY <2>2, StopType
  <2>3. CASE Stop(Sessions)
    BY <2>3, StopType
  <2>4. CASE \E s \in Sessions : RegistryStep(s)
    BY <2>4 DEF RegistryStep, Close, Reopen, DeleteChecks, DeleteEnds, TypeInv,
                CoreTypes, Fits
  <2>5. CASE \E x \in gate : Decide(x)
    BY <2>5, StatusWriteType
  <2> QED BY <1>1, <2>1, <2>2, <2>3, <2>4, <2>5 DEF OperatorStep, RegistryStep
<1>2. CASE \E w \in stopWaits : StopStep(w)
  <2>1. PICK w \in stopWaits : StopStep(w)
    BY <1>2
  <2>2. CASE StopReturns(w)
    BY <2>2 DEF StopReturns, TypeInv, CoreTypes, Fits, RunsFit
  <2>3. CASE ForceFinish(w)
    BY <2>3, ForceFinishType
  <2> QED BY <2>1, <2>2, <2>3 DEF StopStep
<1>3. CASE \E g \in live : RunStep(g)
  <2>1. PICK g \in live : RunStep(g)
    BY <1>3
  <2>2. CASE \E modelDown \in BOOLEAN : Finish(g, modelDown)
    BY <2>2, FinishType
  <2>3. CASE FinishLate(g) \/ TurnReads(g) \/ GatePauses(g)
    BY <2>3, RunCallType
  <2>4. CASE \/ \E v \in views : TurnWrites(v)
             \/ \E x \in gate : GateReturns(x)
    BY <2>4, StatusWriteType
  <2> QED BY <2>1, <2>2, <2>3, <2>4 DEF RunStep
<1>4. CASE ModelStep
  <2>1. CASE \E s \in Sessions : HoldModel(s)
    BY <2>1 DEF HoldModel, TypeInv, CoreTypes, Fits
  <2>2. CASE \E p \in Profiles : ReleaseModel(p)
    BY <2>2, ReleaseModelType
  <2> QED BY <1>4, <2>1, <2>2 DEF ModelStep
<1>5. CASE UNCHANGED vars
  BY <1>5 DEF vars, TypeInv, CoreTypes, Fits
<1>9. CASE \E b \in blind : BlindStep(b)
  BY <1>9 DEF BlindStep, BlindReturns, StopDies, TypeInv, CoreTypes, Fits, RunsFit
<1> QED BY <1>9, <1>1, <1>2, <1>3, <1>4, <1>5 DEF Next

(* What the deletions of sessions leave behind keeps its types.            *)
LEMMA RegistryTypesStep ==
  ASSUME TypeInv, RegistryTypes, [Next]_vars
  PROVE  RegistryTypes'
<1> USE DEF chatVars, stopVars, runVars, goneVars
<1>0. ASSUME UNCHANGED goneVars PROVE RegistryTypes'
  BY <1>0 DEF RegistryTypes
<1>1. CASE OperatorStep
  <2>1. CASE \E s \in Sessions, text \in Texts : Submit(s, text)
    BY <1>0, <2>1 DEF Submit, SubmitUnreachable, SubmitHeld, SubmitBusy,
       SubmitIdle
  <2>2. ASSUME NEW targets \in SUBSET Sessions, Stop(targets)
        PROVE  RegistryTypes'
    <3> DEFINE running == {s \in targets : active[s] # NoRun}
               waits   == {[s |-> s, run |-> active[s]] : s \in running \ gone}
    <3>1. /\ blind' = blind \cup {[s |-> s, run |-> active[s], rest |-> waits] :
                                   s \in running \ (running \ gone)}
          /\ UNCHANGED <<deleting, gone, unfilled, lost>>
      BY <2>2 DEF Stop
    <3>2. \A s \in running : s \in Sessions /\ active[s] \in Nat
      BY DEF TypeInv, CoreTypes
    <3>3. waits \in SUBSET Run
      BY <3>2 DEF Run
    <3> HIDE DEF running, waits
    <3>4. blind' \subseteq Blind
      BY <3>1, <3>2, <3>3 DEF RegistryTypes, Blind
    <3> QED BY <3>1, <3>4 DEF RegistryTypes
  <2>3. CASE \E s \in Sessions : RegistryStep(s)
    BY <2>3 DEF RegistryStep, Close, Reopen, DeleteChecks, DeleteEnds,
       RegistryTypes
  <2>4. CASE \E x \in gate : Decide(x)
    BY <1>0, <2>4 DEF Decide
  <2> QED BY <1>1, <2>1, <2>2, <2>3, <2>4 DEF OperatorStep, RegistryStep
<1>2. CASE \E w \in stopWaits : StopStep(w)
  BY <1>2 DEF StopStep, StopReturns, ForceFinish, RegistryTypes
<1>3. CASE \E b \in blind : BlindStep(b)
  <2>1. stopWaits \subseteq Run
    BY DEF TypeInv, CoreTypes
  <2> QED BY <1>3, <2>1 DEF BlindStep, BlindReturns, StopDies, RegistryTypes
<1>4. CASE \E g \in live : RunStep(g)
  <2>1. PICK g \in live : RunStep(g)
    BY <1>4
  <2>2. CASE \E modelDown \in BOOLEAN : Finish(g, modelDown)
    <3>1. unfilled' = 0 /\ UNCHANGED <<deleting, gone, blind, lost>>
      BY <2>2 DEF Finish
    <3> QED BY <3>1 DEF RegistryTypes
  <2>3. CASE FinishLate(g) \/ TurnReads(g) \/ GatePauses(g)
    BY <1>0, <2>3 DEF FinishLate, TurnReads, GatePauses
  <2>4. CASE \/ \E v \in views : TurnWrites(v)
             \/ \E x \in gate : GateReturns(x)
    BY <1>0, <2>4 DEF TurnWrites, GateReturns
  <2> QED BY <2>1, <2>2, <2>3, <2>4 DEF RunStep
<1>5. CASE ModelStep
  BY <1>0, <1>5 DEF ModelStep, HoldModel, ReleaseModel
<1>6. CASE UNCHANGED vars
  BY <1>0, <1>6 DEF vars
<1> QED BY <1>1, <1>2, <1>3, <1>4, <1>5, <1>6 DEF Next

(* Every variable keeps its type: the slot map, the queue, the holds and   *)
(* the message books of the scheduler, for any sessions, slots and depth.  *)
THEOREM TypeCorrect == Spec => []TypeOK
<1>1. Init => RegistryTypes
  BY DEF Init, RegistryTypes
<1>2. Spec => [](TypeInv /\ RegistryTypes)
  BY TypeInit, <1>1, TypeStep, RegistryTypesStep, PTL DEF Spec
<1>3. TypeInv /\ RegistryTypes => TypeOK
  BY DEF TypeInv, TypeOK
<1> QED BY <1>2, <1>3, PTL

----------------------------------------------------------------------------
(* The run ledger.  Ledger states RunLedger of any slot map, queue, set of *)
(* stopped runs and id counter, so that a step of the scheduler is a       *)
(* sequence of the moves below: append to the queue, start from the queue, *)
(* free a slot, cut the queue.                                             *)

Ledger(act, q, stp, n) ==
  /\ \A e, f \in q : e.run = f.run => e = f
  /\ \A e \in q : e.run \in 1..n /\ e.run \notin stp
  /\ \A e \in q, s \in Sessions : act[s] # e.run
  /\ \A s, t \in Sessions : act[s] = act[t] /\ act[s] # NoRun => s = t
  /\ \A s \in Sessions : act[s] <= n /\ act[s] \notin stp
  /\ \A r \in stp : r \in 1..n

(* Appending runs with new, distinct ids.                                  *)
LEMMA AppendLedger ==
  ASSUME NEW n \in Nat, NEW m \in Nat, n <= m,
         NEW act, SlotsFit(n, act), NEW q, EntriesFit(n, q), NEW stp,
         Ledger(act, q, stp, n),
         NEW E, \A e \in E : e.run \in (n + 1)..m,
         \A e, f \in E : e.run = f.run => e = f
  PROVE  Ledger(act, q \cup E, stp, m)
<1>1. \A e \in E : e.run \in Nat /\ e.run > n /\ e.run \in 1..m
  OBVIOUS
<1>2. \A e \in q : e.run \in Nat /\ e.run <= n /\ e.run \in 1..m
  BY DEF Ledger
<1>3. \A r \in stp : r \in Nat /\ r <= n /\ r \in 1..m
  BY DEF Ledger
<1>4. \A s \in Sessions : act[s] \in Nat /\ act[s] <= n /\ act[s] <= m
  BY DEF SlotsFit
<1>5. \A e, f \in q \cup E : e.run = f.run => e = f
  BY <1>1, <1>2 DEF Ledger
<1>6. \A e \in q \cup E : e.run \in 1..m /\ e.run \notin stp
  BY <1>1, <1>2, <1>3 DEF Ledger
<1>7. \A e \in q \cup E, s \in Sessions : act[s] # e.run
  BY <1>1, <1>4 DEF Ledger
<1> QED BY <1>3, <1>4, <1>5, <1>6, <1>7 DEF Ledger

(* Starting runs of the queue, also over the slot of an earlier run.       *)
LEMMA StartLedger ==
  ASSUME NEW n, NEW act, NEW act2, NEW q, NEW stp, NEW started \in SUBSET q,
         Ledger(act, q, stp, n), SlotsFrom(act, started, act2),
         EntriesFit(n, q), n \in Nat
  PROVE  Ledger(act2, q \ started, stp, n)
<1>1. \A e \in q \ started, s \in Sessions : act2[s] # e.run
  BY DEF Ledger, SlotsFrom
<1>2. \A s, t \in Sessions : act2[s] = act2[t] /\ act2[s] # NoRun => s = t
  BY DEF Ledger, SlotsFrom
<1>3. \A s \in Sessions : act2[s] <= n /\ act2[s] \notin stp
  BY DEF Ledger, SlotsFrom
<1> QED BY <1>1, <1>2, <1>3 DEF Ledger

(* Freeing the slot of a session and publishing run.stopped for its run.   *)
LEMMA FreeLedger ==
  ASSUME NEW n \in Nat, NEW act, SlotsFit(n, act), NEW q, NEW stp,
         Ledger(act, q, stp, n), NEW s \in Sessions, act[s] \in 1..n
  PROVE  Ledger([act EXCEPT ![s] = NoRun], q, stp \cup {act[s]}, n)
<1> DEFINE free == [act EXCEPT ![s] = NoRun]
<1>1. \A t \in Sessions : free[t] = IF t = s THEN 0 ELSE act[t]
  BY DEF SlotsFit
<1>2. \A t \in Sessions : free[t] <= n /\ free[t] \notin stp \cup {act[s]}
  BY <1>1 DEF Ledger
<1>3. \A t, u \in Sessions : free[t] = free[u] /\ free[t] # NoRun => t = u
  BY <1>1 DEF Ledger
<1>4. \A e \in q : e.run \in 1..n /\ e.run \notin stp \cup {act[s]}
  BY DEF Ledger
<1>5. \A e \in q, t \in Sessions : free[t] # e.run
  BY <1>1 DEF Ledger
<1> HIDE DEF free
<1>6. Ledger(free, q, stp \cup {act[s]}, n)
  BY <1>2, <1>3, <1>4, <1>5 DEF Ledger
<1> QED BY <1>6 DEF free

(* Cutting runs out of the queue and publishing run.stopped for them.      *)
LEMMA CutLedger ==
  ASSUME NEW n, NEW act, NEW q, NEW stp, NEW cut \in SUBSET q,
         Ledger(act, q, stp, n)
  PROVE  Ledger(act, q \ cut, stp \cup {e.run : e \in cut}, n)
BY DEF Ledger

(* The dispatch loop moves runs from the queue to slots.                   *)
LEMMA DispatchLedger ==
  ASSUME NEW n \in Nat, NEW q, EntriesFit(n, q), NEW act, SlotsFit(n, act),
         NEW stat, StatusOK(stat), NEW lv, RunsFit(n, lv),
         DeliveredOK(delivered), NEW stp, Ledger(act, q, stp, n),
         Dispatch(act, q, stat, lv)
  PROVE  Ledger(active', queue', stp, n)
<1>1. PICK started \in SUBSET q :
        /\ StartLocked(started, act, stat, lv, delivered)
        /\ queue' = q \ started
  BY DEF Dispatch
<1>2. EntriesFit(n, started)
  BY <1>1 DEF EntriesFit
<1>3. SlotsFrom(act, started, active')
  BY <1>1, <1>2, StartLockedOK
<1> QED BY <1>1, <1>3, StartLedger

(* A submission places one new run in a slot or in the queue.              *)
LEMMA StartOrQueueLedger ==
  ASSUME TypeInv, NEW e, EntriesFit(ids + 1, {e}), e.run = ids + 1,
         Ledger(active, queue, stopped, ids),
         NEW del, DeliveredOK(del), StartOrQueue(e, del)
  PROVE  Ledger(active', queue', stopped, ids + 1)
<1>0. ids \in Nat /\ ids + 1 \in Nat /\ ids <= ids + 1
  BY DEF TypeInv, CoreTypes
<1>1. Ledger(active, queue \cup {e}, stopped, ids + 1)
  <2>1. \A x \in {e} : x.run \in (ids + 1)..(ids + 1)
    BY <1>0
  <2>2. SlotsFit(ids, active) /\ EntriesFit(ids, queue)
    BY DEF TypeInv, Fits
  <2> QED BY <1>0, <2>1, <2>2, AppendLedger
<1>2. SlotsFit(ids + 1, active) /\ RunsFit(ids + 1, live) /\ StatusOK(status)
  BY <1>0, FitsGrow, TypeSplit DEF TypeInv, Fits
<1>3. CASE StartLocked({e}, active, status, live, del) /\ UNCHANGED queue
  <2>1. SlotsFrom(active, {e}, active')
    BY <1>0, <1>2, <1>3, StartLockedOK
  <2>2. EntriesFit(ids + 1, queue \cup {e})
    BY <1>0, FitsGrow DEF TypeInv, Fits, EntriesFit
  <2>3. Ledger(active', (queue \cup {e}) \ {e}, stopped, ids + 1)
    BY <1>0, <1>1, <2>1, <2>2, StartLedger
  <2>4. e \notin queue
    BY <1>0 DEF TypeInv, Fits, EntriesFit
  <2>5. (queue \cup {e}) \ {e} = queue'
    BY <1>3, <2>4
  <2> QED BY <2>3, <2>5
<1>4. CASE queue' = queue \cup {e} /\ UNCHANGED active
  BY <1>1, <1>4
<1> QED BY <1>3, <1>4 DEF StartOrQueue

(* RunLedger is the ledger of the current state,                           *)
LEMMA LedgerParts ==
  RunLedger <=> Ledger(active, queue, stopped, ids) /\ stoppedAgain = {}
BY DEF RunLedger, Ledger

(* and RunLedger' that of the next one.                                    *)
LEMMA LedgerPartsNext ==
  RunLedger' <=> Ledger(active', queue', stopped', ids') /\ stoppedAgain' = {}
BY DEF RunLedger, Ledger

(* A submission keeps the run ledger.                                      *)
LEMMA SubmitLedger ==
  ASSUME TypeInv, RunLedger, NEW s \in Sessions, NEW text \in Texts,
         Submit(s, text)
  PROVE  RunLedger'
<1> USE DEF chatVars, stopVars, runVars, goneVars
<1>0. ids \in Nat
  BY DEF TypeInv, CoreTypes
<1>1. CASE SubmitUnreachable(s, text) \/ SubmitBusy(s, text)
  BY <1>1, LedgerParts, LedgerPartsNext DEF SubmitUnreachable, SubmitBusy
<1>2. CASE SubmitHeld(s, text)
  <2> DEFINE waitList == Append(pending[s], NextMsg(s, text))
             e == [s |-> s, run |-> ids + 1, msg |-> Head(waitList).id,
                   fresh |-> TRUE]
  <2>1. StartOrQueue(e, delivered)
    BY <1>2 DEF SubmitHeld
  <2>2. NextMsg(s, text) \in Msg
    BY DEF NextMsg, Msg, TypeInv, CoreTypes
  <2>3. Head(waitList) \in Msg
    <3>1. pending[s] \in Seq(Msg)
      BY DEF TypeInv, CoreTypes
    <3> QED BY <2>2, <3>1, AppendSplit
  <2>4. EntriesFit(ids + 1, {e}) /\ e.run = ids + 1
    BY <1>0, <2>3 DEF EntriesFit, Entry, Msg
  <2> HIDE DEF e, waitList
  <2>5. Ledger(active', queue', stopped, ids + 1)
    BY <2>1, <2>4, TypeSplit, LedgerParts, StartOrQueueLedger DEF TypeInv
  <2> QED BY <1>2, <2>5, LedgerParts, LedgerPartsNext DEF SubmitHeld
<1>3. CASE SubmitIdle(s, text)
  <2> DEFINE e == [s |-> s, run |-> ids + 1, msg |-> sent[s] + 1,
                   fresh |-> FALSE]
             del == [delivered EXCEPT ![s] = @ \cup {sent[s] + 1}]
  <2>1. StartOrQueue(e, del)
    BY <1>3 DEF SubmitIdle
  <2>2. EntriesFit(ids + 1, {e}) /\ e.run = ids + 1
    BY <1>0 DEF EntriesFit, Entry, TypeInv, CoreTypes
  <2>3. DeliveredOK(del)
    BY DEF DeliveredOK, TypeInv, CoreTypes
  <2> HIDE DEF e, del
  <2>4. Ledger(active', queue', stopped, ids + 1)
    BY <2>1, <2>2, <2>3, LedgerParts, StartOrQueueLedger
  <2> QED BY <1>3, <2>4, LedgerParts, LedgerPartsNext DEF SubmitIdle
<1> QED BY <1>1, <1>2, <1>3 DEF Submit

(* finish of the owner of a slot keeps the run ledger.                     *)
LEMMA FinishLedger ==
  ASSUME TypeInv, RunLedger, NEW g \in live, NEW modelDown \in BOOLEAN,
         Finish(g, modelDown)
  PROVE  RunLedger'
<1> DEFINE free == [active EXCEPT ![g.s] = NoRun]
<1>0. /\ g.s \in Sessions /\ g.run \in 1..ids /\ active[g.s] = g.run
      /\ ids \in Nat
  BY DEF TypeInv, CoreTypes, Fits, RunsFit, Run, Finish
<1>1. PICK E, stat :
        /\ FinishQueues(g, E)
        /\ ids' \in Nat /\ ids <= ids'
        /\ EntriesFit(ids', queue \cup E)
        /\ SlotsFit(ids', free)
        /\ StatusOK(stat)
        /\ RunsFit(ids', live \ {g})
        /\ Dispatch(free, queue \cup E, stat, live \ {g})
  BY FinishShape
<1>2. Ledger(active, queue, stopped, ids) /\ stoppedAgain = {}
  BY LedgerParts
<1>3. stopped' = stopped \cup {g.run} /\ stoppedAgain' = {}
  BY <1>0, <1>2 DEF Finish, PublishStopped, Ledger
<1>4. SlotsFit(ids, active) /\ EntriesFit(ids, queue)
  BY DEF TypeInv, Fits
<1>5. Ledger(free, queue, stopped', ids)
  BY <1>0, <1>2, <1>3, <1>4, FreeLedger
<1>6. SlotsFit(ids, free)
  BY <1>0, <1>4 DEF SlotsFit
<1>7. \A e \in E : e.run \in (ids + 1)..ids'
  BY <1>0, <1>1 DEF FinishQueues
<1>8. \A e, f \in E : e.run = f.run => e = f
  BY <1>1 DEF FinishQueues
<1> HIDE DEF free
<1>9. Ledger(free, queue \cup E, stopped', ids')
  BY <1>0, <1>1, <1>4, <1>5, <1>6, <1>7, <1>8, AppendLedger
<1>10. Ledger(active', queue', stopped', ids')
  BY <1>1, <1>9, TypeSplit, DispatchLedger DEF TypeInv
<1> QED BY <1>3, <1>10, LedgerPartsNext

(* forceFinish keeps the run ledger, whoever owns the slot by now.         *)
LEMMA ForceFinishLedger ==
  ASSUME TypeInv, RunLedger, NEW w \in stopWaits, ForceFinish(w)
  PROVE  RunLedger'
<1> USE DEF stopVars
<1> DEFINE free == [active EXCEPT ![w.s] = NoRun]
           stat == [status EXCEPT ![w.s] = EndStatus(w.s, unreachable, pending)]
<1>0. w.s \in Sessions /\ w.run \in 1..ids /\ ids \in Nat /\ ids' = ids
  BY DEF TypeInv, CoreTypes, Fits, RunsFit, Run, ForceFinish
<1>1. Ledger(active, queue, stopped, ids) /\ stoppedAgain = {}
  BY LedgerParts
<1>2. CASE active[w.s] = w.run /\ w.s \notin gone
  <2>1. Dispatch(free, queue, stat, live) /\ PublishStopped({w.run})
    BY <1>2 DEF ForceFinish
  <2>2. stopped' = stopped \cup {w.run} /\ stoppedAgain' = {}
    BY <1>0, <1>1, <1>2, <2>1 DEF PublishStopped, Ledger
  <2>3. SlotsFit(ids, active) /\ EntriesFit(ids, queue) /\ RunsFit(ids, live)
    BY DEF TypeInv, Fits
  <2>4. Ledger(free, queue, stopped', ids)
    BY <1>0, <1>1, <1>2, <2>2, <2>3, FreeLedger
  <2>5. SlotsFit(ids, free)
    BY <1>0, <2>3 DEF SlotsFit
  <2>6. StatusOK(stat)
    BY <1>0 DEF StatusOK, TypeInv, CoreTypes, EndStatus, Status
  <2> HIDE DEF free, stat
  <2>7. Ledger(active', queue', stopped', ids)
    BY <1>0, <2>1, <2>3, <2>4, <2>5, <2>6, TypeSplit, DispatchLedger DEF TypeInv
  <2> QED BY <1>0, <2>2, <2>7, LedgerPartsNext
<1>3. CASE active[w.s] # w.run
  BY <1>0, <1>1, <1>3, LedgerPartsNext DEF ForceFinish
<1>4. CASE active[w.s] = w.run /\ w.s \in gone
  <2>1. active' = free /\ UNCHANGED <<queue, stopped, stoppedAgain>>
    BY <1>4 DEF ForceFinish
  <2>2. Ledger(free, queue, stopped, ids)
    BY <1>0, <1>1 DEF Ledger, TypeInv, CoreTypes
  <2> HIDE DEF free, stat
  <2> QED BY <1>0, <1>1, <2>1, <2>2, LedgerPartsNext
<1> QED BY <1>2, <1>3, <1>4

(* Stop ends the queued runs it cuts and no others.                        *)
LEMMA StopLedger ==
  ASSUME TypeInv, RunLedger, NEW targets \in SUBSET Sessions, Stop(targets)
  PROVE  RunLedger'
<1> DEFINE cut == {e \in queue : e.s \in targets}
<1>1. /\ queue' = queue \ cut
      /\ PublishStopped({e.run : e \in cut})
      /\ active' = active /\ ids' = ids
  BY DEF Stop
<1>2. Ledger(active, queue, stopped, ids) /\ stoppedAgain = {}
  BY LedgerParts
<1>3. stopped' = stopped \cup {e.run : e \in cut} /\ stoppedAgain' = {}
  BY <1>1, <1>2 DEF PublishStopped, Ledger
<1>4. cut \in SUBSET queue
  OBVIOUS
<1> HIDE DEF cut
<1>5. Ledger(active, queue \ cut, stopped \cup {e.run : e \in cut}, ids)
  BY <1>2, <1>4, CutLedger
<1> QED BY <1>1, <1>3, <1>5, LedgerPartsNext

(* ReleaseModel places new runs only.                                      *)
LEMMA ReleaseLedger ==
  ASSUME TypeInv, RunLedger, NEW p \in Profiles, ReleaseModel(p)
  PROVE  RunLedger'
<1> USE DEF stopVars
<1>1. ids' \in Nat /\ ids <= ids' /\ ids \in Nat
  BY ReleaseShape DEF TypeInv, CoreTypes
<1>2. PICK started, waiting, stat : ReleaseStarts(started, waiting, stat)
  BY ReleaseShape
<1>3. Ledger(active, queue, stopped, ids) /\ stoppedAgain = {}
  BY LedgerParts
<1>4. SlotsFit(ids, active) /\ EntriesFit(ids, queue) /\ RunsFit(ids, live)
  BY DEF TypeInv, Fits
<1> DEFINE E == started \cup waiting
           q == queue \cup E
<1>5. /\ \A e \in E : e.run \in (ids + 1)..ids'
      /\ \A e, f \in E : e.run = f.run => e = f
      /\ EntriesFit(ids', E)
  BY <1>2 DEF ReleaseStarts
<1>6. Ledger(active, q, stopped, ids')
  <2> HIDE DEF E
  <2> QED BY <1>1, <1>3, <1>4, <1>5, AppendLedger
<1>7. /\ EntriesFit(ids', started) /\ SlotsFit(ids', active)
      /\ RunsFit(ids', live) /\ EntriesFit(ids', q)
  <2>1. EntriesFit(ids', queue) /\ SlotsFit(ids', active) /\ RunsFit(ids', live)
    BY <1>1, <1>4, FitsGrow
  <2> QED BY <1>5, <2>1 DEF EntriesFit
<1>8. SlotsFrom(active, started, active')
  BY <1>1, <1>2, <1>7, TypeSplit, StartLockedOK DEF ReleaseStarts, TypeInv
<1>9. Ledger(active', q \ started, stopped, ids')
  <2>1. started \in SUBSET q
    OBVIOUS
  <2> HIDE DEF q
  <2> QED BY <1>1, <1>6, <1>7, <1>8, <2>1, StartLedger
<1>10. q \ started = queue'
  <2>1. \A e \in started : e \notin queue
    BY <1>1, <1>4, <1>5 DEF EntriesFit
  <2> QED BY <1>2, <2>1 DEF ReleaseStarts
<1>11. stopped' = stopped /\ stoppedAgain' = stoppedAgain
  BY DEF ReleaseModel
<1> HIDE DEF q
<1> QED BY <1>3, <1>9, <1>10, <1>11, LedgerPartsNext

(* Every step keeps the run ledger.                                        *)
LEMMA LedgerStep ==
  ASSUME TypeInv, RunLedger, [Next]_vars
  PROVE  RunLedger'
<1> USE DEF chatVars, stopVars, runVars, goneVars
<1> DEFINE same == UNCHANGED <<active, queue, stopped, stoppedAgain, ids>>
<1>0. ASSUME same PROVE RunLedger'
  BY <1>0, LedgerParts, LedgerPartsNext
<1>1. CASE OperatorStep
  <2>1. CASE \E s \in Sessions, text \in Texts : Submit(s, text)
    BY <2>1, SubmitLedger
  <2>2. CASE Stop(Sessions) \/ \E s \in Sessions : Stop({s})
    BY <2>2, StopLedger
  <2>3. CASE \E s \in Sessions : RegistryStep(s)
    BY <1>0, <2>3 DEF RegistryStep, Close, Reopen, DeleteChecks, DeleteEnds
  <2>4. CASE \E x \in gate : Decide(x)
    BY <1>0, <2>4 DEF Decide
  <2> QED BY <1>1, <2>1, <2>2, <2>3, <2>4 DEF OperatorStep, RegistryStep
<1>2. CASE \E w \in stopWaits : StopStep(w)
  <2>1. PICK w \in stopWaits : StopStep(w)
    BY <1>2
  <2>2. CASE StopReturns(w)
    BY <1>0, <2>2 DEF StopReturns
  <2>3. CASE ForceFinish(w)
    BY <2>3, ForceFinishLedger
  <2> QED BY <2>1, <2>2, <2>3 DEF StopStep
<1>3. CASE \E g \in live : RunStep(g)
  <2>1. PICK g \in live : RunStep(g)
    BY <1>3
  <2>2. CASE \E modelDown \in BOOLEAN : Finish(g, modelDown)
    BY <2>2, FinishLedger
  <2>3. CASE FinishLate(g) \/ TurnReads(g) \/ GatePauses(g)
    BY <1>0, <2>3 DEF FinishLate, TurnReads, GatePauses
  <2>4. CASE \/ \E v \in views : TurnWrites(v)
             \/ \E x \in gate : GateReturns(x)
    BY <1>0, <2>4 DEF TurnWrites, GateReturns
  <2> QED BY <2>1, <2>2, <2>3, <2>4 DEF RunStep
<1>4. CASE ModelStep
  <2>1. CASE \E s \in Sessions : HoldModel(s)
    BY <1>0, <2>1 DEF HoldModel
  <2>2. CASE \E p \in Profiles : ReleaseModel(p)
    BY <2>2, ReleaseLedger
  <2> QED BY <1>4, <2>1, <2>2 DEF ModelStep
<1>5. CASE UNCHANGED vars
  BY <1>0, <1>5 DEF vars
<1>9. CASE \E b \in blind : BlindStep(b)
  BY <1>0, <1>9 DEF BlindStep, BlindReturns, StopDies
<1> QED BY <1>9, <1>1, <1>2, <1>3, <1>4, <1>5 DEF Next

(* A run is queued, in a slot or over, never two of these, and its         *)
(* run.stopped is published at most once, whichever of finish, Stop and    *)
(* forceFinish comes first.                                                *)
THEOREM RunLedgerCorrect == Spec => []RunLedger
<1>1. Init => RunLedger
  BY DEF Init, RunLedger
<1>2. TypeInv /\ RunLedger /\ [Next]_vars => TypeInv' /\ RunLedger'
  BY TypeStep, LedgerStep
<1>3. Spec => [](TypeInv /\ RunLedger)
  BY TypeInit, <1>1, <1>2, PTL DEF Spec
<1> QED BY <1>3, PTL

----------------------------------------------------------------------------
(* The slots: never more than MaxConcurrent, and none free while a run     *)
(* waits.                                                                  *)

Occupied(act) == {s \in Sessions : act[s] # NoRun}

(* The taken slots are counted by a natural number.                        *)
LEMMA SlotsNat ==
  ASSUME NEW act
  PROVE  IsFiniteSet(Occupied(act)) /\ Slots(act) = Cardinality(Occupied(act))
         /\ Slots(act) \in Nat
<1>1. Occupied(act) \in SUBSET Sessions
  BY DEF Occupied
<1>2. IsFiniteSet(Occupied(act))
  BY <1>1, ConstantsAssumption, FS_Subset
<1>3. Slots(act) = Cardinality(Occupied(act))
  BY DEF Slots, Occupied
<1> QED BY <1>2, <1>3, FS_CardinalityType

(* Fewer sessions with a slot take no more slots.                          *)
LEMMA SlotsMono ==
  ASSUME NEW act, NEW act2, Occupied(act) \subseteq Occupied(act2)
  PROVE  Slots(act) <= Slots(act2)
BY SlotsNat, FS_Subset

(* One more session in the slots takes at most one slot.                   *)
LEMMA SlotsAdd ==
  ASSUME NEW act, NEW act2, NEW s,
         Occupied(act2) \subseteq Occupied(act) \cup {s}
  PROVE  Slots(act2) <= Slots(act) + 1
<1> DEFINE O == Occupied(act)
<1>1. IsFiniteSet(O) /\ Slots(act) = Cardinality(O) /\ Slots(act) \in Nat
  BY SlotsNat
<1>2. /\ IsFiniteSet(O \cup {s})
      /\ Cardinality(O \cup {s})
           = IF s \in O THEN Cardinality(O) ELSE Cardinality(O) + 1
  BY <1>1, FS_AddElement
<1>3. Cardinality(Occupied(act2)) <= Cardinality(O \cup {s})
  BY <1>2, FS_Subset
<1>4. Slots(act2) = Cardinality(Occupied(act2)) /\ Slots(act2) \in Nat
  BY SlotsNat
<1> HIDE DEF O
<1> QED BY <1>1, <1>2, <1>3, <1>4

SlotsOK(act, q) == Slots(act) <= MaxConcurrent /\ (q # {} => ~HasSlot(act))

\* The slots but for u of them.
SlotsBut(u, act, q) ==
  Slots(act) <= MaxConcurrent /\ (q # {} => Slots(act) + u >= MaxConcurrent)

(* Filled slots are filled but for any number of them.                     *)
LEMMA FilledBut ==
  ASSUME NEW u \in Nat, NEW act, NEW q, SlotsOK(act, q)
  PROVE  SlotsBut(u, act, q)
BY SlotsNat, ConstantsAssumption DEF SlotsOK, SlotsBut, HasSlot

(* The dispatch loop stops in time: before its last start a slot was free. *)
LEMMA DispatchSlots ==
  ASSUME NEW n \in Nat, NEW q, EntriesFit(n, q), NEW act, SlotsFit(n, act),
         NEW stat, NEW lv, Slots(act) <= MaxConcurrent,
         Dispatch(act, q, stat, lv)
  PROVE  SlotsOK(active', queue')
<1>1. PICK started \in SUBSET q :
        /\ Dispatches(started, act, q)
        /\ active' = ActiveAfter(act, started)
        /\ queue' = q \ started
  BY DEF Dispatch, StartLocked
<1>2. queue' # {} => ~HasSlot(active')
  BY <1>1 DEF Dispatches
<1>3. EntriesFit(n, started)
  BY <1>1 DEF EntriesFit
<1>4. CASE started = {}
  <2>1. ActiveAfter(act, started) = act
    BY <1>4 DEF ActiveAfter, SlotsFit
  <2> QED BY <1>1, <1>2, <2>1 DEF SlotsOK
<1>5. CASE started # {}
  <2> DEFINE runs == {e.run : e \in started}
  <2>1. runs \in SUBSET (0..n) /\ runs # {}
    BY <1>3, <1>5 DEF EntriesFit
  <2>2. PICK last \in started : \A e \in started : e.run <= last.run
    <3>1. Max(runs) \in runs /\ \A r \in runs : r <= Max(runs)
      <4> HIDE DEF runs
      <4> QED BY <2>1, MaxIn
    <3> QED BY <3>1
  <2> DEFINE shorter == started \ {last}
             after   == ActiveAfter(act, shorter)
  <2>3. shorter \in SUBSET started /\ shorter # started
    BY <2>2
  <2>4. IsPrefix(shorter, q)
    <3> SUFFICES ASSUME NEW e \in shorter, NEW f \in q, f.run < e.run
                 PROVE  f \in shorter
      BY DEF IsPrefix
    <3>1. f \in started
      BY <1>1 DEF Dispatches, IsPrefix
    <3>2. e.run \in Nat /\ f.run \in Nat /\ last.run \in Nat
      BY <2>2, <1>1 DEF EntriesFit
    <3>3. f # last
      BY <2>2, <3>2
    <3> QED BY <3>1, <3>3
  <2>5. HasSlot(after)
    <3> HIDE DEF shorter
    <3> QED BY <1>1, <2>3, <2>4 DEF Dispatches
  <2>6. SlotsFrom(act, started, active')
    BY <1>1, <1>3, ActiveAfterOK
  <2>7. SlotsFrom(act, shorter, after)
    <3>1. EntriesFit(n, shorter)
      BY <1>3 DEF EntriesFit
    <3> HIDE DEF shorter
    <3> QED BY <3>1, ActiveAfterOK
  <2>8. Occupied(active') \subseteq Occupied(after) \cup {last.s}
    <3> SUFFICES ASSUME NEW s \in Sessions, active'[s] # NoRun, s # last.s
                 PROVE  after[s] # NoRun
      BY DEF Occupied
    <3>1. CASE \E e \in started : e.s = s
      <4>1. \E e \in shorter : e.s = s
        BY <3>1
      <4>2. \E e \in shorter : after[s] = e.run
        <5> HIDE DEF after, shorter
        <5> QED BY <2>7, <4>1 DEF SlotsFrom
      <4>3. \A e \in shorter : e.run # 0
        BY <1>3 DEF EntriesFit
      <4> QED BY <4>2, <4>3
    <3>2. CASE \A e \in started : e.s # s
      <4>1. active'[s] = act[s]
        BY <2>6, <3>2 DEF SlotsFrom
      <4>2. \A e \in shorter : e.s # s
        BY <3>2
      <4>3. after[s] = act[s]
        <5> HIDE DEF after, shorter
        <5> QED BY <2>7, <4>2 DEF SlotsFrom
      <4> QED BY <4>1, <4>3
    <3> QED BY <3>1, <3>2
  <2> HIDE DEF after, shorter
  <2>9. Slots(active') <= Slots(after) + 1
    BY <2>8, SlotsAdd
  <2>10. Slots(after) < MaxConcurrent
    BY <2>5 DEF HasSlot
  <2>11. Slots(active') \in Nat /\ Slots(after) \in Nat /\ MaxConcurrent \in Nat
    BY SlotsNat, ConstantsAssumption
  <2> QED BY <1>2, <2>9, <2>10, <2>11 DEF SlotsOK
<1> QED BY <1>4, <1>5

(* A submission queues its run only when every slot is taken.              *)
LEMMA StartOrQueueSlots ==
  ASSUME TypeInv, SlotsFull, unfilled \in Nat, NEW e, EntriesFit(ids + 1, {e}),
         NEW del, StartOrQueue(e, del)
  PROVE  SlotsBut(unfilled, active', queue')
<1>0. ids \in Nat /\ ids + 1 \in Nat /\ ids <= ids + 1
  BY DEF TypeInv, CoreTypes
<1>1. Slots(active') \in Nat /\ Slots(active) \in Nat /\ MaxConcurrent \in Nat
  BY SlotsNat, ConstantsAssumption
<1>2. CASE HasSlot(active) /\ StartLocked({e}, active, status, live, del)
           /\ UNCHANGED queue
  <2>2. active' = ActiveAfter(active, {e})
    BY <1>2 DEF StartLocked
  <2>3. SlotsFit(ids + 1, active)
    BY <1>0, FitsGrow DEF TypeInv, Fits
  <2>4. SlotsFrom(active, {e}, active')
    BY <1>0, <2>2, <2>3, ActiveAfterOK
  <2>5. Occupied(active') \subseteq Occupied(active) \cup {e.s}
    BY <2>4 DEF SlotsFrom, Occupied
  <2>6. Slots(active') <= Slots(active) + 1
    BY <2>5, SlotsAdd
  <2>7. e.run # 0
    BY <1>0 DEF EntriesFit
  <2>8. Occupied(active) \subseteq Occupied(active')
    BY <2>4, <2>7 DEF SlotsFrom, Occupied
  <2>9. Slots(active) <= Slots(active')
    BY <2>8, SlotsMono
  <2> QED BY <1>1, <1>2, <2>6, <2>9 DEF SlotsBut, SlotsFull, HasSlot
<1>3. CASE ~HasSlot(active) /\ UNCHANGED active
  BY <1>1, <1>3 DEF SlotsBut, SlotsFull, HasSlot
<1> QED BY <1>2, <1>3 DEF StartOrQueue

(* ReleaseModel starts as many sessions as there are free slots, or all of *)
(* them.                                                                   *)
LEMMA ReleaseSlots ==
  ASSUME TypeInv, SlotsFull, unfilled \in Nat, NEW p \in Profiles, ReleaseModel(p)
  PROVE  SlotsBut(unfilled, active', queue')
<1> DEFINE released == {s \in unreachable \ gone : ServerOf[s] = p}
           ready    == {s \in released : Ready(s)}
           n        == Cardinality(ready)
           k        == MaxConcurrent - Slots(active)
<1>0. ready \subseteq Sessions /\ \A s \in ready : active[s] = NoRun
  BY DEF TypeInv, CoreTypes, Ready
<1>1. IsFiniteSet(ready) /\ n \in Nat
  BY <1>0, ConstantsAssumption, FS_Subset, FS_CardinalityType
<1>2. /\ k \in Nat /\ Slots(active) \in Nat /\ MaxConcurrent \in Nat
      /\ Slots(active) + k = MaxConcurrent
  BY SlotsNat, ConstantsAssumption DEF SlotsFull
<1>3. PICK order \in [ready -> 1..n] :
        /\ \A s, t \in ready : s # t => order[s] # order[t]
        /\ LET entry(s) == [s |-> s, run |-> ids + order[s],
                            msg |-> Head(pending[s]).id, fresh |-> TRUE]
               first    == {s \in ready : Slots(active) + order[s] <= MaxConcurrent}
           IN  /\ active' = ActiveAfter(active, {entry(s) : s \in first})
               /\ queue' = queue \cup {entry(s) : s \in ready \ first}
  BY DEF ReleaseModel, StartLocked
<1> DEFINE entry(s) == [s |-> s, run |-> ids + order[s],
                        msg |-> Head(pending[s]).id, fresh |-> TRUE]
           first    == {s \in ready : Slots(active) + order[s] <= MaxConcurrent}
           started  == {entry(s) : s \in first}
           f        == [s \in first |-> order[s]]
<1>4. /\ active' = ActiveAfter(active, started)
      /\ queue' = queue \cup {entry(s) : s \in ready \ first}
  BY <1>3
<1> HIDE DEF ready, n, k
<1>5. \A s \in ready : order[s] \in 1..n /\ order[s] \in Nat /\ order[s] >= 1
  <2>1. order \in [ready -> 1..n]
    BY <1>3
  <2> QED BY <1>1, <2>1
<1>6. first = {s \in ready : order[s] <= k}
  BY <1>2, <1>5 DEF k
<1>7. IsFiniteSet(first) /\ Cardinality(first) \in Nat
  BY <1>1, <1>6, FS_Subset, FS_CardinalityType
<1>8. Cardinality(1..k) = k /\ IsFiniteSet(1..k)
  BY <1>2, FS_Interval
<1>9. f \in Injection(first, 1..k)
  BY <1>2, <1>3, <1>5, <1>6 DEF Injection, IsInjective
<1>10. Cardinality(first) <= k
  <2> HIDE DEF f, first
  <2> QED BY <1>8, <1>9, FS_Injection
<1>11. Occupied(active') = Occupied(active) \cup first
  <2>1. \A s \in first : s \in Sessions /\ active[s] = NoRun
    BY <1>0
  <2>2. SlotsFrom(active, started, active') /\ \A e \in started : e.run # 0
    <3>1. /\ ids' \in Nat /\ ids <= ids'
      BY ReleaseShape
    <3>2. SlotsFit(ids', active)
      BY <3>1, FitsGrow DEF TypeInv, CoreTypes, Fits
    <3>3. EntriesFit(ids', started)
      <4>1. ids' = ids + n /\ ids \in Nat
        BY DEF ReleaseModel, TypeInv, CoreTypes, n, ready
      <4>2. \A s \in ready : Head(pending[s]) \in Msg
        <5> TAKE s \in ready
        <5>1. pending[s] \in Seq(Msg) /\ pending[s] # <<>>
          BY <1>0 DEF ready, Ready, TypeInv, CoreTypes
        <5> QED BY <5>1
      <4>3. \A s \in ready : ids + order[s] \in 1..ids' /\ ids + order[s] \in Nat
        BY <1>1, <1>5, <4>1
      <4>4. \A s \in ready : entry(s) \in Entry /\ entry(s).run \in 1..ids'
        BY <1>0, <4>2, <4>3 DEF Entry, Msg
      <4> HIDE DEF entry
      <4> QED BY <4>4 DEF EntriesFit
    <3>4. \A e \in started : e.run # 0
      BY <3>1, <3>3 DEF EntriesFit
    <3> HIDE DEF started
    <3> QED BY <1>4, <3>1, <3>2, <3>3, <3>4, ActiveAfterOK
  <2>3. \A s \in Sessions : (\E e \in started : e.s = s) <=> s \in first
    <3>1. \A s : entry(s).s = s
      OBVIOUS
    <3> HIDE DEF entry, first
    <3> QED BY <3>1
  <2> HIDE DEF started, first
  <2> QED BY <2>1, <2>2, <2>3 DEF Occupied, SlotsFrom
<1>12. Slots(active') = Slots(active) + Cardinality(first)
  <2>1. Occupied(active) \cap first = {}
    BY <1>0 DEF Occupied
  <2>2. IsFiniteSet(Occupied(active)) /\ Slots(active) = Cardinality(Occupied(active))
    BY SlotsNat
  <2>3. Slots(active') = Cardinality(Occupied(active'))
    BY SlotsNat
  <2> HIDE DEF first
  <2>4. Cardinality(Occupied(active) \cup first)
          = Cardinality(Occupied(active)) + Cardinality(first)
            - Cardinality(Occupied(active) \cap first)
    BY <1>7, <2>2, FS_Union
  <2>5. Cardinality(Occupied(active) \cap first) = 0
    BY <2>1, FS_EmptySet
  <2> QED BY <1>2, <1>7, <1>11, <2>2, <2>3, <2>4, <2>5
<1>13. queue' # {} => Slots(active') + unfilled >= MaxConcurrent
  <2>1. CASE ready \ first # {}
    <3>1. PICK t \in ready : order[t] > k
      BY <1>2, <1>5, <1>6, <2>1
    <3>2. k <= n
      BY <1>1, <1>2, <1>5, <3>1
    <3>3. order \in Surjection(ready, 1..n)
      <4>1. order \in Injection(ready, 1..n)
        BY <1>3 DEF Injection, IsInjective
      <4>2. Cardinality(1..n) = n /\ IsFiniteSet(1..n)
        BY <1>1, FS_Interval
      <4> QED BY <1>1, <4>1, <4>2, FS_Injection DEF n
    <3>4. \A i \in 1..k : \E s \in first : f[s] = i
      <4> TAKE i \in 1..k
      <4>1. i \in 1..n
        BY <1>1, <1>2, <3>2
      <4>2. PICK s \in ready : order[s] = i
        BY <3>3, <4>1 DEF Surjection
      <4>3. s \in first
        BY <1>2, <1>6, <4>2
      <4> QED BY <4>2, <4>3
    <3>5. f \in Surjection(first, 1..k)
      BY <1>9, <3>4 DEF Surjection, Injection
    <3>6. k <= Cardinality(first)
      <4> HIDE DEF f, first
      <4> QED BY <1>7, <1>8, <3>5, FS_Surjection
    <3> HIDE DEF f, first
    <3> QED BY <1>2, <1>7, <1>12, <3>6
  <2>2. CASE ready \ first = {}
    <3>1. queue' = queue
      BY <1>4, <2>2
    <3> HIDE DEF first
    <3> QED BY <1>2, <1>7, <1>12, <3>1 DEF SlotsFull
  <2> QED BY <2>1, <2>2
<1> HIDE DEF first
<1>14. Slots(active') <= MaxConcurrent
  BY <1>2, <1>7, <1>10, <1>12
<1> QED BY <1>13, <1>14 DEF SlotsBut

(* A slot that was freed leaves no more slots taken.                       *)
LEMMA FreeSlots ==
  ASSUME TypeInv, NEW s \in Sessions
  PROVE  Slots([active EXCEPT ![s] = NoRun]) <= Slots(active)
<1>1. Occupied([active EXCEPT ![s] = NoRun]) \subseteq Occupied(active)
  BY DEF Occupied, TypeInv, CoreTypes
<1> QED BY <1>1, SlotsMono

(* Every step leaves the slots full or the queue empty.                    *)
LEMMA SlotsStep ==
  ASSUME TypeInv, SlotsFull, unfilled \in Nat, [Next]_vars
  PROVE  SlotsFull'
<1> USE DEF chatVars, stopVars, runVars, goneVars
<1>0. SlotsBut(unfilled', active', queue') => SlotsFull'
  BY DEF SlotsFull, SlotsBut, Slots
<1>1. /\ Slots(active) \in Nat /\ MaxConcurrent \in Nat
      /\ Slots(active) <= MaxConcurrent /\ ids \in Nat
  BY SlotsNat, ConstantsAssumption DEF SlotsFull, TypeInv, CoreTypes
<1>2. ASSUME active' = active, queue' \subseteq queue, unfilled' = unfilled
      PROVE  SlotsFull'
  BY <1>0, <1>2 DEF SlotsFull, SlotsBut
<1>3. ASSUME NEW s \in Sessions, NEW q, NEW stat, NEW lv, NEW n \in Nat,
             EntriesFit(n, q), SlotsFit(n, [active EXCEPT ![s] = NoRun]),
             Dispatch([active EXCEPT ![s] = NoRun], q, stat, lv), unfilled' = 0
      PROVE  SlotsFull'
  <2> DEFINE free == [active EXCEPT ![s] = NoRun]
  <2>1. Slots(free) <= MaxConcurrent
    BY <1>1, FreeSlots, SlotsNat
  <2> HIDE DEF free
  <2>2. SlotsOK(active', queue')
    BY <1>3, <2>1, DispatchSlots DEF free
  <2>3. SlotsBut(unfilled', active', queue')
    BY <1>3, <2>2, FilledBut
  <2> QED BY <1>0, <2>3
<1>4. CASE OperatorStep
  <2>1. CASE \E s \in Sessions, text \in Texts : Submit(s, text)
    <3>1. PICK s \in Sessions, text \in Texts : Submit(s, text)
      BY <2>1
    <3>2. CASE SubmitUnreachable(s, text) \/ SubmitBusy(s, text)
      BY <1>2, <3>2 DEF SubmitUnreachable, SubmitBusy
    <3>3. CASE SubmitHeld(s, text)
      <4> DEFINE e == [s |-> s, run |-> ids + 1,
                       msg |-> Head(Append(pending[s], NextMsg(s, text))).id,
                       fresh |-> TRUE]
      <4>1. StartOrQueue(e, delivered)
        BY <3>3 DEF SubmitHeld
      <4>2. NextMsg(s, text) \in Msg
        BY DEF NextMsg, Msg, TypeInv, CoreTypes
      <4>3. pending[s] \in Seq(Msg)
        BY DEF TypeInv, CoreTypes
      <4>4. Head(Append(pending[s], NextMsg(s, text))) \in Msg
        BY <4>2, <4>3, AppendSplit
      <4>5. EntriesFit(ids + 1, {e})
        BY <1>1, <4>4 DEF EntriesFit, Entry, Msg
      <4> HIDE DEF e
      <4>6. unfilled' = unfilled
        BY <3>3 DEF SubmitHeld
      <4> QED BY <1>0, <4>1, <4>5, <4>6, StartOrQueueSlots
    <3>4. CASE SubmitIdle(s, text)
      <4> DEFINE e == [s |-> s, run |-> ids + 1, msg |-> sent[s] + 1,
                       fresh |-> FALSE]
                 del == [delivered EXCEPT ![s] = @ \cup {sent[s] + 1}]
      <4>1. StartOrQueue(e, del)
        BY <3>4 DEF SubmitIdle
      <4>2. EntriesFit(ids + 1, {e})
        BY <1>1 DEF EntriesFit, Entry, TypeInv, CoreTypes
      <4> HIDE DEF e, del
      <4>3. unfilled' = unfilled
        BY <3>4 DEF SubmitIdle
      <4> QED BY <1>0, <4>1, <4>2, <4>3, StartOrQueueSlots
    <3> QED BY <3>1, <3>2, <3>3, <3>4 DEF Submit
  <2>2. CASE Stop(Sessions) \/ \E s \in Sessions : Stop({s})
    BY <1>2, <2>2 DEF Stop
  <2>3. CASE \E s \in Sessions : RegistryStep(s)
    BY <1>2, <2>3 DEF RegistryStep, Close, Reopen, DeleteChecks, DeleteEnds
  <2>4. CASE \E x \in gate : Decide(x)
    BY <1>2, <2>4 DEF Decide
  <2> QED BY <1>4, <2>1, <2>2, <2>3, <2>4 DEF OperatorStep, RegistryStep
<1>5. CASE \E w \in stopWaits : StopStep(w)
  <2>1. PICK w \in stopWaits : StopStep(w)
    BY <1>5
  <2>2. CASE StopReturns(w)
    BY <1>2, <2>2 DEF StopReturns
  <2>3. CASE ForceFinish(w)
    <3>1. w.s \in Sessions
      BY DEF TypeInv, CoreTypes, Run
    <3>2. CASE active[w.s] = w.run /\ w.s \notin gone
      <4>1. /\ \E stat : Dispatch([active EXCEPT ![w.s] = NoRun], queue, stat, live)
            /\ unfilled' = 0
        BY <2>3, <3>2 DEF ForceFinish
      <4>2. EntriesFit(ids, queue) /\ SlotsFit(ids, [active EXCEPT ![w.s] = NoRun])
        BY <1>1, <3>1 DEF TypeInv, CoreTypes, Fits, SlotsFit
      <4> QED BY <1>1, <1>3, <3>1, <4>1, <4>2
    <3>3. CASE active[w.s] # w.run
      BY <1>2, <2>3, <3>3 DEF ForceFinish
    <3>4. CASE active[w.s] = w.run /\ w.s \in gone
      <4> DEFINE free == [active EXCEPT ![w.s] = NoRun]
      <4>1. active' = free /\ queue' = queue /\ unfilled' = unfilled + 1
        BY <2>3, <3>4 DEF ForceFinish
      <4>2. Slots(free) <= Slots(active)
        BY <3>1, FreeSlots
      <4>3. Occupied(active) \subseteq Occupied(free) \cup {w.s}
        BY DEF Occupied, TypeInv, CoreTypes
      <4> HIDE DEF free
      <4>4. Slots(active) <= Slots(free) + 1 /\ Slots(free) \in Nat
        BY <4>3, SlotsAdd, SlotsNat
      <4>5. SlotsBut(unfilled + 1, free, queue)
        BY <1>1, <4>2, <4>4 DEF SlotsBut, SlotsFull
      <4> QED BY <1>0, <4>1, <4>5
    <3> QED BY <3>2, <3>3, <3>4
  <2> QED BY <2>1, <2>2, <2>3 DEF StopStep
<1>6. CASE \E g \in live : RunStep(g)
  <2>1. PICK g \in live : RunStep(g)
    BY <1>6
  <2>2. CASE \E modelDown \in BOOLEAN : Finish(g, modelDown)
    <3>1. g.s \in Sessions
      BY DEF TypeInv, CoreTypes, Run
    <3>2. PICK modelDown \in BOOLEAN : Finish(g, modelDown)
      BY <2>2
    <3>3. PICK E, stat :
            /\ ids' \in Nat
            /\ EntriesFit(ids', queue \cup E)
            /\ SlotsFit(ids', [active EXCEPT ![g.s] = NoRun])
            /\ Dispatch([active EXCEPT ![g.s] = NoRun], queue \cup E, stat,
                        live \ {g})
      BY <3>2, FinishShape
    <3>4. unfilled' = 0
      BY <3>2 DEF Finish
    <3> QED BY <1>3, <3>1, <3>3, <3>4
  <2>3. CASE FinishLate(g) \/ TurnReads(g) \/ GatePauses(g)
    BY <1>2, <2>3 DEF FinishLate, TurnReads, GatePauses
  <2>4. CASE \/ \E v \in views : TurnWrites(v)
             \/ \E x \in gate : GateReturns(x)
    BY <1>2, <2>4 DEF TurnWrites, GateReturns
  <2> QED BY <2>1, <2>2, <2>3, <2>4 DEF RunStep
<1>7. CASE ModelStep
  <2>1. CASE \E s \in Sessions : HoldModel(s)
    BY <1>2, <2>1 DEF HoldModel
  <2>2. CASE \E p \in Profiles : ReleaseModel(p)
    <3>1. unfilled' = unfilled
      BY <2>2 DEF ReleaseModel
    <3> QED BY <1>0, <2>2, <3>1, ReleaseSlots
  <2> QED BY <1>7, <2>1, <2>2 DEF ModelStep
<1>8. CASE UNCHANGED vars
  BY <1>2, <1>8 DEF vars
<1>9. CASE \E b \in blind : BlindStep(b)
  BY <1>2, <1>9 DEF BlindStep, BlindReturns, StopDies
<1> QED BY <1>9, <1>4, <1>5, <1>6, <1>7, <1>8 DEF Next

(* run.max_concurrent is never exceeded, and a queued run waits beside no  *)
(* free slot but one that forceFinish took from a run of a deleted         *)
(* session: finish, forceFinish, ReleaseModel and the submit branches      *)
(* otherwise leave the slots filled.                                       *)
THEOREM SlotsCorrect == Spec => []SlotsFull
<1>1. Init => SlotsFull
  <2> SUFFICES ASSUME Init PROVE SlotsFull
    OBVIOUS
  <2>1. Occupied(active) = {}
    BY DEF Init, Occupied
  <2>2. Slots(active) = 0
    BY <2>1, SlotsNat, FS_EmptySet
  <2> QED BY <2>2, ConstantsAssumption DEF Init, SlotsFull
<1>2. TypeInv /\ RegistryTypes /\ SlotsFull /\ [Next]_vars
        => TypeInv' /\ RegistryTypes' /\ SlotsFull'
  BY TypeStep, RegistryTypesStep, SlotsStep DEF RegistryTypes
<1>3. Init => RegistryTypes
  BY DEF Init, RegistryTypes
<1>4. Spec => [](TypeInv /\ RegistryTypes /\ SlotsFull)
  BY TypeInit, <1>1, <1>2, <1>3, PTL DEF Spec
<1> QED BY <1>4, PTL

----------------------------------------------------------------------------
(* The holds.                                                              *)

(* Every step leaves a held session with pending messages.                 *)
LEMMA HeldStep ==
  ASSUME TypeInv, HeldHasPending, [Next]_vars
  PROVE  HeldHasPending'
<1> USE DEF chatVars, stopVars, runVars, goneVars
<1>0. held \subseteq Sessions /\ pending \in [Sessions -> Seq(Msg)]
  BY DEF TypeInv, CoreTypes
<1>1. ASSUME UNCHANGED <<held, pending>> PROVE HeldHasPending'
  BY <1>1 DEF HeldHasPending
<1>2. CASE OperatorStep
  <2>1. CASE \E s \in Sessions, text \in Texts : Submit(s, text)
    <3>1. PICK s \in Sessions, text \in Texts : Submit(s, text)
      BY <2>1
    <3>2. NextMsg(s, text) \in Msg
      BY DEF NextMsg, Msg, TypeInv, CoreTypes
    <3>3. CASE SubmitUnreachable(s, text) \/ SubmitBusy(s, text)
      <4>1. /\ held' = held
            /\ pending' = [pending EXCEPT ![s] = Append(@, NextMsg(s, text))]
        BY <3>3 DEF SubmitUnreachable, SubmitBusy, Enqueue
      <4>2. Append(pending[s], NextMsg(s, text)) # <<>>
        <5>1. /\ Len(Append(pending[s], NextMsg(s, text))) = Len(pending[s]) + 1
              /\ Len(pending[s]) \in Nat
          BY <1>0, <3>2
        <5> QED BY <5>1
      <4> QED BY <1>0, <4>1, <4>2 DEF HeldHasPending
    <3>4. CASE SubmitHeld(s, text)
      <4>1. /\ held' = held \ {s}
            /\ \A t \in Sessions : t # s => pending'[t] = pending[t]
        BY <1>0, <3>4 DEF SubmitHeld
      <4> QED BY <1>0, <4>1 DEF HeldHasPending
    <3>5. CASE SubmitIdle(s, text)
      BY <1>1, <3>5 DEF SubmitIdle
    <3> QED BY <3>1, <3>3, <3>4, <3>5 DEF Submit
  <2>2. CASE Stop(Sessions) \/ \E s \in Sessions : Stop({s})
    BY <2>2 DEF Stop, HoldAfterStop, HeldHasPending
  <2>3. CASE \E s \in Sessions : RegistryStep(s)
    BY <1>1, <2>3 DEF RegistryStep, Close, Reopen, DeleteChecks, DeleteEnds
  <2>4. CASE \E x \in gate : Decide(x)
    BY <1>1, <2>4 DEF Decide
  <2> QED BY <1>2, <2>1, <2>2, <2>3, <2>4 DEF OperatorStep, RegistryStep
<1>3. CASE \E w \in stopWaits : StopStep(w)
  BY <1>1, <1>3 DEF StopStep, StopReturns, ForceFinish
<1>4. CASE \E g \in live : RunStep(g)
  <2>1. PICK g \in live : RunStep(g)
    BY <1>4
  <2>2. CASE \E modelDown \in BOOLEAN : Finish(g, modelDown)
    <3>1. g.s \in Sessions /\ held' = held
      BY <2>2 DEF Finish, TypeInv, CoreTypes, Run
    <3>2. pending' = pending \/ (g.s \notin held /\ pending' = PopPending(g.s))
      BY <2>2 DEF Finish
    <3> QED BY <1>0, <3>1, <3>2 DEF PopPending, HeldHasPending
  <2>3. CASE FinishLate(g) \/ TurnReads(g) \/ GatePauses(g)
    BY <1>1, <2>3 DEF FinishLate, TurnReads, GatePauses
  <2>4. CASE \/ \E v \in views : TurnWrites(v)
             \/ \E x \in gate : GateReturns(x)
    BY <1>1, <2>4 DEF TurnWrites, GateReturns
  <2> QED BY <2>1, <2>2, <2>3, <2>4 DEF RunStep
<1>5. CASE ModelStep
  <2>1. CASE \E s \in Sessions : HoldModel(s)
    BY <1>1, <2>1 DEF HoldModel
  <2>2. CASE \E p \in Profiles : ReleaseModel(p)
    <3>1. held' = held /\ \A s \in held : pending'[s] = pending[s]
      BY <1>0, <2>2 DEF ReleaseModel, Ready
    <3> QED BY <3>1 DEF HeldHasPending
  <2> QED BY <1>5, <2>1, <2>2 DEF ModelStep
<1>6. CASE UNCHANGED vars
  BY <1>1, <1>6 DEF vars
<1>9. CASE \E b \in blind : BlindStep(b)
  BY <1>1, <1>9 DEF BlindStep, BlindReturns, StopDies
<1> QED BY <1>9, <1>2, <1>3, <1>4, <1>5, <1>6 DEF Next

(* A manual Stop hold always has messages to hold: neither a release, nor  *)
(* a finish, nor a send leaves a session held with nothing pending.        *)
THEOREM HeldCorrect == Spec => []HeldHasPending
<1>1. Init => HeldHasPending
  BY DEF Init, HeldHasPending
<1>2. TypeInv /\ HeldHasPending /\ [Next]_vars => TypeInv' /\ HeldHasPending'
  BY TypeStep, HeldStep
<1>3. Spec => [](TypeInv /\ HeldHasPending)
  BY TypeInit, <1>1, <1>2, PTL DEF Spec
<1> QED BY <1>3, PTL

(* Every step respects the holds.                                          *)
LEMMA HoldKeptStep ==
  ASSUME TypeInv, [Next]_vars
  PROVE  [HoldStep]_vars
<1> USE DEF chatVars, stopVars, runVars, goneVars
<1>0. /\ held \subseteq Sessions /\ pending \in [Sessions -> Seq(Msg)]
      /\ sent \in [Sessions -> Nat]
      /\ \A s \in Sessions : Len(pending[s]) \in Nat
  BY DEF TypeInv, CoreTypes
<1>1. ASSUME held \subseteq held', pending' = pending PROVE HoldStep
  BY <1>0, <1>1 DEF HoldStep
<1>2. CASE OperatorStep
  <2>1. CASE \E s \in Sessions, text \in Texts : Submit(s, text)
    <3>1. PICK s \in Sessions, text \in Texts : Submit(s, text)
      BY <2>1
    <3>2. NextMsg(s, text) \in Msg
      BY DEF NextMsg, Msg, TypeInv, CoreTypes
    <3> DEFINE longer == Append(pending[s], NextMsg(s, text))
    <3>3. /\ longer \in Seq(Msg) /\ Len(longer) = Len(pending[s]) + 1
          /\ longer # <<>>
      <4>1. longer \in Seq(Msg) /\ Len(longer) = Len(pending[s]) + 1
        BY <1>0, <3>2
      <4> HIDE DEF longer
      <4> QED BY <1>0, <4>1
    <3> HIDE DEF longer
    <3>4. Len(Tail(longer)) = Len(pending[s])
      BY <1>0, <3>3
    <3>5. CASE SubmitUnreachable(s, text) \/ SubmitBusy(s, text)
      <4>1. held' = held /\ pending' = [pending EXCEPT ![s] = longer]
        BY <3>5 DEF SubmitUnreachable, SubmitBusy, Enqueue, longer
      <4> QED BY <1>0, <3>3, <4>1 DEF HoldStep
    <3>6. CASE SubmitHeld(s, text)
      <4>1. /\ held' = held \ {s}
            /\ pending' = [pending EXCEPT ![s] = Tail(longer)]
            /\ sent' = [sent EXCEPT ![s] = @ + 1]
        BY <3>6 DEF SubmitHeld, longer
      <4> QED BY <1>0, <3>4, <4>1 DEF HoldStep
    <3>7. CASE SubmitIdle(s, text)
      BY <1>1, <3>7 DEF SubmitIdle
    <3> QED BY <3>1, <3>5, <3>6, <3>7 DEF Submit
  <2>2. CASE Stop(Sessions) \/ \E s \in Sessions : Stop({s})
    BY <1>1, <2>2 DEF Stop, HoldAfterStop
  <2>3. CASE \E s \in Sessions : RegistryStep(s)
    BY <1>1, <2>3 DEF RegistryStep, Close, Reopen, DeleteChecks, DeleteEnds
  <2>4. CASE \E x \in gate : Decide(x)
    BY <1>1, <2>4 DEF Decide
  <2> QED BY <1>2, <2>1, <2>2, <2>3, <2>4 DEF OperatorStep, RegistryStep
<1>3. CASE \E w \in stopWaits : StopStep(w)
  BY <1>1, <1>3 DEF StopStep, StopReturns, ForceFinish
<1>4. CASE \E g \in live : RunStep(g)
  <2>1. PICK g \in live : RunStep(g)
    BY <1>4
  <2>2. CASE \E modelDown \in BOOLEAN : Finish(g, modelDown)
    <3>1. g.s \in Sessions /\ held' = held
      BY <2>2 DEF Finish, TypeInv, CoreTypes, Run
    <3>2. \/ pending' = pending
          \/ g.s \notin held' \cup unreachable' /\ pending' = PopPending(g.s)
      BY <2>2 DEF Finish
    <3> QED BY <1>0, <3>1, <3>2, SMTT(20) DEF PopPending, HoldStep
  <2>3. CASE FinishLate(g) \/ TurnReads(g) \/ GatePauses(g)
    BY <1>1, <2>3 DEF FinishLate, TurnReads, GatePauses
  <2>4. CASE \/ \E v \in views : TurnWrites(v)
             \/ \E x \in gate : GateReturns(x)
    BY <1>1, <2>4 DEF TurnWrites, GateReturns
  <2> QED BY <2>1, <2>2, <2>3, <2>4 DEF RunStep
<1>5. CASE ModelStep
  <2>1. CASE \E s \in Sessions : HoldModel(s)
    BY <1>1, <2>1 DEF HoldModel
  <2>2. CASE \E p \in Profiles : ReleaseModel(p)
    <3>1. /\ held' = held
          /\ \A s \in Sessions : \/ pending'[s] = pending[s]
                                \/ s \notin held' \cup unreachable'
      BY <1>0, <2>2 DEF ReleaseModel, Ready
    <3> QED BY <1>0, <3>1 DEF HoldStep
  <2> QED BY <1>5, <2>1, <2>2 DEF ModelStep
<1>9. CASE \E b \in blind : BlindStep(b)
  BY <1>1, <1>9 DEF BlindStep, BlindReturns, StopDies
<1> QED BY <1>9, <1>2, <1>3, <1>4, <1>5 DEF Next

(* "A manual Stop hold remains in force until the operator explicitly      *)
(* sends again" (scheduler.go:248), and no step takes a waiting message of *)
(* a session that is still held or unreachable after it.                   *)
THEOREM HoldKeptCorrect == Spec => HoldKept
<1>1. Spec => []TypeInv
  BY TypeInit, TypeStep, PTL DEF Spec
<1>2. TypeInv /\ [Next]_vars => [HoldStep]_vars
  BY HoldKeptStep
<1> QED BY <1>1, <1>2, PTL DEF Spec, HoldKept

-----------------------------------------------------------------------------
(* The message ledger: no accepted message is lost or doubled.             *)

\* The books of one session: p its pending messages, D and X what was
\* delivered and dropped, n what was accepted.  The last part strengthens the
\* ledger: the message of a queued run is in the history already unless the
\* run is to append it.
Ids(p) == {p[i].id : i \in DOMAIN p}
Distinct(p) == \A i, j \in DOMAIN p : p[i].id = p[j].id => i = j
Books(p, q, D, X, n, s) ==
  /\ Ids(p) \cup FreshMsgs(q, s) \cup D \cup X = 1..n
  /\ Distinct(p)
  /\ \A e, f \in q : e.s = s /\ f.s = s /\ e.msg = f.msg => e = f
  /\ Ids(p) \cap (FreshMsgs(q, s) \cup D \cup X) = {}
  /\ FreshMsgs(q, s) \cap (D \cup X) = {}
  /\ D \cap X = {}
  /\ \A e \in q : e.s = s /\ ~e.fresh => e.msg \in D

MessageInv ==
  \A s \in Sessions :
    Books(pending[s], queue, delivered[s], dropped[s], sent[s], s)

(* The books of all sessions are what MessageLedger asks for.              *)
LEMMA BooksImplyLedger == MessageInv => MessageLedger
BY DEF MessageInv, MessageLedger, Books, Ids, Distinct, PendingIds, QueuedMsgs

----------------------------------------------------------------------------
(* The moves of a message.                                                 *)

(* What appending and popping do to the set of pending ids.                *)
LEMMA IdsAppend ==
  ASSUME NEW p \in Seq(Msg), NEW m \in Msg, m.id \notin Ids(p), Distinct(p)
  PROVE  Ids(Append(p, m)) = Ids(p) \cup {m.id} /\ Distinct(Append(p, m))
<1> DEFINE r == Append(p, m)
           n == Len(p)
<1>1. /\ n \in Nat /\ DOMAIN p = 1..n /\ DOMAIN r = 1..(n + 1)
      /\ \A i \in 1..n : r[i] = p[i]
      /\ r[n + 1] = m
  OBVIOUS
<1> HIDE DEF r, n
<1>2. Ids(r) = Ids(p) \cup {m.id}
  BY <1>1 DEF Ids
<1>3. Distinct(r)
  <2>1. \A i \in 1..n : r[i].id # m.id
    BY <1>1 DEF Ids
  <2> QED BY <1>1, <2>1 DEF Distinct
<1> QED BY <1>2, <1>3 DEF r

(* A pop takes the id of the head, and only that one.                      *)
LEMMA IdsTail ==
  ASSUME NEW p \in Seq(Msg), p # <<>>, Distinct(p)
  PROVE  /\ Head(p).id \in Ids(p)
         /\ Ids(Tail(p)) = Ids(p) \ {Head(p).id}
         /\ Distinct(Tail(p))
<1> DEFINE r == Tail(p)
           n == Len(p)
<1>1. n \in Nat /\ n > 0 /\ DOMAIN p = 1..n /\ Head(p) = p[1]
  OBVIOUS
<1>2. DOMAIN r = 1..(n - 1) /\ \A i \in 1..(n - 1) : r[i] = p[i + 1]
  OBVIOUS
<1> HIDE DEF r, n
<1>3. Head(p).id \in Ids(p)
  BY <1>1 DEF Ids
<1>7. \A i \in 1..(n - 1) : i + 1 \in 1..n /\ i + 1 # 1
  BY <1>1
<1>4. Distinct(r)
  <2> SUFFICES ASSUME NEW i \in 1..(n - 1), NEW j \in 1..(n - 1), r[i].id = r[j].id
               PROVE  i = j
    BY <1>2 DEF Distinct
  <2>1. p[i + 1].id = p[j + 1].id
    BY <1>2
  <2>2. i + 1 = j + 1
    BY <1>1, <1>7, <2>1 DEF Distinct
  <2> QED BY <1>1, <2>2
<1>5. \A x \in Ids(r) : x \in Ids(p) /\ x # p[1].id
  <2> SUFFICES ASSUME NEW i \in 1..(n - 1)
               PROVE  r[i].id \in Ids(p) /\ r[i].id # p[1].id
    BY <1>2 DEF Ids
  <2>1. 1 \in 1..n
    BY <1>1
  <2>2. r[i] = p[i + 1] /\ i + 1 \in DOMAIN p /\ 1 \in DOMAIN p /\ i + 1 # 1
    BY <1>1, <1>2, <1>7, <2>1
  <2>3. p[i + 1].id \in Ids(p)
    BY <2>2 DEF Ids
  <2>4. p[i + 1].id # p[1].id
    BY <2>2 DEF Distinct
  <2> QED BY <2>2, <2>3, <2>4
<1>6. \A x \in Ids(p) : x # p[1].id => x \in Ids(r)
  <2> SUFFICES ASSUME NEW i \in 1..n, p[i].id # p[1].id
               PROVE  p[i].id \in Ids(r)
    BY <1>1 DEF Ids
  <2>1. i - 1 \in 1..(n - 1) /\ r[i - 1] = p[i]
    BY <1>1, <1>2
  <2> QED BY <1>2, <2>1 DEF Ids
<1> QED BY <1>1, <1>3, <1>4, <1>5, <1>6 DEF r

(* A new message joins the pending ones.                                   *)
LEMMA BooksAppend ==
  ASSUME NEW p \in Seq(Msg), NEW q, NEW D, NEW X, NEW n \in Nat, NEW s,
         Books(p, q, D, X, n, s), NEW m \in Msg, m.id = n + 1
  PROVE  Books(Append(p, m), q, D, X, n + 1, s)
<1>1. 1..(n + 1) = (1..n) \cup {n + 1} /\ n + 1 \notin 1..n
  OBVIOUS
<1>2. m.id \notin Ids(p) /\ Distinct(p)
  BY <1>1 DEF Books
<1>3. Ids(Append(p, m)) = Ids(p) \cup {n + 1} /\ Distinct(Append(p, m))
  BY <1>2, IdsAppend
<1> QED BY <1>1, <1>3 DEF Books

\* I, F and R are disjoint and make up N.
Parts(I, F, R, N) ==
  /\ I \cup F \cup R = N
  /\ I \cap F = {}
  /\ I \cap R = {}
  /\ F \cap R = {}

(* An element moves from one part of a partition to the next.              *)
LEMMA MoveOne ==
  ASSUME NEW I, NEW F, NEW R, NEW N, NEW h \in I, Parts(I, F, R, N)
  PROVE  Parts(I \ {h}, F \cup {h}, R, N)
<1>1. (I \ {h}) \cup (F \cup {h}) = I \cup F
  OBVIOUS
<1>2. (I \ {h}) \cup (F \cup {h}) \cup R = N
  BY <1>1 DEF Parts
<1>3. (I \ {h}) \cap (F \cup {h}) = {} /\ (I \ {h}) \cap R = {}
      /\ (F \cup {h}) \cap R = {}
  BY DEF Parts
<1> QED BY <1>2, <1>3 DEF Parts

(* The first pending message becomes a queued run.                         *)
LEMMA BooksTake ==
  ASSUME NEW p \in Seq(Msg), p # <<>>, NEW q, NEW D, NEW X, NEW n, NEW s,
         Books(p, q, D, X, n, s),
         NEW e, e.s = s, e.msg = Head(p).id, e.fresh = TRUE
  PROVE  Books(Tail(p), q \cup {e}, D, X, n, s)
<1> DEFINE h == Head(p).id
<1>1. h \in Ids(p) /\ Ids(Tail(p)) = Ids(p) \ {h} /\ Distinct(Tail(p))
  BY IdsTail DEF Books
<1>2. FreshMsgs(q \cup {e}, s) = FreshMsgs(q, s) \cup {h}
  BY DEF FreshMsgs
<1>3. \A f \in q : f.s = s => f.msg # h
  BY <1>1 DEF Books, FreshMsgs
<1>4. \A f, g \in q \cup {e} : f.s = s /\ g.s = s /\ f.msg = g.msg => f = g
  BY <1>3 DEF Books
<1>5. \A f \in q \cup {e} : f.s = s /\ ~f.fresh => f.msg \in D
  BY DEF Books
<1> HIDE DEF h
<1>6. Parts(Ids(p), FreshMsgs(q, s), D \cup X, 1..n) /\ D \cap X = {}
  BY DEF Books, Parts
<1>7. Parts(Ids(p) \ {h}, FreshMsgs(q, s) \cup {h}, D \cup X, 1..n)
  BY <1>1, <1>6, MoveOne
<1>8. Parts(Ids(Tail(p)), FreshMsgs(q \cup {e}, s), D \cup X, 1..n)
  BY <1>1, <1>2, <1>7
<1>9. /\ Ids(Tail(p)) \cup FreshMsgs(q \cup {e}, s) \cup D \cup X = 1..n
      /\ Ids(Tail(p)) \cap (FreshMsgs(q \cup {e}, s) \cup D \cup X) = {}
      /\ FreshMsgs(q \cup {e}, s) \cap (D \cup X) = {}
      /\ D \cap X = {}
  BY <1>6, <1>8 DEF Parts
<1> QED BY <1>1, <1>4, <1>5, <1>9 DEF Books

(* An idle session's message is delivered and its run queued.              *)
LEMMA BooksIdle ==
  ASSUME NEW p, NEW q, NEW D, NEW X, NEW n \in Nat, NEW s,
         Books(p, q, D, X, n, s),
         NEW e, e.s = s, e.msg = n + 1, e.fresh = FALSE
  PROVE  Books(p, q \cup {e}, D \cup {n + 1}, X, n + 1, s)
<1>1. 1..(n + 1) = (1..n) \cup {n + 1} /\ n + 1 \notin 1..n
  OBVIOUS
<1>2. FreshMsgs(q \cup {e}, s) = FreshMsgs(q, s)
  BY DEF FreshMsgs
<1>3. \A f \in q : f.s = s => f.msg # n + 1
  BY <1>1 DEF Books, FreshMsgs
<1>4. \A f, g \in q \cup {e} : f.s = s /\ g.s = s /\ f.msg = g.msg => f = g
  BY <1>3 DEF Books
<1>5. \A f \in q \cup {e} : f.s = s /\ ~f.fresh => f.msg \in D \cup {n + 1}
  BY DEF Books
<1>6. /\ Ids(p) \cup FreshMsgs(q \cup {e}, s) \cup (D \cup {n + 1}) \cup X
           = 1..(n + 1)
      /\ Ids(p) \cap (FreshMsgs(q \cup {e}, s) \cup (D \cup {n + 1}) \cup X) = {}
      /\ FreshMsgs(q \cup {e}, s) \cap ((D \cup {n + 1}) \cup X) = {}
      /\ (D \cup {n + 1}) \cap X = {}
      /\ Distinct(p)
  BY <1>1, <1>2 DEF Books
<1> QED BY <1>4, <1>5, <1>6 DEF Books

(* Queued runs of the set R leave the queue.                               *)
LEMMA FreshMinus ==
  ASSUME NEW q, NEW s, NEW R \in SUBSET q,
         \A e, f \in q : e.s = s /\ f.s = s /\ e.msg = f.msg => e = f
  PROVE  /\ FreshMsgs(q \ R, s) = FreshMsgs(q, s) \ FreshMsgs(R, s)
         /\ FreshMsgs(R, s) \subseteq FreshMsgs(q, s)
BY DEF FreshMsgs

(* Runs that start append their fresh messages to the history.             *)
LEMMA BooksStart ==
  ASSUME NEW p, NEW q, NEW D, NEW X, NEW n, NEW s, NEW R \in SUBSET q,
         Books(p, q, D, X, n, s)
  PROVE  Books(p, q \ R, D \cup FreshMsgs(R, s), X, n, s)
<1>1. /\ FreshMsgs(q \ R, s) = FreshMsgs(q, s) \ FreshMsgs(R, s)
      /\ FreshMsgs(R, s) \subseteq FreshMsgs(q, s)
  BY FreshMinus DEF Books
<1> QED BY <1>1 DEF Books

(* Runs that are stopped in the queue drop their fresh messages.           *)
LEMMA BooksCut ==
  ASSUME NEW p, NEW q, NEW D, NEW X, NEW n, NEW s, NEW R \in SUBSET q,
         Books(p, q, D, X, n, s)
  PROVE  Books(p, q \ R, D, X \cup FreshMsgs(R, s), n, s)
<1>1. /\ FreshMsgs(q \ R, s) = FreshMsgs(q, s) \ FreshMsgs(R, s)
      /\ FreshMsgs(R, s) \subseteq FreshMsgs(q, s)
  BY FreshMinus DEF Books
<1> QED BY <1>1 DEF Books

(* The books of a session do not see the runs of another.                  *)
LEMMA BooksOther ==
  ASSUME NEW p, NEW q, NEW E, NEW D, NEW X, NEW n, NEW s,
         Books(p, q, D, X, n, s), \A e \in E : e.s # s
  PROVE  Books(p, q \cup E, D, X, n, s)
<1>1. FreshMsgs(q \cup E, s) = FreshMsgs(q, s)
  BY DEF FreshMsgs
<1> QED BY <1>1 DEF Books

----------------------------------------------------------------------------
(* The steps.                                                              *)

(* finish, forceFinish and ReleaseModel take the heads E of some pending   *)
(* lists into the queue and start some of the queued runs.                 *)
LEMMA BooksMove ==
  ASSUME TypeInv, MessageInv, NEW E, NEW started \in SUBSET (queue \cup E),
         Takes(E), queue' = (queue \cup E) \ started,
         \A s \in Sessions :
           delivered'[s] = delivered[s] \cup FreshMsgs(started, s),
         UNCHANGED <<sent, dropped>>
  PROVE  MessageInv'
<1> SUFFICES ASSUME NEW s \in Sessions
             PROVE  Books(pending'[s], queue', delivered'[s], dropped'[s],
                          sent'[s], s)
  BY DEF MessageInv
<1> DEFINE D == delivered[s]
           X == dropped[s]
           n == sent[s]
           p == pending[s]
<1>1. Books(p, queue, D, X, n, s)
  BY DEF MessageInv
<1>2. p \in Seq(Msg)
  BY DEF TypeInv, CoreTypes
<1> HIDE DEF D, X, n, p
<1>3. Books(pending'[s], queue \cup E, D, X, n, s)
  <2>1. CASE pending'[s] = p /\ \A e \in E : e.s # s
    BY <1>1, <2>1, BooksOther
  <2>2. CASE /\ p # <<>>
             /\ pending'[s] = Tail(p)
             /\ \E e \in E : /\ e.s = s /\ e.msg = Head(p).id
                             /\ e.fresh = TRUE
                             /\ \A f \in E : f.s = s => f = e
    <3>1. PICK e \in E : /\ e.s = s /\ e.msg = Head(p).id /\ e.fresh = TRUE
                         /\ \A f \in E : f.s = s => f = e
      BY <2>2
    <3>2. Books(Tail(p), queue \cup {e}, D, X, n, s)
      BY <1>1, <1>2, <2>2, <3>1, BooksTake
    <3>3. \A f \in E \ {e} : f.s # s
      BY <3>1
    <3>4. Books(Tail(p), (queue \cup {e}) \cup (E \ {e}), D, X, n, s)
      BY <3>2, <3>3, BooksOther
    <3>5. (queue \cup {e}) \cup (E \ {e}) = queue \cup E
      OBVIOUS
    <3> QED BY <2>2, <3>4, <3>5
  <2> QED BY <2>1, <2>2 DEF Takes, p
<1>4. Books(pending'[s], queue', D \cup FreshMsgs(started, s), X, n, s)
  BY <1>3, BooksStart
<1> QED BY <1>4 DEF D, X, n

(* The dispatch loop after a slot was freed.                               *)
LEMMA BooksDispatch ==
  ASSUME TypeInv, MessageInv, NEW E, Takes(E),
         NEW act, NEW stat, NEW lv, Dispatch(act, queue \cup E, stat, lv),
         UNCHANGED <<sent, dropped>>
  PROVE  MessageInv'
<1>1. PICK started \in SUBSET (queue \cup E) :
        /\ StartLocked(started, act, stat, lv, delivered)
        /\ queue' = (queue \cup E) \ started
  BY DEF Dispatch
<1>2. \A s \in Sessions :
        delivered'[s] = delivered[s] \cup FreshMsgs(started, s)
  BY <1>1 DEF StartLocked
<1> QED BY <1>1, <1>2, BooksMove

(* The run e of an accepted message is started at once or waits: what is   *)
(* in the books with e queued is in the books afterwards.                  *)
LEMMA BooksStartOrQueue ==
  ASSUME NEW p, NEW e, NEW del, NEW X, NEW n, NEW s \in Sessions,
         DeliveredOK(del), e \notin queue,
         Books(p, queue \cup {e}, del[s], X, n, s),
         StartOrQueue(e, del)
  PROVE  Books(p, queue', delivered'[s], X, n, s)
<1>1. CASE StartLocked({e}, active, status, live, del) /\ queue' = queue
  <2>1. delivered'[s] = del[s] \cup FreshMsgs({e}, s)
    BY <1>1 DEF StartLocked
  <2>2. {e} \in SUBSET (queue \cup {e}) /\ (queue \cup {e}) \ {e} = queue
    OBVIOUS
  <2>3. Books(p, (queue \cup {e}) \ {e}, del[s] \cup FreshMsgs({e}, s), X, n, s)
    BY <2>2, BooksStart
  <2> QED BY <1>1, <2>1, <2>2, <2>3
<1>2. CASE queue' = queue \cup {e} /\ delivered' = del
  BY <1>2
<1> QED BY <1>1, <1>2 DEF StartOrQueue

(* The books of a session whose messages the step does not touch, when a   *)
(* run of another session may start or join the queue.                     *)
LEMMA BooksElsewhere ==
  ASSUME NEW p, NEW e, NEW del, NEW X, NEW n, NEW s \in Sessions, e.s # s,
         Books(p, queue, del[s], X, n, s), StartOrQueue(e, del)
  PROVE  Books(p, queue', delivered'[s], X, n, s)
<1>1. CASE StartLocked({e}, active, status, live, del) /\ queue' = queue
  <2>1. delivered'[s] = del[s] \cup FreshMsgs({e}, s)
    BY <1>1 DEF StartLocked
  <2>2. FreshMsgs({e}, s) = {}
    BY DEF FreshMsgs
  <2>3. delivered'[s] = del[s]
    BY <2>1, <2>2
  <2> QED BY <1>1, <2>3
<1>2. CASE queue' = queue \cup {e} /\ delivered' = del
  <2>1. \A f \in {e} : f.s # s
    OBVIOUS
  <2>2. Books(p, queue \cup {e}, del[s], X, n, s)
    BY <2>1, BooksOther
  <2> QED BY <1>2, <2>2
<1> QED BY <1>1, <1>2 DEF StartOrQueue

(* A submission enters its message in the books of its own session.        *)
LEMMA SubmitBooks ==
  ASSUME TypeInv, MessageInv, NEW s \in Sessions, NEW text \in Texts,
         Submit(s, text)
  PROVE  MessageInv'
<1> USE DEF chatVars, stopVars, runVars, goneVars
<1> DEFINE m == NextMsg(s, text)
<1>1. m \in Msg /\ m.id = sent[s] + 1
  BY DEF NextMsg, Msg, TypeInv, CoreTypes
<1>2. /\ pending \in [Sessions -> Seq(Msg)] /\ sent \in [Sessions -> Nat]
      /\ delivered \in [Sessions -> SUBSET Nat] /\ DeliveredOK(delivered)
      /\ ids \in Nat
  BY DEF TypeInv, CoreTypes, DeliveredOK
<1>3. \A t \in Sessions :
        Books(pending[t], queue, delivered[t], dropped[t], sent[t], t)
  BY DEF MessageInv
<1>4. \A e : e.run = ids + 1 => e \notin queue
  BY <1>2 DEF TypeInv, Fits, EntriesFit
<1> HIDE DEF m
<1>5. Books(Append(pending[s], m), queue, delivered[s], dropped[s],
            sent[s] + 1, s)
  BY <1>1, <1>2, <1>3, BooksAppend
<1>6. CASE SubmitUnreachable(s, text) \/ SubmitBusy(s, text)
  <2>1. /\ pending' = [pending EXCEPT ![s] = Append(@, m)]
        /\ sent' = [sent EXCEPT ![s] = @ + 1]
        /\ UNCHANGED <<queue, delivered, dropped>>
    BY <1>6 DEF SubmitUnreachable, SubmitBusy, Enqueue, m
  <2> SUFFICES ASSUME NEW t \in Sessions
               PROVE  Books(pending'[t], queue', delivered'[t], dropped'[t],
                            sent'[t], t)
    BY DEF MessageInv
  <2>2. CASE t = s
    <3>1. pending'[t] = Append(pending[s], m) /\ sent'[t] = sent[s] + 1
      BY <1>2, <2>1, <2>2
    <3> QED BY <1>5, <2>1, <2>2, <3>1
  <2>3. CASE t # s
    <3>1. pending'[t] = pending[t] /\ sent'[t] = sent[t]
      BY <1>2, <2>1, <2>3
    <3> QED BY <1>3, <2>1, <3>1
  <2> QED BY <2>2, <2>3
<1>7. CASE SubmitHeld(s, text)
  <2> DEFINE w == Append(pending[s], m)
             e == [s |-> s, run |-> ids + 1, msg |-> Head(w).id, fresh |-> TRUE]
  <2>1. /\ pending' = [pending EXCEPT ![s] = Tail(w)]
        /\ StartOrQueue(e, delivered)
        /\ sent' = [sent EXCEPT ![s] = @ + 1]
        /\ dropped' = dropped
    BY <1>7 DEF SubmitHeld, m
  <2>2. w \in Seq(Msg) /\ w # <<>>
    <3>1. pending[s] \in Seq(Msg)
      BY <1>2
    <3>2. w \in Seq(Msg) /\ Len(w) = Len(pending[s]) + 1 /\ Len(pending[s]) \in Nat
      BY <1>1, <3>1
    <3> HIDE DEF w
    <3> QED BY <3>2
  <2>3. e.s = s /\ e.msg = Head(w).id /\ e.fresh = TRUE /\ e \notin queue
    BY <1>4
  <2>4. Books(w, queue, delivered[s], dropped[s], sent[s] + 1, s)
    BY <1>5
  <2> HIDE DEF w, e
  <2>5. Books(Tail(w), queue \cup {e}, delivered[s], dropped[s], sent[s] + 1, s)
    BY <2>2, <2>3, <2>4, BooksTake
  <2>6. Books(Tail(w), queue', delivered'[s], dropped[s], sent[s] + 1, s)
    BY <1>2, <2>1, <2>3, <2>5, BooksStartOrQueue
  <2> SUFFICES ASSUME NEW t \in Sessions
               PROVE  Books(pending'[t], queue', delivered'[t], dropped'[t],
                            sent'[t], t)
    BY DEF MessageInv
  <2>7. CASE t = s
    <3>1. pending'[t] = Tail(w) /\ sent'[t] = sent[s] + 1
      BY <1>2, <2>1, <2>7
    <3> QED BY <2>1, <2>6, <2>7, <3>1
  <2>8. CASE t # s
    <3>1. pending'[t] = pending[t] /\ sent'[t] = sent[t]
      BY <1>2, <2>1, <2>8
    <3>2. Books(pending[t], queue', delivered'[t], dropped[t], sent[t], t)
      BY <1>3, <2>1, <2>3, <2>8, BooksElsewhere
    <3> QED BY <2>1, <3>1, <3>2
  <2> QED BY <2>7, <2>8
<1>8. CASE SubmitIdle(s, text)
  <2> DEFINE e == [s |-> s, run |-> ids + 1, msg |-> sent[s] + 1,
                   fresh |-> FALSE]
             del == [delivered EXCEPT ![s] = @ \cup {sent[s] + 1}]
  <2>1. /\ StartOrQueue(e, del)
        /\ sent' = [sent EXCEPT ![s] = @ + 1]
        /\ UNCHANGED <<pending, dropped>>
    BY <1>8 DEF SubmitIdle
  <2>2. e.s = s /\ e.msg = sent[s] + 1 /\ e.fresh = FALSE /\ e \notin queue
    BY <1>4
  <2>3. /\ DeliveredOK(del) /\ del[s] = delivered[s] \cup {sent[s] + 1}
        /\ \A t \in Sessions : t # s => del[t] = delivered[t]
    BY <1>2 DEF DeliveredOK
  <2> HIDE DEF e, del
  <2>4. Books(pending[s], queue \cup {e}, del[s], dropped[s], sent[s] + 1, s)
    <3>1. sent[s] \in Nat
      BY <1>2
    <3>2. Books(pending[s], queue, delivered[s], dropped[s], sent[s], s)
      BY <1>3
    <3>3. Books(pending[s], queue \cup {e}, delivered[s] \cup {sent[s] + 1},
                dropped[s], sent[s] + 1, s)
      BY <2>2, <3>1, <3>2, BooksIdle
    <3> QED BY <2>3, <3>3
  <2>5. Books(pending[s], queue', delivered'[s], dropped[s], sent[s] + 1, s)
    BY <2>1, <2>2, <2>3, <2>4, BooksStartOrQueue
  <2> SUFFICES ASSUME NEW t \in Sessions
               PROVE  Books(pending'[t], queue', delivered'[t], dropped'[t],
                            sent'[t], t)
    BY DEF MessageInv
  <2>6. CASE t = s
    <3>1. sent'[t] = sent[s] + 1
      BY <1>2, <2>1, <2>6
    <3> QED BY <2>1, <2>5, <2>6, <3>1
  <2>7. CASE t # s
    <3>1. sent'[t] = sent[t] /\ del[t] = delivered[t]
      BY <1>2, <2>1, <2>3, <2>7
    <3>2. Books(pending[t], queue', delivered'[t], dropped[t], sent[t], t)
      BY <1>3, <2>1, <2>2, <2>7, <3>1, BooksElsewhere
    <3> QED BY <2>1, <3>1, <3>2
  <2> QED BY <2>6, <2>7
<1> QED BY <1>6, <1>7, <1>8 DEF Submit

(* Stop drops the fresh messages of the queued runs it cuts.               *)
LEMMA StopBooks ==
  ASSUME TypeInv, MessageInv, NEW targets, Stop(targets)
  PROVE  MessageInv'
<1> DEFINE cut == {e \in queue : e.s \in targets}
<1>1. /\ queue' = queue \ cut /\ UNCHANGED <<pending, sent, delivered>>
      /\ dropped' = [s \in Sessions |-> dropped[s] \cup FreshMsgs(cut, s)]
  BY DEF Stop
<1>2. cut \in SUBSET queue
  OBVIOUS
<1> HIDE DEF cut
<1> SUFFICES ASSUME NEW s \in Sessions
             PROVE  Books(pending[s], queue \ cut, delivered[s],
                          dropped[s] \cup FreshMsgs(cut, s), sent[s], s)
  BY <1>1 DEF MessageInv
<1>3. Books(pending[s], queue, delivered[s], dropped[s], sent[s], s)
  BY DEF MessageInv
<1> QED BY <1>2, <1>3, BooksCut

(* finish, whether it queues the next pending message or not.              *)
LEMMA FinishBooks ==
  ASSUME TypeInv, MessageInv, NEW g \in live, NEW modelDown \in BOOLEAN,
         Finish(g, modelDown)
  PROVE  MessageInv'
<1>1. PICK E, stat :
        /\ FinishQueues(g, E)
        /\ Dispatch([active EXCEPT ![g.s] = NoRun], queue \cup E, stat,
                    live \ {g})
  BY FinishShape
<1>2. g.s \in Sessions /\ pending \in [Sessions -> Seq(Msg)]
  BY DEF TypeInv, CoreTypes, Run
<1>3. Takes(E)
  <2>1. CASE E = {} /\ pending' = pending
    BY <2>1 DEF Takes
  <2>2. CASE /\ pending[g.s] # <<>>
             /\ E = {[s |-> g.s, run |-> ids + 1, msg |-> Head(pending[g.s]).id,
                      fresh |-> TRUE]}
             /\ pending' = PopPending(g.s)
    <3> DEFINE e == [s |-> g.s, run |-> ids + 1, msg |-> Head(pending[g.s]).id,
                     fresh |-> TRUE]
    <3>1. E = {e} /\ e.s = g.s /\ e.msg = Head(pending[g.s]).id /\ e.fresh = TRUE
      BY <2>2
    <3> HIDE DEF e
    <3>2. /\ pending'[g.s] = Tail(pending[g.s])
          /\ \A s \in Sessions : s # g.s => pending'[s] = pending[s]
      BY <1>2, <2>2 DEF PopPending
    <3> QED BY <2>2, <3>1, <3>2 DEF Takes
  <2> QED BY <1>1, <2>1, <2>2 DEF FinishQueues
<1>4. UNCHANGED <<sent, dropped>>
  BY DEF Finish
<1> QED BY <1>1, <1>3, <1>4, BooksDispatch

(* forceFinish takes nothing from the pending messages.                    *)
LEMMA ForceFinishBooks ==
  ASSUME TypeInv, MessageInv, NEW w \in stopWaits, ForceFinish(w)
  PROVE  MessageInv'
<1>1. UNCHANGED <<pending, sent, dropped>>
  BY DEF ForceFinish
<1>2. CASE active[w.s] = w.run /\ w.s \notin gone
  <2>1. \E stat : Dispatch([active EXCEPT ![w.s] = NoRun], queue, stat, live)
    BY <1>2 DEF ForceFinish
  <2>2. Takes({}) /\ queue \cup {} = queue
    BY <1>1 DEF Takes
  <2>3. \E stat : Dispatch([active EXCEPT ![w.s] = NoRun], queue \cup {}, stat,
                           live)
    BY <2>1, <2>2
  <2> QED BY <1>1, <2>2, <2>3, BooksDispatch
<1>3. CASE active[w.s] # w.run \/ w.s \in gone
  <2>1. UNCHANGED <<queue, delivered>>
    BY <1>3 DEF ForceFinish
  <2> QED BY <1>1, <2>1 DEF MessageInv
<1> QED BY <1>2, <1>3

(* ReleaseModel takes one message of every ready session.                  *)
LEMMA ReleaseBooks ==
  ASSUME TypeInv, MessageInv, NEW p \in Profiles, ReleaseModel(p)
  PROVE  MessageInv'
<1>1. PICK started, waiting, stat : ReleaseStarts(started, waiting, stat)
  BY ReleaseShape
<1> DEFINE E == started \cup waiting
<1>2. /\ Takes(E) /\ queue' = queue \cup waiting
      /\ started \cap waiting = {} /\ started \in SUBSET (queue \cup E)
      /\ \A e \in E : e.run \in (ids + 1)..ids'
  BY <1>1 DEF ReleaseStarts
<1>3. \A e \in queue : e.run \in 1..ids /\ ids \in Nat /\ ids' \in Nat
  BY ReleaseShape DEF TypeInv, CoreTypes, Fits, EntriesFit
<1>4. started \cap queue = {}
  BY <1>2, <1>3
<1>5. queue' = (queue \cup E) \ started
  BY <1>2, <1>4
<1>6. \A s \in Sessions :
        delivered'[s] = delivered[s] \cup FreshMsgs(started, s)
  BY <1>1 DEF ReleaseStarts, StartLocked
<1>7. UNCHANGED <<sent, dropped>>
  BY DEF ReleaseModel
<1> HIDE DEF E
<1> QED BY <1>2, <1>5, <1>6, <1>7, BooksMove

(* Every step keeps the books.                                             *)
LEMMA BooksStep ==
  ASSUME TypeInv, MessageInv, [Next]_vars
  PROVE  MessageInv'
<1> USE DEF chatVars
<1>1. ASSUME UNCHANGED <<pending, queue, sent, delivered, dropped>>
      PROVE  MessageInv'
  BY <1>1 DEF MessageInv
<1>2. CASE OperatorStep
  <2>1. CASE \E s \in Sessions, text \in Texts : Submit(s, text)
    BY <2>1, SubmitBooks
  <2>2. CASE Stop(Sessions) \/ \E s \in Sessions : Stop({s})
    BY <2>2, StopBooks
  <2>3. CASE \E s \in Sessions : RegistryStep(s)
    BY <1>1, <2>3 DEF RegistryStep, Close, Reopen, DeleteChecks, DeleteEnds
  <2>4. CASE \E x \in gate : Decide(x)
    BY <1>1, <2>4 DEF Decide
  <2> QED BY <1>2, <2>1, <2>2, <2>3, <2>4 DEF OperatorStep, RegistryStep
<1>3. CASE \E w \in stopWaits : StopStep(w)
  <2>1. PICK w \in stopWaits : StopStep(w)
    BY <1>3
  <2>2. CASE StopReturns(w)
    BY <1>1, <2>2 DEF StopReturns
  <2>3. CASE ForceFinish(w)
    BY <2>3, ForceFinishBooks
  <2> QED BY <2>1, <2>2, <2>3 DEF StopStep
<1>4. CASE \E g \in live : RunStep(g)
  <2>1. PICK g \in live : RunStep(g)
    BY <1>4
  <2>2. CASE \E modelDown \in BOOLEAN : Finish(g, modelDown)
    BY <2>2, FinishBooks
  <2>3. CASE FinishLate(g) \/ TurnReads(g) \/ GatePauses(g)
    BY <1>1, <2>3 DEF FinishLate, TurnReads, GatePauses
  <2>4. CASE \/ \E v \in views : TurnWrites(v)
             \/ \E x \in gate : GateReturns(x)
    BY <1>1, <2>4 DEF TurnWrites, GateReturns
  <2> QED BY <2>1, <2>2, <2>3, <2>4 DEF RunStep
<1>5. CASE ModelStep
  <2>1. CASE \E s \in Sessions : HoldModel(s)
    BY <1>1, <2>1 DEF HoldModel
  <2>2. CASE \E p \in Profiles : ReleaseModel(p)
    BY <2>2, ReleaseBooks
  <2> QED BY <1>5, <2>1, <2>2 DEF ModelStep
<1>6. CASE UNCHANGED vars
  BY <1>1, <1>6 DEF vars
<1>9. CASE \E b \in blind : BlindStep(b)
  BY <1>1, <1>9 DEF BlindStep, BlindReturns, StopDies
<1> QED BY <1>9, <1>2, <1>3, <1>4, <1>5, <1>6 DEF Next

(* No accepted message is lost or doubled: SubmitAttachments, finish,      *)
(* Stop, forceFinish and ReleaseModel keep every message in exactly one    *)
(* place, with any number of sessions, slots and stopped runs.             *)
THEOREM MessageLedgerCorrect == Spec => []MessageLedger
<1>1. Init => MessageInv
  <2> SUFFICES ASSUME Init, NEW s \in Sessions
               PROVE  Books(pending[s], queue, delivered[s], dropped[s],
                            sent[s], s)
    BY DEF MessageInv
  <2>1. /\ pending[s] = <<>> /\ queue = {} /\ delivered[s] = {}
        /\ dropped[s] = {} /\ sent[s] = 0
    BY DEF Init
  <2>2. Ids(pending[s]) = {} /\ Distinct(pending[s]) /\ FreshMsgs(queue, s) = {}
    BY <2>1 DEF Ids, Distinct, FreshMsgs
  <2> QED BY <2>1, <2>2 DEF Books
<1>2. TypeInv /\ MessageInv /\ [Next]_vars => TypeInv' /\ MessageInv'
  BY TypeStep, BooksStep
<1>3. Spec => [](TypeInv /\ MessageInv)
  BY TypeInit, <1>1, <1>2, PTL DEF Spec
<1> QED BY <1>3, BooksImplyLedger, PTL
=============================================================================
