-------------------------------- MODULE Gate --------------------------------
(***************************************************************************)
(* The approval gate of Agent_b (internal/agent/gate.go) with the two ways *)
(* an answer reaches it: the HTTP handler (internal/web/server_actions.go) *)
(* and the operator's INBOX.md (internal/operatorfiles/manager.go), which  *)
(* a waiting run polls itself.                                             *)
(*                                                                         *)
(* A run is a goroutine that asks for one approval at a time.  A stopped   *)
(* run that does not yield in time loses its slot and lives on, so two     *)
(* runs of one session may be at the gate together.  The gate has two      *)
(* locks: mu is held for the length of one action here, sequenceMu (the    *)
(* variable sequence) for the three actions that begin a wait.             *)
(***************************************************************************)
EXTENDS Naturals, FiniteSets

CONSTANTS Sessions,   \* the sessions of the registry
          Runs,       \* runs that may be started
          SessionOf,  \* the session of each run
          CallsOf,    \* run -> approvals it may ask for: a call id and a kind
          Offered,    \* decisions the operator sends over HTTP
          MailOffered,\* what the operator writes into INBOX.md
          AllowMail,  \* cfg.OperatorFiles.AllowMailboxApprovals
          MaxAsks,    \* bound: run -> approvals it may ask for
          MaxMail     \* bound: writes of INBOX.md

None      == "none"
Kind      == {"shell", "file", "policy", "cycle"}
Granting  == {"approve", "once", "run", "session", "operator_mode"}
Decision  == Granting \cup {"deny", "continue", "stop"}
MailAnswer == {"once", "session", "deny", "continue", "stop"}
\* The verb of INBOX.md: STOP, a revision or note for the chat, or an answer.
Mail      == {"STOP", "NOTE"} \cup MailAnswer
Ids       == {c.id : c \in UNION {CallsOf[r] : r \in Runs}}
\* A wait is the number of an approval within its run.
Wait      == UNION {{r} \X (1..MaxAsks[r]) : r \in Runs}
Operator  == "operator"

ASSUME ConstantsAssumption ==
  /\ SessionOf \in [Runs -> Sessions]
  /\ CallsOf \in [Runs -> SUBSET [id : STRING \ {None}, kind : Kind]]
  /\ Offered \subseteq Decision
  /\ MailOffered \subseteq Mail
  /\ AllowMail \in BOOLEAN
  /\ MaxAsks \in [Runs -> Nat]
  /\ MaxMail \in Nat
  /\ None \notin Runs

\* Call ids come from the model server; two runs of a session share none.
ASSUME DistinctIds ==
  \A r, q \in Runs : r # q /\ SessionOf[r] = SessionOf[q] =>
    \A c \in CallsOf[r], d \in CallsOf[q] : c.id # d.id

VARIABLES
  pc,         \* where each run is
  asks,       \* approvals each run has begun; the last one is its current wait
  callOf,     \* wait -> its call id
  kindOf,     \* wait -> its scope kind
  decided,    \* waits with decided set
  signal,     \* wait -> the decision sent on its channel
  waiting,    \* the values of Gate.waiting; the keys are theirs
  pending,    \* Gate.pendingBySession: the call id of the session's last wait
  sequence,   \* the run that holds sequenceMu
  telling,    \* the superseded wait that holder has still to tell
  asked,      \* waits with a published approval.required
  answer,     \* wait -> the decision of its published approval.decided
  answeredAgain, \* waits with a second approval.decided
  operatorContext, \* process-global operator mode
  slot,       \* session -> the run that owns its scheduler slot
  status,     \* session -> Session.Run.Status
  cancelled,  \* runs whose context is cancelled
  stopWaits,  \* <<who, run>>: a Stop call made by who waits for the run
  inbox,      \* the content of INBOX.md
  mails,      \* number of writes of INBOX.md
  notes       \* notes of INBOX.md that were added to a chat

waitVars == <<asks, callOf, kindOf>>
bookVars == <<waiting, pending>>
lockVars == <<sequence, telling>>
logVars  == <<answer, answeredAgain>>
runVars  == <<slot, cancelled, stopWaits>>
mailVars == <<inbox, mails, notes>>
vars == <<pc, asks, callOf, kindOf, decided, signal, waiting, pending, sequence,
          telling, asked, answer, answeredAgain, operatorContext, slot, status,
          cancelled, stopWaits, inbox, mails, notes>>

----------------------------------------------------------------------------
(* Helpers.                                                                *)

Session(w) == SessionOf[w[1]]
Current(r) == <<r, asks[r]>>
\* The waits Gate.waiting holds under a key (sessionID, callID).
Under(s, id) == {x \in waiting : Session(x) = s /\ callOf[x] = id}

PublishDecision(W, d) ==
  /\ answer' = [w \in Wait |-> IF w \in W THEN d ELSE answer[w]]
  /\ answeredAgain' = answeredAgain \cup {w \in W : answer[w] # None}

\* Which decisions DecideWith takes for which scope kind.
Legal(kind, d) ==
  IF kind = "cycle" THEN d \in {"continue", "stop"}
  ELSE /\ d \notin {"continue", "stop"}
       /\ d = "run" => kind \in {"shell", "file"}
       /\ d = "operator_mode" => kind = "shell"

\* DecideWith for the key of x: refused unless x is undecided.  The callback
\* of operator_mode runs only after every check.
Accepts(x, d) == Legal(kindOf[x], d) /\ x \notin decided
\* Bug: the callback runs before the check of decided.
DecideWithEarly(W, d) ==
  LET W2 == {x \in W : Accepts(x, d)} IN
  /\ decided' = decided \cup W2
  /\ signal' = [w \in Wait |-> IF w \in W2 THEN d ELSE signal[w]]
  /\ operatorContext' = (operatorContext \/ (d = "operator_mode" /\ W # {}))
DecideWith(W, d) ==
  LET W2 == {x \in W : Accepts(x, d)} IN
  /\ decided' = decided \cup W2
  /\ signal' = [w \in Wait |-> IF w \in W2 THEN d ELSE signal[w]]
  /\ operatorContext' = (operatorContext \/ (d = "operator_mode" /\ W2 # {}))

----------------------------------------------------------------------------
(* The scheduler, as far as the gate sees it (see the module Scheduler).   *)

Start(r) ==
  LET s == SessionOf[r] IN
  /\ pc[r] = "new"
  /\ slot[s] = None /\ status[s] = "idle"
  /\ pc' = [pc EXCEPT ![r] = "free"]
  /\ slot' = [slot EXCEPT ![s] = r]
  /\ status' = [status EXCEPT ![s] = "running"]
  /\ UNCHANGED <<waitVars, decided, signal, bookVars, lockVars, asked, logVars,
                 operatorContext, cancelled, stopWaits, mailVars>>

\* Bug: the new run state has no status.
UnsetStatus == ""
\* The status of the run state finish and forceFinish write.
EndStatus == "idle"

\* finish: the end of a run that lost its slot is fenced.
Finish(r) ==
  LET s == SessionOf[r] IN
  /\ pc[r] \in {"free", "returning"}
  /\ pc' = [pc EXCEPT ![r] = "over"]
  /\ \/ /\ slot[s] = r
        /\ slot' = [slot EXCEPT ![s] = None]
        /\ status' = [status EXCEPT ![s] = EndStatus]
     \/ /\ slot[s] # r
        /\ UNCHANGED <<slot, status>>
  /\ UNCHANGED <<waitVars, decided, signal, bookVars, lockVars, asked, logVars,
                 operatorContext, cancelled, stopWaits, mailVars>>

\* Stop(sessionID), called by the operator or by a run that read STOP.
StopSession(s, who) ==
  \/ /\ slot[s] # None
     /\ cancelled' = cancelled \cup {slot[s]}
     /\ stopWaits' = stopWaits \cup {<<who, slot[s]>>}
     /\ status' = [status EXCEPT ![s] = "stopping"]
  \/ /\ slot[s] = None
     /\ UNCHANGED <<cancelled, stopWaits, status>>

Stop(s) ==
  /\ slot[s] # None
  /\ StopSession(s, Operator)
  /\ UNCHANGED <<pc, waitVars, decided, signal, bookVars, lockVars, asked,
                 logVars, operatorContext, slot, mailVars>>

\* The wait of Stop ends with the run, or with the two-second timer.
StopReturns(x) ==
  /\ x \in stopWaits
  /\ pc[x[2]] = "over"
  /\ stopWaits' = stopWaits \ {x}
  /\ UNCHANGED <<pc, waitVars, decided, signal, bookVars, lockVars, asked,
                 logVars, operatorContext, slot, status, cancelled, mailVars>>

ForceFinish(x) ==
  LET s == SessionOf[x[2]] IN
  /\ x \in stopWaits
  /\ stopWaits' = stopWaits \ {x}
  /\ \/ /\ slot[s] = x[2]
        /\ slot' = [slot EXCEPT ![s] = None]
        /\ status' = [status EXCEPT ![s] = EndStatus]
     \/ /\ slot[s] # x[2]
        /\ UNCHANGED <<slot, status>>
  /\ UNCHANGED <<pc, waitVars, decided, signal, bookVars, lockVars, asked,
                 logVars, operatorContext, cancelled, mailVars>>

\* The run's own wall clock cancels its context.
WallClock(r) ==
  /\ pc[r] \notin {"new", "over"} /\ r \notin cancelled
  /\ cancelled' = cancelled \cup {r}
  /\ UNCHANGED <<pc, waitVars, decided, signal, bookVars, lockVars, asked,
                 logVars, operatorContext, slot, status, stopWaits, mailVars>>

----------------------------------------------------------------------------
(* A wait of a run: WaitPolicyDecision, WaitBoundaryDecision and           *)
(* WaitCycleDecision differ in the kind and in the published event only.   *)

\* The prior wait of the session that a new wait with this id displaces.
Prior(s, id) == IF pending[s] \in {None, id} THEN {} ELSE Under(s, pending[s])

\* Bug: the prior wait is displaced and not decided.
SupersedesNothing(s, id) == {}
Supersedes(s, id) == Prior(s, id) \ decided

\* Bug: the two halves of a begin are not one critical section.
NoSequence == TRUE
SequenceFree == sequence = None

BeginWait(r, c) ==
  LET s == SessionOf[r]
      w == <<r, asks[r] + 1>>
  IN
  /\ pc[r] = "free" /\ asks[r] < MaxAsks[r]
  /\ SequenceFree
  /\ sequence' = r
  /\ pc' = [pc EXCEPT ![r] = "begun"]
  /\ asks' = [asks EXCEPT ![r] = @ + 1]
  /\ callOf' = [callOf EXCEPT ![w] = c.id]
  /\ kindOf' = [kindOf EXCEPT ![w] = c.kind]
  /\ decided' = decided \cup Supersedes(s, c.id)
  /\ telling' = telling \cup Supersedes(s, c.id)
  /\ waiting' = (waiting \ (Prior(s, c.id) \cup Under(s, c.id))) \cup {w}
  /\ pending' = [pending EXCEPT ![s] = c.id]
  /\ UNCHANGED <<signal, asked, logVars, operatorContext, runVars, status,
                 mailVars>>

\* Bug: the superseded wait is answered and not woken.
TellNobody(r) ==
  /\ pc[r] = "begun" /\ telling # {}
  /\ PublishDecision(telling, "superseded")
  /\ telling' = {}
  /\ UNCHANGED <<pc, waitVars, decided, signal, bookVars, sequence, asked,
                 operatorContext, runVars, status, mailVars>>

\* The superseded wait is answered in the log, then woken.
TellSuperseded(r) ==
  /\ pc[r] = "begun" /\ telling # {}
  /\ PublishDecision(telling, "superseded")
  /\ signal' = [w \in Wait |-> IF w \in telling THEN "superseded" ELSE signal[w]]
  /\ telling' = {}
  /\ UNCHANGED <<pc, waitVars, decided, bookVars, sequence, asked,
                 operatorContext, runVars, status, mailVars>>

\* The end of beginWait and the event; sequenceMu is released.
PublishRequired(r) ==
  /\ pc[r] = "begun" /\ telling = {}
  /\ asked' = asked \cup {Current(r)}
  /\ status' = [status EXCEPT ![SessionOf[r]] = "paused"]
  /\ sequence' = None
  /\ pc' = [pc EXCEPT ![r] = "await"]
  /\ UNCHANGED <<waitVars, decided, signal, bookVars, telling, logVars,
                 operatorContext, runVars, mailVars>>

\* awaitDecision takes the decision, also when the context is cancelled: a
\* decided wait is never dismissed.  A superseded one is in the log already.
Receive(r) ==
  LET w == Current(r) IN
  /\ pc[r] = "await" /\ signal[w] # None
  /\ \/ /\ signal[w] = "superseded"
        /\ UNCHANGED <<logVars, status>>
     \/ /\ signal[w] # "superseded"
        /\ PublishDecision({w}, signal[w])
        /\ status' = [status EXCEPT ![SessionOf[r]] = "running"]
  /\ pc' = [pc EXCEPT ![r] = "cleanup"]
  /\ UNCHANGED <<waitVars, decided, signal, bookVars, lockVars, asked,
                 operatorContext, runVars, mailVars>>

\* Bug: a cancelled run does not look at decided.
GiveUpDecided(r) ==
  /\ pc[r] = "await" /\ r \in cancelled
  /\ decided' = decided \cup {Current(r)}
  /\ pc' = [pc EXCEPT ![r] = "dismiss"]
  /\ UNCHANGED <<waitVars, signal, bookVars, lockVars, asked, logVars,
                 operatorContext, runVars, status, mailVars>>

\* ctx.Done with an undecided wait.
GiveUp(r) ==
  /\ pc[r] = "await" /\ r \in cancelled
  /\ Current(r) \notin decided
  /\ decided' = decided \cup {Current(r)}
  /\ pc' = [pc EXCEPT ![r] = "dismiss"]
  /\ UNCHANGED <<waitVars, signal, bookVars, lockVars, asked, logVars,
                 operatorContext, runVars, status, mailVars>>

Dismiss(r) ==
  /\ pc[r] = "dismiss"
  /\ PublishDecision({Current(r)}, "dismissed")
  /\ pc' = [pc EXCEPT ![r] = "cleanup"]
  /\ UNCHANGED <<waitVars, decided, signal, bookVars, lockVars, asked,
                 operatorContext, runVars, status, mailVars>>

\* Bug: the wait stays registered.
CleanupNothing(r) ==
  /\ pc[r] = "cleanup"
  /\ pc' = [pc EXCEPT ![r] = "free"]
  /\ UNCHANGED <<waitVars, decided, signal, bookVars, lockVars, asked, logVars,
                 operatorContext, runVars, status, mailVars>>

\* The deferred cleanup: its own registration, and the session's if it is for
\* the same call id.
Cleanup(r) ==
  LET s == SessionOf[r] IN
  /\ pc[r] = "cleanup"
  /\ waiting' = waiting \ {Current(r)}
  /\ pending' = [pending EXCEPT ![s] = IF @ = callOf[Current(r)] THEN None ELSE @]
  /\ pc' = [pc EXCEPT ![r] = "free"]
  /\ UNCHANGED <<waitVars, decided, signal, lockVars, asked, logVars,
                 operatorContext, runVars, status, mailVars>>

----------------------------------------------------------------------------
(* Answers.                                                                *)

\* POST /api/approve for the key of x; a refused one changes nothing.
Approve(x, d) ==
  /\ x \in waiting
  /\ DecideWith({x}, d)
  /\ UNCHANGED <<pc, waitVars, bookVars, lockVars, asked, logVars, runVars,
                 status, mailVars>>

WriteInbox(m) ==
  /\ mails < MaxMail
  /\ inbox' = m
  /\ mails' = mails + 1
  /\ UNCHANGED <<pc, waitVars, decided, signal, bookVars, lockVars, asked,
                 logVars, operatorContext, runVars, status, notes>>

\* The tick of awaitDecision: CheckInbox(approvalPending) and what main.go
\* makes of it.  A note is cleared and goes nowhere.
MailboxNote(r) ==
  /\ pc[r] = "await" /\ inbox = "NOTE"
  /\ inbox' = None
  /\ UNCHANGED <<pc, waitVars, decided, signal, bookVars, lockVars, asked,
                 logVars, operatorContext, runVars, status, mails, notes>>

MailboxAnswer(r) ==
  /\ pc[r] = "await" /\ inbox \in MailAnswer
  /\ inbox' = None
  /\ DecideWith(IF AllowMail THEN Under(SessionOf[r], callOf[Current(r)]) ELSE {},
                inbox)
  /\ UNCHANGED <<pc, waitVars, bookVars, lockVars, asked, logVars, runVars,
                 status, mails, notes>>

\* The run calls Stop for its own session and is the run Stop waits for.
MailboxStop(r) ==
  /\ pc[r] = "await" /\ inbox = "STOP"
  /\ inbox' = None
  /\ StopSession(SessionOf[r], r)
  /\ pc' = [pc EXCEPT ![r] = "stopping"]
  /\ UNCHANGED <<waitVars, decided, signal, bookVars, lockVars, asked, logVars,
                 operatorContext, slot, mails, notes>>

\* Stop has returned; its caller answers "deny" and goes on waiting.
MailboxStopped(r) ==
  /\ pc[r] = "stopping"
  /\ \A x \in stopWaits : x[1] # r
  /\ DecideWith(Under(SessionOf[r], callOf[Current(r)]), "deny")
  /\ pc' = [pc EXCEPT ![r] = "await"]
  /\ UNCHANGED <<waitVars, bookVars, lockVars, asked, logVars, runVars, status,
                 mailVars>>

\* applyMailboxBoundary at the top of a turn.  No approval is pending for this
\* run, so an answer is a note like any other text.
Boundary(r) ==
  /\ pc[r] = "free" /\ inbox # None
  /\ inbox' = None
  /\ \/ /\ inbox = "STOP"
        /\ pc' = [pc EXCEPT ![r] = "returning"]
        /\ UNCHANGED notes
     \/ /\ inbox # "STOP"
        /\ notes' = notes + 1
        /\ UNCHANGED pc
  /\ UNCHANGED <<waitVars, decided, signal, bookVars, lockVars, asked, logVars,
                 operatorContext, runVars, status, mails>>

----------------------------------------------------------------------------

Init ==
  /\ pc = [r \in Runs |-> "new"]
  /\ asks = [r \in Runs |-> 0]
  /\ callOf = [w \in Wait |-> None]
  /\ kindOf = [w \in Wait |-> None]
  /\ decided = {}
  /\ signal = [w \in Wait |-> None]
  /\ waiting = {}
  /\ pending = [s \in Sessions |-> None]
  /\ sequence = None
  /\ telling = {}
  /\ asked = {}
  /\ answer = [w \in Wait |-> None]
  /\ answeredAgain = {}
  /\ operatorContext = FALSE
  /\ slot = [s \in Sessions |-> None]
  /\ status = [s \in Sessions |-> "idle"]
  /\ cancelled = {}
  /\ stopWaits = {}
  /\ inbox = None
  /\ mails = 0
  /\ notes = 0

\* What a run does between its call of the gate and the return of that call.
GateStep(r) ==
  \/ TellSuperseded(r) \/ PublishRequired(r)
  \/ Receive(r) \/ GiveUp(r) \/ Dismiss(r) \/ Cleanup(r)
  \/ MailboxStopped(r)

RunStep(r) ==
  \/ Start(r) \/ Finish(r) \/ WallClock(r) \/ Boundary(r)
  \/ \E c \in CallsOf[r] : BeginWait(r, c)
  \/ MailboxNote(r) \/ MailboxAnswer(r) \/ MailboxStop(r)

StopStep(x) == StopReturns(x) \/ ForceFinish(x)

OperatorStep ==
  \/ \E s \in Sessions : Stop(s)
  \/ \E x \in waiting, d \in Offered : Approve(x, d)
  \/ \E m \in MailOffered : WriteInbox(m)

Next ==
  \/ \E r \in Runs : GateStep(r) \/ RunStep(r)
  \/ \E x \in stopWaits : StopStep(x)
  \/ OperatorStep

Spec == Init /\ [][Next]_vars

\* The goroutine of a run is scheduled while it is inside the gate, and Stop's
\* wait ends at its timer.  Nothing is assumed of the operator, of the inbox or
\* of a run outside the gate.
FairSpec ==
  /\ Spec
  /\ \A r \in Runs : WF_vars(GateStep(r))
  /\ \A x \in (Runs \cup {Operator}) \X Runs : WF_vars(x \in stopWaits /\ StopStep(x))

----------------------------------------------------------------------------
(* Properties.                                                             *)

TypeOK ==
  /\ pc \in [Runs -> {"new", "free", "begun", "await", "dismiss", "cleanup",
                      "stopping", "returning", "over"}]
  /\ asks \in [Runs -> Nat]
  /\ \A r \in Runs : asks[r] <= MaxAsks[r]
  /\ callOf \in [Wait -> Ids \cup {None}]
  /\ kindOf \in [Wait -> Kind \cup {None}]
  /\ decided \subseteq Wait
  /\ signal \in [Wait -> Decision \cup {"superseded", None}]
  /\ waiting \subseteq Wait
  /\ pending \in [Sessions -> Ids \cup {None}]
  /\ sequence \in Runs \cup {None}
  /\ telling \subseteq Wait
  /\ asked \subseteq Wait
  /\ answer \in [Wait -> Decision \cup {"superseded", "dismissed", None}]
  /\ answeredAgain \subseteq Wait
  /\ operatorContext \in BOOLEAN
  /\ slot \in [Sessions -> Runs \cup {None}]
  /\ status \in [Sessions -> {"idle", "running", "paused", "stopping"}]
  /\ cancelled \subseteq Runs
  /\ stopWaits \subseteq (Runs \cup {Operator}) \X Runs
  /\ inbox \in Mail \cup {None}
  /\ mails \in 0..MaxMail
  /\ notes \in Nat

\* Every approval gets one approval.decided at most, and it is the decision the
\* operator's request was acknowledged with: neither a cancellation nor a newer
\* approval that races an accepted decision replaces it or adds a second one.
AnsweredOnce ==
  /\ answeredAgain = {}
  /\ \A w \in Wait :
       /\ answer[w] # None => w \in decided
       /\ answer[w] # None /\ signal[w] # None => answer[w] = signal[w]

\* In the event log approval.required precedes approval.decided for every call,
\* also for a wait another run supersedes as soon as it is registered: that is
\* what sequenceMu is for.
AskedFirst == \A w \in Wait : answer[w] # None => w \in asked

\* "At most one decision is pending per session" (INTERFACES.md:85), and the
\* pending one can be answered: an undecided wait is the one Gate.waiting and
\* pendingBySession know for its session, whatever cleanups of older waits run.
Begun(w) == w[2] <= asks[w[1]]
PendingIsAnswerable ==
  \A w \in Wait : Begun(w) /\ w \notin decided =>
    /\ w \in waiting /\ pending[Session(w)] = callOf[w]
    /\ \A x \in Wait : Begun(x) /\ x \notin decided /\ Session(x) = Session(w)
                         => x = w

\* A registration lasts no longer than its wait: a run outside the gate leaves
\* none behind that would be answered or superseded in place of a later wait.
NoStaleRegistration ==
  \A w \in waiting :
    /\ w = Current(w[1])
    /\ pc[w[1]] \in {"begun", "await", "dismiss", "cleanup", "stopping"}

\* Operator mode is switched on only by an accepted decision on a shell approval
\* (the callback of DecideWith): a refused or late operator_mode request leaves
\* the process identity alone.
OperatorModeAccepted ==
  operatorContext =>
    \E w \in Wait : signal[w] = "operator_mode" /\ kindOf[w] = "shell"

\* A run that waits returns from the gate once it is cancelled, decided or
\* superseded, even if the run that superseded it has still to wake it and even
\* while it waits for itself in Stop.
Woken(r) ==
  pc[r] \in {"await", "stopping"} /\ (r \in cancelled \/ Current(r) \in decided)
GateReturns == \A r \in Runs : Woken(r) ~> pc[r] = "free"

----------------------------------------------------------------------------
(* What the documentation says and the code does not keep.                 *)

\* "`REVISE: ...` adds the revision to the current chat ... Any other text is
\* acknowledged and added to the current chat as a note"
\* (docs/OPERATOR-FILES.md:15): a note that is cleared from INBOX.md is in a chat.
NoteKept ==
  [][inbox = "NOTE" /\ inbox' = None => notes' = notes + 1]_vars
=============================================================================
