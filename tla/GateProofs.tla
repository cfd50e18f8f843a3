----------------------------- MODULE GateProofs -----------------------------
(***************************************************************************)
(* Proofs about the approval gate, for every set of sessions and runs.     *)
(***************************************************************************)
EXTENDS Gate, TLAPS

----------------------------------------------------------------------------
(* The inductive invariant.                                                *)

InGate == {"begun", "await", "dismiss", "cleanup", "stopping"}
Open   == {"begun", "await", "stopping"}
AtGate(w, P) == w = Current(w[1]) /\ pc[w[1]] \in P

\* A run at the gate has a current wait.
Numbered == \A r \in Runs : pc[r] \in InGate => asks[r] >= 1

\* A wait that has not begun is nowhere; one that has carries a call of its run.
Fresh ==
  \A w \in Wait :
    /\ ~Begun(w) => w \notin decided \cup asked \cup telling
    /\ Begun(w) => /\ \E c \in CallsOf[w[1]] : callOf[w] = c.id
                   /\ callOf[w] # None

\* Registered waits are current, and pendingBySession has their key.
Registered ==
  \A w \in waiting : AtGate(w, InGate) /\ pending[Session(w)] = callOf[w]

\* An undecided wait is registered and its run waits for it.
Undecided ==
  \A w \in Wait : Begun(w) /\ w \notin decided => AtGate(w, Open) /\ w \in waiting

\* sequenceMu is held by the run between registration and event.
Locked ==
  /\ \A r \in Runs : pc[r] = "begun" => sequence = r
  /\ sequence # None => pc[sequence] = "begun"
  /\ telling # {} => sequence # None

\* A superseded wait that is still to be told cannot leave the gate.
Telling ==
  \A w \in telling : /\ AtGate(w, {"await", "stopping"})
                     /\ w \in decided /\ signal[w] = None /\ answer[w] = None

\* The event of a wait is out as soon as sequenceMu is free again.
AskedInv == \A w \in Wait : Begun(w) => w \in asked \/ AtGate(w, {"begun"})

\* The channel and the log of one wait.
Ledger(w) ==
  /\ w \notin decided => signal[w] = None /\ answer[w] = None
  /\ answer[w] # None /\ signal[w] # None => answer[w] = signal[w]
  /\ signal[w] = "superseded" => answer[w] = "superseded"
  /\ AtGate(w, {"begun"}) => signal[w] # "superseded" /\ answer[w] = None
  /\ AtGate(w, {"await", "stopping"}) /\ answer[w] # None
       => signal[w] = "superseded"
  /\ AtGate(w, {"dismiss"})
       => w \in decided /\ signal[w] = None /\ answer[w] = None
Ledgers == (\A w \in Wait : Ledger(w)) /\ answeredAgain = {}

Rest ==
  /\ Numbered /\ Fresh /\ Registered /\ Undecided /\ Locked /\ Telling
  /\ AskedInv /\ Ledgers
GateInv == TypeOK /\ Rest

----------------------------------------------------------------------------
(* Waits.                                                                  *)

\* A wait is a run and a number within its bound.
LEMMA WaitFacts ==
  /\ \A w \in Wait : /\ w[1] \in Runs /\ w[2] \in Nat /\ w[2] >= 1
                     /\ w[2] <= MaxAsks[w[1]] /\ w = <<w[1], w[2]>>
  /\ \A r \in Runs, n \in Nat : 1 <= n /\ n <= MaxAsks[r] => <<r, n>> \in Wait
BY ConstantsAssumption DEF ConstantsAssumption, Wait

\* The current wait of a run that has asked is a wait.
LEMMA CurrentIsWait ==
  ASSUME TypeOK, NEW r \in Runs, asks[r] >= 1
  PROVE  Current(r) \in Wait /\ Current(r)[1] = r /\ Begun(Current(r))
<1>1. asks[r] \in Nat /\ asks[r] <= MaxAsks[r]
  BY DEF TypeOK
<1>2. Current(r) = <<r, asks[r]>>
  BY DEF Current
<1>3. QED
  BY <1>1, <1>2, WaitFacts DEF Begun

\* The ids of the calls of a run are ids, and none of them is absent.
LEMMA IdFacts ==
  ASSUME NEW r \in Runs, NEW c \in CallsOf[r]
  PROVE  c.id \in Ids /\ c.id # None /\ c.kind \in Kind
<1>1. c \in [id : STRING \ {None}, kind : Kind]
  BY ConstantsAssumption DEF ConstantsAssumption
<1>2. c.id \in Ids
  BY DEF Ids
<1>3. QED
  BY <1>1, <1>2

----------------------------------------------------------------------------
(* Types.                                                                  *)

\* An accepted decision keeps the types of the books.
LEMMA DecideTypes ==
  ASSUME TypeOK, NEW W \in SUBSET Wait, NEW d \in Decision, DecideWith(W, d)
  PROVE  /\ decided' \subseteq Wait
         /\ signal' \in [Wait -> Decision \cup {"superseded", None}]
         /\ operatorContext' \in BOOLEAN
<1>1. decided' \subseteq Wait
  BY DEF TypeOK, DecideWith
<1>2. signal' \in [Wait -> Decision \cup {"superseded", None}]
  BY DEF TypeOK, DecideWith
<1>3. operatorContext' \in BOOLEAN
  BY DEF TypeOK, DecideWith
<1>4. QED
  BY <1>1, <1>2, <1>3


\* A published decision keeps the types of the log.
LEMMA PublishTypes ==
  ASSUME TypeOK, NEW W \in SUBSET Wait,
         NEW d \in Decision \cup {"superseded", "dismissed"}, PublishDecision(W, d)
  PROVE  /\ answer' \in [Wait -> Decision \cup {"superseded", "dismissed", None}]
         /\ answeredAgain' \subseteq Wait
<1>1. answer' \in [Wait -> Decision \cup {"superseded", "dismissed", None}]
  BY DEF TypeOK, PublishDecision
<1>2. answeredAgain' \subseteq Wait
  BY DEF TypeOK, PublishDecision
<1>3. QED
  BY <1>1, <1>2

\* The steps of the scheduler and of the operator keep the types.
LEMMA OuterTypes ==
  ASSUME TypeOK,
         \/ \E r \in Runs : Start(r) \/ Finish(r) \/ WallClock(r) \/ Boundary(r)
         \/ \E s \in Sessions : Stop(s)
         \/ \E x \in stopWaits : StopStep(x)
         \/ \E m \in MailOffered : WriteInbox(m)
  PROVE  TypeOK'
<1>0. /\ \A r \in Runs : SessionOf[r] \in Sessions
      /\ \A x \in stopWaits : SessionOf[x[2]] \in Sessions
  BY ConstantsAssumption DEF ConstantsAssumption, TypeOK
<1>1. ASSUME NEW r \in Runs, Start(r) PROVE TypeOK'
  BY <1>0, <1>1 DEF TypeOK, Start, waitVars, bookVars, lockVars, logVars, mailVars
<1>2. ASSUME NEW r \in Runs, Finish(r) PROVE TypeOK'
  BY <1>0, <1>2 DEF TypeOK, Finish, EndStatus, waitVars, bookVars, lockVars,
                    logVars, mailVars
<1>3. ASSUME NEW r \in Runs, WallClock(r) PROVE TypeOK'
  BY <1>3 DEF TypeOK, WallClock, waitVars, bookVars, lockVars, logVars, mailVars
<1>4. ASSUME NEW r \in Runs, Boundary(r) PROVE TypeOK'
  BY <1>4 DEF TypeOK, Boundary, waitVars, bookVars, lockVars, logVars, runVars
<1>5. ASSUME NEW s \in Sessions, Stop(s) PROVE TypeOK'
  BY <1>5 DEF TypeOK, Stop, StopSession, Operator, waitVars, bookVars, lockVars,
              logVars, mailVars
<1>6. ASSUME NEW x \in stopWaits, StopReturns(x) PROVE TypeOK'
  BY <1>6 DEF TypeOK, StopReturns, waitVars, bookVars, lockVars, logVars, mailVars
<1>7. ASSUME NEW x \in stopWaits, ForceFinish(x) PROVE TypeOK'
  BY <1>0, <1>7 DEF TypeOK, ForceFinish, EndStatus, waitVars, bookVars, lockVars,
                    logVars, mailVars
<1>8. ASSUME NEW m \in MailOffered, WriteInbox(m) PROVE TypeOK'
  BY <1>8, ConstantsAssumption
     DEF ConstantsAssumption, TypeOK, WriteInbox, waitVars, bookVars, lockVars,
         logVars, runVars
<1>9. QED
  BY <1>1, <1>2, <1>3, <1>4, <1>5, <1>6, <1>7, <1>8 DEF StopStep

\* The steps of a run at the gate keep the types.
LEMMA InnerTypes ==
  ASSUME TypeOK, Numbered, NEW r \in Runs,
         \/ \E c \in CallsOf[r] : BeginWait(r, c)
         \/ GateStep(r)
         \/ MailboxNote(r) \/ MailboxAnswer(r) \/ MailboxStop(r)
  PROVE  TypeOK'
<1>0. SessionOf[r] \in Sessions
  BY ConstantsAssumption DEF ConstantsAssumption
<1>c. pc[r] \in InGate => Current(r) \in Wait
  BY CurrentIsWait DEF Numbered
<1>w. \A i : Under(SessionOf[r], i) \subseteq Wait
  BY DEF Under, TypeOK
<1>1. ASSUME NEW c \in CallsOf[r], BeginWait(r, c) PROVE TypeOK'
  <2>1. asks[r] \in Nat /\ asks[r] + 1 <= MaxAsks[r] /\ MaxAsks[r] \in Nat
    <3>1. asks[r] \in Nat
      BY DEF TypeOK
    <3>2. MaxAsks[r] \in Nat
      BY ConstantsAssumption DEF ConstantsAssumption
    <3>3. asks[r] < MaxAsks[r]
      BY <1>1 DEF BeginWait
    <3>4. QED
      BY <3>1, <3>2, <3>3
  <2>2. <<r, asks[r] + 1>> \in Wait
    BY <2>1, WaitFacts
  <2>3. c.id \in Ids /\ c.kind \in Kind
    BY IdFacts
  <2>4. Supersedes(SessionOf[r], c.id) \subseteq Wait
    BY <1>w DEF Supersedes, Prior
  <2>5. /\ callOf' \in [Wait -> Ids \cup {None}]
        /\ kindOf' \in [Wait -> Kind \cup {None}]
        /\ pending' \in [Sessions -> Ids \cup {None}]
    BY <1>0, <1>1, <2>2, <2>3 DEF TypeOK, BeginWait
  <2>6. /\ asks' \in [Runs -> Nat]
        /\ \A q \in Runs : asks'[q] <= MaxAsks[q]
    BY <1>1, <2>1 DEF TypeOK, BeginWait
  <2>7. /\ decided' \subseteq Wait /\ telling' \subseteq Wait
        /\ waiting' \subseteq Wait /\ sequence' \in Runs \cup {None}
    BY <1>1, <2>2, <2>4 DEF TypeOK, BeginWait
  <2>8. pc' \in [Runs -> {"new", "free", "begun", "await", "dismiss", "cleanup",
                          "stopping", "returning", "over"}]
    BY <1>1 DEF TypeOK, BeginWait
  <2>9. QED
    BY <1>1, <2>5, <2>6, <2>7, <2>8 DEF TypeOK, BeginWait, logVars, runVars, mailVars
<1>2. CASE TellSuperseded(r)
  <2>1. telling \in SUBSET Wait
    BY DEF TypeOK
  <2>2. /\ answer' \in [Wait -> Decision \cup {"superseded", "dismissed", None}]
        /\ answeredAgain' \subseteq Wait
    BY <1>2, <2>1, PublishTypes DEF TellSuperseded
  <2>3. signal' \in [Wait -> Decision \cup {"superseded", None}]
    BY <1>2 DEF TypeOK, TellSuperseded
  <2>4. QED
    BY <1>2, <2>2, <2>3 DEF TypeOK, TellSuperseded, waitVars, bookVars, runVars,
                            mailVars
<1>3. CASE PublishRequired(r)
  BY <1>0, <1>3, <1>c DEF InGate, TypeOK, PublishRequired, waitVars, bookVars,
                          logVars, runVars, mailVars
<1>4. CASE Receive(r)
  <2>1. Current(r) \in Wait
    BY <1>4, <1>c DEF Receive, InGate
  <2>2. /\ answer' \in [Wait -> Decision \cup {"superseded", "dismissed", None}]
        /\ answeredAgain' \subseteq Wait
    <3>1. CASE signal[Current(r)] = "superseded"
      BY <1>4, <3>1 DEF Receive, TypeOK, logVars
    <3>2. CASE signal[Current(r)] # "superseded"
      <4>1. signal[Current(r)] \in Decision /\ PublishDecision({Current(r)}, signal[Current(r)])
        BY <1>4, <2>1, <3>2 DEF Receive, TypeOK
      <4>2. QED
        BY <2>1, <4>1, PublishTypes
    <3>3. QED
      BY <3>1, <3>2
  <2>3. QED
    BY <1>0, <1>4, <2>2 DEF TypeOK, Receive, waitVars, bookVars, lockVars, runVars,
                            mailVars, logVars
<1>5. CASE GiveUp(r)
  BY <1>5, <1>c DEF InGate, TypeOK, GiveUp, waitVars, bookVars, lockVars, logVars,
                    runVars, mailVars
<1>6. CASE Dismiss(r)
  <2>1. Current(r) \in Wait
    BY <1>6, <1>c DEF Dismiss, InGate
  <2>2. /\ answer' \in [Wait -> Decision \cup {"superseded", "dismissed", None}]
        /\ answeredAgain' \subseteq Wait
    BY <1>6, <2>1, PublishTypes DEF Dismiss
  <2>3. QED
    BY <1>6, <2>2 DEF TypeOK, Dismiss, waitVars, bookVars, lockVars, runVars,
                      mailVars
<1>7. CASE Cleanup(r)
  BY <1>0, <1>7 DEF TypeOK, Cleanup, waitVars, lockVars, logVars, runVars, mailVars
<1>8. CASE MailboxStopped(r)
  <2>1. "deny" \in Decision
    BY DEF Decision
  <2>2. /\ decided' \subseteq Wait
        /\ signal' \in [Wait -> Decision \cup {"superseded", None}]
        /\ operatorContext' \in BOOLEAN
    BY <1>8, <1>w, <2>1, DecideTypes DEF MailboxStopped
  <2>3. QED
    BY <1>8, <2>2 DEF TypeOK, MailboxStopped, waitVars, bookVars, lockVars, logVars,
                      runVars, mailVars
<1>9. CASE MailboxNote(r)
  BY <1>9 DEF TypeOK, MailboxNote, waitVars, bookVars, lockVars, logVars, runVars
<1>10. CASE MailboxAnswer(r)
  <2>1. inbox \in Decision
    BY <1>10 DEF MailboxAnswer, MailAnswer, Decision, Granting
  <2>2. /\ decided' \subseteq Wait
        /\ signal' \in [Wait -> Decision \cup {"superseded", None}]
        /\ operatorContext' \in BOOLEAN
    BY <1>10, <1>w, <2>1, DecideTypes DEF MailboxAnswer
  <2>3. QED
    BY <1>10, <2>2 DEF TypeOK, MailboxAnswer, waitVars, bookVars, lockVars, logVars,
                       runVars
<1>11. CASE MailboxStop(r)
  BY <1>0, <1>11 DEF TypeOK, MailboxStop, StopSession, waitVars, bookVars, lockVars,
                     logVars
<1>12. QED
  BY <1>1, <1>2, <1>3, <1>4, <1>5, <1>6, <1>7, <1>8, <1>9, <1>10, <1>11
     DEF GateStep

----------------------------------------------------------------------------
(* Steps that leave the gate's books alone.                                *)

Books == <<asks, callOf, decided, signal, waiting, pending, sequence, telling,
           asked, answer, answeredAgain>>
\* A run stays where it is, moves outside the gate, or moves between its two
\* places of waiting.
Quiet ==
  \A r \in Runs : \/ pc'[r] = pc[r]
                  \/ pc[r] \notin InGate /\ pc'[r] \notin InGate
                  \/ /\ pc[r] \in {"await", "stopping"}
                     /\ pc'[r] \in {"await", "stopping"}

\* Such a step keeps the invariant.
LEMMA QuietStep ==
  ASSUME GateInv, Quiet, UNCHANGED Books
  PROVE  Rest'
<1>0. /\ \A w \in Wait : w[1] \in Runs
      /\ waiting \subseteq Wait /\ telling \subseteq Wait
      /\ sequence # None => sequence \in Runs
  BY WaitFacts DEF GateInv, TypeOK
<1>1. \A w \in Wait : Current(w[1])' = Current(w[1]) /\ (Begun(w)' <=> Begun(w))
  BY DEF Books, Current, Begun
<1>2. \A w \in Wait :
        /\ AtGate(w, InGate) => AtGate(w, InGate)'
        /\ AtGate(w, Open) => AtGate(w, Open)'
        /\ AtGate(w, {"await", "stopping"}) <=> AtGate(w, {"await", "stopping"})'
        /\ AtGate(w, {"begun"}) <=> AtGate(w, {"begun"})'
        /\ AtGate(w, {"dismiss"}) <=> AtGate(w, {"dismiss"})'
  BY <1>0, <1>1 DEF AtGate, Quiet, InGate, Open
<1>3. Numbered'
  BY DEF GateInv, Rest, Numbered, Quiet, Books, InGate
<1>4. Fresh'
  BY <1>1 DEF GateInv, Rest, Fresh, Books
<1>5. Registered'
  BY <1>0, <1>2 DEF GateInv, Rest, Registered, Books, Session
<1>6. Undecided'
  BY <1>1, <1>2 DEF GateInv, Rest, Undecided, Books
<1>7. Locked'
  BY <1>0 DEF GateInv, Rest, Locked, Books, Quiet, InGate
<1>8. Telling'
  BY <1>0, <1>2 DEF GateInv, Rest, Telling, Books
<1>9. AskedInv'
  BY <1>1, <1>2 DEF GateInv, Rest, AskedInv, Books
<1>10. Ledgers'
  BY <1>2 DEF GateInv, Rest, Ledgers, Ledger, Books
<1>11. QED
  BY <1>3, <1>4, <1>5, <1>6, <1>7, <1>8, <1>9, <1>10 DEF Rest

----------------------------------------------------------------------------
(* The steps of the gate.                                                  *)

\* A registered wait has begun, and no two of a session are registered.
LEMMA RegisteredFacts ==
  ASSUME GateInv
  PROVE  /\ \A w \in waiting : w \in Wait /\ Begun(w)
         /\ \A w, x \in waiting : Session(w) = Session(x) => w = x
<1>1. \A w \in waiting : w \in Wait /\ w[1] \in Runs /\ w = Current(w[1])
  BY WaitFacts DEF GateInv, TypeOK, Rest, Registered, AtGate
<1>2. \A w \in waiting : Begun(w)
  <2>1. TAKE w \in waiting
  <2>2. w[2] = asks[w[1]] /\ asks[w[1]] \in Nat
    BY <1>1 DEF Current, GateInv, TypeOK
  <2>3. QED
    BY <2>2 DEF Begun
<1>3. ASSUME NEW w \in waiting, NEW x \in waiting, Session(w) = Session(x)
      PROVE  w = x
  <2>1. callOf[w] = callOf[x]
    BY <1>3 DEF GateInv, Rest, Registered
  <2>2. PICK c \in CallsOf[w[1]] : callOf[w] = c.id
    BY <1>1, <1>2 DEF GateInv, Rest, Fresh
  <2>3. PICK d \in CallsOf[x[1]] : callOf[x] = d.id
    BY <1>1, <1>2 DEF GateInv, Rest, Fresh
  <2>4. w[1] = x[1]
    BY <1>1, <1>3, <2>1, <2>2, <2>3, DistinctIds DEF Session
  <2>5. QED
    BY <1>1, <2>4
<1>4. QED
  BY <1>1, <1>2, <1>3

\* A decision on registered waits keeps the invariant: an accepted one settles
\* an undecided wait, a refused one changes nothing.
LEMMA DecideStep ==
  ASSUME GateInv, NEW W \in SUBSET waiting, NEW d \in Decision, DecideWith(W, d),
         Quiet,
         UNCHANGED <<asks, callOf, waiting, pending, sequence, telling, asked,
                     answer, answeredAgain>>
  PROVE  Rest'
<1>0. /\ \A w \in Wait : w[1] \in Runs
      /\ waiting \subseteq Wait /\ telling \subseteq Wait
      /\ sequence # None => sequence \in Runs
      /\ signal \in [Wait -> Decision \cup {"superseded", None}]
  BY WaitFacts DEF GateInv, TypeOK
<1>1. \A w \in Wait : Current(w[1])' = Current(w[1]) /\ (Begun(w)' <=> Begun(w))
  BY DEF Current, Begun
<1>2. \A w \in Wait :
        /\ AtGate(w, InGate) => AtGate(w, InGate)'
        /\ AtGate(w, Open) => AtGate(w, Open)'
        /\ AtGate(w, {"await", "stopping"}) <=> AtGate(w, {"await", "stopping"})'
        /\ AtGate(w, {"begun"}) <=> AtGate(w, {"begun"})'
        /\ AtGate(w, {"dismiss"}) <=> AtGate(w, {"dismiss"})'
  BY <1>0, <1>1 DEF AtGate, Quiet, InGate, Open
<1>d. d # None /\ d # "superseded"
  BY DEF Decision, Granting, None
<1>x. PICK W2 \in SUBSET W :
        /\ \A w \in W2 : w \notin decided
        /\ decided' = decided \cup W2
        /\ signal' = [w \in Wait |-> IF w \in W2 THEN d ELSE signal[w]]
  BY DEF DecideWith, Accepts
<1>b. \A w \in W2 : w \in Wait /\ Begun(w)
  BY <1>x, RegisteredFacts
<1>3. Numbered'
  BY DEF GateInv, Rest, Numbered, Quiet, InGate
<1>4. Fresh'
  BY <1>1, <1>x, <1>b DEF GateInv, Rest, Fresh
<1>5. Registered'
  BY <1>0, <1>2 DEF GateInv, Rest, Registered, Session
<1>6. Undecided'
  BY <1>1, <1>2, <1>x DEF GateInv, Rest, Undecided
<1>7. Locked'
  BY <1>0 DEF GateInv, Rest, Locked, Quiet, InGate
<1>8. Telling'
  BY <1>0, <1>2, <1>x DEF GateInv, Rest, Telling
<1>9. AskedInv'
  BY <1>1, <1>2 DEF GateInv, Rest, AskedInv
<1>10. Ledgers'
  <2>1. ASSUME NEW w \in Wait PROVE Ledger(w)'
    <3>1. Ledger(w)
      BY DEF GateInv, Rest, Ledgers
    <3>2. CASE w \in W2
      <4>1. w \notin decided /\ signal'[w] = d /\ w \in decided'
        BY <1>x, <3>2
      <4>2. answer'[w] = None /\ ~AtGate(w, {"dismiss"})
        BY <3>1, <4>1 DEF Ledger
      <4>3. QED
        BY <1>d, <1>2, <4>1, <4>2 DEF Ledger
    <3>3. CASE w \notin W2
      <4>1. signal'[w] = signal[w] /\ (w \in decided' <=> w \in decided)
        BY <1>0, <1>x, <3>3
      <4>2. QED
        BY <1>2, <3>1, <4>1 DEF Ledger
    <3>4. QED
      BY <3>2, <3>3
  <2>2. QED
    BY <2>1 DEF GateInv, Rest, Ledgers
<1>11. QED
  BY <1>3, <1>4, <1>5, <1>6, <1>7, <1>8, <1>9, <1>10 DEF Rest

\* Where the waits are after one run has moved to another place.
LEMMA Moves ==
  ASSUME TypeOK, NEW r \in Runs, NEW b, pc' = [pc EXCEPT ![r] = b], asks' = asks,
         NEW w \in Wait, NEW P
  PROVE  /\ w[1] # r => (AtGate(w, P)' <=> AtGate(w, P))
         /\ w[1] = r => (AtGate(w, P)' <=> w = Current(r) /\ b \in P)
         /\ Begun(w)' <=> Begun(w)
<1>1. w[1] \in Runs /\ Current(w[1])' = Current(w[1])
  BY WaitFacts DEF Current
<1>2. pc'[w[1]] = IF w[1] = r THEN b ELSE pc[w[1]]
  BY <1>1 DEF TypeOK
<1>3. QED
  BY <1>1, <1>2 DEF AtGate, Begun

\* The log event that ends the critical section of sequenceMu.
LEMMA RequiredStep ==
  ASSUME GateInv, NEW r \in Runs, PublishRequired(r)
  PROVE  Rest'
<1>0. /\ \A w \in Wait : w[1] \in Runs
      /\ waiting \subseteq Wait /\ telling \subseteq Wait
  BY WaitFacts DEF GateInv, TypeOK
<1>1. /\ pc[r] = "begun" /\ telling = {} /\ telling' = {}
      /\ pc' = [pc EXCEPT ![r] = "await"] /\ sequence' = None
      /\ asked' = asked \cup {Current(r)}
      /\ UNCHANGED <<asks, callOf, decided, signal, waiting, pending, answer,
                     answeredAgain>>
  BY DEF PublishRequired, waitVars, bookVars, logVars
<1>2. \A w \in Wait, P \in SUBSET InGate :
        /\ w[1] # r => (AtGate(w, P)' <=> AtGate(w, P))
        /\ w[1] = r => (AtGate(w, P)' <=> w = Current(r) /\ "await" \in P)
        /\ Begun(w)' <=> Begun(w)
  BY <1>1, Moves DEF GateInv
<1>p. /\ InGate \in SUBSET InGate /\ Open \in SUBSET InGate
      /\ {"begun"} \in SUBSET InGate /\ {"dismiss"} \in SUBSET InGate
      /\ {"await", "stopping"} \in SUBSET InGate
      /\ "await" \in InGate /\ "await" \in Open /\ "begun" \in InGate
  BY DEF InGate, Open
<1>c. /\ Current(r) \in Wait /\ Current(r)[1] = r /\ Begun(Current(r))
      /\ AtGate(Current(r), {"begun"})
  BY <1>1, <1>p, CurrentIsWait DEF GateInv, Rest, Numbered, AtGate
<1>s. sequence = r /\ r # None
  BY <1>1, ConstantsAssumption DEF ConstantsAssumption, GateInv, Rest, Locked
<1>3. Numbered'
  BY <1>1, <1>p DEF GateInv, TypeOK, Rest, Numbered, InGate
<1>4. Fresh'
  BY <1>1, <1>2, <1>p, <1>c DEF GateInv, Rest, Fresh
<1>5. Registered'
  BY <1>0, <1>1, <1>2, <1>p DEF GateInv, Rest, Registered, Session, AtGate
<1>6. Undecided'
  BY <1>0, <1>1, <1>2, <1>p DEF GateInv, Rest, Undecided, AtGate
<1>7. Locked'
  BY <1>1, <1>s DEF GateInv, TypeOK, Rest, Locked
<1>8. Telling'
  BY <1>1 DEF Telling
<1>9. AskedInv'
  BY <1>0, <1>1, <1>2, <1>p DEF GateInv, Rest, AskedInv, AtGate
<1>10. Ledgers'
  <2>1. ASSUME NEW w \in Wait PROVE Ledger(w)'
    <3>1. Ledger(w) /\ Ledger(Current(r))
      BY <1>c DEF GateInv, Rest, Ledgers
    <3>2. CASE w[1] = r
      BY <1>1, <1>2, <1>p, <1>c, <3>1, <3>2 DEF Ledger
    <3>3. CASE w[1] # r
      BY <1>1, <1>2, <1>p, <3>1, <3>3 DEF Ledger
    <3>4. QED
      BY <3>2, <3>3
  <2>2. QED
    BY <1>1, <2>1 DEF GateInv, Rest, Ledgers
<1>11. QED
  BY <1>3, <1>4, <1>5, <1>6, <1>7, <1>8, <1>9, <1>10 DEF Rest

\* A run takes its decision, whatever became of its context.
LEMMA ReceiveStep ==
  ASSUME GateInv, NEW r \in Runs, Receive(r)
  PROVE  Rest'
<1>0. /\ \A w \in Wait : w[1] \in Runs
      /\ waiting \subseteq Wait /\ telling \subseteq Wait
      /\ sequence # None => sequence \in Runs
  BY WaitFacts DEF GateInv, TypeOK
<1>1. /\ pc[r] = "await" /\ pc' = [pc EXCEPT ![r] = "cleanup"]
      /\ signal[Current(r)] # None
      /\ \/ signal[Current(r)] = "superseded" /\ UNCHANGED <<answer, answeredAgain>>
         \/ /\ signal[Current(r)] # "superseded"
            /\ PublishDecision({Current(r)}, signal[Current(r)])
      /\ UNCHANGED <<asks, callOf, decided, signal, waiting, pending,
                     sequence, telling, asked>>
  BY DEF Receive, waitVars, bookVars, lockVars, logVars
<1>2. \A w \in Wait, P \in SUBSET InGate :
        /\ w[1] # r => (AtGate(w, P)' <=> AtGate(w, P))
        /\ w[1] = r => (AtGate(w, P)' <=> w = Current(r) /\ "cleanup" \in P)
        /\ Begun(w)' <=> Begun(w)
  BY <1>1, Moves DEF GateInv
<1>p. /\ InGate \in SUBSET InGate /\ Open \in SUBSET InGate
      /\ {"begun"} \in SUBSET InGate /\ {"dismiss"} \in SUBSET InGate
      /\ {"await", "stopping"} \in SUBSET InGate
      /\ "await" \in InGate
  BY DEF InGate, Open
<1>c. /\ Current(r) \in Wait /\ Current(r)[1] = r /\ Begun(Current(r))
      /\ \A P : AtGate(Current(r), P) <=> "await" \in P
  BY <1>1, <1>p, CurrentIsWait DEF GateInv, Rest, Numbered, AtGate
<1>l. Ledger(Current(r))
  BY <1>c DEF GateInv, Rest, Ledgers
<1>q. \A w \in Wait : w[1] = r /\ (\E P \in SUBSET InGate : AtGate(w, P)) => w = Current(r)
  BY DEF AtGate
<1>a. /\ Current(r) \in decided
      /\ answeredAgain' = {}
      /\ answer'[Current(r)] = signal[Current(r)]
      /\ \A w \in Wait : w # Current(r) => answer'[w] = answer[w]
  <2>1. Current(r) \in decided /\ answeredAgain = {}
    BY <1>1, <1>l DEF Ledger, GateInv, Rest, Ledgers
  <2>2. CASE signal[Current(r)] = "superseded"
    BY <1>1, <1>l, <2>1, <2>2 DEF Ledger
  <2>3. CASE signal[Current(r)] # "superseded"
    <3>1. answer[Current(r)] = None
      BY <1>c, <1>l, <2>3 DEF Ledger
    <3>2. QED
      BY <1>1, <1>c, <2>1, <2>3, <3>1 DEF PublishDecision
  <2>4. QED
    BY <2>2, <2>3
<1>3. Numbered'
  BY <1>1, <1>p DEF GateInv, TypeOK, Rest, Numbered, InGate
<1>4. Fresh'
  BY <1>1, <1>2, <1>p, <1>c DEF GateInv, Rest, Fresh
<1>5. Registered'
  BY <1>0, <1>1, <1>2, <1>p, <1>q DEF GateInv, Rest, Registered, Session, InGate
<1>6. Undecided'
  BY <1>0, <1>1, <1>2, <1>p, <1>q, <1>c, <1>a DEF GateInv, Rest, Undecided
<1>7. Locked'
  BY <1>0, <1>1 DEF GateInv, TypeOK, Rest, Locked
<1>8. Telling'
  <2>1. ASSUME NEW w \in telling PROVE w[1] # r
    BY <1>0, <1>1, <1>p, <1>q, <1>c, <1>a, <2>1 DEF GateInv, Rest, Telling
  <2>2. QED
    BY <1>0, <1>1, <1>2, <1>p, <1>a, <1>c, <2>1 DEF GateInv, Rest, Telling
<1>9. AskedInv'
  BY <1>0, <1>1, <1>2, <1>p, <1>q, <1>c DEF GateInv, Rest, AskedInv
<1>10. Ledgers'
  <2>1. ASSUME NEW w \in Wait PROVE Ledger(w)'
    <3>1. Ledger(w)
      BY DEF GateInv, Rest, Ledgers
    <3>2. CASE w = Current(r)
      BY <1>1, <1>2, <1>p, <1>c, <1>l, <1>a, <3>2 DEF Ledger, InGate
    <3>3. CASE w # Current(r)
      <4>1. /\ answer'[w] = answer[w] /\ signal'[w] = signal[w]
            /\ w \in decided' <=> w \in decided
        BY <1>1, <1>a, <3>3
      <4>2. CASE w[1] # r
        BY <1>1, <1>2, <1>p, <3>1, <4>1, <4>2 DEF Ledger
      <4>3. CASE w[1] = r
        BY <1>1, <1>2, <1>p, <3>1, <3>3, <4>1, <4>3 DEF Ledger
      <4>4. QED
        BY <4>2, <4>3
    <3>4. QED
      BY <3>2, <3>3
  <2>2. QED
    BY <1>1, <1>a, <2>1 DEF GateInv, Rest, Ledgers
<1>11. QED
  BY <1>3, <1>4, <1>5, <1>6, <1>7, <1>8, <1>9, <1>10 DEF Rest

\* A cancelled run settles its undecided wait itself.
LEMMA GiveUpStep ==
  ASSUME GateInv, NEW r \in Runs, GiveUp(r)
  PROVE  Rest'
<1>0. /\ \A w \in Wait : w[1] \in Runs
      /\ waiting \subseteq Wait /\ telling \subseteq Wait
      /\ sequence # None => sequence \in Runs
  BY WaitFacts DEF GateInv, TypeOK
<1>1. /\ pc[r] = "await" /\ pc' = [pc EXCEPT ![r] = "dismiss"]
      /\ Current(r) \notin decided
      /\ decided' = decided \cup {Current(r)}
      /\ UNCHANGED <<asks, callOf, signal, waiting, pending, sequence,
                     telling, asked, answer, answeredAgain>>
  BY DEF GiveUp, waitVars, bookVars, lockVars, logVars
<1>2. \A w \in Wait, P \in SUBSET InGate :
        /\ w[1] # r => (AtGate(w, P)' <=> AtGate(w, P))
        /\ w[1] = r => (AtGate(w, P)' <=> w = Current(r) /\ "dismiss" \in P)
        /\ Begun(w)' <=> Begun(w)
  BY <1>1, Moves DEF GateInv
<1>p. /\ InGate \in SUBSET InGate /\ Open \in SUBSET InGate
      /\ {"begun"} \in SUBSET InGate /\ {"dismiss"} \in SUBSET InGate
      /\ {"await", "stopping"} \in SUBSET InGate
      /\ "await" \in InGate
  BY DEF InGate, Open
<1>c. /\ Current(r) \in Wait /\ Current(r)[1] = r /\ Begun(Current(r))
      /\ \A P : AtGate(Current(r), P) <=> "await" \in P
  BY <1>1, <1>p, CurrentIsWait DEF GateInv, Rest, Numbered, AtGate
<1>l. Ledger(Current(r))
  BY <1>c DEF GateInv, Rest, Ledgers
<1>q. \A w \in Wait : w[1] = r /\ (\E P \in SUBSET InGate : AtGate(w, P)) => w = Current(r)
  BY DEF AtGate
<1>a. /\ signal[Current(r)] = None /\ answer[Current(r)] = None
      /\ answeredAgain' = {}
      /\ Current(r) \notin telling
      /\ \A w \in Wait : w # Current(r) => (w \in decided' <=> w \in decided)
  BY <1>1, <1>l DEF Ledger, GateInv, Rest, Ledgers, Telling
<1>3. Numbered'
  BY <1>1, <1>p DEF GateInv, TypeOK, Rest, Numbered, InGate
<1>4. Fresh'
  BY <1>1, <1>2, <1>p, <1>c DEF GateInv, Rest, Fresh
<1>5. Registered'
  BY <1>0, <1>1, <1>2, <1>p, <1>q DEF GateInv, Rest, Registered, Session, InGate
<1>6. Undecided'
  BY <1>0, <1>1, <1>2, <1>p, <1>q, <1>c, <1>a DEF GateInv, Rest, Undecided
<1>7. Locked'
  BY <1>0, <1>1 DEF GateInv, TypeOK, Rest, Locked
<1>8. Telling'
  <2>1. ASSUME NEW w \in telling PROVE w[1] # r
    BY <1>0, <1>1, <1>p, <1>q, <1>c, <1>a, <2>1 DEF GateInv, Rest, Telling
  <2>2. QED
    BY <1>0, <1>1, <1>2, <1>p, <1>a, <1>c, <2>1 DEF GateInv, Rest, Telling
<1>9. AskedInv'
  BY <1>0, <1>1, <1>2, <1>p, <1>q, <1>c DEF GateInv, Rest, AskedInv
<1>10. Ledgers'
  <2>1. ASSUME NEW w \in Wait PROVE Ledger(w)'
    <3>1. Ledger(w)
      BY DEF GateInv, Rest, Ledgers
    <3>2. CASE w = Current(r)
      BY <1>1, <1>2, <1>p, <1>c, <1>l, <1>a, <3>2 DEF Ledger, InGate
    <3>3. CASE w # Current(r)
      <4>1. /\ answer'[w] = answer[w] /\ signal'[w] = signal[w]
            /\ w \in decided' <=> w \in decided
        BY <1>1, <1>a, <3>3
      <4>2. CASE w[1] # r
        BY <1>1, <1>2, <1>p, <3>1, <4>1, <4>2 DEF Ledger
      <4>3. CASE w[1] = r
        BY <1>1, <1>2, <1>p, <3>1, <3>3, <4>1, <4>3 DEF Ledger
      <4>4. QED
        BY <4>2, <4>3
    <3>4. QED
      BY <3>2, <3>3
  <2>2. QED
    BY <1>1, <1>a, <2>1 DEF GateInv, Rest, Ledgers
<1>11. QED
  BY <1>3, <1>4, <1>5, <1>6, <1>7, <1>8, <1>9, <1>10 DEF Rest

\* The dismissal of such a wait is its only event.
LEMMA DismissStep ==
  ASSUME GateInv, NEW r \in Runs, Dismiss(r)
  PROVE  Rest'
<1>0. /\ \A w \in Wait : w[1] \in Runs
      /\ waiting \subseteq Wait /\ telling \subseteq Wait
      /\ sequence # None => sequence \in Runs
  BY WaitFacts DEF GateInv, TypeOK
<1>1. /\ pc[r] = "dismiss" /\ pc' = [pc EXCEPT ![r] = "cleanup"]
      /\ PublishDecision({Current(r)}, "dismissed")
      /\ UNCHANGED <<asks, callOf, decided, signal, waiting, pending,
                     sequence, telling, asked>>
  BY DEF Dismiss, waitVars, bookVars, lockVars
<1>2. \A w \in Wait, P \in SUBSET InGate :
        /\ w[1] # r => (AtGate(w, P)' <=> AtGate(w, P))
        /\ w[1] = r => (AtGate(w, P)' <=> w = Current(r) /\ "cleanup" \in P)
        /\ Begun(w)' <=> Begun(w)
  BY <1>1, Moves DEF GateInv
<1>p. /\ InGate \in SUBSET InGate /\ Open \in SUBSET InGate
      /\ {"begun"} \in SUBSET InGate /\ {"dismiss"} \in SUBSET InGate
      /\ {"await", "stopping"} \in SUBSET InGate
      /\ "dismiss" \in InGate
  BY DEF InGate, Open
<1>c. /\ Current(r) \in Wait /\ Current(r)[1] = r /\ Begun(Current(r))
      /\ \A P : AtGate(Current(r), P) <=> "dismiss" \in P
  BY <1>1, <1>p, CurrentIsWait DEF GateInv, Rest, Numbered, AtGate
<1>l. Ledger(Current(r))
  BY <1>c DEF GateInv, Rest, Ledgers
<1>q. \A w \in Wait : w[1] = r /\ (\E P \in SUBSET InGate : AtGate(w, P)) => w = Current(r)
  BY DEF AtGate
<1>a. /\ Current(r) \in decided /\ signal[Current(r)] = None
      /\ answeredAgain' = {}
      /\ answer'[Current(r)] = "dismissed"
      /\ \A w \in Wait : w # Current(r) => answer'[w] = answer[w]
  <2>1. Current(r) \in decided /\ answer[Current(r)] = None /\ signal[Current(r)] = None
    BY <1>c, <1>l DEF Ledger
  <2>2. answeredAgain = {}
    BY DEF GateInv, Rest, Ledgers
  <2>3. QED
    BY <1>1, <1>c, <2>1, <2>2 DEF PublishDecision
<1>3. Numbered'
  BY <1>1, <1>p DEF GateInv, TypeOK, Rest, Numbered, InGate
<1>4. Fresh'
  BY <1>1, <1>2, <1>p, <1>c DEF GateInv, Rest, Fresh
<1>5. Registered'
  BY <1>0, <1>1, <1>2, <1>p, <1>q DEF GateInv, Rest, Registered, Session, InGate
<1>6. Undecided'
  BY <1>0, <1>1, <1>2, <1>p, <1>q, <1>c, <1>a DEF GateInv, Rest, Undecided
<1>7. Locked'
  BY <1>0, <1>1 DEF GateInv, TypeOK, Rest, Locked
<1>8. Telling'
  <2>1. ASSUME NEW w \in telling PROVE w[1] # r
    BY <1>0, <1>1, <1>p, <1>q, <1>c, <1>a, <2>1 DEF GateInv, Rest, Telling
  <2>2. QED
    BY <1>0, <1>1, <1>2, <1>p, <1>a, <1>c, <2>1 DEF GateInv, Rest, Telling
<1>9. AskedInv'
  BY <1>0, <1>1, <1>2, <1>p, <1>q, <1>c DEF GateInv, Rest, AskedInv
<1>10. Ledgers'
  <2>1. ASSUME NEW w \in Wait PROVE Ledger(w)'
    <3>1. Ledger(w)
      BY DEF GateInv, Rest, Ledgers
    <3>2. CASE w = Current(r)
      BY <1>1, <1>2, <1>p, <1>c, <1>l, <1>a, <3>2 DEF Ledger, InGate, None
    <3>3. CASE w # Current(r)
      <4>1. /\ answer'[w] = answer[w] /\ signal'[w] = signal[w]
            /\ w \in decided' <=> w \in decided
        BY <1>1, <1>a, <3>3
      <4>2. CASE w[1] # r
        BY <1>1, <1>2, <1>p, <3>1, <4>1, <4>2 DEF Ledger
      <4>3. CASE w[1] = r
        BY <1>1, <1>2, <1>p, <3>1, <3>3, <4>1, <4>3 DEF Ledger
      <4>4. QED
        BY <4>2, <4>3
    <3>4. QED
      BY <3>2, <3>3
  <2>2. QED
    BY <1>1, <1>a, <2>1 DEF GateInv, Rest, Ledgers
<1>11. QED
  BY <1>3, <1>4, <1>5, <1>6, <1>7, <1>8, <1>9, <1>10 DEF Rest

\* The cleanup of one wait leaves every other wait registered.
LEMMA CleanupStep ==
  ASSUME GateInv, NEW r \in Runs, Cleanup(r)
  PROVE  Rest'
<1>0. /\ \A w \in Wait : w[1] \in Runs
      /\ waiting \subseteq Wait /\ telling \subseteq Wait
      /\ sequence # None => sequence \in Runs
  BY WaitFacts DEF GateInv, TypeOK
<1>1. /\ pc[r] = "cleanup" /\ pc' = [pc EXCEPT ![r] = "free"]
      /\ waiting' = waiting \ {Current(r)}
      /\ pending' = [pending EXCEPT ![SessionOf[r]] =
                       IF @ = callOf[Current(r)] THEN None ELSE @]
      /\ UNCHANGED <<asks, callOf, decided, signal, sequence, telling, asked,
                     answer, answeredAgain>>
  BY DEF Cleanup, waitVars, lockVars, logVars
<1>2. \A w \in Wait, P \in SUBSET InGate :
        /\ w[1] # r => (AtGate(w, P)' <=> AtGate(w, P))
        /\ w[1] = r => (AtGate(w, P)' <=> w = Current(r) /\ "free" \in P)
        /\ Begun(w)' <=> Begun(w)
  BY <1>1, Moves DEF GateInv
<1>p. /\ InGate \in SUBSET InGate /\ Open \in SUBSET InGate
      /\ {"begun"} \in SUBSET InGate /\ {"dismiss"} \in SUBSET InGate
      /\ {"await", "stopping"} \in SUBSET InGate
      /\ "cleanup" \in InGate
  BY DEF InGate, Open
<1>c. /\ Current(r) \in Wait /\ Current(r)[1] = r /\ Begun(Current(r))
      /\ \A P : AtGate(Current(r), P) <=> "cleanup" \in P
  BY <1>1, <1>p, CurrentIsWait DEF GateInv, Rest, Numbered, AtGate
<1>l. Ledger(Current(r))
  BY <1>c DEF GateInv, Rest, Ledgers
<1>q. \A w \in Wait : w[1] = r /\ (\E P \in SUBSET InGate : AtGate(w, P)) => w = Current(r)
  BY DEF AtGate
<1>a. /\ Current(r) \in decided /\ answeredAgain' = {}
      /\ Current(r) \notin telling
  <2>1. Current(r) \in decided
    BY <1>c, <1>1 DEF GateInv, Rest, Undecided, Open
  <2>2. Current(r) \notin telling
    BY <1>c DEF GateInv, Rest, Telling
  <2>3. QED
    BY <1>1, <2>1, <2>2 DEF GateInv, Rest, Ledgers
<1>3. Numbered'
  BY <1>1, <1>p DEF GateInv, TypeOK, Rest, Numbered, InGate
<1>4. Fresh'
  BY <1>1, <1>2, <1>p, <1>c DEF GateInv, Rest, Fresh
<1>5. Registered'
  <2>1. ASSUME NEW w \in waiting'
        PROVE  AtGate(w, InGate)' /\ pending'[Session(w)] = callOf'[w]
    <3>1. w \in waiting /\ w \in Wait /\ w # Current(r) /\ w[1] \in Runs
      BY <1>0, <1>1, <2>1
    <3>2. AtGate(w, InGate) /\ pending[Session(w)] = callOf[w] /\ Begun(w)
      BY <3>1, RegisteredFacts DEF GateInv, Rest, Registered
    <3>3. w[1] # r
      BY <1>p, <1>q, <3>1, <3>2
    <3>4. Session(w) = SessionOf[r] => callOf[w] # callOf[Current(r)]
      <4>1. PICK c \in CallsOf[w[1]] : callOf[w] = c.id
        BY <3>1, <3>2 DEF GateInv, Rest, Fresh
      <4>2. PICK d \in CallsOf[r] : callOf[Current(r)] = d.id
        BY <1>c DEF GateInv, Rest, Fresh
      <4>3. QED
        BY <3>1, <3>3, <4>1, <4>2, DistinctIds DEF Session
    <3>5. Session(w) \in Sessions
      BY <3>1, ConstantsAssumption DEF ConstantsAssumption, Session
    <3>6. pending'[Session(w)] = pending[Session(w)]
      BY <1>1, <3>2, <3>4, <3>5 DEF GateInv, TypeOK
    <3>7. QED
      BY <1>1, <1>2, <1>p, <3>1, <3>2, <3>3, <3>6
  <2>2. QED
    BY <2>1 DEF Registered, Session
<1>6. Undecided'
  BY <1>0, <1>1, <1>2, <1>p, <1>q, <1>c, <1>a DEF GateInv, Rest, Undecided
<1>7. Locked'
  BY <1>0, <1>1 DEF GateInv, TypeOK, Rest, Locked
<1>8. Telling'
  <2>1. ASSUME NEW w \in telling PROVE w[1] # r
    BY <1>0, <1>1, <1>p, <1>q, <1>c, <1>a, <2>1 DEF GateInv, Rest, Telling
  <2>2. QED
    BY <1>0, <1>1, <1>2, <1>p, <1>a, <1>c, <2>1 DEF GateInv, Rest, Telling
<1>9. AskedInv'
  BY <1>0, <1>1, <1>2, <1>p, <1>q, <1>c DEF GateInv, Rest, AskedInv
<1>10. Ledgers'
  <2>1. ASSUME NEW w \in Wait PROVE Ledger(w)'
    <3>1. Ledger(w)
      BY DEF GateInv, Rest, Ledgers
    <3>2. CASE w = Current(r)
      BY <1>1, <1>2, <1>p, <1>c, <1>l, <1>a, <3>2 DEF Ledger, InGate
    <3>3. CASE w # Current(r)
      <4>1. /\ answer'[w] = answer[w] /\ signal'[w] = signal[w]
            /\ w \in decided' <=> w \in decided
        BY <1>1, <1>a, <3>3
      <4>2. CASE w[1] # r
        BY <1>1, <1>2, <1>p, <3>1, <4>1, <4>2 DEF Ledger
      <4>3. CASE w[1] = r
        BY <1>1, <1>2, <1>p, <3>1, <3>3, <4>1, <4>3 DEF Ledger
      <4>4. QED
        BY <4>2, <4>3
    <3>4. QED
      BY <3>2, <3>3
  <2>2. QED
    BY <1>1, <1>a, <2>1 DEF GateInv, Rest, Ledgers
<1>11. QED
  BY <1>3, <1>4, <1>5, <1>6, <1>7, <1>8, <1>9, <1>10 DEF Rest

\* The superseded wait gets its answer and its signal together.
LEMMA TellStep ==
  ASSUME GateInv, NEW r \in Runs, TellSuperseded(r)
  PROVE  Rest'
<1>0. /\ \A w \in Wait : w[1] \in Runs
      /\ telling \subseteq Wait
      /\ answeredAgain = {}
  BY WaitFacts DEF GateInv, TypeOK, Rest, Ledgers
<1>1. /\ pc[r] = "begun" /\ telling' = {}
      /\ PublishDecision(telling, "superseded")
      /\ signal' = [w \in Wait |-> IF w \in telling THEN "superseded" ELSE signal[w]]
      /\ UNCHANGED <<pc, asks, callOf, decided, waiting, pending, sequence, asked>>
  BY DEF TellSuperseded, waitVars, bookVars
<1>2. /\ \A w \in telling : signal'[w] = "superseded" /\ answer'[w] = "superseded"
      /\ \A w \in Wait : w \notin telling =>
           signal'[w] = signal[w] /\ answer'[w] = answer[w]
      /\ answeredAgain' = {}
  BY <1>0, <1>1 DEF PublishDecision, GateInv, Rest, Telling
<1>3. Numbered' /\ Fresh' /\ Registered' /\ Undecided' /\ AskedInv'
  <2>1. Numbered'
    BY <1>1 DEF GateInv, Rest, Numbered
  <2>2. Fresh'
    BY <1>1 DEF GateInv, Rest, Fresh, Begun
  <2>3. Registered'
    BY <1>1 DEF GateInv, Rest, Registered, AtGate, Current, Session
  <2>4. Undecided'
    BY <1>1 DEF GateInv, Rest, Undecided, AtGate, Current, Begun
  <2>5. AskedInv'
    BY <1>1 DEF GateInv, Rest, AskedInv, AtGate, Current, Begun
  <2>6. QED
    BY <2>1, <2>2, <2>3, <2>4, <2>5
<1>4. Locked' /\ Telling'
  BY <1>1 DEF GateInv, Rest, Locked, Telling
<1>5. Ledgers'
  <2>1. ASSUME NEW w \in Wait PROVE Ledger(w)'
    <3>1. Ledger(w)
      BY DEF GateInv, Rest, Ledgers
    <3>2. CASE w \in telling
      <4>1. w \in decided /\ AtGate(w, {"await", "stopping"})
        BY <3>2 DEF GateInv, Rest, Telling
      <4>2. ~AtGate(w, {"begun"})' /\ ~AtGate(w, {"dismiss"})'
        BY <1>1, <4>1 DEF AtGate, Current
      <4>3. QED
        BY <1>1, <1>2, <3>2, <4>1, <4>2 DEF Ledger
    <3>3. CASE w \notin telling
      BY <1>1, <1>2, <3>1, <3>3 DEF Ledger, AtGate, Current
    <3>4. QED
      BY <3>2, <3>3
  <2>2. QED
    BY <1>2, <2>1 DEF Ledgers
<1>6. QED
  BY <1>3, <1>4, <1>5 DEF Rest

\* A new wait displaces and settles what its session had pending.
LEMMA BeginStep ==
  ASSUME GateInv, NEW r \in Runs, NEW c \in CallsOf[r], BeginWait(r, c)
  PROVE  Rest'
<1> DEFINE s == SessionOf[r]
           n == <<r, asks[r] + 1>>
           sup == Supersedes(s, c.id)
           out == Prior(s, c.id) \cup Under(s, c.id)
<1>0. /\ \A w \in Wait : w[1] \in Runs /\ w[2] \in Nat /\ w = <<w[1], w[2]>>
      /\ waiting \subseteq Wait /\ telling \subseteq Wait
      /\ s \in Sessions
  BY WaitFacts, ConstantsAssumption DEF ConstantsAssumption, GateInv, TypeOK
<1>1. /\ pc[r] = "free" /\ sequence = None /\ sequence' = r
      /\ pc' = [pc EXCEPT ![r] = "begun"]
      /\ asks' = [asks EXCEPT ![r] = @ + 1]
      /\ callOf' = [callOf EXCEPT ![n] = c.id]
      /\ decided' = decided \cup sup
      /\ telling' = telling \cup sup
      /\ waiting' = (waiting \ out) \cup {n}
      /\ pending' = [pending EXCEPT ![s] = c.id]
      /\ UNCHANGED <<signal, asked, answer, answeredAgain>>
  BY DEF BeginWait, SequenceFree, logVars
<1>n. n \in Wait /\ n[1] = r /\ n[2] = asks[r] + 1 /\ asks[r] \in Nat
  <2>1. asks[r] \in Nat
    BY DEF GateInv, TypeOK
  <2>2. MaxAsks[r] \in Nat
    BY ConstantsAssumption DEF ConstantsAssumption
  <2>3. asks[r] < MaxAsks[r]
    BY DEF BeginWait
  <2>4. QED
    BY <2>1, <2>2, <2>3, WaitFacts
<1>i. c.id \in Ids /\ c.id # None /\ telling = {}
  BY <1>1, IdFacts DEF GateInv, Rest, Locked
<1>2. \A w \in Wait : w[1] # r =>
        /\ Begun(w)' <=> Begun(w)
        /\ \A P \in SUBSET InGate : AtGate(w, P)' <=> AtGate(w, P)
  BY <1>0, <1>1 DEF AtGate, Begun, Current, GateInv, TypeOK
<1>3. \A w \in Wait : w[1] = r =>
        /\ Begun(w)' <=> Begun(w) \/ w = n
        /\ \A P \in SUBSET InGate : AtGate(w, P)' <=> w = n /\ "begun" \in P
  <2>1. asks'[r] = asks[r] + 1 /\ pc'[r] = "begun"
    BY <1>1 DEF GateInv, TypeOK
  <2>2. QED
    BY <1>0, <1>n, <2>1 DEF AtGate, Begun, Current
<1>4. ~Begun(n) /\ n \notin decided /\ n \notin waiting
  <2>1. ~Begun(n)
    BY <1>n DEF Begun
  <2>2. QED
    BY <1>n, <2>1, RegisteredFacts DEF GateInv, Rest, Fresh
<1>p. /\ InGate \in SUBSET InGate /\ Open \in SUBSET InGate
      /\ {"begun"} \in SUBSET InGate /\ {"dismiss"} \in SUBSET InGate
      /\ {"await", "stopping"} \in SUBSET InGate
      /\ "begun" \in InGate /\ "begun" \in Open
  BY DEF InGate, Open
<1>5. \A w \in Wait : w[1] = r => w \notin waiting /\ (Begun(w) => w \in decided)
  BY <1>1 DEF GateInv, Rest, Registered, Undecided, AtGate, InGate, Open
<1>6. \A w \in waiting : Session(w) = s => w \in out
  <2>1. ASSUME NEW w \in waiting, Session(w) = s PROVE w \in out
    <3>1. callOf[w] = pending[s] /\ callOf[w] # None
      BY <1>0, <2>1, RegisteredFacts DEF GateInv, Rest, Registered, Fresh
    <3>2. QED
      BY <2>1, <3>1 DEF Prior, Under
  <2>2. QED
    BY <2>1
<1>7. out \subseteq waiting /\ sup \subseteq out /\ \A w \in out : Session(w) = s
  BY DEF Prior, Under, Supersedes
<1>8. \A w \in sup :
        /\ w \in Wait /\ w[1] # r /\ w \notin decided /\ Begun(w)
        /\ AtGate(w, {"await", "stopping"})
  <2>1. TAKE w \in sup
  <2>2. w \in waiting /\ w \in Wait /\ w \notin decided /\ Begun(w)
    BY <1>7, RegisteredFacts DEF Supersedes
  <2>3. w[1] # r /\ w[1] \in Runs /\ AtGate(w, Open)
    BY <1>0, <1>5, <2>2 DEF GateInv, Rest, Undecided
  <2>4. pc[w[1]] # "begun"
    BY <1>1, <2>3, ConstantsAssumption DEF ConstantsAssumption, GateInv, Rest, Locked
  <2>5. QED
    BY <2>2, <2>3, <2>4 DEF AtGate, Open
<1>9. \A w \in Wait : Begun(w) /\ w \notin decided /\ Session(w) = s => w \in sup
  <2>1. ASSUME NEW w \in Wait, Begun(w), w \notin decided, Session(w) = s
        PROVE  w \in sup
    <3>1. w \in waiting /\ w[1] # r /\ w[1] \in Runs
      BY <1>0, <1>5, <2>1 DEF GateInv, Rest, Undecided
    <3>2. callOf[w] = pending[s] /\ callOf[w] # None
      BY <2>1, <3>1 DEF GateInv, Rest, Registered, Fresh
    <3>3. PICK d \in CallsOf[w[1]] : callOf[w] = d.id
      BY <2>1 DEF GateInv, Rest, Fresh
    <3>4. callOf[w] # c.id
      BY <2>1, <3>1, <3>3, DistinctIds DEF Session
    <3>5. QED
      BY <2>1, <3>1, <3>2, <3>4 DEF Supersedes, Prior, Under
  <2>2. QED
    BY <2>1
<1>10. \A w \in Wait : w # n => callOf'[w] = callOf[w]
  BY <1>1 DEF GateInv, TypeOK
<1>11. callOf'[n] = c.id
  BY <1>1, <1>n DEF GateInv, TypeOK
<1>12. Numbered'
  BY <1>1, <1>n DEF GateInv, TypeOK, Rest, Numbered
<1>13. Fresh'
  <2>1. ASSUME NEW w \in Wait, ~Begun(w)'
        PROVE  w \notin decided' \cup asked' \cup telling'
    <3>1. ~Begun(w)
      BY <1>0, <1>2, <1>3, <2>1
    <3>2. QED
      BY <1>1, <1>8, <3>1 DEF GateInv, Rest, Fresh
  <2>2. ASSUME NEW w \in Wait, Begun(w)'
        PROVE  (\E d \in CallsOf[w[1]] : callOf'[w] = d.id) /\ callOf'[w] # None
    <3>1. CASE w = n
      BY <1>n, <1>i, <1>11, <3>1
    <3>2. CASE w # n
      <4>1. Begun(w)
        BY <1>0, <1>2, <1>3, <2>2, <3>2
      <4>2. QED
        BY <1>10, <3>2, <4>1 DEF GateInv, Rest, Fresh
    <3>3. QED
      BY <3>1, <3>2
  <2>3. QED
    BY <2>1, <2>2 DEF Fresh
<1>14. Registered'
  <2>1. ASSUME NEW w \in waiting'
        PROVE  AtGate(w, InGate)' /\ pending'[Session(w)] = callOf'[w]
    <3>1. CASE w = n
      <4>1. Session(n) = s
        BY <1>n DEF Session
      <4>2. pending'[s] = c.id
        BY <1>0, <1>1 DEF GateInv, TypeOK
      <4>3. QED
        BY <1>3, <1>n, <1>p, <1>11, <3>1, <4>1, <4>2
    <3>2. CASE w # n
      <4>1. w \in waiting /\ w \in Wait /\ w[1] # r /\ Session(w) # s
        BY <1>0, <1>1, <1>5, <1>6, <2>1, <3>2
      <4>2. AtGate(w, InGate) /\ pending[Session(w)] = callOf[w]
        BY <4>1 DEF GateInv, Rest, Registered
      <4>3. Session(w) \in Sessions
        BY <1>0, <4>1, ConstantsAssumption DEF ConstantsAssumption, Session
      <4>4. pending'[Session(w)] = pending[Session(w)]
        BY <1>1, <4>1, <4>3 DEF GateInv, TypeOK
      <4>5. QED
        BY <1>2, <1>p, <1>10, <3>2, <4>1, <4>2, <4>4
    <3>3. QED
      BY <3>1, <3>2
  <2>2. QED
    BY <2>1 DEF Registered, Session
<1>15. Undecided'
  <2>1. ASSUME NEW w \in Wait, Begun(w)', w \notin decided'
        PROVE  AtGate(w, Open)' /\ w \in waiting'
    <3>1. CASE w = n
      BY <1>1, <1>3, <1>n, <1>p, <3>1
    <3>2. CASE w # n
      <4>1. Begun(w) /\ w \notin decided /\ w \notin sup
        BY <1>0, <1>1, <1>2, <1>3, <2>1, <3>2
      <4>2. w[1] # r /\ w \in waiting /\ AtGate(w, Open)
        BY <1>5, <4>1 DEF GateInv, Rest, Undecided
      <4>3. w \notin out
        BY <1>7, <1>9, <4>1
      <4>4. QED
        BY <1>1, <1>2, <1>p, <4>2, <4>3
    <3>3. QED
      BY <3>1, <3>2
  <2>2. QED
    BY <2>1 DEF Undecided
<1>16. Locked'
  BY <1>1, <1>i, ConstantsAssumption
     DEF ConstantsAssumption, GateInv, TypeOK, Rest, Locked
<1>17. Telling'
  <2>1. ASSUME NEW w \in telling'
        PROVE  /\ AtGate(w, {"await", "stopping"})'
               /\ w \in decided' /\ signal'[w] = None /\ answer'[w] = None
    <3>1. w \in sup
      BY <1>1, <1>i, <2>1
    <3>2. Ledger(w)
      BY <1>8, <3>1 DEF GateInv, Rest, Ledgers
    <3>3. QED
      BY <1>1, <1>2, <1>p, <1>8, <3>1, <3>2 DEF Ledger
  <2>2. QED
    BY <2>1 DEF Telling
<1>18. AskedInv'
  <2>1. ASSUME NEW w \in Wait, Begun(w)' PROVE w \in asked' \/ AtGate(w, {"begun"})'
    <3>1. CASE w = n
      BY <1>3, <1>n, <1>p, <3>1
    <3>2. CASE w # n
      <4>1. Begun(w)
        BY <1>0, <1>2, <1>3, <2>1, <3>2
      <4>2. w \in asked \/ AtGate(w, {"begun"})
        BY <4>1 DEF GateInv, Rest, AskedInv
      <4>3. w[1] = r => ~AtGate(w, {"begun"})
        BY <1>1 DEF AtGate
      <4>4. QED
        BY <1>0, <1>1, <1>2, <1>p, <4>2, <4>3
    <3>3. QED
      BY <3>1, <3>2
  <2>2. QED
    BY <2>1 DEF AskedInv
<1>19. Ledgers'
  <2>1. ASSUME NEW w \in Wait PROVE Ledger(w)'
    <3>1. Ledger(w)
      BY DEF GateInv, Rest, Ledgers
    <3>2. CASE w[1] # r
      <4>1. /\ AtGate(w, {"begun"})' <=> AtGate(w, {"begun"})
            /\ AtGate(w, {"await", "stopping"})' <=> AtGate(w, {"await", "stopping"})
            /\ AtGate(w, {"dismiss"})' <=> AtGate(w, {"dismiss"})
        BY <1>2, <1>p, <3>2
      <4>2. QED
        BY <1>1, <3>1, <4>1 DEF Ledger
    <3>3. CASE w[1] = r
      <4>1. /\ AtGate(w, {"begun"})' => w = n
            /\ ~AtGate(w, {"await", "stopping"})' /\ ~AtGate(w, {"dismiss"})'
        BY <1>3, <1>p, <3>3
      <4>2. w = n => signal[w] = None /\ answer[w] = None
        BY <1>4, <3>1 DEF Ledger
      <4>3. QED
        BY <1>1, <3>1, <4>1, <4>2 DEF Ledger, None
    <3>4. QED
      BY <3>2, <3>3
  <2>2. QED
    BY <1>1, <2>1 DEF GateInv, Rest, Ledgers
<1>20. QED
  BY <1>12, <1>13, <1>14, <1>15, <1>16, <1>17, <1>18, <1>19 DEF Rest

----------------------------------------------------------------------------
(* The invariant.                                                          *)

\* It holds at the start.
LEMMA GateInit ==
  ASSUME Init
  PROVE  GateInv
<1>0. \A w \in Wait : w[1] \in Runs /\ w[2] \in Nat /\ w[2] >= 1
  BY WaitFacts
<1>1. TypeOK
  <2>1. /\ \A r \in Runs : asks[r] <= MaxAsks[r]
        /\ mails \in 0..MaxMail
    BY ConstantsAssumption DEF ConstantsAssumption, Init
  <2>2. QED
    BY <2>1 DEF Init, TypeOK
<1>2. \A w \in Wait : ~Begun(w)
  BY <1>0 DEF Init, Begun
<1>3. Numbered /\ Locked /\ Telling /\ Registered
  BY DEF Init, Numbered, InGate, Locked, Telling, Registered
<1>4. Fresh /\ Undecided /\ AskedInv
  BY <1>2 DEF Init, Fresh, Undecided, AskedInv
<1>5. Ledgers
  BY <1>0 DEF Init, Ledgers, Ledger, AtGate, None
<1>6. QED
  BY <1>1, <1>3, <1>4, <1>5 DEF GateInv, Rest

\* Steps outside the gate, and the polls of INBOX.md that decide nothing.
LEMMA OuterStep ==
  ASSUME GateInv,
         \/ \E r \in Runs : \/ Start(r) \/ Finish(r) \/ WallClock(r) \/ Boundary(r)
                           \/ MailboxNote(r) \/ MailboxStop(r)
         \/ \E s \in Sessions : Stop(s)
         \/ \E x \in stopWaits : StopStep(x)
         \/ \E m \in MailOffered : WriteInbox(m)
  PROVE  Quiet /\ UNCHANGED Books
<1>t. pc \in [Runs -> {"new", "free", "begun", "await", "dismiss", "cleanup",
                        "stopping", "returning", "over"}]
  BY DEF GateInv, TypeOK
<1>1. ASSUME NEW r \in Runs, Start(r) PROVE Quiet /\ UNCHANGED Books
  BY <1>t, <1>1 DEF Start, Quiet, InGate, Books, waitVars, bookVars, lockVars, logVars
<1>2. ASSUME NEW r \in Runs, Finish(r) PROVE Quiet /\ UNCHANGED Books
  BY <1>t, <1>2 DEF Finish, Quiet, InGate, Books, waitVars, bookVars, lockVars, logVars
<1>3. ASSUME NEW r \in Runs, WallClock(r) PROVE Quiet /\ UNCHANGED Books
  BY <1>3 DEF WallClock, Quiet, Books, waitVars, bookVars, lockVars, logVars
<1>4. ASSUME NEW r \in Runs, Boundary(r) PROVE Quiet /\ UNCHANGED Books
  BY <1>t, <1>4 DEF Boundary, Quiet, InGate, Books, waitVars, bookVars, lockVars,
                    logVars
<1>5. ASSUME NEW r \in Runs, MailboxNote(r) PROVE Quiet /\ UNCHANGED Books
  BY <1>5 DEF MailboxNote, Quiet, Books, waitVars, bookVars, lockVars, logVars
<1>6. ASSUME NEW r \in Runs, MailboxStop(r) PROVE Quiet /\ UNCHANGED Books
  BY <1>t, <1>6 DEF MailboxStop, Quiet, Books, waitVars, bookVars, lockVars, logVars
<1>7. ASSUME NEW s \in Sessions, Stop(s) PROVE Quiet /\ UNCHANGED Books
  BY <1>7 DEF Stop, Quiet, Books, waitVars, bookVars, lockVars, logVars
<1>8. ASSUME NEW x \in stopWaits, StopStep(x) PROVE Quiet /\ UNCHANGED Books
  BY <1>8 DEF StopStep, StopReturns, ForceFinish, Quiet, Books, waitVars, bookVars,
              lockVars, logVars
<1>9. ASSUME NEW m \in MailOffered, WriteInbox(m) PROVE Quiet /\ UNCHANGED Books
  BY <1>9 DEF WriteInbox, Quiet, Books, waitVars, bookVars, lockVars, logVars
<1>10. QED
  BY <1>1, <1>2, <1>3, <1>4, <1>5, <1>6, <1>7, <1>8, <1>9

\* Answers: over HTTP, from INBOX.md, and the denial after a STOP.
LEMMA AnswerStep ==
  ASSUME GateInv,
         \/ \E x \in waiting, d \in Offered : Approve(x, d)
         \/ \E r \in Runs : MailboxAnswer(r) \/ MailboxStopped(r)
  PROVE  \E W \in SUBSET waiting, d \in Decision :
           /\ DecideWith(W, d)
           /\ Quiet
           /\ UNCHANGED <<asks, callOf, kindOf, waiting, pending, sequence,
                          telling, asked, answer, answeredAgain>>
<1>1. ASSUME NEW x \in waiting, NEW d \in Offered, Approve(x, d)
      PROVE  /\ d \in Decision /\ {x} \in SUBSET waiting /\ DecideWith({x}, d)
             /\ Quiet
             /\ UNCHANGED <<asks, callOf, kindOf, waiting, pending, sequence,
                            telling, asked, answer, answeredAgain>>
  BY <1>1, ConstantsAssumption
     DEF ConstantsAssumption, Approve, Quiet, waitVars, bookVars, lockVars, logVars
<1>2. ASSUME NEW r \in Runs, MailboxAnswer(r)
      PROVE  \E W \in SUBSET waiting, d \in Decision :
               /\ DecideWith(W, d)
               /\ Quiet
               /\ UNCHANGED <<asks, callOf, kindOf, waiting, pending, sequence,
                              telling, asked, answer, answeredAgain>>
  <2>1. inbox \in Decision
    BY <1>2 DEF MailboxAnswer, MailAnswer, Decision, Granting
  <2>2. PICK W \in SUBSET waiting : DecideWith(W, inbox)
    BY <1>2 DEF MailboxAnswer, Under
  <2>3. Quiet /\ UNCHANGED <<asks, callOf, kindOf, waiting, pending, sequence,
                             telling, asked, answer, answeredAgain>>
    BY <1>2 DEF MailboxAnswer, Quiet, waitVars, bookVars, lockVars, logVars
  <2>4. QED
    BY <2>1, <2>2, <2>3
<1>3. ASSUME NEW r \in Runs, MailboxStopped(r)
      PROVE  \E W \in SUBSET waiting, d \in Decision :
               /\ DecideWith(W, d)
               /\ Quiet
               /\ UNCHANGED <<asks, callOf, kindOf, waiting, pending, sequence,
                              telling, asked, answer, answeredAgain>>
  <2>1. "deny" \in Decision
    BY DEF Decision
  <2>2. PICK W \in SUBSET waiting : DecideWith(W, "deny")
    BY <1>3 DEF MailboxStopped, Under
  <2>3. Quiet /\ UNCHANGED <<asks, callOf, kindOf, waiting, pending, sequence,
                             telling, asked, answer, answeredAgain>>
    BY <1>3 DEF MailboxStopped, Quiet, GateInv, TypeOK, waitVars, bookVars, lockVars,
                logVars
  <2>4. QED
    BY <2>1, <2>2, <2>3
<1>4. QED
  BY <1>1, <1>2, <1>3

\* Every step keeps it.
LEMMA GateStepInv ==
  ASSUME GateInv, [Next]_vars
  PROVE  GateInv'
<1>0. TypeOK /\ Numbered
  BY DEF GateInv, Rest
<1>1. CASE UNCHANGED vars
  <2>1. Quiet /\ UNCHANGED Books
    BY <1>1 DEF vars, Quiet, Books
  <2>2. TypeOK'
    BY <1>0, <1>1 DEF vars, TypeOK
  <2>3. QED
    BY <2>1, <2>2, QuietStep DEF GateInv
<1>2. CASE \/ \E r \in Runs : Start(r) \/ Finish(r) \/ WallClock(r) \/ Boundary(r)
           \/ \E s \in Sessions : Stop(s)
           \/ \E x \in stopWaits : StopStep(x)
           \/ \E m \in MailOffered : WriteInbox(m)
  <2>1. TypeOK'
    BY <1>0, <1>2, OuterTypes
  <2>2. Quiet /\ UNCHANGED Books
    BY <1>2, OuterStep
  <2>3. QED
    BY <2>1, <2>2, QuietStep DEF GateInv
<1>3. ASSUME NEW r \in Runs, MailboxNote(r) \/ MailboxStop(r) PROVE GateInv'
  <2>1. TypeOK'
    BY <1>0, <1>3, InnerTypes
  <2>2. Quiet /\ UNCHANGED Books
    BY <1>3, OuterStep
  <2>3. QED
    BY <2>1, <2>2, QuietStep DEF GateInv
<1>4. CASE \/ \E x \in waiting, d \in Offered : Approve(x, d)
           \/ \E r \in Runs : MailboxAnswer(r) \/ MailboxStopped(r)
  <2>1. TypeOK'
    <3>1. ASSUME NEW x \in waiting, NEW d \in Offered, Approve(x, d) PROVE TypeOK'
      <4>1. {x} \in SUBSET Wait /\ d \in Decision
        BY <1>0, ConstantsAssumption DEF ConstantsAssumption, TypeOK
      <4>2. /\ decided' \subseteq Wait
            /\ signal' \in [Wait -> Decision \cup {"superseded", None}]
            /\ operatorContext' \in BOOLEAN
        BY <1>0, <3>1, <4>1, DecideTypes DEF Approve
      <4>3. QED
        BY <1>0, <3>1, <4>2 DEF TypeOK, Approve, waitVars, bookVars, lockVars,
                                logVars, runVars, mailVars
    <3>2. QED
      BY <1>0, <1>4, <3>1, InnerTypes DEF GateStep
  <2>2. PICK W \in SUBSET waiting, d \in Decision :
          /\ DecideWith(W, d)
          /\ Quiet
          /\ UNCHANGED <<asks, callOf, kindOf, waiting, pending, sequence,
                         telling, asked, answer, answeredAgain>>
    BY <1>4, AnswerStep
  <2>3. Rest'
    BY <2>2, DecideStep
  <2>4. QED
    BY <2>1, <2>3 DEF GateInv
<1>5. ASSUME NEW r \in Runs,
             \/ \E c \in CallsOf[r] : BeginWait(r, c)
             \/ TellSuperseded(r) \/ PublishRequired(r) \/ Receive(r) \/ GiveUp(r)
             \/ Dismiss(r) \/ Cleanup(r)
      PROVE  GateInv'
  <2>1. TypeOK'
    BY <1>0, <1>5, InnerTypes DEF GateStep
  <2>2. Rest'
    BY <1>5, BeginStep, TellStep, RequiredStep, ReceiveStep, GiveUpStep, DismissStep,
       CleanupStep
  <2>3. QED
    BY <2>1, <2>2 DEF GateInv
<1>6. QED
  BY <1>1, <1>2, <1>3, <1>4, <1>5 DEF Next, GateStep, RunStep, OperatorStep

\* The invariant of the gate, for every set of sessions and runs.
THEOREM GateInvariant == Spec => []GateInv
<1>1. Init => GateInv
  BY GateInit
<1>2. GateInv /\ [Next]_vars => GateInv'
  BY GateStepInv
<1>3. QED
  BY <1>1, <1>2, PTL DEF Spec

----------------------------------------------------------------------------
(* What it gives.                                                          *)

\* The gate's state keeps its type.
THEOREM GateTypeCorrect == Spec => []TypeOK
BY GateInvariant, PTL DEF GateInv

\* Every approval has one approval.decided at most, with the decision that was
\* acknowledged (publishDecision, DecideWith and the cancellation branch of
\* awaitDecision).
THEOREM AnsweredOnceCorrect == Spec => []AnsweredOnce
<1>1. GateInv => AnsweredOnce
  BY DEF GateInv, Rest, Ledgers, Ledger, AnsweredOnce
<1>2. QED
  BY <1>1, GateInvariant, PTL

\* approval.required precedes approval.decided for every call (sequenceMu).
THEOREM AskedFirstCorrect == Spec => []AskedFirst
<1>1. GateInv => AskedFirst
  <2>1. ASSUME GateInv, NEW w \in Wait, answer[w] # None PROVE w \in asked
    <3>1. Ledger(w)
      BY <2>1 DEF GateInv, Rest, Ledgers
    <3>2. w \in decided /\ ~AtGate(w, {"begun"})
      BY <2>1, <3>1 DEF Ledger
    <3>3. Begun(w)
      BY <2>1, <3>2 DEF GateInv, Rest, Fresh
    <3>4. QED
      BY <2>1, <3>2, <3>3 DEF GateInv, Rest, AskedInv
  <2>2. QED
    BY <2>1 DEF AskedFirst
<1>2. QED
  BY <1>1, GateInvariant, PTL

\* A session has one pending approval at most, and beginWait, DecideWith and
\* the cleanups of older waits leave it where the operator's answer finds it.
THEOREM PendingCorrect == Spec => []PendingIsAnswerable
<1>1. GateInv => PendingIsAnswerable
  <2>1. ASSUME GateInv, NEW w \in Wait, Begun(w), w \notin decided
        PROVE  /\ w \in waiting /\ pending[Session(w)] = callOf[w]
               /\ \A x \in Wait : Begun(x) /\ x \notin decided
                                    /\ Session(x) = Session(w) => x = w
    <3>1. \A x \in Wait : Begun(x) /\ x \notin decided => x \in waiting
      BY <2>1 DEF GateInv, Rest, Undecided
    <3>2. w \in waiting
      BY <2>1, <3>1
    <3>3. pending[Session(w)] = callOf[w]
      BY <2>1, <3>2 DEF GateInv, Rest, Registered
    <3>4. QED
      BY <2>1, <3>1, <3>2, <3>3, RegisteredFacts
  <2>2. QED
    BY <2>1 DEF PendingIsAnswerable
<1>2. QED
  BY <1>1, GateInvariant, PTL

\* No registration outlives its wait (the cleanup of beginWait).
THEOREM RegistrationCorrect == Spec => []NoStaleRegistration
<1>1. GateInv => NoStaleRegistration
  BY DEF GateInv, Rest, Registered, AtGate, InGate, NoStaleRegistration
<1>2. QED
  BY <1>1, GateInvariant, PTL

\* A signal once sent on a wait's channel is never replaced, and the kind of a
\* wait with a signal is fixed.
LEMMA SignalKept ==
  ASSUME GateInv, [Next]_vars, NEW w \in Wait, signal[w] \in Decision
  PROVE  signal'[w] = signal[w] /\ kindOf'[w] = kindOf[w]
<1>0. /\ signal \in [Wait -> Decision \cup {"superseded", None}]
      /\ kindOf \in [Wait -> Kind \cup {None}]
      /\ signal[w] # None
  BY DEF GateInv, TypeOK, Decision, Granting, None
<1>1. w \in decided /\ w \notin telling /\ Begun(w)
  <2>1. w \in decided
    BY <1>0 DEF GateInv, Rest, Ledgers, Ledger
  <2>2. QED
    BY <1>0, <2>1 DEF GateInv, Rest, Telling, Fresh
<1>2. ASSUME NEW W \in SUBSET waiting, NEW d \in Decision, DecideWith(W, d)
      PROVE  signal'[w] = signal[w]
  BY <1>1, <1>2 DEF DecideWith, Accepts
<1>3. CASE \/ \E x \in waiting, d \in Offered : Approve(x, d)
           \/ \E r \in Runs : MailboxAnswer(r) \/ MailboxStopped(r)
  BY <1>2, <1>3, AnswerStep
<1>4. ASSUME NEW r \in Runs, NEW c \in CallsOf[r], BeginWait(r, c)
      PROVE  signal'[w] = signal[w] /\ kindOf'[w] = kindOf[w]
  <2>1. w # <<r, asks[r] + 1>>
    <3>1. asks[r] \in Nat
      BY DEF GateInv, TypeOK
    <3>2. QED
      BY <1>1, <3>1 DEF Begun
  <2>2. QED
    BY <1>0, <1>4, <2>1 DEF BeginWait
<1>5. ASSUME NEW r \in Runs, TellSuperseded(r)
      PROVE  signal'[w] = signal[w] /\ kindOf'[w] = kindOf[w]
  BY <1>1, <1>5 DEF TellSuperseded, waitVars
<1>6. ASSUME NEW r \in Runs,
             \/ PublishRequired(r) \/ Receive(r) \/ GiveUp(r) \/ Dismiss(r)
             \/ Cleanup(r)
      PROVE  signal'[w] = signal[w] /\ kindOf'[w] = kindOf[w]
  BY <1>6 DEF PublishRequired, Receive, GiveUp, Dismiss, Cleanup, waitVars
<1>7. CASE \/ \E r \in Runs : \/ Start(r) \/ Finish(r) \/ WallClock(r) \/ Boundary(r)
                            \/ MailboxNote(r) \/ MailboxStop(r)
           \/ \E s \in Sessions : Stop(s)
           \/ \E x \in stopWaits : StopStep(x)
           \/ \E m \in MailOffered : WriteInbox(m)
  BY <1>7 DEF Start, Finish, WallClock, Boundary, MailboxNote, MailboxStop, Stop,
              StopStep, StopReturns, ForceFinish, WriteInbox, waitVars
<1>8. CASE UNCHANGED vars
  BY <1>8 DEF vars
<1>9. QED
  BY <1>3, <1>4, <1>5, <1>6, <1>7, <1>8 DEF Next, GateStep, RunStep, OperatorStep

\* Only an accepted decision switches operator mode on.
LEMMA OperatorContextStep ==
  ASSUME GateInv, [Next]_vars, ~operatorContext, operatorContext'
  PROVE  \E w \in Wait : signal'[w] = "operator_mode" /\ kindOf'[w] = "shell"
<1>1. CASE \/ \E x \in waiting, d \in Offered : Approve(x, d)
           \/ \E r \in Runs : MailboxAnswer(r) \/ MailboxStopped(r)
  <2>1. PICK W \in SUBSET waiting, d \in Decision : DecideWith(W, d) /\ UNCHANGED kindOf
    BY <1>1, AnswerStep
  <2>2. d = "operator_mode" /\ \E x \in W : Accepts(x, d)
    BY <2>1 DEF DecideWith
  <2>3. PICK x \in W : Accepts(x, d)
    BY <2>2
  <2>4. x \in Wait /\ signal'[x] = "operator_mode"
    BY <2>1, <2>2, <2>3, RegisteredFacts DEF DecideWith
  <2>5. kindOf[x] = "shell"
    BY <2>2, <2>3 DEF Accepts, Legal
  <2>6. QED
    BY <2>1, <2>4, <2>5
<1>2. CASE ~ \/ \E x \in waiting, d \in Offered : Approve(x, d)
             \/ \E r \in Runs : MailboxAnswer(r) \/ MailboxStopped(r)
  <2>1. operatorContext' = operatorContext
    <3>1. CASE UNCHANGED vars
      BY <3>1 DEF vars
    <3>2. CASE Next
      BY <1>2, <3>2, ZenonT(40)
         DEF Next, GateStep, RunStep, OperatorStep, StopStep, Start, Finish, WallClock,
             Boundary, BeginWait, TellSuperseded, PublishRequired, Receive, GiveUp,
             Dismiss, Cleanup, MailboxNote, MailboxStop, Stop, StopReturns,
             ForceFinish, WriteInbox
    <3>3. QED
      BY <3>1, <3>2
  <2>2. QED
    BY <2>1
<1>3. QED
  BY <1>1, <1>2

\* Operator mode is on only if an operator_mode decision on a shell approval was
\* accepted (the callback of DecideWith).
THEOREM OperatorModeCorrect == Spec => []OperatorModeAccepted
<1>1. Init => OperatorModeAccepted
  BY DEF Init, OperatorModeAccepted
<1>2. GateInv /\ OperatorModeAccepted /\ [Next]_vars => OperatorModeAccepted'
  <2> SUFFICES ASSUME GateInv, OperatorModeAccepted, [Next]_vars, operatorContext'
               PROVE  \E w \in Wait :
                        signal'[w] = "operator_mode" /\ kindOf'[w] = "shell"
    BY DEF OperatorModeAccepted
  <2>1. CASE ~operatorContext
    BY <2>1, OperatorContextStep
  <2>2. CASE operatorContext
    <3>1. PICK w \in Wait : signal[w] = "operator_mode" /\ kindOf[w] = "shell"
      BY <2>2 DEF OperatorModeAccepted
    <3>2. signal[w] \in Decision
      BY <3>1 DEF Decision, Granting
    <3>3. QED
      BY <3>1, <3>2, SignalKept
  <2>3. QED
    BY <2>1, <2>2
<1>3. QED
  BY <1>1, <1>2, GateInvariant, PTL DEF Spec
=============================================================================
