--------------------------- MODULE SessionProofs ---------------------------
(***************************************************************************)
(* The session registry and the server of the agent (module Sessions),     *)
(* for every number of sessions, slots and servers: a closed or deleted    *)
(* session has no work left, and a server change is never lost.  And the   *)
(* messages of one chat (module Transcript), for every number of them:     *)
(* what was said is exported and found again.                              *)
(***************************************************************************)
EXTENDS Sessions, Transcript, FiniteSetTheorems, WellFoundedInduction, TLAPS

-----------------------------------------------------------------------------
(* The inductive invariant                                                  *)

\* A session's record, with the fields that the argument reads typed.
SesShape(r) ==
  /\ r = [live |-> r.live, closed |-> r.closed, status |-> r.status, ran |-> r.ran, role |-> r.role,
          server |-> r.server, tools |-> r.tools, policy |-> r.policy, pinned |-> r.pinned,
          label |-> r.label, text |-> r.text]
  /\ r.live \in BOOLEAN /\ r.closed \in BOOLEAN

HandShape(r) ==
  /\ r = [id |-> r.id, to |-> r.to, saved |-> r.saved, rest |-> r.rest, tools |-> r.tools]
  /\ r.saved \in BOOLEAN

SesTypes == ses = [i \in SessionIds |-> ses[i]] /\ \A i \in SessionIds : SesShape(ses[i])
HandTypes == hand = [h \in Handlers |-> hand[h]] /\ \A h \in Handlers : HandShape(hand[h])
SessionTypes ==
  /\ SesTypes /\ HandTypes
  /\ nextId \in Nat /\ nextId >= 2
  /\ lock \in {<<>>, <<0>>} \cup {<<i>> : i \in SessionIds}
  /\ act \subseteq SessionIds /\ que \in Seq(SessionIds)

InQueue(i) == \E k \in 1 .. Len(que) : que[k] = i
Works(i) == i \in act \/ InQueue(i)

\* A number is not given to a second session while the first is there.
NumbersRun == \A i \in SessionIds : ses[i].live => i < nextId

\* A session that works is open and its status says so; it has one place.
WorkersRun ==
  \A i \in SessionIds \ stale :
    /\ Works(i) => IsRunning(i)
    /\ Works(i) \/ lock = <<i>> => ses[i].live /\ ~ses[i].closed

OnePlace ==
  \A i \in SessionIds \ stale :
    /\ ~(i \in act /\ InQueue(i))
    /\ \A k, m \in 1 .. Len(que) : que[k] = i /\ que[m] = i => k = m

\* The session being deleted stays closed, or its reopening was seen.
DeleteSeen ==
  hand["delete"] # Free =>
    LET i == hand["delete"].id IN i \in SessionIds /\ (i \in stale \/ (ses[i].live /\ ses[i].closed))

\* The server change has the scheduler's lock as long as it is being applied.
ChangeHeld ==
  /\ hand["apply"] # Free <=> lock = <<0>>
  /\ hand["apply"] # Free => hand["apply"].to # "none"
  /\ hand["apply"].saved => agentB = hand["apply"].to

\* What the operator was told last is pending, being applied, or in force.
ChangeTold ==
  /\ change # "none" => wanted \in {change, "none"}
  /\ change = "none" /\ hand["apply"] # Free => wanted \in {hand["apply"].to, "none"}
  /\ change = "none" /\ hand["apply"] = Free => wanted \in {agentB, "none"}

SessionsInv ==
  /\ SessionTypes /\ NumbersRun /\ WorkersRun /\ OnePlace /\ DeleteSeen /\ ChangeHeld /\ ChangeTold

-----------------------------------------------------------------------------
(* Records and frames                                                       *)

LEMMA IdsAreNumbers == SessionIds \subseteq Nat /\ 0 \notin SessionIds
<1>1. Cardinality(SessionIds) \in Nat
  BY SessionsAssumption, FS_CardinalityType
<1>2. QED  BY <1>1, SessionsAssumption

LEMMA NoSubmission == \A l \in {<<>>, <<0>>} : \A k \in SessionIds : l # <<k>>
<1>1. \A k \in SessionIds : k \in Nat /\ k # 0
  BY IdsAreNumbers
<1>2. \A k \in SessionIds : <<>> # <<k>>
  BY <1>1
<1>3. \A k \in SessionIds : <<0>> # <<k>>
  BY <1>1
<1>4. QED  BY <1>2, <1>3

LEMMA HandlersNamed ==
  /\ Handlers = {"label", "agent", "reset", "delete", "apply"}
  /\ "delete" \in Handlers /\ "apply" \in Handlers /\ "label" \in Handlers /\ "agent" \in Handlers /\ "reset" \in Handlers
  BY DEF Handlers

LEMMA AbsentShape == SesShape(Absent) /\ Absent.live = FALSE /\ Absent.closed = FALSE
  BY DEF SesShape, Absent

LEMMA HandShapes ==
  /\ HandShape(Free) /\ Free.saved = FALSE
  /\ \A i : LET r == [Free EXCEPT !.id = i] IN HandShape(r) /\ r.id = i /\ r.saved = FALSE
  /\ \A p : LET r == [Free EXCEPT !.to = p] IN HandShape(r) /\ r.to = p /\ r.saved = FALSE /\ (p # "none" => r # Free)
  /\ \A i, p, ts : HandShape([Free EXCEPT !.id = i, !.to = p, !.tools = ts])
<1>1. HandShape(Free) /\ Free.saved = FALSE /\ Free.to = "none"
  BY DEF HandShape, Free
<1>2. ASSUME NEW i, NEW r, r = [Free EXCEPT !.id = i] PROVE HandShape(r) /\ r.id = i /\ r.saved = FALSE
  <2>1. r = [id |-> i, to |-> "none", saved |-> FALSE, rest |-> <<>>, tools |-> {}]
    BY <1>2 DEF Free
  <2>2. QED  BY <2>1 DEF HandShape
<1>3. ASSUME NEW p, NEW r, r = [Free EXCEPT !.to = p] PROVE HandShape(r) /\ r.to = p /\ r.saved = FALSE /\ (p # "none" => r # Free)
  <2>1. r = [id |-> 0, to |-> p, saved |-> FALSE, rest |-> <<>>, tools |-> {}]
    BY <1>3 DEF Free
  <2>2. HandShape(r) /\ r.to = p /\ r.saved = FALSE
    BY <2>1 DEF HandShape
  <2>3. QED  BY <1>1, <2>2
<1>4. ASSUME NEW i, NEW p, NEW ts, NEW r, r = [Free EXCEPT !.id = i, !.to = p, !.tools = ts] PROVE HandShape(r)
  <2>1. r = [id |-> i, to |-> p, saved |-> FALSE, rest |-> <<>>, tools |-> ts]
    BY <1>4 DEF Free
  <2>2. QED  BY <2>1 DEF HandShape
<1>5. QED  BY <1>1, <1>2, <1>3, <1>4

LEMMA HandSet ==
  ASSUME HandTypes, NEW h \in Handlers, NEW r, HandShape(r), hand' = [hand EXCEPT ![h] = r]
  PROVE  HandTypes' /\ hand'[h] = r /\ \A k \in Handlers \ {h} : hand'[k] = hand[k]
<1>1. hand = [k \in Handlers |-> hand[k]]
  BY DEF HandTypes
<1>2. hand' = [k \in Handlers |-> IF k = h THEN r ELSE hand[k]]
  BY <1>1
<1>3. \A k \in Handlers : hand'[k] = IF k = h THEN r ELSE hand[k]
  BY <1>2
<1>4. hand' = [k \in Handlers |-> hand'[k]]
  BY <1>2
<1>5. QED  BY <1>3, <1>4 DEF HandTypes

LEMMA SesSet ==
  ASSUME SesTypes, NEW i \in SessionIds, NEW r, SesShape(r), ses' = [ses EXCEPT ![i] = r]
  PROVE  SesTypes' /\ ses'[i] = r /\ \A k \in SessionIds \ {i} : ses'[k] = ses[k]
<1>1. ses = [k \in SessionIds |-> ses[k]]
  BY DEF SesTypes
<1>2. ses' = [k \in SessionIds |-> IF k = i THEN r ELSE ses[k]]
  BY <1>1
<1>3. \A k \in SessionIds : ses'[k] = IF k = i THEN r ELSE ses[k]
  BY <1>2
<1>4. ses' = [k \in SessionIds |-> ses'[k]]
  BY <1>2
<1>5. QED  BY <1>3, <1>4 DEF SesTypes

\* What the argument reads of a session.
Alike(r, q) == r.live = q.live /\ r.closed = q.closed /\ r.status = q.status

\* The fields of a session that are set, one lemma per handler's update.
LEMMA LabelSet == ASSUME NEW r, SesShape(r), NEW a, NEW b, NEW q, q = [r EXCEPT !.label = a, !.pinned = b] PROVE SesShape(q) /\ Alike(q, r)
<1>1. /\ r = [live |-> r.live, closed |-> r.closed, status |-> r.status, ran |-> r.ran, role |-> r.role,
              server |-> r.server, tools |-> r.tools, policy |-> r.policy, pinned |-> r.pinned,
              label |-> r.label, text |-> r.text]
      /\ r.live \in BOOLEAN /\ r.closed \in BOOLEAN
  BY DEF SesShape
<1>2. QED  BY <1>1 DEF SesShape, Alike

LEMMA TitleSet == ASSUME NEW r, SesShape(r), NEW a, NEW q, q = [r EXCEPT !.label = a] PROVE SesShape(q) /\ Alike(q, r)
<1>1. /\ r = [live |-> r.live, closed |-> r.closed, status |-> r.status, ran |-> r.ran, role |-> r.role,
              server |-> r.server, tools |-> r.tools, policy |-> r.policy, pinned |-> r.pinned,
              label |-> r.label, text |-> r.text]
      /\ r.live \in BOOLEAN /\ r.closed \in BOOLEAN
  BY DEF SesShape
<1>2. QED  BY <1>1 DEF SesShape, Alike

LEMMA TextSet == ASSUME NEW r, SesShape(r), NEW a, NEW q, q = [r EXCEPT !.text = a] PROVE SesShape(q) /\ Alike(q, r)
<1>1. /\ r = [live |-> r.live, closed |-> r.closed, status |-> r.status, ran |-> r.ran, role |-> r.role,
              server |-> r.server, tools |-> r.tools, policy |-> r.policy, pinned |-> r.pinned,
              label |-> r.label, text |-> r.text]
      /\ r.live \in BOOLEAN /\ r.closed \in BOOLEAN
  BY DEF SesShape
<1>2. QED  BY <1>1 DEF SesShape, Alike

LEMMA BindingSet == ASSUME NEW r, SesShape(r), NEW a, NEW b, NEW q, q = [r EXCEPT !.server = a, !.tools = b] PROVE SesShape(q) /\ Alike(q, r)
<1>1. /\ r = [live |-> r.live, closed |-> r.closed, status |-> r.status, ran |-> r.ran, role |-> r.role,
              server |-> r.server, tools |-> r.tools, policy |-> r.policy, pinned |-> r.pinned,
              label |-> r.label, text |-> r.text]
      /\ r.live \in BOOLEAN /\ r.closed \in BOOLEAN
  BY DEF SesShape
<1>2. QED  BY <1>1 DEF SesShape, Alike

LEMMA ToolsSet == ASSUME NEW r, SesShape(r), NEW a, NEW q, q = [r EXCEPT !.tools = a] PROVE SesShape(q) /\ Alike(q, r)
<1>1. /\ r = [live |-> r.live, closed |-> r.closed, status |-> r.status, ran |-> r.ran, role |-> r.role,
              server |-> r.server, tools |-> r.tools, policy |-> r.policy, pinned |-> r.pinned,
              label |-> r.label, text |-> r.text]
      /\ r.live \in BOOLEAN /\ r.closed \in BOOLEAN
  BY DEF SesShape
<1>2. QED  BY <1>1 DEF SesShape, Alike

LEMMA ApprovalSet == ASSUME NEW r, SesShape(r), NEW a, NEW b, NEW q, q = [r EXCEPT !.policy = a, !.tools = b] PROVE SesShape(q) /\ Alike(q, r)
<1>1. /\ r = [live |-> r.live, closed |-> r.closed, status |-> r.status, ran |-> r.ran, role |-> r.role,
              server |-> r.server, tools |-> r.tools, policy |-> r.policy, pinned |-> r.pinned,
              label |-> r.label, text |-> r.text]
      /\ r.live \in BOOLEAN /\ r.closed \in BOOLEAN
  BY DEF SesShape
<1>2. QED  BY <1>1 DEF SesShape, Alike

LEMMA PolicySet == ASSUME NEW r, SesShape(r), NEW a, NEW q, q = [r EXCEPT !.policy = a] PROVE SesShape(q) /\ Alike(q, r)
<1>1. /\ r = [live |-> r.live, closed |-> r.closed, status |-> r.status, ran |-> r.ran, role |-> r.role,
              server |-> r.server, tools |-> r.tools, policy |-> r.policy, pinned |-> r.pinned,
              label |-> r.label, text |-> r.text]
      /\ r.live \in BOOLEAN /\ r.closed \in BOOLEAN
  BY DEF SesShape
<1>2. QED  BY <1>1 DEF SesShape, Alike

\* What a handler makes of a session's status, with nothing else the argument reads.
Turned(q, r, status) == SesShape(q) /\ q.live = r.live /\ q.closed = r.closed /\ q.status = status

LEMMA RanSet == ASSUME NEW r, SesShape(r), NEW a, NEW b, NEW q, q = [r EXCEPT !.status = a, !.ran = b] PROVE Turned(q, r, a)
<1>1. /\ r = [live |-> r.live, closed |-> r.closed, status |-> r.status, ran |-> r.ran, role |-> r.role,
              server |-> r.server, tools |-> r.tools, policy |-> r.policy, pinned |-> r.pinned,
              label |-> r.label, text |-> r.text]
      /\ r.live \in BOOLEAN /\ r.closed \in BOOLEAN
  BY DEF SesShape
<1>2. QED  BY <1>1 DEF SesShape, Turned

LEMMA AnewSet == ASSUME NEW r, SesShape(r), NEW a, NEW b, NEW c, NEW q, q = [r EXCEPT !.status = a, !.ran = b, !.text = c] PROVE Turned(q, r, a)
<1>1. /\ r = [live |-> r.live, closed |-> r.closed, status |-> r.status, ran |-> r.ran, role |-> r.role,
              server |-> r.server, tools |-> r.tools, policy |-> r.policy, pinned |-> r.pinned,
              label |-> r.label, text |-> r.text]
      /\ r.live \in BOOLEAN /\ r.closed \in BOOLEAN
  BY DEF SesShape
<1>2. QED  BY <1>1 DEF SesShape, Turned

LEMMA StatusSet == ASSUME NEW r, SesShape(r), NEW a, NEW q, q = [r EXCEPT !.status = a] PROVE Turned(q, r, a)
<1>1. /\ r = [live |-> r.live, closed |-> r.closed, status |-> r.status, ran |-> r.ran, role |-> r.role,
              server |-> r.server, tools |-> r.tools, policy |-> r.policy, pinned |-> r.pinned,
              label |-> r.label, text |-> r.text]
      /\ r.live \in BOOLEAN /\ r.closed \in BOOLEAN
  BY DEF SesShape
<1>2. QED  BY <1>1 DEF SesShape, Turned

LEMMA BusySet == ASSUME NEW r, SesShape(r), NEW a, NEW b, NEW q, q = [r EXCEPT !.status = a, !.text = b] PROVE Turned(q, r, a)
<1>1. /\ r = [live |-> r.live, closed |-> r.closed, status |-> r.status, ran |-> r.ran, role |-> r.role,
              server |-> r.server, tools |-> r.tools, policy |-> r.policy, pinned |-> r.pinned,
              label |-> r.label, text |-> r.text]
      /\ r.live \in BOOLEAN /\ r.closed \in BOOLEAN
  BY DEF SesShape
<1>2. QED  BY <1>1 DEF SesShape, Turned

LEMMA ClosedSet ==
  ASSUME NEW r, SesShape(r), NEW x \in BOOLEAN, NEW q, q = [r EXCEPT !.closed = x]
  PROVE  SesShape(q) /\ q.live = r.live /\ q.closed = x /\ q.status = r.status
<1>1. /\ r = [live |-> r.live, closed |-> r.closed, status |-> r.status, ran |-> r.ran, role |-> r.role,
              server |-> r.server, tools |-> r.tools, policy |-> r.policy, pinned |-> r.pinned,
              label |-> r.label, text |-> r.text]
      /\ r.live \in BOOLEAN /\ r.closed \in BOOLEAN
  BY DEF SesShape
<1>2. QED  BY <1>1 DEF SesShape

LEMMA FreshSession ==
  ASSUME NEW r, \/ \E a, b, c, d : r = [Absent EXCEPT !.live = TRUE, !.role = a, !.server = b, !.tools = c, !.policy = d]
                \/ \E b, c : r = [Absent EXCEPT !.live = TRUE, !.server = b, !.tools = c]
  PROVE  SesShape(r) /\ r.live = TRUE /\ r.closed = FALSE
BY DEF Absent, SesShape

LEMMA RangeIsQueue == ASSUME que \in Seq(SessionIds), NEW i PROVE i \in Range(que) <=> InQueue(i)
  BY DEF Range, InQueue

\* The runs are undisturbed by a step that leaves the scheduler alone and every
\* session alike.
LEMMA RunsFrame ==
  ASSUME SessionsInv, \A i \in SessionIds : Alike(ses'[i], ses[i]), UNCHANGED <<nextId, lock, act, que>>,
         stale \subseteq stale', hand'["delete"] = hand["delete"]
  PROVE  NumbersRun' /\ WorkersRun' /\ OnePlace' /\ DeleteSeen'
<1>1. \A i : InQueue(i)' = InQueue(i) /\ Works(i)' = Works(i)
  BY DEF InQueue, Works
<1>2. \A i \in SessionIds : IsRunning(i)' = IsRunning(i) /\ ses'[i].live = ses[i].live /\ ses'[i].closed = ses[i].closed
  BY DEF Alike, IsRunning
<1>3. NumbersRun'
  BY <1>2 DEF SessionsInv, NumbersRun
<1>4. WorkersRun'
  BY <1>1, <1>2 DEF SessionsInv, WorkersRun
<1>5. OnePlace'
  BY <1>1 DEF SessionsInv, OnePlace
<1>6. DeleteSeen'
  BY <1>2 DEF SessionsInv, DeleteSeen
<1>7. QED  BY <1>3, <1>4, <1>5, <1>6

LEMMA ChangeFrame ==
  ASSUME SessionsInv, UNCHANGED <<lock, agentB, change, wanted>>, hand'["apply"] = hand["apply"]
  PROVE  ChangeHeld' /\ ChangeTold'
BY DEF SessionsInv, ChangeHeld, ChangeTold

-----------------------------------------------------------------------------
(* Steps that change nothing the scheduler reads                            *)

\* One session is written, alike.
LEMMA AlikePut ==
  ASSUME SessionsInv, NEW i \in SessionIds, NEW r, SesShape(r), Alike(r, ses[i]), ses' = [ses EXCEPT ![i] = r]
  PROVE  SesTypes' /\ \A j \in SessionIds : Alike(ses'[j], ses[j])
<1>1. SesTypes' /\ ses'[i] = r /\ \A k \in SessionIds \ {i} : ses'[k] = ses[k]
  BY SesSet DEF SessionsInv, SessionTypes
<1>2. QED  BY <1>1 DEF Alike

LEMMA LiveShape == ASSUME SessionsInv, NEW i \in SessionIds PROVE SesShape(ses[i])
  BY DEF SessionsInv, SessionTypes, SesTypes

\* The whole invariant, when no handler of interest moves either.
LEMMA AlikeStep ==
  ASSUME SessionsInv, SesTypes', \A j \in SessionIds : Alike(ses'[j], ses[j]),
         UNCHANGED <<nextId, lock, act, que, agentB, change, wanted, stale>>,
         HandTypes', hand'["delete"] = hand["delete"], hand'["apply"] = hand["apply"]
  PROVE  SessionsInv'
<1>1. SessionTypes'
  BY DEF SessionsInv, SessionTypes
<1>2. QED
  BY <1>1, RunsFrame, ChangeFrame DEF SessionsInv

LEMMA UnreadHand ==
  ASSUME SessionsInv, UNCHANGED hand
  PROVE  HandTypes' /\ hand'["delete"] = hand["delete"] /\ hand'["apply"] = hand["apply"]
BY DEF SessionsInv, SessionTypes, HandTypes

LEMMA RenameStep ==
  ASSUME SessionsInv, NEW i \in SessionIds, Rename(i) \/ DropLast(i) \/ Policy(i) \/ TurnApplies(i)
  PROVE  SessionsInv'
<1>1. UNCHANGED <<nextId, lock, act, que, agentB, change, wanted, stale, hand>>
  BY DEF Rename, DropLast, Policy, TurnApplies, Quietly, Unread
<1>2. SesShape(ses[i])
  BY LiveShape
<1>3. SesTypes' /\ \A j \in SessionIds : Alike(ses'[j], ses[j])
  <2>1. CASE Rename(i) \/ DropLast(i) \/ TurnApplies(i)
    <3>1. PICK r : ses' = [ses EXCEPT ![i] = r] /\ SesShape(r) /\ Alike(r, ses[i])
      <4>1. CASE Rename(i)
        BY <1>2, <4>1, LabelSet, TitleSet DEF Rename, Put
      <4>2. CASE DropLast(i)
        BY <1>2, <4>2, TextSet DEF DropLast, Put
      <4>3. CASE TurnApplies(i)
        BY <1>2, <4>3, BindingSet DEF TurnApplies, Put
      <4>4. QED  BY <2>1, <4>1, <4>2, <4>3
    <3>2. QED  BY <3>1, AlikePut
  <2>4. CASE Policy(i)
    <3>1. CASE ses' = [j \in SessionIds |-> [ses[j] EXCEPT !.policy = "none"]]
      <4>1. \A j \in SessionIds : SesShape(ses'[j]) /\ Alike(ses'[j], ses[j])
        BY <3>1, LiveShape, PolicySet
      <4>2. QED  BY <3>1, <4>1 DEF SesTypes
    <3>2. CASE ses' # [j \in SessionIds |-> [ses[j] EXCEPT !.policy = "none"]]
      <4>1. PICK r : ses' = [ses EXCEPT ![i] = r] /\ SesShape(r) /\ Alike(r, ses[i])
        BY <1>2, <2>4, <3>2, PolicySet, ApprovalSet DEF Policy, Put
      <4>2. QED  BY <4>1, AlikePut
    <3>3. QED  BY <3>1, <3>2
  <2>5. QED  BY <2>1, <2>4
<1>4. QED
  BY <1>1, <1>3, AlikeStep, UnreadHand

LEMMA ToggleToolStep == SessionsInv /\ ToggleTool => SessionsInv'
<1> SUFFICES ASSUME SessionsInv, ToggleTool PROVE SessionsInv'
  OBVIOUS
<1>1. UNCHANGED <<nextId, lock, act, que, agentB, change, wanted, stale, hand>>
  BY DEF ToggleTool, Unread
<1>2. ses' = [i \in SessionIds |->
                IF ~ses[i].live \/ ses[i].closed THEN ses[i]
                ELSE [ses[i] EXCEPT !.tools =
                        IF ses[i].role = "d" THEN (toolset' \ {"shell"}) \cup (toolset' \cap @) ELSE toolset']]
  BY DEF ToggleTool
<1>3. ASSUME NEW i \in SessionIds PROVE SesShape(ses'[i]) /\ Alike(ses'[i], ses[i])
  <2>1. SesShape(ses[i])
    BY LiveShape
  <2>2. ses'[i] = ses[i] \/ \E a : ses'[i] = [ses[i] EXCEPT !.tools = a]
    BY <1>2
  <2>3. CASE ses'[i] = ses[i]
    BY <2>1, <2>3 DEF Alike
  <2>4. ASSUME NEW a, ses'[i] = [ses[i] EXCEPT !.tools = a] PROVE SesShape(ses'[i]) /\ Alike(ses'[i], ses[i])
    BY <2>1, <2>4, ToolsSet
  <2>5. QED  BY <2>2, <2>3, <2>4
<1>4. SesTypes'
  BY <1>2, <1>3 DEF SesTypes
<1>5. QED
  BY <1>1, <1>3, <1>4, AlikeStep, UnreadHand

\* A handler other than delete and apply takes a session, or lets go of it.
LEMMA HandMoves ==
  ASSUME SessionsInv, NEW h \in {"label", "agent", "reset"}, NEW r, HandShape(r), hand' = [hand EXCEPT ![h] = r]
  PROVE  HandTypes' /\ hand'["delete"] = hand["delete"] /\ hand'["apply"] = hand["apply"]
BY HandSet, HandlersNamed DEF SessionsInv, SessionTypes

LEMMA HandlerChecks ==
  ASSUME SessionsInv, NEW i \in SessionIds, ResetChecks(i) \/ LabelReads(i) \/ SetAgentChecks(i)
  PROVE  SessionsInv'
<1>1. UNCHANGED <<ses, nextId, lock, act, que, agentB, change, wanted, stale>>
  BY DEF ResetChecks, LabelReads, SetAgentChecks, Quietly
<1>2. \E h \in {"label", "agent", "reset"} : \E r : HandShape(r) /\ hand' = [hand EXCEPT ![h] = r]
  BY HandShapes DEF ResetChecks, LabelReads, SetAgentChecks, Took
<1>3. HandTypes' /\ hand'["delete"] = hand["delete"] /\ hand'["apply"] = hand["apply"]
  BY <1>2, HandMoves
<1>4. SesTypes' /\ \A j \in SessionIds : Alike(ses'[j], ses[j])
  BY <1>1 DEF SessionsInv, SessionTypes, SesTypes, Alike
<1>5. QED
  BY <1>1, <1>3, <1>4, AlikeStep

LEMMA SetAgentBindsStep == SessionsInv /\ SetAgentBinds => SessionsInv'
<1> SUFFICES ASSUME SessionsInv, SetAgentBinds PROVE SessionsInv'
  OBVIOUS
<1>1. UNCHANGED <<nextId, lock, act, que, agentB, change, wanted, stale>> /\ hand' = [hand EXCEPT !["agent"] = Free]
  BY DEF SetAgentBinds, Quietly, Done
<1>2. HandTypes' /\ hand'["delete"] = hand["delete"] /\ hand'["apply"] = hand["apply"]
  BY <1>1, HandMoves, HandShapes
<1>3. SesTypes' /\ \A j \in SessionIds : Alike(ses'[j], ses[j])
  <2>1. CASE UNCHANGED ses
    BY <2>1 DEF SessionsInv, SessionTypes, SesTypes, Alike
  <2>2. CASE ~UNCHANGED ses
    <3>0. PICK i \in SessionIds : \E a, b : ses' = [ses EXCEPT ![i] = [ses[i] EXCEPT !.server = a, !.tools = b]]
      BY <2>2 DEF SetAgentBinds, Put, Live
    <3>1. PICK a, b : ses' = [ses EXCEPT ![i] = [ses[i] EXCEPT !.server = a, !.tools = b]]
      BY <3>0
    <3>2. SesShape(ses[i])
      BY LiveShape
    <3>3. PICK r : ses' = [ses EXCEPT ![i] = r] /\ SesShape(r) /\ Alike(r, ses[i])
      BY <3>1, <3>2, BindingSet
    <3>4. QED  BY <3>3, AlikePut
  <2>3. QED  BY <2>1, <2>2
<1>4. QED
  BY <1>1, <1>2, <1>3, AlikeStep

LEMMA SessionsInitially == SessionsInit => SessionsInv
<1> SUFFICES ASSUME SessionsInit PROVE SessionsInv
  OBVIOUS
<1>1. SesTypes /\ \A i \in SessionIds : ses[i].live = FALSE
  BY AbsentShape DEF SessionsInit, SesTypes
<1>2. HandTypes /\ hand["delete"] = Free /\ hand["apply"] = Free
  BY HandShapes, HandlersNamed DEF SessionsInit, HandTypes
<1>3. SessionTypes /\ lock = <<>> /\ act = {} /\ que = <<>>
  BY <1>1, <1>2 DEF SessionsInit, SessionTypes
<1>4. \A i : ~Works(i) /\ ~InQueue(i)
  BY <1>3 DEF Works, InQueue
<1>5. \A i \in SessionIds : lock # <<i>>
  BY <1>3
<1>6. NumbersRun /\ WorkersRun /\ OnePlace /\ DeleteSeen
  <2>1. NumbersRun BY <1>1 DEF NumbersRun
  <2>2. WorkersRun BY <1>4, <1>5 DEF WorkersRun
  <2>3. OnePlace BY <1>3, <1>4 DEF OnePlace
  <2>4. DeleteSeen BY <1>2 DEF DeleteSeen
  <2>5. QED  BY <2>1, <2>2, <2>3, <2>4
<1>7. ChangeHeld /\ ChangeTold
  <2>1. lock # <<0>> /\ Free.saved = FALSE
    BY <1>3, HandShapes
  <2>2. QED  BY <1>2, <2>1 DEF SessionsInit, ChangeHeld, ChangeTold
<1>8. QED  BY <1>3, <1>6, <1>7 DEF SessionsInv

-----------------------------------------------------------------------------
(* Creation, closing, deletion                                              *)

\* A new session has a number that none that lives or works has.
LEMMA NewSession ==
  ASSUME SessionsInv, NEW i \in SessionIds, NEW r, SesShape(r), r.live = TRUE, r.closed = FALSE,
         ses' = [ses EXCEPT ![i] = r],
         \/ i = nextId /\ nextId' = nextId + 1
         \/ i = 1 /\ Live = {} /\ nextId' = nextId,
         UNCHANGED <<lock, act, que, agentB, change, wanted, stale, hand>>
  PROVE  SessionsInv'
<1>1. SesTypes' /\ ses'[i] = r /\ \A k \in SessionIds \ {i} : ses'[k] = ses[k]
  BY SesSet DEF SessionsInv, SessionTypes
<1>2. ~ses[i].live
  BY IdsAreNumbers DEF SessionsInv, SessionTypes, NumbersRun, Live
<1>3. nextId' \in Nat /\ nextId' >= 2 /\ nextId' >= nextId /\ i < nextId'
  BY IdsAreNumbers DEF SessionsInv, SessionTypes
<1>4. SessionTypes'
  BY <1>1, <1>3, UnreadHand DEF SessionsInv, SessionTypes
<1>5. NumbersRun'
  <2>1. SUFFICES ASSUME NEW k \in SessionIds, ses'[k].live PROVE k < nextId'
    BY DEF NumbersRun
  <2>2. CASE k = i
    BY <1>3, <2>2
  <2>3. CASE k # i
    BY <1>1, <1>3, <2>1, <2>3, IdsAreNumbers DEF SessionsInv, SessionTypes, NumbersRun
  <2>4. QED  BY <2>2, <2>3
<1>6. \A k : InQueue(k)' = InQueue(k) /\ Works(k)' = Works(k)
  BY DEF InQueue, Works
<1>7. WorkersRun'
  <2>1. i \in stale \/ (~Works(i) /\ lock # <<i>>)
    BY <1>2 DEF SessionsInv, WorkersRun
  <2>2. \A k \in SessionIds \ {i} : IsRunning(k)' = IsRunning(k)
    BY <1>1 DEF IsRunning
  <2>3. QED  BY <1>1, <1>6, <2>1, <2>2 DEF SessionsInv, WorkersRun
<1>8. OnePlace'
  BY <1>6 DEF SessionsInv, OnePlace
<1>9. DeleteSeen'
  BY <1>1, <1>2 DEF SessionsInv, DeleteSeen
<1>10. ChangeHeld' /\ ChangeTold'
  BY ChangeFrame
<1>11. QED
  BY <1>4, <1>5, <1>7, <1>8, <1>9, <1>10 DEF SessionsInv

LEMMA CreateStep == SessionsInv /\ Create => SessionsInv'
<1> SUFFICES ASSUME SessionsInv, Create PROVE SessionsInv'
  OBVIOUS
<1>1. PICK i : i = IF Live = {} THEN 1 ELSE nextId
  OBVIOUS
<1>2. PICK role \in {"b", "d"}, policy \in {"none", "pending", "active"} :
        LET server == IF role = "d" THEN DServer ELSE agentB
            tools == IF policy = "active" THEN PolicyTools ELSE DTools(role, toolset)
        IN
        /\ i \in SessionIds
        /\ ses' = [ses EXCEPT ![i] = [Absent EXCEPT !.live = TRUE, !.role = role, !.server = server,
                                                     !.tools = tools, !.policy = policy]]
        /\ nextId' = IF i = 1 THEN nextId ELSE nextId + 1
        /\ UNCHANGED <<lock, act, que, agentB, change, wanted, stale, hand>>
  BY <1>1, ZenonT(40) DEF Create, Put
<1>3. PICK r : ses' = [ses EXCEPT ![i] = r] /\ SesShape(r) /\ r.live = TRUE /\ r.closed = FALSE
  BY <1>2, FreshSession
<1>4. \/ i = nextId /\ nextId' = nextId + 1
      \/ i = 1 /\ Live = {} /\ nextId' = nextId
  BY <1>1, <1>2 DEF SessionsInv, SessionTypes
<1>5. QED
  BY <1>2, <1>3, <1>4, NewSession

LEMMA CreateLikeStep == ASSUME SessionsInv, NEW i \in SessionIds, CreateLike(i) PROVE SessionsInv'
<1>1. /\ nextId \in SessionIds /\ nextId' = nextId + 1
      /\ \E b, c : ses' = [ses EXCEPT ![nextId] = [Absent EXCEPT !.live = TRUE, !.server = b, !.tools = c]]
      /\ UNCHANGED <<lock, act, que, agentB, change, wanted, stale, hand>>
  BY DEF CreateLike, Put
<1>2. PICK r : ses' = [ses EXCEPT ![nextId] = r] /\ SesShape(r) /\ r.live = TRUE /\ r.closed = FALSE
  BY <1>1, FreshSession
<1>3. QED
  BY <1>1, <1>2, NewSession

\* One session becomes closed, open or absent, which works nowhere or is stale.
LEMMA SessionTurns ==
  ASSUME SessionsInv, NEW i \in SessionIds, NEW r, SesShape(r), ses' = [ses EXCEPT ![i] = r],
         r.live => ses[i].live, stale \subseteq stale',
         \/ i \in stale' \/ (~Works(i) /\ lock # <<i>>)
         \/ r.live = ses[i].live /\ r.closed = ses[i].closed /\ (Works(i) => r.status \in {"running", "queued", "stopping"}),
         UNCHANGED <<nextId, lock, act, que>>
  PROVE  SesTypes' /\ NumbersRun' /\ WorkersRun' /\ OnePlace' /\ ses'[i] = r /\ \A k \in SessionIds \ {i} : ses'[k] = ses[k]
<1>1. SesTypes' /\ ses'[i] = r /\ \A k \in SessionIds \ {i} : ses'[k] = ses[k]
  BY SesSet DEF SessionsInv, SessionTypes
<1>2. \A k : InQueue(k)' = InQueue(k) /\ Works(k)' = Works(k)
  BY DEF InQueue, Works
<1>3. NumbersRun'
  BY <1>1 DEF SessionsInv, NumbersRun
<1>4. WorkersRun'
  <2>1. SUFFICES ASSUME NEW k \in SessionIds \ stale'
                 PROVE  /\ Works(k) => ses'[k].status \in {"running", "queued", "stopping"}
                        /\ Works(k) \/ lock = <<k>> => ses'[k].live /\ ~ses'[k].closed
    BY <1>2 DEF WorkersRun, IsRunning
  <2>2. /\ Works(k) => ses[k].status \in {"running", "queued", "stopping"}
        /\ Works(k) \/ lock = <<k>> => ses[k].live /\ ~ses[k].closed
    BY DEF SessionsInv, WorkersRun, IsRunning
  <2>3. CASE k = i
    BY <1>1, <2>2, <2>3
  <2>4. CASE k # i
    BY <1>1, <2>2, <2>4
  <2>5. QED  BY <2>3, <2>4
<1>5. OnePlace'
  BY <1>2 DEF SessionsInv, OnePlace
<1>6. QED  BY <1>1, <1>3, <1>4, <1>5

LEMMA CloseStep == ASSUME SessionsInv, NEW i \in SessionIds, Close(i) PROVE SessionsInv'
<1>1. /\ ~IsRunning(i) /\ lock # <<i>>
      /\ UNCHANGED <<nextId, lock, act, que, agentB, change, wanted, stale, hand>>
      /\ ses' = [ses EXCEPT ![i] = [ses[i] EXCEPT !.closed = TRUE]]
  BY DEF Close, Quietly, Unread, Put
<1>2. SesShape(ses[i])
  BY LiveShape
<1>3. PICK r : ses' = [ses EXCEPT ![i] = r] /\ SesShape(r) /\ r.live = ses[i].live /\ r.closed = TRUE
  BY <1>1, <1>2, ClosedSet
<1>4. i \in stale' \/ (~Works(i) /\ lock # <<i>>)
  BY <1>1 DEF SessionsInv, WorkersRun
<1>5. SesTypes' /\ NumbersRun' /\ WorkersRun' /\ OnePlace' /\ ses'[i] = r /\ \A k \in SessionIds \ {i} : ses'[k] = ses[k]
  BY <1>1, <1>3, <1>4, SessionTurns
<1>6. SessionTypes'
  BY <1>1, <1>5, UnreadHand DEF SessionsInv, SessionTypes
<1>7. DeleteSeen'
  BY <1>1, <1>3, <1>5 DEF SessionsInv, DeleteSeen
<1>8. QED
  BY <1>1, <1>5, <1>6, <1>7, ChangeFrame DEF SessionsInv

LEMMA ReopenStep == ASSUME SessionsInv, NEW i \in SessionIds, Reopen(i) PROVE SessionsInv'
<1>1. /\ ses[i].live /\ ses[i].closed
      /\ UNCHANGED <<nextId, lock, act, que, agentB, change, wanted, hand>>
      /\ ses' = [ses EXCEPT ![i] = [ses[i] EXCEPT !.closed = FALSE]]
      /\ stale' = IF hand["delete"].id = i THEN stale \cup {i} ELSE stale
  BY DEF Reopen, Quietly, Put, Live
<1>2. SesShape(ses[i])
  BY LiveShape
<1>3. PICK r : ses' = [ses EXCEPT ![i] = r] /\ SesShape(r) /\ r.live = ses[i].live /\ r.closed = FALSE
  <2>1. PICK r : r = [ses[i] EXCEPT !.closed = FALSE]
    OBVIOUS
  <2>2. SesShape(r) /\ r.live = ses[i].live /\ r.closed = FALSE
    BY <1>2, <2>1 DEF SesShape
  <2>3. QED  BY <1>1, <2>1, <2>2
<1>4. i \in stale' \/ (~Works(i) /\ lock # <<i>>)
  BY <1>1 DEF SessionsInv, WorkersRun
<1>5. SesTypes' /\ NumbersRun' /\ WorkersRun' /\ OnePlace' /\ ses'[i] = r /\ \A k \in SessionIds \ {i} : ses'[k] = ses[k]
  BY <1>1, <1>3, <1>4, SessionTurns
<1>6. SessionTypes'
  BY <1>1, <1>5, UnreadHand DEF SessionsInv, SessionTypes
<1>7. DeleteSeen'
  BY <1>1, <1>5 DEF SessionsInv, DeleteSeen
<1>8. QED
  BY <1>1, <1>5, <1>6, <1>7, ChangeFrame DEF SessionsInv

LEMMA DeleteChecksStep == ASSUME SessionsInv, NEW i \in SessionIds, DeleteChecks(i) PROVE SessionsInv'
<1>1. /\ UNCHANGED <<ses, nextId, lock, act, que, agentB, change, wanted, stale>>
      /\ ses[i].live /\ ses[i].closed
      /\ hand' = [hand EXCEPT !["delete"] = [Free EXCEPT !.id = i]]
  BY DEF DeleteChecks, Quietly, Took, Live
<1>2. PICK r : r = [Free EXCEPT !.id = i]
  OBVIOUS
<1>3. HandShape(r) /\ r.id = i
  BY <1>2, HandShapes
<1>4. HandTypes' /\ hand'["delete"] = r /\ hand'["apply"] = hand["apply"]
  BY <1>1, <1>2, <1>3, HandSet, HandlersNamed DEF SessionsInv, SessionTypes
<1>5. SessionTypes'
  BY <1>1, <1>4 DEF SessionsInv, SessionTypes, SesTypes
<1>6. \A k : InQueue(k)' = InQueue(k) /\ Works(k)' = Works(k) /\ IsRunning(k)' = IsRunning(k)
  BY <1>1 DEF InQueue, Works, IsRunning
<1>7. NumbersRun' /\ WorkersRun' /\ OnePlace'
  BY <1>1, <1>6 DEF SessionsInv, NumbersRun, WorkersRun, OnePlace
<1>8. DeleteSeen'
  BY <1>1, <1>3, <1>4 DEF DeleteSeen
<1>9. QED
  BY <1>1, <1>4, <1>5, <1>7, <1>8, ChangeFrame DEF SessionsInv

LEMMA DeleteEndsStep == SessionsInv /\ DeleteEnds => SessionsInv'
<1> SUFFICES ASSUME SessionsInv, DeleteEnds PROVE SessionsInv'
  OBVIOUS
<1>1. PICK i : i = hand["delete"].id
  OBVIOUS
<1>2. /\ hand["delete"] # Free /\ hand' = [hand EXCEPT !["delete"] = Free]
      /\ ses' = [ses EXCEPT ![i] = Absent] \/ ses' = ses
      /\ UNCHANGED <<nextId, lock, act, que, agentB, change, wanted, stale>>
  BY <1>1 DEF DeleteEnds, Quietly, Idle, Done
<1>3. i \in SessionIds /\ (i \in stale \/ (ses[i].live /\ ses[i].closed))
  BY <1>1, <1>2 DEF SessionsInv, DeleteSeen
<1>4. HandTypes' /\ hand'["delete"] = Free /\ hand'["apply"] = hand["apply"]
  BY <1>2, HandSet, HandShapes, HandlersNamed DEF SessionsInv, SessionTypes
<1>5. i \in stale' \/ (~Works(i) /\ lock # <<i>>)
  BY <1>2, <1>3 DEF SessionsInv, WorkersRun
<1>6. SesTypes' /\ NumbersRun' /\ WorkersRun' /\ OnePlace'
  <2>1. CASE ses' = [ses EXCEPT ![i] = Absent]
    BY <1>2, <1>3, <1>5, <2>1, AbsentShape, SessionTurns
  <2>2. CASE ses' = ses
    <3>1. PICK r : r = ses[i]
      OBVIOUS
    <3>2. SesShape(r) /\ ses' = [ses EXCEPT ![i] = r]
      BY <1>3, <2>2, <3>1, LiveShape DEF SessionsInv, SessionTypes, SesTypes
    <3>3. QED  BY <1>2, <1>3, <1>5, <3>1, <3>2, SessionTurns
  <2>3. QED  BY <1>2, <2>1, <2>2
<1>7. SessionTypes'
  BY <1>2, <1>4, <1>6 DEF SessionsInv, SessionTypes
<1>8. DeleteSeen'
  BY <1>4 DEF DeleteSeen
<1>9. QED
  BY <1>2, <1>4, <1>6, <1>7, <1>8, ChangeFrame DEF SessionsInv

\* A reset or a label written over a session marks it if it works.
LEMMA OverwritesStep == SessionsInv /\ (ResetEnds \/ LabelWrites) => SessionsInv'
<1> SUFFICES ASSUME SessionsInv, ResetEnds \/ LabelWrites PROVE SessionsInv'
  OBVIOUS
<1>0. PICK h \in {"label", "reset"} : \E i :
        /\ hand' = [hand EXCEPT ![h] = Free]
        /\ \/ ses' = ses
           \/ /\ i \in SessionIds
              /\ \/ ses' = [ses EXCEPT ![i] = [ses[i] EXCEPT !.status = "idle", !.ran = FALSE, !.text = FALSE]]
                 \/ ses' = [ses EXCEPT ![i] = [ses[i] EXCEPT !.status = "idle", !.ran = TRUE]]
        /\ stale' = IF i \in act \cup Range(que) THEN stale \cup {i} ELSE stale
        /\ UNCHANGED <<nextId, lock, act, que, agentB, change, wanted>>
  BY DEF ResetEnds, LabelWrites, Done, Put, Live, Overwritten, Quietly
<1>1. PICK i :
        /\ hand' = [hand EXCEPT ![h] = Free]
        /\ \/ ses' = ses
           \/ /\ i \in SessionIds
              /\ \/ ses' = [ses EXCEPT ![i] = [ses[i] EXCEPT !.status = "idle", !.ran = FALSE, !.text = FALSE]]
                 \/ ses' = [ses EXCEPT ![i] = [ses[i] EXCEPT !.status = "idle", !.ran = TRUE]]
        /\ stale' = IF i \in act \cup Range(que) THEN stale \cup {i} ELSE stale
        /\ UNCHANGED <<nextId, lock, act, que, agentB, change, wanted>>
  BY <1>0
<1>2. HandTypes' /\ hand'["delete"] = hand["delete"] /\ hand'["apply"] = hand["apply"]
  BY <1>1, HandMoves, HandShapes
<1>3. stale \subseteq stale' /\ (i \in SessionIds => i \in stale' \/ ~Works(i))
  BY <1>1, RangeIsQueue DEF SessionsInv, SessionTypes, Works
<1>4. CASE ses' = ses
  <2>1. SesTypes' /\ \A j \in SessionIds : Alike(ses'[j], ses[j])
    BY <1>4 DEF SessionsInv, SessionTypes, SesTypes, Alike
  <2>2. SessionTypes'
    BY <1>1, <1>2, <2>1 DEF SessionsInv, SessionTypes
  <2>3. QED  BY <1>1, <1>2, <1>3, <2>1, <2>2, RunsFrame, ChangeFrame DEF SessionsInv
<1>5. CASE ses' # ses
  <2>1. i \in SessionIds /\ SesShape(ses[i])
    BY <1>1, <1>5, LiveShape
  <2>2. PICK r : ses' = [ses EXCEPT ![i] = r] /\ Turned(r, ses[i], "idle")
    BY <1>1, <1>5, <2>1, AnewSet, RanSet
  <2>3. SesShape(r) /\ r.live = ses[i].live /\ r.closed = ses[i].closed
    BY <2>2 DEF Turned
  <2>4. SesTypes' /\ NumbersRun' /\ WorkersRun' /\ OnePlace' /\ ses'[i] = r /\ \A k \in SessionIds \ {i} : ses'[k] = ses[k]
    BY <1>1, <1>3, <2>1, <2>2, <2>3, SessionTurns
  <2>5. SessionTypes'
    BY <1>1, <1>2, <2>4 DEF SessionsInv, SessionTypes
  <2>6. DeleteSeen'
    BY <1>2, <1>3, <2>3, <2>4 DEF SessionsInv, DeleteSeen
  <2>7. QED  BY <1>1, <1>2, <2>4, <2>5, <2>6, ChangeFrame DEF SessionsInv
<1>6. QED  BY <1>4, <1>5

-----------------------------------------------------------------------------
(* Runs                                                                     *)

LEMMA SubmitBeginsStep == ASSUME SessionsInv, NEW i \in SessionIds, SubmitBegins(i) PROVE SessionsInv'
<1>1. /\ ses[i].live /\ ~ses[i].closed /\ lock = <<>> /\ lock' = <<i>>
      /\ UNCHANGED <<ses, nextId, act, que, agentB, change, wanted, stale, hand>>
  BY DEF SubmitBegins, Unread, Live
<1>2. SessionTypes'
  BY <1>1, UnreadHand DEF SessionsInv, SessionTypes, SesTypes
<1>3. \A k : InQueue(k)' = InQueue(k) /\ Works(k)' = Works(k) /\ IsRunning(k)' = IsRunning(k)
  BY <1>1 DEF InQueue, Works, IsRunning
<1>4. \A k \in SessionIds : lock' = <<k>> => k = i
  BY <1>1
<1>5. NumbersRun' /\ OnePlace' /\ DeleteSeen'
  BY <1>1, <1>3 DEF SessionsInv, NumbersRun, OnePlace, DeleteSeen
<1>6. WorkersRun'
  BY <1>1, <1>3, <1>4 DEF SessionsInv, WorkersRun
<1>7. lock' # <<0>> /\ lock # <<0>>
  BY <1>1, IdsAreNumbers
<1>8. ChangeHeld' /\ ChangeTold'
  BY <1>1, <1>7 DEF SessionsInv, ChangeHeld, ChangeTold
<1>9. QED  BY <1>2, <1>5, <1>6, <1>8 DEF SessionsInv

\* What appending to the queue does.
LEMMA Queued ==
  ASSUME que \in Seq(SessionIds), NEW i \in SessionIds, que' = Append(que, i)
  PROVE  /\ que' \in Seq(SessionIds) /\ Len(que') = Len(que) + 1 /\ Len(que) \in Nat
         /\ \A k \in 1 .. Len(que) : que'[k] = que[k]
         /\ que'[Len(que) + 1] = i
         /\ \A k : InQueue(k)' <=> InQueue(k) \/ k = i
<1>1. /\ que' \in Seq(SessionIds) /\ Len(que') = Len(que) + 1 /\ Len(que) \in Nat
      /\ \A k \in 1 .. Len(que) : que'[k] = que[k]
      /\ que'[Len(que) + 1] = i
  OBVIOUS
<1>2. ASSUME NEW k PROVE InQueue(k)' <=> InQueue(k) \/ k = i
  <2>1. InQueue(k)' <=> \E m \in 1 .. Len(que) + 1 : que'[m] = k
    BY <1>1 DEF InQueue
  <2>2. QED  BY <1>1, <2>1 DEF InQueue
<1>3. QED  BY <1>1, <1>2

LEMMA SubmitEndsStep == ASSUME SessionsInv, NEW i \in SessionIds, SubmitEnds(i) PROVE SessionsInv'
<1>1. /\ lock = <<i>> /\ lock' = <<>>
      /\ UNCHANGED <<nextId, agentB, change, wanted, stale, hand>>
  BY DEF SubmitEnds, Unread
<1>2. ChangeHeld' /\ ChangeTold'
  <2>1. lock # <<0>> /\ lock' # <<0>>
    BY <1>1, IdsAreNumbers
  <2>2. QED  BY <1>1, <2>1 DEF SessionsInv, ChangeHeld, ChangeTold
<1>3. i \in stale \/ (ses[i].live /\ ~ses[i].closed)
  BY <1>1 DEF SessionsInv, WorkersRun
<1>4. \A k \in SessionIds : lock' # <<k>>
  BY <1>1
<1>5. CASE UNCHANGED <<ses, act, que>>
  <2>1. \A k : InQueue(k)' = InQueue(k) /\ Works(k)' = Works(k) /\ IsRunning(k)' = IsRunning(k)
    BY <1>5 DEF InQueue, Works, IsRunning
  <2>2. SessionTypes'
    BY <1>1, <1>5, UnreadHand DEF SessionsInv, SessionTypes, SesTypes
  <2>3. NumbersRun' /\ OnePlace' /\ DeleteSeen'
    BY <1>1, <1>5, <2>1 DEF SessionsInv, NumbersRun, OnePlace, DeleteSeen
  <2>4. WorkersRun'
    BY <1>1, <1>4, <1>5, <2>1 DEF SessionsInv, WorkersRun
  <2>5. QED  BY <1>2, <2>2, <2>3, <2>4 DEF SessionsInv
<1>6. CASE ~UNCHANGED <<ses, act, que>>
  <2>1. PICK status \in {"running", "queued"} :
          /\ i \notin act /\ ~IsRunning(i)
          /\ \/ act' = act \cup {i} /\ que' = que
             \/ act' = act /\ que' = Append(que, i)
          /\ ses' = [ses EXCEPT ![i] = [ses[i] EXCEPT !.status = status, !.text = TRUE]]
    BY <1>6 DEF SubmitEnds, Put
  <2>2. SesShape(ses[i])
    BY LiveShape
  <2>3. PICK r : ses' = [ses EXCEPT ![i] = r] /\ Turned(r, ses[i], status)
    BY <2>1, <2>2, BusySet
  <2>4. SesTypes' /\ ses'[i] = r /\ \A k \in SessionIds \ {i} : ses'[k] = ses[k]
    BY <2>3, SesSet DEF SessionsInv, SessionTypes, Turned
  <2>5. que \in Seq(SessionIds) /\ Len(que) \in Nat
    BY DEF SessionsInv, SessionTypes
  <2>6. act' \subseteq SessionIds /\ que' \in Seq(SessionIds)
    BY <2>1, <2>5, Queued DEF SessionsInv, SessionTypes
  <2>7. \A k : (k \in act' <=> k \in act \/ (act' # act /\ k = i)) /\ (InQueue(k)' <=> InQueue(k) \/ (que' # que /\ k = i))
    <3>1. CASE act' = act \cup {i} /\ que' = que
      BY <2>1, <3>1 DEF InQueue
    <3>2. CASE act' = act /\ que' = Append(que, i)
      <4>1. que' # que
        BY <2>5, <3>2
      <4>2. QED  BY <2>5, <3>2, <4>1, Queued
    <3>3. QED  BY <2>1, <3>1, <3>2
  <2>8. SessionTypes'
    BY <1>1, <2>4, <2>6, UnreadHand DEF SessionsInv, SessionTypes
  <2>9. NumbersRun'
    BY <1>1, <2>3, <2>4 DEF SessionsInv, NumbersRun, Turned
  <2>10. i \in stale \/ ~Works(i)
    BY <2>1 DEF SessionsInv, WorkersRun
  <2>11. WorkersRun'
    <3>1. SUFFICES ASSUME NEW k \in SessionIds \ stale, Works(k)'
                   PROVE  ses'[k].status \in {"running", "queued", "stopping"} /\ ses'[k].live /\ ~ses'[k].closed
      BY <1>1, <1>4 DEF WorkersRun, IsRunning
    <3>2. CASE k = i
      BY <1>3, <2>3, <2>4, <3>2 DEF Turned
    <3>3. CASE k # i
      <4>1. Works(k)
        BY <2>7, <3>1, <3>3 DEF Works
      <4>2. QED  BY <2>4, <3>3, <4>1 DEF SessionsInv, WorkersRun, IsRunning
    <3>4. QED  BY <3>2, <3>3
  <2>12. OnePlace'
    <3>1. SUFFICES ASSUME NEW k \in SessionIds \ stale
                   PROVE  /\ ~(k \in act' /\ InQueue(k)')
                          /\ \A m, n \in 1 .. Len(que') : que'[m] = k /\ que'[n] = k => m = n
      BY <1>1 DEF OnePlace
    <3>2. /\ ~(k \in act /\ InQueue(k))
          /\ \A m, n \in 1 .. Len(que) : que[m] = k /\ que[n] = k => m = n
      BY DEF SessionsInv, OnePlace
    <3>3. k = i => k \notin act /\ ~InQueue(k)
      BY <2>10 DEF Works
    <3>4. ~(k \in act' /\ InQueue(k)')
      BY <2>1, <2>7, <3>2, <3>3
    <3>5. ASSUME NEW m \in 1 .. Len(que'), NEW n \in 1 .. Len(que'), que'[m] = k, que'[n] = k PROVE m = n
      <4>1. CASE que' = que
        BY <3>2, <3>5, <4>1
      <4>2. CASE que' # que
        <5>1. que' = Append(que, i)
          BY <2>1, <4>2
        <5>2. /\ Len(que') = Len(que) + 1 /\ que'[Len(que) + 1] = i
              /\ \A j \in 1 .. Len(que) : que'[j] = que[j]
          BY <2>5, <5>1, Queued
        <5>3. CASE k = i
          <6>1. m \notin 1 .. Len(que) /\ n \notin 1 .. Len(que)
            BY <3>3, <3>5, <5>2, <5>3 DEF InQueue
          <6>2. QED  BY <2>5, <3>5, <5>2, <6>1
        <5>4. CASE k # i
          <6>1. m \in 1 .. Len(que) /\ n \in 1 .. Len(que)
            BY <2>5, <3>5, <5>2, <5>4
          <6>2. QED  BY <3>2, <3>5, <5>2, <6>1
        <5>5. QED  BY <5>3, <5>4
      <4>3. QED  BY <4>1, <4>2
    <3>6. QED  BY <3>4, <3>5
  <2>13. DeleteSeen'
    BY <1>1, <2>3, <2>4 DEF SessionsInv, DeleteSeen, Turned
  <2>14. QED
    BY <1>2, <2>8, <2>9, <2>11, <2>12, <2>13 DEF SessionsInv
<1>7. QED  BY <1>5, <1>6

LEMMA StopRunStep == ASSUME SessionsInv, NEW i \in SessionIds, StopRun(i) PROVE SessionsInv'
<1>1. /\ UNCHANGED <<nextId, lock, act, que, agentB, change, wanted, stale, hand>>
      /\ ses' = [ses EXCEPT ![i] = [ses[i] EXCEPT !.status = "stopping"]]
  BY DEF StopRun, Quietly, Unread, Put
<1>2. SesShape(ses[i])
  BY LiveShape
<1>3. PICK r : ses' = [ses EXCEPT ![i] = r] /\ Turned(r, ses[i], "stopping")
  BY <1>1, <1>2, StatusSet
<1>4. SesShape(r) /\ r.live = ses[i].live /\ r.closed = ses[i].closed /\ r.status = "stopping"
  BY <1>3 DEF Turned
<1>5. SesTypes' /\ NumbersRun' /\ WorkersRun' /\ OnePlace' /\ ses'[i] = r /\ \A k \in SessionIds \ {i} : ses'[k] = ses[k]
  BY <1>1, <1>3, <1>4, SessionTurns
<1>6. SessionTypes'
  BY <1>1, <1>5, UnreadHand DEF SessionsInv, SessionTypes
<1>7. DeleteSeen'
  BY <1>1, <1>4, <1>5 DEF SessionsInv, DeleteSeen
<1>8. QED
  BY <1>1, <1>5, <1>6, <1>7, ChangeFrame DEF SessionsInv

\* What taking the head of the queue does.
LEMMA Dequeued ==
  ASSUME que \in Seq(SessionIds), que # <<>>, que' = Tail(que)
  PROVE  /\ que' \in Seq(SessionIds) /\ Len(que') = Len(que) - 1 /\ Len(que) \in Nat \ {0} /\ que[1] \in SessionIds
         /\ \A k \in 1 .. Len(que') : que'[k] = que[k + 1]
         /\ \A k : InQueue(k)' => InQueue(k)
         /\ InQueue(que[1])
<1>1. /\ que' \in Seq(SessionIds) /\ Len(que') = Len(que) - 1 /\ Len(que) \in Nat \ {0} /\ que[1] \in SessionIds
      /\ \A k \in 1 .. Len(que') : que'[k] = que[k + 1]
  OBVIOUS
<1>2. InQueue(que[1])
  BY <1>1 DEF InQueue
<1>3. ASSUME NEW k, InQueue(k)' PROVE InQueue(k)
  <2>1. PICK m \in 1 .. Len(que') : que'[m] = k
    BY <1>3 DEF InQueue
  <2>2. m + 1 \in 1 .. Len(que) /\ que[m + 1] = k
    BY <1>1, <2>1
  <2>3. QED  BY <2>2 DEF InQueue
<1>4. QED  BY <1>1, <1>2, <1>3

\* A pending change is taken: by the run that ends last, or at once.
LEMMA ChangeTaken ==
  ASSUME SessionsInv, change # "none", lock = << >>, lock' = << 0 >>, change' = "none",
         hand' = [hand EXCEPT !["apply"] = [Free EXCEPT !.to = change]], UNCHANGED <<agentB, wanted>>
  PROVE  HandTypes' /\ hand'["delete"] = hand["delete"] /\ ChangeHeld' /\ ChangeTold'
<1>1. PICK r : r = [Free EXCEPT !.to = change]
  OBVIOUS
<1>2. HandShape(r) /\ r.to = change /\ r.saved = FALSE /\ r # Free
  BY <1>1, HandShapes
<1>3. HandTypes' /\ hand'["apply"] = r /\ hand'["delete"] = hand["delete"]
  BY <1>1, <1>2, HandSet, HandlersNamed DEF SessionsInv, SessionTypes
<1>4. ChangeHeld'
  BY <1>2, <1>3 DEF ChangeHeld
<1>5. wanted' \in {change, "none"}
  BY DEF SessionsInv, ChangeTold
<1>6. ChangeTold'
  BY <1>2, <1>3, <1>5 DEF ChangeTold
<1>7. QED  BY <1>3, <1>4, <1>6

LEMMA FinishRunStep == ASSUME SessionsInv, NEW i \in SessionIds, FinishRun(i) PROVE SessionsInv'
<1>1. PICK next : next = IF que = <<>> THEN {} ELSE {que[1]}
  OBVIOUS
<1>2. PICK ended : ended = [ses EXCEPT ![i].status = "idle", ![i].ran = TRUE]
  OBVIOUS
<1>3. /\ i \in act /\ lock = <<>>
      /\ act' = (act \ {i}) \cup next
      /\ que' = IF que = <<>> THEN que ELSE Tail(que)
      /\ ses' = [j \in SessionIds |-> IF j \in next THEN [ended[j] EXCEPT !.status = "running"] ELSE ended[j]]
      /\ IF act' = {} /\ change # "none"
         THEN /\ lock' = <<0>> /\ change' = "none"
              /\ hand' = [hand EXCEPT !["apply"] = [Free EXCEPT !.to = change]]
         ELSE UNCHANGED <<lock, change, hand>>
      /\ UNCHANGED <<nextId, agentB, wanted, stale>>
  BY <1>1, <1>2 DEF FinishRun
<1>4. HandTypes' /\ hand'["delete"] = hand["delete"] /\ ChangeHeld' /\ ChangeTold' /\ lock' \in {<<>>, <<0>>}
  <2>1. CASE act' = {} /\ change # "none"
    BY <1>3, <2>1, ChangeTaken
  <2>2. CASE ~(act' = {} /\ change # "none")
    <3>1. UNCHANGED <<lock, change, hand>>
      BY <1>3, <2>2
    <3>2. QED  BY <1>3, <3>1, ChangeFrame, UnreadHand
  <2>3. QED  BY <2>1, <2>2
<1>5. \A k \in SessionIds : lock' # <<k>>
  BY <1>4, NoSubmission
<1>6. que \in Seq(SessionIds) /\ act \subseteq SessionIds /\ next \subseteq SessionIds
  BY <1>1 DEF SessionsInv, SessionTypes
<1>7. que' \in Seq(SessionIds) /\ act' \subseteq SessionIds
  BY <1>3, <1>6, Dequeued
<1>8. ASSUME NEW k \in SessionIds
      PROVE  /\ SesShape(ended[k]) /\ ended[k].live = ses[k].live /\ ended[k].closed = ses[k].closed
             /\ k # i => ended[k] = ses[k]
  <2>1. SesShape(ses[k]) /\ SesShape(ses[i])
    BY LiveShape
  <2>2. ses = [j \in SessionIds |-> ses[j]]
    BY DEF SessionsInv, SessionTypes, SesTypes
  <2>3. CASE k # i
    BY <1>2, <2>1, <2>2, <2>3
  <2>4. CASE k = i
    <3>1. PICK r : r = [ses[i] EXCEPT !.status = "idle", !.ran = TRUE]
      OBVIOUS
    <3>2. ended[i] = r
      BY <1>2, <2>2, <3>1
    <3>3. Turned(r, ses[i], "idle")
      BY <2>1, <3>1, RanSet
    <3>4. QED  BY <2>4, <3>2, <3>3 DEF Turned
  <2>5. QED  BY <2>3, <2>4
<1>9. ASSUME NEW k \in SessionIds
      PROVE  /\ SesShape(ses'[k]) /\ ses'[k].live = ses[k].live /\ ses'[k].closed = ses[k].closed
             /\ k \in next => ses'[k].status = "running"
             /\ k \notin next /\ k # i => ses'[k].status = ses[k].status
  <2>1. SesShape(ended[k]) /\ ended[k].live = ses[k].live /\ ended[k].closed = ses[k].closed /\ (k # i => ended[k] = ses[k])
    BY <1>8
  <2>2. CASE k \in next
    <3>1. ses'[k] = [ended[k] EXCEPT !.status = "running"]
      BY <1>3, <2>2
    <3>2. Turned(ses'[k], ended[k], "running")
      BY <2>1, <3>1, StatusSet
    <3>3. QED  BY <2>1, <2>2, <3>2 DEF Turned
  <2>3. CASE k \notin next
    BY <1>3, <2>1, <2>3
  <2>4. QED  BY <2>2, <2>3
<1>10. SessionTypes'
  <2>1. SesTypes'
    BY <1>3, <1>9 DEF SesTypes
  <2>2. QED  BY <1>3, <1>4, <1>7, <2>1 DEF SessionsInv, SessionTypes
<1>11. NumbersRun' /\ DeleteSeen'
  <2>1. NumbersRun'
    BY <1>3, <1>4, <1>9 DEF SessionsInv, NumbersRun
  <2>2. DeleteSeen'
    BY <1>3, <1>4, <1>9, ZenonT(40) DEF SessionsInv, DeleteSeen
  <2>3. QED  BY <2>1, <2>2
<1>12. \A k : (InQueue(k)' => InQueue(k)) /\ (k \in next => InQueue(k))
  BY <1>1, <1>3, <1>6, Dequeued DEF InQueue
<1>13. \A k \in SessionIds \ stale : k \in next => ~InQueue(k)'
  <2>1. SUFFICES ASSUME NEW k \in SessionIds \ stale, k \in next, InQueue(k)' PROVE FALSE
    OBVIOUS
  <2>2. que # <<>> /\ que[1] = k /\ que' = Tail(que)
    BY <1>1, <1>3, <2>1
  <2>3. PICK m \in 1 .. Len(que') : que'[m] = k
    BY <2>1 DEF InQueue
  <2>4. Len(que) \in Nat \ {0} /\ Len(que') = Len(que) - 1 /\ que'[m] = que[m + 1]
    BY <1>6, <2>2, Dequeued
  <2>5. m + 1 \in 1 .. Len(que) /\ 1 \in 1 .. Len(que) /\ m + 1 # 1
    BY <2>4
  <2>6. \A a, b \in 1 .. Len(que) : que[a] = k /\ que[b] = k => a = b
    BY DEF SessionsInv, OnePlace
  <2>7. QED  BY <2>2, <2>3, <2>4, <2>5, <2>6
<1>14. WorkersRun'
  <2>1. SUFFICES ASSUME NEW k \in SessionIds \ stale, Works(k)'
                 PROVE  ses'[k].status \in {"running", "queued", "stopping"} /\ ses'[k].live /\ ~ses'[k].closed
    BY <1>3, <1>5 DEF WorkersRun, IsRunning
  <2>2. Works(k)
    BY <1>3, <1>12, <2>1 DEF Works
  <2>3. ses[k].status \in {"running", "queued", "stopping"} /\ ses[k].live /\ ~ses[k].closed
    BY <2>2 DEF SessionsInv, WorkersRun, IsRunning
  <2>4. CASE k \in next
    BY <1>9, <2>3, <2>4
  <2>5. CASE k \notin next
    <3>1. k # i
      <4>1. SUFFICES ASSUME k = i PROVE FALSE
        OBVIOUS
      <4>2. InQueue(i)'
        BY <1>3, <2>1, <2>5, <4>1 DEF Works
      <4>3. QED  BY <1>3, <1>12, <4>1, <4>2 DEF SessionsInv, OnePlace
    <3>2. QED  BY <1>9, <2>3, <2>5, <3>1
  <2>6. QED  BY <2>4, <2>5
<1>15. OnePlace'
  <2>1. SUFFICES ASSUME NEW k \in SessionIds \ stale
                 PROVE  /\ ~(k \in act' /\ InQueue(k)')
                        /\ \A m, n \in 1 .. Len(que') : que'[m] = k /\ que'[n] = k => m = n
    BY <1>3 DEF OnePlace
  <2>2. /\ ~(k \in act /\ InQueue(k))
        /\ \A m, n \in 1 .. Len(que) : que[m] = k /\ que[n] = k => m = n
    BY DEF SessionsInv, OnePlace
  <2>3. ~(k \in act' /\ InQueue(k)')
    BY <1>3, <1>12, <1>13, <2>2
  <2>4. ASSUME NEW m \in 1 .. Len(que'), NEW n \in 1 .. Len(que'), que'[m] = k, que'[n] = k PROVE m = n
    <3>1. CASE que = <<>>
      BY <1>3, <2>2, <2>4, <3>1
    <3>2. CASE que # <<>>
      <4>1. /\ Len(que) \in Nat \ {0} /\ Len(que') = Len(que) - 1
            /\ \A j \in 1 .. Len(que') : que'[j] = que[j + 1]
        BY <1>3, <1>6, <3>2, Dequeued
      <4>2. m + 1 \in 1 .. Len(que) /\ n + 1 \in 1 .. Len(que) /\ que[m + 1] = k /\ que[n + 1] = k
        BY <2>4, <4>1
      <4>3. m + 1 = n + 1
        BY <2>2, <4>2
      <4>4. QED  BY <4>1, <4>3
    <3>3. QED  BY <3>1, <3>2
  <2>5. QED  BY <2>3, <2>4
<1>16. QED
  BY <1>4, <1>10, <1>11, <1>14, <1>15 DEF SessionsInv

-----------------------------------------------------------------------------
(* The server of the agent                                                  *)

\* The sessions stay as they are, and the lock is not a submission's.
LEMMA ServerFrame ==
  ASSUME SessionsInv, UNCHANGED <<ses, nextId, act, que, stale>>, HandTypes', hand'["delete"] = hand["delete"],
         lock' = lock \/ lock' \in {<< >>, << 0 >>}
  PROVE  SessionTypes' /\ NumbersRun' /\ WorkersRun' /\ OnePlace' /\ DeleteSeen'
<1>1. \A k : InQueue(k)' = InQueue(k) /\ Works(k)' = Works(k) /\ IsRunning(k)' = IsRunning(k)
  BY DEF InQueue, Works, IsRunning
<1>2. SessionTypes'
  BY DEF SessionsInv, SessionTypes, SesTypes
<1>3. \A k \in SessionIds : lock' = <<k>> => lock = <<k>>
  BY IdsAreNumbers
<1>4. WorkersRun'
  BY <1>1, <1>3 DEF SessionsInv, WorkersRun
<1>5. NumbersRun' /\ OnePlace' /\ DeleteSeen'
  BY <1>1 DEF SessionsInv, NumbersRun, OnePlace, DeleteSeen
<1>6. QED  BY <1>2, <1>4, <1>5

LEMMA AskServerStep == ASSUME SessionsInv, NEW p \in Servers, AskServer(p) \/ Probed(p) PROVE SessionsInv'
<1>1. UNCHANGED <<ses, nextId, lock, act, que, agentB, stale, hand>>
  BY DEF AskServer, Probed, Unread
<1>2. SessionTypes' /\ NumbersRun' /\ WorkersRun' /\ OnePlace' /\ DeleteSeen'
  BY <1>1, ServerFrame, UnreadHand
<1>3. ChangeHeld'
  BY <1>1 DEF SessionsInv, ChangeHeld
<1>4. p # "none"
  BY SessionsAssumption
<1>5. ChangeTold'
  <2>1. CASE AskServer(p)
    BY <1>1, <1>4, <2>1 DEF SessionsInv, ChangeTold, AskServer, Idle
  <2>2. CASE Probed(p)
    BY <1>1, <2>2 DEF SessionsInv, ChangeTold, Probed
  <2>3. QED  BY <2>1, <2>2
<1>6. QED  BY <1>2, <1>3, <1>5 DEF SessionsInv

LEMMA TryAgentIdleStep == SessionsInv /\ TryAgentIdle => SessionsInv'
<1> SUFFICES ASSUME SessionsInv, TryAgentIdle PROVE SessionsInv'
  OBVIOUS
<1>1. /\ change # "none" /\ lock = <<>> /\ lock' = <<0>> /\ change' = "none"
      /\ hand' = [hand EXCEPT !["apply"] = [Free EXCEPT !.to = change]]
      /\ UNCHANGED <<ses, nextId, act, que, agentB, wanted, stale>>
  BY DEF TryAgentIdle
<1>2. HandTypes' /\ hand'["delete"] = hand["delete"] /\ ChangeHeld' /\ ChangeTold'
  BY <1>1, ChangeTaken
<1>3. QED
  BY <1>1, <1>2, ServerFrame DEF SessionsInv

LEMMA CancelServerStep == SessionsInv /\ CancelServer => SessionsInv'
<1> SUFFICES ASSUME SessionsInv, CancelServer PROVE SessionsInv'
  OBVIOUS
<1>1. UNCHANGED <<ses, nextId, lock, act, que, agentB, stale, hand>> /\ change' = "none" /\ wanted' = "none"
  BY DEF CancelServer, Unread
<1>2. SessionTypes' /\ NumbersRun' /\ WorkersRun' /\ OnePlace' /\ DeleteSeen'
  BY <1>1, ServerFrame, UnreadHand
<1>3. ChangeHeld' /\ ChangeTold'
  BY <1>1 DEF SessionsInv, ChangeHeld, ChangeTold
<1>4. QED  BY <1>2, <1>3 DEF SessionsInv

\* The configuration is saved: the change is in force, its sessions still to come.
LEMMA ChangeSaved ==
  ASSUME SessionsInv, hand["apply"] # Free, agentB' = hand["apply"].to \/ (hand["apply"].saved /\ agentB' = agentB),
         NEW r, HandShape(r), r.to = hand["apply"].to, r.saved = TRUE, hand' = [hand EXCEPT !["apply"] = r],
         UNCHANGED <<change, lock, wanted>>
  PROVE  HandTypes' /\ hand'["delete"] = hand["delete"] /\ ChangeHeld' /\ ChangeTold'
<1>1. HandTypes' /\ hand'["apply"] = r /\ hand'["delete"] = hand["delete"]
  BY HandSet, HandlersNamed DEF SessionsInv, SessionTypes
<1>2. r # Free
  BY HandShapes
<1>3. QED
  BY <1>1, <1>2 DEF SessionsInv, ChangeHeld, ChangeTold

\* The change is done with, in force or pending again.
LEMMA ChangeDone ==
  ASSUME SessionsInv, hand["apply"] # Free, hand' = [hand EXCEPT !["apply"] = Free], lock' = <<>>,
         \/ hand["apply"].saved /\ change' = change
         \/ change' = (IF change = "none" THEN hand["apply"].to ELSE change),
         UNCHANGED <<agentB, wanted>>
  PROVE  HandTypes' /\ hand'["delete"] = hand["delete"] /\ ChangeHeld' /\ ChangeTold'
<1>1. HandTypes' /\ hand'["apply"] = Free /\ hand'["delete"] = hand["delete"]
  BY HandSet, HandShapes, HandlersNamed DEF SessionsInv, SessionTypes
<1>2. ChangeHeld'
  BY <1>1, HandShapes DEF ChangeHeld
<1>3. ChangeTold'
  BY <1>1 DEF SessionsInv, ChangeHeld, ChangeTold
<1>4. QED  BY <1>1, <1>2, <1>3

LEMMA HandSaved ==
  ASSUME NEW r, HandShape(r), NEW a, NEW q, q = [r EXCEPT !.saved = TRUE, !.rest = a]
  PROVE  HandShape(q) /\ q.to = r.to /\ q.saved = TRUE
<1>1. /\ r = [id |-> r.id, to |-> r.to, saved |-> r.saved, rest |-> r.rest, tools |-> r.tools]
      /\ r.saved \in BOOLEAN
  BY DEF HandShape
<1>2. QED  BY <1>1 DEF HandShape

LEMMA ApplySavesStep == SessionsInv /\ ApplySaves => SessionsInv'
<1> SUFFICES ASSUME SessionsInv, ApplySaves PROVE SessionsInv'
  OBVIOUS
<1>1. UNCHANGED <<ses, nextId, act, que, wanted, stale>> /\ hand["apply"] # Free
  BY DEF ApplySaves, Idle
<1>2. HandShape(hand["apply"]) /\ hand = [k \in Handlers |-> hand[k]] /\ "apply" \in Handlers
  BY HandlersNamed DEF SessionsInv, SessionTypes, HandTypes
<1>3. PICK rest : rest = SetToSortSeq({i \in Live : ~ses[i].closed}, <) \o <<0>>
  OBVIOUS
<1>4. CASE /\ agentB' = hand["apply"].to
           /\ hand' = [hand EXCEPT !["apply"].saved = TRUE, !["apply"].rest = rest]
           /\ UNCHANGED <<change, lock>>
  <2>1. PICK r : r = [hand["apply"] EXCEPT !.saved = TRUE, !.rest = rest]
    OBVIOUS
  <2>2. hand' = [hand EXCEPT !["apply"] = r]
    BY <1>2, <1>4, <2>1
  <2>3. HandShape(r) /\ r.to = hand["apply"].to /\ r.saved = TRUE
    BY <1>2, <2>1, HandSaved
  <2>4. HandTypes' /\ hand'["delete"] = hand["delete"] /\ ChangeHeld' /\ ChangeTold'
    BY <1>1, <1>4, <2>2, <2>3, ChangeSaved
  <2>5. QED  BY <1>1, <1>4, <2>4, ServerFrame DEF SessionsInv
<1>5. CASE RestoreChange(hand["apply"].to) /\ Done("apply") /\ lock' = <<>> /\ UNCHANGED agentB
  <2>1. HandTypes' /\ hand'["delete"] = hand["delete"] /\ ChangeHeld' /\ ChangeTold'
    BY <1>1, <1>5, ChangeDone DEF RestoreChange, Done
  <2>2. QED  BY <1>1, <1>5, <2>1, ServerFrame DEF SessionsInv
<1>6. QED
  BY <1>3, <1>4, <1>5 DEF ApplySaves

LEMMA ApplyBindsStep == SessionsInv /\ ApplyBinds => SessionsInv'
<1> SUFFICES ASSUME SessionsInv, ApplyBinds PROVE SessionsInv'
  OBVIOUS
<1>1. UNCHANGED <<nextId, act, que, agentB, change, wanted, stale>> /\ hand["apply"] # Free /\ hand["apply"].saved
  BY DEF ApplyBinds, Idle
<1>2. HandShape(hand["apply"]) /\ hand = [k \in Handlers |-> hand[k]] /\ "apply" \in Handlers /\ hand["apply"].saved = TRUE
  BY <1>1, HandlersNamed DEF SessionsInv, SessionTypes, HandTypes, HandShape
<1>3. /\ \/ hand' = [hand EXCEPT !["apply"] = Free] /\ lock' = <<>>
         \/ lock' = lock /\ hand' = [hand EXCEPT !["apply"].rest = Tail(hand["apply"].rest)]
      /\ \/ UNCHANGED ses
         \/ \E i \in SessionIds : \E a, b : ses' = [ses EXCEPT ![i] = [ses[i] EXCEPT !.server = a, !.tools = b]]
  <2>1. PICK i : i = Head(hand["apply"].rest)
    OBVIOUS
  <2>2. IF i = 0 \/ ("fault" \in menu /\ i \in Live /\ agentB \notin ready)
        THEN Done("apply") /\ lock' = <<>>
        ELSE hand' = [hand EXCEPT !["apply"].rest = Tail(@)] /\ UNCHANGED lock
    BY <2>1, Zenon DEF ApplyBinds
  <2>3. IF i = 0 \/ i \notin Live \/ ses[i].closed
        THEN UNCHANGED ses
        ELSE \E a, b : Put(i, [ses[i] EXCEPT !.server = a, !.tools = b])
    <3>1. CASE i = 0 \/ i \notin Live \/ ses[i].closed
      BY <2>1, <3>1, Zenon DEF ApplyBinds
    <3>2. CASE ~(i = 0 \/ i \notin Live \/ ses[i].closed)
      <4>1. Put(i, [ses[i] EXCEPT !.server = IF ses[i].role = "d" THEN DServer ELSE agentB,
                                  !.tools = IF ses[i].policy = "active"
                                            THEN DTools(ses[i].role, toolset) \cap PolicyTools
                                            ELSE DTools(ses[i].role, toolset)])
        BY <2>1, <3>2, Zenon DEF ApplyBinds
      <4>2. QED  BY <3>2, <4>1, Zenon
    <3>3. QED  BY <3>1, <3>2
  <2>4. \/ hand' = [hand EXCEPT !["apply"] = Free] /\ lock' = <<>>
        \/ lock' = lock /\ hand' = [hand EXCEPT !["apply"].rest = Tail(hand["apply"].rest)]
    BY <2>2, <1>2 DEF Done
  <2>5. QED  BY <2>3, <2>4 DEF Put, Live
<1>4. HandTypes' /\ hand'["delete"] = hand["delete"] /\ ChangeHeld' /\ ChangeTold'
  <2>1. CASE hand' = [hand EXCEPT !["apply"] = Free] /\ lock' = <<>>
    BY <1>1, <2>1, ChangeDone
  <2>2. CASE lock' = lock /\ hand' = [hand EXCEPT !["apply"].rest = Tail(hand["apply"].rest)]
    <3>1. PICK r : r = [hand["apply"] EXCEPT !.rest = Tail(hand["apply"].rest)]
      OBVIOUS
    <3>2. hand' = [hand EXCEPT !["apply"] = r]
      BY <1>2, <2>2, <3>1
    <3>3. HandShape(r) /\ r.to = hand["apply"].to /\ r.saved = TRUE
      BY <1>2, <3>1 DEF HandShape
    <3>4. QED  BY <1>1, <2>2, <3>2, <3>3, ChangeSaved
  <2>3. QED  BY <1>3, <2>1, <2>2
<1>5. SesTypes' /\ \A j \in SessionIds : Alike(ses'[j], ses[j])
  <2>1. CASE UNCHANGED ses
    BY <2>1 DEF SessionsInv, SessionTypes, SesTypes, Alike
  <2>2. CASE ~UNCHANGED ses
    <3>0. PICK i \in SessionIds : \E a, b : ses' = [ses EXCEPT ![i] = [ses[i] EXCEPT !.server = a, !.tools = b]]
      BY <1>3, <2>2
    <3>1. PICK a, b : ses' = [ses EXCEPT ![i] = [ses[i] EXCEPT !.server = a, !.tools = b]]
      BY <3>0
    <3>2. SesShape(ses[i])
      BY LiveShape
    <3>3. PICK r : ses' = [ses EXCEPT ![i] = r] /\ SesShape(r) /\ Alike(r, ses[i])
      BY <3>1, <3>2, BindingSet
    <3>4. QED  BY <3>3, AlikePut
  <2>3. QED  BY <2>1, <2>2
<1>6. \A k \in SessionIds : lock # <<k>> /\ lock' # <<k>>
  <2>1. lock = <<0>> /\ lock' \in {<<>>, <<0>>}
    BY <1>1, <1>3 DEF SessionsInv, ChangeHeld
  <2>2. QED  BY <2>1, NoSubmission
<1>7. \A k : InQueue(k)' = InQueue(k) /\ Works(k)' = Works(k)
  BY <1>1 DEF InQueue, Works
<1>8. \A k \in SessionIds : IsRunning(k)' = IsRunning(k) /\ ses'[k].live = ses[k].live /\ ses'[k].closed = ses[k].closed
  BY <1>5 DEF Alike, IsRunning
<1>9. SessionTypes'
  BY <1>1, <1>3, <1>4, <1>5 DEF SessionsInv, SessionTypes
<1>10. NumbersRun' /\ OnePlace' /\ DeleteSeen'
  BY <1>1, <1>4, <1>7, <1>8 DEF SessionsInv, NumbersRun, OnePlace, DeleteSeen
<1>11. WorkersRun'
  BY <1>1, <1>6, <1>7, <1>8 DEF SessionsInv, WorkersRun
<1>12. QED
  BY <1>4, <1>9, <1>10, <1>11 DEF SessionsInv

-----------------------------------------------------------------------------
(* Restart, and the theorem                                                 *)

\* A finite set of numbers with a bound has a greatest element.
LEMMA GreatestOf ==
  ASSUME NEW S, S \subseteq Nat, S # {}, NEW n \in Nat, \A x \in S : x <= n
  PROVE  Max(S) \in S /\ \A y \in S : Max(S) >= y
<1> DEFINE T == {n - x : x \in S}
<1>0. \A x \in S : x \in Nat /\ x <= n /\ n - x \in Nat
  OBVIOUS
<1>1. T \subseteq Nat /\ T # {}
  BY <1>0
<1>2. PICK t \in T : \A u \in T : ~(u < t)
  <2> DEFINE R == OpToRel(<, Nat)
  <2> HIDE DEF T, R
  <2>1. IsWellFoundedOn(R, Nat)
    BY NatLessThanWellFounded DEF R
  <2>2. PICK t \in T : \A u \in T : ~(<<u, t>> \in R)
    BY <1>1, <2>1, WFMin
  <2>3. \A u \in T : u < t => <<u, t>> \in R
    BY <1>1 DEF R, OpToRel
  <2>4. QED  BY <2>2, <2>3
<1>3. PICK x \in S : t = n - x
  BY <1>2
<1>4. \A y \in S : x >= y
  <2>1. TAKE y \in S
  <2>2. n - y \in T
    OBVIOUS
  <2>3. ~(n - y < n - x)
    BY <1>2, <1>3, <2>2
  <2>4. QED  BY <1>0, <2>3
<1>5. QED  BY <1>3, <1>4 DEF Max

LEMMA RebootStep == SessionsInv /\ Reboot => SessionsInv'
<1> SUFFICES ASSUME SessionsInv, Reboot PROVE SessionsInv'
  OBVIOUS
<1>1. /\ ses' = [i \in SessionIds |-> IF IsRunning(i) THEN [ses[i] EXCEPT !.status = "idle", !.ran = TRUE] ELSE ses[i]]
      /\ nextId' = Max({2} \cup {i + 1 : i \in Live})
      /\ lock' = <<>> /\ act' = {} /\ que' = <<>>
      /\ change' = "none" /\ wanted' = "none" /\ stale' = {}
      /\ hand' = [h \in Handlers |-> Free]
      /\ agentB' = agentB
  BY DEF Reboot
<1>2. ASSUME NEW i \in SessionIds PROVE SesShape(ses'[i]) /\ ses'[i].live = ses[i].live
  <2>1. SesShape(ses[i])
    BY LiveShape
  <2>2. CASE IsRunning(i)
    <3>1. Turned(ses'[i], ses[i], "idle")
      BY <1>1, <2>1, <2>2, RanSet
    <3>2. QED  BY <3>1 DEF Turned
  <2>3. CASE ~IsRunning(i)
    BY <1>1, <2>1, <2>3
  <2>4. QED  BY <2>2, <2>3
<1>3. SesTypes'
  BY <1>1, <1>2 DEF SesTypes
<1>4. HandTypes' /\ hand'["delete"] = Free /\ hand'["apply"] = Free
  BY <1>1, HandShapes, HandlersNamed DEF HandTypes
<1>5. nextId' \in Nat /\ nextId' >= 2 /\ \A i \in Live : i < nextId'
  <2>1. PICK n \in Nat : SessionIds = 1 .. n
    BY SessionsAssumption, FS_CardinalityType
  <2>2. Live \subseteq 1 .. n
    BY <2>1 DEF Live
  <2>3. PICK S : S = {2} \cup {i + 1 : i \in Live}
    OBVIOUS
  <2>4. S \subseteq Nat /\ 2 \in S /\ n + 2 \in Nat /\ \A x \in S : x <= n + 2
    BY <2>1, <2>2, <2>3
  <2>5. Max(S) \in S /\ \A y \in S : Max(S) >= y
    BY <2>4, GreatestOf
  <2>6. \A i \in Live : i + 1 \in S
    BY <2>3
  <2>7. nextId' = Max(S)
    BY <1>1, <2>3
  <2>8. \A i \in Live : i \in Nat
    BY <2>1, <2>2
  <2>9. nextId' \in Nat
    BY <2>4, <2>5, <2>7
  <2>10. nextId' >= 2 /\ \A i \in Live : nextId' >= i + 1
    BY <2>4, <2>5, <2>6, <2>7
  <2>11. QED  BY <2>8, <2>9, <2>10
<1>6. SessionTypes'
  <2>1. <<>> \in Seq(SessionIds)
    OBVIOUS
  <2>2. QED  BY <1>1, <1>3, <1>4, <1>5, <2>1 DEF SessionTypes
<1>7. NumbersRun'
  BY <1>2, <1>5 DEF NumbersRun, Live
<1>8. \A k : ~Works(k)' /\ ~InQueue(k)'
  <2>1. \A m : m \notin 1 .. Len(<<>>)
    OBVIOUS
  <2>2. QED  BY <1>1, <2>1 DEF Works, InQueue
<1>9. \A k \in SessionIds : lock' # <<k>>
  BY <1>1
<1>10. WorkersRun' /\ OnePlace'
  <2>1. WorkersRun'
    BY <1>8, <1>9 DEF WorkersRun
  <2>2. \A m : m \notin 1 .. Len(<<>>)
    OBVIOUS
  <2>3. OnePlace'
    BY <1>1, <1>8, <2>2 DEF OnePlace
  <2>4. QED  BY <2>1, <2>3
<1>11. DeleteSeen'
  BY <1>4 DEF DeleteSeen
<1>12. ChangeHeld' /\ ChangeTold'
  <2>1. lock' # <<0>> /\ Free.saved = FALSE
    BY <1>1, HandShapes
  <2>2. QED  BY <1>1, <1>4, <2>1 DEF ChangeHeld, ChangeTold
<1>13. QED
  BY <1>6, <1>7, <1>10, <1>11, <1>12 DEF SessionsInv

LEMMA SessionsStep == SessionsInv /\ [SessionsNext]_sesVars => SessionsInv'
<1> SUFFICES ASSUME SessionsInv, [SessionsNext]_sesVars PROVE SessionsInv'
  OBVIOUS
<1>1. CASE UNCHANGED sesVars
  <2>1. UNCHANGED <<nextId, lock, act, que, agentB, change, wanted, stale, hand, ses>>
    BY <1>1 DEF sesVars
  <2>2. SesTypes' /\ \A j \in SessionIds : Alike(ses'[j], ses[j])
    BY <2>1 DEF SessionsInv, SessionTypes, SesTypes, Alike
  <2>3. QED  BY <2>1, <2>2, AlikeStep, UnreadHand
<1>2. ASSUME NEW i \in SessionIds,
             \/ CreateLike(i) \/ Close(i) \/ Reopen(i) \/ DeleteChecks(i) \/ Rename(i) \/ DropLast(i)
             \/ ResetChecks(i) \/ LabelReads(i) \/ SetAgentChecks(i) \/ Policy(i) \/ SubmitBegins(i)
             \/ SubmitEnds(i) \/ StopRun(i) \/ TurnApplies(i) \/ FinishRun(i)
      PROVE  SessionsInv'
  BY <1>2, CreateLikeStep, CloseStep, ReopenStep, DeleteChecksStep, RenameStep, HandlerChecks, SubmitBeginsStep,
     SubmitEndsStep, StopRunStep, FinishRunStep
<1>3. ASSUME NEW p \in Servers, AskServer(p) \/ Probed(p) PROVE SessionsInv'
  BY <1>3, AskServerStep
<1>4. CASE \/ Create \/ Reboot \/ DeleteEnds \/ ResetEnds \/ LabelWrites \/ SetAgentBinds \/ ToggleTool
           \/ TryAgentIdle \/ CancelServer \/ ApplySaves \/ ApplyBinds
  BY <1>4, CreateStep, RebootStep, DeleteEndsStep, OverwritesStep, SetAgentBindsStep, ToggleToolStep, TryAgentIdleStep,
     CancelServerStep, ApplySavesStep, ApplyBindsStep
<1>5. QED
  BY <1>1, <1>2, <1>3, <1>4 DEF SessionsNext

\* The registry and the server change: a closed or deleted session has no run, no
\* place in the queue and no submission, unless a handler wrote over what it had
\* read before; and the last server asked for is in force, pending, or being applied
\* (Session.Close, BeginSubmission, SubmitAttachments, applyAgentServer).
THEOREM SessionsCorrect == SessionsSpec => []SessionsKept
<1>1. SessionsInit => SessionsInv
  BY SessionsInitially
<1>2. SessionsInv /\ [SessionsNext]_sesVars => SessionsInv'
  BY SessionsStep
<1>3. SessionsInv => SessionsKept
  <2> SUFFICES ASSUME SessionsInv PROVE ClosedIsQuiet /\ ChangeKept
    BY DEF SessionsKept
  <2>2. ClosedIsQuiet
    <3>1. SUFFICES ASSUME NEW i \in SessionIds \ stale, i \in act \/ i \in Range(que) \/ lock = <<i>>
                   PROVE  ses[i].live /\ ~ses[i].closed
      BY DEF ClosedIsQuiet
    <3>2. que \in Seq(SessionIds)
      BY DEF SessionsInv, SessionTypes
    <3>3. Works(i) \/ lock = <<i>>
      BY <3>1, <3>2, RangeIsQueue DEF Works
    <3>4. QED  BY <3>3 DEF SessionsInv, WorkersRun
  <2>3. ChangeKept
    <3>1. CASE change # "none"
      BY <3>1 DEF SessionsInv, ChangeTold, ChangeKept
    <3>2. CASE change = "none"
      BY <3>2 DEF SessionsInv, ChangeTold, ChangeKept
    <3>3. QED  BY <3>1, <3>2
  <2>4. QED  BY <2>2, <2>3
<1>4. QED
  BY <1>1, <1>2, <1>3, PTL DEF SessionsSpec

-----------------------------------------------------------------------------
(* What a chat keeps of its messages                                        *)

Msgs == {m \in [uid : Nat, id : Nat] : m.id = m.uid}
Entries == [op : {"appended", "removed"}, m : Msgs]
Said == (bootUid + 1)..uid
Fields == {"order", "body", "elided", "compacted", "lineage", "latest"}

\* While no restart has made ids ambiguous, an id is the message's number.
Numbers ==
  /\ uid \in Nat /\ lastId = uid
  /\ bootUid \in Nat /\ bootUid <= uid
  /\ removed \subseteq 1..uid

\* The session's messages are some of those said and not removed, each once.
LiveOk ==
  /\ live \in Seq(Msgs)
  /\ \A i \in DOMAIN live : live[i].uid \in Said \ removed
  /\ \A i, j \in DOMAIN live : i # j => live[i].uid # live[j].uid

TapeOk == chatTape \in Seq(Entries) /\ {m.uid : m \in ExportMessages(chatTape)} = Said \ removed

\* The index has a record of every message said and not removed, and replaced only those.
IndexOk ==
  /\ DOMAIN index = Fields
  /\ index.body \in [Said \ removed -> Nat]
  /\ \A x \in Said \ removed : index.body[x] = x
  /\ DOMAIN index.lineage \subseteq Said \ removed
  /\ index.lineage \in [DOMAIN index.lineage -> SUBSET Said]
  /\ LeftOut \subseteq index.compacted

\* A summary is the second message, and it stands for every message that the session no longer
\* has, except those of a summary that the operator removed.
StandsFor ==
  /\ \A i \in DOMAIN live : live[i].id \in DOMAIN index.lineage => i = 2
  /\ LeftOut \ orphaned # {} =>
       /\ Len(live) >= 2 /\ live[2].id \in DOMAIN index.lineage
       /\ LeftOut \ orphaned \subseteq Walk(index, live[2].id)

TranscriptInv ==
  /\ boots \in Nat
  /\ boots = 0 => Numbers /\ LiveOk /\ TapeOk /\ IndexOk /\ StandsFor

(* Exporting after another message was appended. *)
LEMMA ExportAppended ==
  ASSUME NEW tape \in Seq(Entries), NEW m \in Msgs
  PROVE  ExportMessages(Append(tape, [op |-> "appended", m |-> m])) = ExportMessages(tape) \cup {m}
<1> DEFINE e == [op |-> "appended", m |-> m]
           t == Append(tape, e)
           n == Len(tape) + 1
           Kept(s, j) == /\ s[j].op = "appended"
                         /\ \A k \in DOMAIN s : k > j /\ s[k].op = "removed" => s[k].m.id # s[j].m.id
<1>1. e \in Entries /\ e.op = "appended" /\ e.m = m /\ "appended" # "removed"
  BY DEF Entries
<1>2. n \in Nat /\ n \notin DOMAIN tape /\ DOMAIN t = DOMAIN tape \cup {n} /\ t[n] = e
      /\ \A i \in DOMAIN tape : t[i] = tape[i] /\ i \in Nat /\ n > i
  BY <1>1
<1> HIDE DEF e, t, n
<1>3. Kept(t, n)
  <2>1. \A k \in DOMAIN t : ~(k > n)
    BY <1>2
  <2> QED  BY <1>1, <1>2, <2>1
<1>4. ASSUME NEW j \in DOMAIN tape
      PROVE  Kept(t, j) <=> Kept(tape, j)
  BY <1>1, <1>2, <1>4
<1> HIDE DEF Kept
<1>5. {i \in DOMAIN t : Kept(t, i)} = {i \in DOMAIN tape : Kept(tape, i)} \cup {n}
  BY <1>2, <1>3, <1>4
<1>6. {t[i].m : i \in {j \in DOMAIN t : Kept(t, j)}}
        = {tape[i].m : i \in {j \in DOMAIN tape : Kept(tape, j)}} \cup {m}
  BY <1>1, <1>2, <1>5
<1>7. /\ ExportMessages(t) = {t[i].m : i \in {j \in DOMAIN t : Kept(t, j)}}
      /\ ExportMessages(tape) = {tape[i].m : i \in {j \in DOMAIN tape : Kept(tape, j)}}
  BY Zenon DEF ExportMessages, Kept
<1> QED  BY <1>6, <1>7, Zenon DEF t, e

(* Exporting after a message was removed. *)
LEMMA ExportRemoved ==
  ASSUME NEW tape \in Seq(Entries), NEW m \in Msgs
  PROVE  ExportMessages(Append(tape, [op |-> "removed", m |-> m]))
           = {x \in ExportMessages(tape) : x.id # m.id}
<1> DEFINE e == [op |-> "removed", m |-> m]
           t == Append(tape, e)
           n == Len(tape) + 1
           Kept(s, j) == /\ s[j].op = "appended"
                         /\ \A k \in DOMAIN s : k > j /\ s[k].op = "removed" => s[k].m.id # s[j].m.id
<1>1. e \in Entries /\ e.op = "removed" /\ e.m = m /\ "appended" # "removed"
  BY DEF Entries
<1>2. n \in Nat /\ n \notin DOMAIN tape /\ DOMAIN t = DOMAIN tape \cup {n} /\ t[n] = e
      /\ \A i \in DOMAIN tape : t[i] = tape[i] /\ i \in Nat /\ n > i
  BY <1>1
<1> HIDE DEF e, t, n
<1>3. ~Kept(t, n)
  BY <1>1, <1>2
<1>4. ASSUME NEW j \in DOMAIN tape
      PROVE  Kept(t, j) <=> Kept(tape, j) /\ tape[j].m.id # m.id
  BY <1>1, <1>2, <1>4
<1> HIDE DEF Kept
<1>5. {i \in DOMAIN t : Kept(t, i)} = {i \in DOMAIN tape : Kept(tape, i) /\ tape[i].m.id # m.id}
  BY <1>2, <1>3, <1>4
<1>6. {t[i].m : i \in {j \in DOMAIN t : Kept(t, j)}}
        = {x \in {tape[i].m : i \in {j \in DOMAIN tape : Kept(tape, j)}} : x.id # m.id}
  BY <1>1, <1>2, <1>5
<1>7. /\ ExportMessages(t) = {t[i].m : i \in {j \in DOMAIN t : Kept(t, j)}}
      /\ ExportMessages(tape) = {tape[i].m : i \in {j \in DOMAIN tape : Kept(tape, j)}}
  BY Zenon DEF ExportMessages, Kept
<1> QED  BY <1>6, <1>7, Zenon DEF t, e

(* Exporting after any number of messages were removed. *)
LEMMA ExportRemovedAll ==
  ASSUME NEW tape \in Seq(Entries), NEW g \in Seq(Entries), \A i \in DOMAIN g : g[i].op = "removed"
  PROVE  ExportMessages(tape \o g)
           = {x \in ExportMessages(tape) : \A i \in DOMAIN g : x.id # g[i].m.id}
<1> DEFINE t == tape \o g
           n == Len(tape)
           Kept(s, j) == /\ s[j].op = "appended"
                         /\ \A k \in DOMAIN s : k > j /\ s[k].op = "removed" => s[k].m.id # s[j].m.id
           Gone(x) == \E i \in DOMAIN g : x.id = g[i].m.id
<1>1. n \in Nat /\ DOMAIN tape = 1..n /\ DOMAIN g = 1..Len(g) /\ Len(g) \in Nat
  OBVIOUS
<1>2. /\ DOMAIN t = 1..(n + Len(g))
      /\ \A i \in DOMAIN tape : t[i] = tape[i] /\ i \in DOMAIN t
      /\ \A i \in DOMAIN g : t[n + i] = g[i] /\ n + i \in DOMAIN t /\ n + i > n
      /\ \A k \in DOMAIN t : k \in DOMAIN tape \/ k - n \in DOMAIN g
  OBVIOUS
<1> HIDE DEF t, n
<1>3. \A k \in DOMAIN t : k \in DOMAIN tape \/ (k - n \in DOMAIN g /\ t[k] = g[k - n] /\ t[k].op = "removed")
  <2>1. ASSUME NEW k \in DOMAIN t, k \notin DOMAIN tape
        PROVE  k - n \in DOMAIN g /\ t[k] = g[k - n]
    <3>1. k - n \in DOMAIN g /\ n + (k - n) = k
      BY <1>1, <1>2, <2>1
    <3> QED  BY <1>2, <3>1
  <2> QED  BY <2>1
<1>4. ASSUME NEW j \in DOMAIN tape
      PROVE  Kept(t, j) <=> Kept(tape, j) /\ ~Gone(tape[j].m)
  <2>1. t[j] = tape[j] /\ j <= n /\ j \in Nat
    BY <1>1, <1>2
  <2>2. ASSUME Kept(t, j)
        PROVE  Kept(tape, j) /\ ~Gone(tape[j].m)
    <3>1. ~Gone(tape[j].m)
      BY <1>1, <1>2, <2>1, <2>2
    <3> QED  BY <1>2, <2>1, <2>2, <3>1
  <2>3. ASSUME Kept(tape, j), ~Gone(tape[j].m), NEW k \in DOMAIN t, k > j, t[k].op = "removed"
        PROVE  t[k].m.id # t[j].m.id
    BY <1>2, <1>3, <2>1, <2>3
  <2> QED  BY <2>1, <2>2, <2>3
<1>5. \A k \in DOMAIN t : Kept(t, k) => k \in DOMAIN tape
  BY <1>3
<1> HIDE DEF Kept
<1>6. {i \in DOMAIN t : Kept(t, i)} = {i \in DOMAIN tape : Kept(tape, i) /\ ~Gone(tape[i].m)}
  BY <1>2, <1>4, <1>5
<1>7. {t[i].m : i \in {j \in DOMAIN t : Kept(t, j)}}
        = {x \in {tape[i].m : i \in {j \in DOMAIN tape : Kept(tape, j)}} : ~Gone(x)}
  <2> HIDE DEF Gone
  <2> QED  BY <1>2, <1>6
<1>8. /\ ExportMessages(t) = {t[i].m : i \in {j \in DOMAIN t : Kept(t, j)}}
      /\ ExportMessages(tape) = {tape[i].m : i \in {j \in DOMAIN tape : Kept(tape, j)}}
  BY Zenon DEF ExportMessages, Kept
<1> QED  BY <1>7, <1>8, Zenon DEF t

(* What a reference stands for depends on the lineage alone. *)
LEMMA WalkSame ==
  ASSUME NEW g, NEW h, g.lineage = h.lineage
  PROVE  \A r : Walk(g, r) = Walk(h, r)
BY DEF Walk, Affected, Walked, Replaced

(* A new summary stands for what it replaced, and for what a summary that it replaced stood for. *)
LEMMA WalkGrows ==
  ASSUME NEW h, NEW g, NEW k, NEW A, NEW D,
         g.lineage = At(h.lineage, k, A), DOMAIN h.lineage = D, k \notin D
  PROVE  /\ A \subseteq Walk(g, k)
         /\ \A r \in A : Walk(h, r) \subseteq Walk(g, k)
<1>1. /\ \A x \in D : x \in DOMAIN g.lineage /\ g.lineage[x] = h.lineage[x]
      /\ k \in DOMAIN g.lineage /\ g.lineage[k] = A
      /\ DOMAIN g.lineage = D \cup {k}
  BY DEF At
<1>2. Affected(h) \subseteq Affected(g) /\ A \subseteq Affected(g)
  BY <1>1 DEF Affected
<1>3. Replaced(g, k) = A /\ \A x : Replaced(h, x) \subseteq Replaced(g, x)
  BY <1>1 DEF Replaced
<1>4. \A x : Replaced(h, x) \subseteq Affected(h)
  BY DEF Replaced, Affected
<1>5. A \subseteq Walk(g, k)
  BY <1>2, <1>3 DEF Walk, Walked
<1>6. ASSUME NEW r \in A, NEW x \in Walk(h, r)
      PROVE  x \in Walk(g, k)
  <2>1. x \in Affected(h) /\ \A S \in SUBSET Affected(h) : Walked(h, r, S) => x \in S
    BY <1>6 DEF Walk
  <2>2. ASSUME NEW S \in SUBSET Affected(g), Walked(g, k, S)
        PROVE  x \in S
    <3>1. A \subseteq S /\ \A y \in S : Replaced(g, y) \subseteq S
      BY <2>2, <1>3 DEF Walked
    <3>2. Walked(h, r, S \cap Affected(h))
      BY <3>1, <1>3, <1>4, <1>6 DEF Walked
    <3>3. S \cap Affected(h) \in SUBSET Affected(h)
      OBVIOUS
    <3> QED  BY <2>1, <3>2, <3>3
  <2> QED  BY <2>1, <2>2, <1>2 DEF Walk
<1> QED  BY <1>5, <1>6

LEMMA TranscriptStarts == TranscriptInit => TranscriptInv
<1> SUFFICES ASSUME TranscriptInit
             PROVE  TranscriptInv
  OBVIOUS
<1>1. /\ live = <<>> /\ chatTape = <<>> /\ index = EmptyIndex
      /\ lastId = 0 /\ uid = 0 /\ boots = 0 /\ bootUid = 0 /\ removed = {}
  BY DEF TranscriptInit
<1>2. Said = {} /\ Uids(live) = {} /\ LeftOut = {}
  BY <1>1 DEF Said, Uids, LeftOut
<1>3. ExportMessages(chatTape) = {}
  BY <1>1 DEF ExportMessages
<1>4. index.body = <<>> /\ index.lineage = <<>> /\ DOMAIN index = Fields
  BY <1>1 DEF EmptyIndex, Fields
<1>5. Numbers /\ LiveOk /\ TapeOk
  BY <1>1, <1>2, <1>3 DEF Numbers, LiveOk, TapeOk
<1>6. IndexOk
  BY <1>2, <1>4 DEF IndexOk
<1>7. StandsFor
  BY <1>1, <1>2 DEF StandsFor
<1> QED  BY <1>1, <1>5, <1>6, <1>7 DEF TranscriptInv

(* What appending a message to the index changes. *)
LEMMA IndexAppends ==
  ASSUME NEW h, DOMAIN h = Fields, NEW m
  PROVE  /\ DOMAIN IndexAppend(h, m) = Fields
         /\ IndexAppend(h, m).body = At(h.body, m.id, m.uid)
         /\ IndexAppend(h, m).lineage = h.lineage
         /\ IndexAppend(h, m).compacted = h.compacted
         /\ IndexAppend(h, m).latest = h.latest
BY DEF Fields, IndexAppend

LEMMA IndexCompacts ==
  ASSUME NEW h, DOMAIN h = Fields, NEW k, NEW A
  PROVE  /\ DOMAIN IndexCompact(h, k, A) = Fields
         /\ IndexCompact(h, k, A).body = h.body
         /\ IndexCompact(h, k, A).lineage = At(h.lineage, k, A)
         /\ IndexCompact(h, k, A).compacted = h.compacted \cup A
BY DEF Fields, IndexCompact

LEMMA IndexRemoves ==
  ASSUME NEW h, DOMAIN h = Fields, NEW X \in SUBSET DOMAIN h.body
  PROVE  /\ DOMAIN IndexRemove(h, X) = Fields
         /\ IndexRemove(h, X).body = [y \in DOMAIN h.body \ X |-> h.body[y]]
         /\ IndexRemove(h, X).lineage = [y \in DOMAIN h.lineage \ X |-> h.lineage[y]]
         /\ IndexRemove(h, X).compacted = h.compacted \ X
<1>1. X \cap DOMAIN h.body = X
  OBVIOUS
<1> QED  BY <1>1 DEF Fields, IndexRemove

(* The numbers said after one more. *)
LEMMA SaidMore ==
  ASSUME Numbers, Counts, bootUid' = bootUid, removed' = removed
  PROVE  /\ Numbers' /\ uid' = uid + 1
         /\ uid + 1 \notin Said /\ uid + 1 \notin removed
         /\ Said' = Said \cup {uid + 1}
         /\ Said' \ removed' = (Said \ removed) \cup {uid + 1}
         /\ NewMessage \in Msgs /\ NewMessage.uid = uid + 1 /\ NewMessage.id = uid + 1
<1>1. uid \in Nat /\ lastId = uid /\ bootUid \in Nat /\ bootUid <= uid /\ removed \subseteq 1..uid
  BY DEF Numbers
<1>2. uid' = uid + 1 /\ lastId' = lastId + 1 /\ removed' = removed
  BY DEF Counts
<1>3. Numbers'
  BY <1>1, <1>2 DEF Numbers
<1>4. Said = (bootUid + 1)..uid /\ Said' = (bootUid + 1)..(uid + 1)
  BY <1>2 DEF Said
<1>5. Said' = Said \cup {uid + 1} /\ uid + 1 \notin Said
  BY <1>1, <1>4
<1>6. uid + 1 \notin removed
  BY <1>1
<1>7. NewMessage = [uid |-> uid + 1, id |-> uid + 1]
  BY <1>1 DEF NewMessage
<1>8. NewMessage \in Msgs /\ NewMessage.uid = uid + 1 /\ NewMessage.id = uid + 1
  BY <1>1, <1>7 DEF Msgs
<1> QED  BY <1>2, <1>3, <1>5, <1>6, <1>8

(* The index after a message was appended to it and to the tape. *)
LEMMA BodyGrows ==
  ASSUME NEW b, NEW D \in SUBSET Nat, b \in [D -> Nat], \A x \in D : b[x] = x, NEW n \in Nat
  PROVE  /\ At(b, n, n) \in [D \cup {n} -> Nat]
         /\ \A x \in D \cup {n} : At(b, n, n)[x] = x
BY DEF At

LEMMA TapeGrows ==
  ASSUME Numbers, TapeOk, Counts, bootUid' = bootUid, removed' = removed, Publishes("appended", NewMessage)
  PROVE  TapeOk'
<1>1. /\ Said' \ removed' = (Said \ removed) \cup {uid + 1}
      /\ NewMessage \in Msgs /\ NewMessage.uid = uid + 1
  BY SaidMore
<1>2. chatTape' = Append(chatTape, [op |-> "appended", m |-> NewMessage])
  BY DEF Publishes
<1>3. chatTape \in Seq(Entries) /\ {m.uid : m \in ExportMessages(chatTape)} = Said \ removed
  BY DEF TapeOk
<1>4. [op |-> "appended", m |-> NewMessage] \in Entries
  BY <1>1 DEF Entries
<1>5. chatTape' \in Seq(Entries)
  BY <1>2, <1>3, <1>4
<1>6. ExportMessages(chatTape') = ExportMessages(chatTape) \cup {NewMessage}
  BY <1>1, <1>2, <1>3, ExportAppended
<1>7. {m.uid : m \in ExportMessages(chatTape')} = (Said \ removed) \cup {uid + 1}
  BY <1>1, <1>3, <1>6
<1> QED  BY <1>1, <1>5, <1>7 DEF TapeOk

LEMMA SayKeeps ==
  ASSUME Numbers, LiveOk, TapeOk, IndexOk, StandsFor, Say
  PROVE  Numbers' /\ LiveOk' /\ TapeOk' /\ IndexOk' /\ StandsFor'
<1> DEFINE m == NewMessage
           n == Len(live) + 1
<1>1. /\ Counts /\ live' = Append(live, m) /\ Publishes("appended", m) /\ index' = IndexAppend(index, m)
      /\ bootUid' = bootUid /\ removed' = removed /\ orphaned' = orphaned
  BY DEF Say
<1>2. /\ Numbers' /\ uid + 1 \notin Said /\ uid + 1 \notin removed
      /\ Said' = Said \cup {uid + 1} /\ Said' \ removed' = (Said \ removed) \cup {uid + 1}
      /\ m \in Msgs /\ m.uid = uid + 1 /\ m.id = uid + 1
  BY <1>1, SaidMore
<1>3. TapeOk'
  BY <1>1, TapeGrows
<1> HIDE DEF m
<1>4. /\ live \in Seq(Msgs)
      /\ \A i \in DOMAIN live : live[i].uid \in Said \ removed
      /\ \A i, j \in DOMAIN live : i # j => live[i].uid # live[j].uid
  BY DEF LiveOk
<1>5. /\ live' \in Seq(Msgs) /\ DOMAIN live' = DOMAIN live \cup {n} /\ n \notin DOMAIN live
      /\ live'[n] = m /\ Len(live') = n /\ n \in Nat
      /\ \A i \in DOMAIN live : live'[i] = live[i]
  BY <1>1, <1>2, <1>4
<1> HIDE DEF n
<1>6. LiveOk'
  <2>1. \A i \in DOMAIN live' : live'[i].uid \in (Said \ removed) \cup {uid + 1}
    BY <1>2, <1>4, <1>5
  <2>2. \A i \in DOMAIN live : live[i].uid # uid + 1
    BY <1>2, <1>4
  <2>3. \A i, j \in DOMAIN live' : i # j => live'[i].uid # live'[j].uid
    BY <1>2, <1>4, <1>5, <2>2
  <2> QED  BY <1>2, <1>5, <2>1, <2>3 DEF LiveOk
<1>7. Uids(live') = Uids(live) \cup {uid + 1}
  BY <1>2, <1>5 DEF Uids
<1>8. LeftOut' = LeftOut
  <2>1. LeftOut = Said \ (removed \cup Uids(live)) /\ LeftOut' = Said' \ (removed' \cup Uids(live'))
    BY Zenon DEF LeftOut, Said
  <2> QED  BY <1>1, <1>2, <1>7, <2>1
<1>9. /\ DOMAIN index' = Fields /\ index'.body = At(index.body, uid + 1, uid + 1)
      /\ index'.lineage = index.lineage /\ index'.compacted = index.compacted
  <2>1. DOMAIN index = Fields
    BY DEF IndexOk
  <2>2. /\ DOMAIN index' = Fields /\ index'.body = At(index.body, m.id, m.uid)
        /\ index'.lineage = index.lineage /\ index'.compacted = index.compacted
    BY <1>1, <2>1, IndexAppends, Zenon
  <2> QED  BY <1>2, <2>2, Zenon
<1>10. IndexOk'
  <2>1. Said \ removed \in SUBSET Nat /\ uid + 1 \in Nat
    BY DEF Numbers, Said
  <2>2. index'.body \in [Said' \ removed' -> Nat] /\ \A x \in Said' \ removed' : index'.body[x] = x
    <3>1. index.body \in [Said \ removed -> Nat] /\ \A x \in Said \ removed : index.body[x] = x
      BY DEF IndexOk
    <3>2. PICK b, D, k : b = index.body /\ D = Said \ removed /\ k = uid + 1
      OBVIOUS
    <3>3. D \in SUBSET Nat /\ k \in Nat /\ b \in [D -> Nat] /\ \A x \in D : b[x] = x
      BY <2>1, <3>1, <3>2
    <3>4. At(b, k, k) \in [D \cup {k} -> Nat] /\ \A x \in D \cup {k} : At(b, k, k)[x] = x
      BY <3>3, BodyGrows
    <3> QED  BY <1>2, <1>9, <3>2, <3>4, Zenon
  <2>3. /\ DOMAIN index'.lineage \subseteq Said' \ removed'
        /\ index'.lineage \in [DOMAIN index'.lineage -> SUBSET Said']
        /\ LeftOut' \subseteq index'.compacted
    BY <1>2, <1>8, <1>9 DEF IndexOk
  <2> QED  BY <1>9, <2>2, <2>3 DEF IndexOk
<1>11. StandsFor'
  <2>1. uid + 1 \notin DOMAIN index.lineage
    BY <1>2 DEF IndexOk
  <2>2. \A i \in DOMAIN live' : live'[i].id \in DOMAIN index'.lineage => i = 2
    BY <1>2, <1>5, <1>9, <2>1 DEF StandsFor
  <2>3. ASSUME LeftOut' \ orphaned' # {}
        PROVE  /\ Len(live') >= 2 /\ live'[2].id \in DOMAIN index'.lineage
               /\ LeftOut' \ orphaned' \subseteq Walk(index', live'[2].id)
    <3>1. /\ Len(live) >= 2 /\ live[2].id \in DOMAIN index.lineage
          /\ LeftOut \ orphaned \subseteq Walk(index, live[2].id)
      BY <1>1, <1>8, <2>3 DEF StandsFor
    <3>2. Len(live') >= 2 /\ live'[2] = live[2]
      BY <1>4, <1>5, <3>1 DEF n
    <3>3. Walk(index', live[2].id) = Walk(index, live[2].id)
      BY <1>9, WalkSame
    <3> QED  BY <1>1, <1>8, <1>9, <3>1, <3>2, <3>3
  <2> QED  BY <2>2, <2>3 DEF StandsFor
<1> QED  BY <1>2, <1>3, <1>6, <1>10, <1>11

LEMMA ElideKeeps ==
  ASSUME Numbers, LiveOk, TapeOk, IndexOk, StandsFor, ElideMessage
  PROVE  Numbers' /\ LiveOk' /\ TapeOk' /\ IndexOk' /\ StandsFor'
<1>1. PICK i \in DOMAIN live :
        /\ index' = [index EXCEPT !.elided = @ \cup {live[i].id}]
        /\ live' = live /\ chatTape' = chatTape /\ lastId' = lastId /\ uid' = uid
        /\ bootUid' = bootUid /\ removed' = removed /\ orphaned' = orphaned
  BY DEF ElideMessage
<1>2. /\ DOMAIN index' = Fields /\ index'.body = index.body
      /\ index'.lineage = index.lineage /\ index'.compacted = index.compacted
  BY <1>1 DEF IndexOk, Fields
<1>3. Said' = Said /\ LeftOut' = LeftOut
  BY <1>1 DEF Said, LeftOut
<1>4. Numbers' /\ LiveOk' /\ TapeOk'
  BY <1>1, <1>3 DEF Numbers, LiveOk, TapeOk
<1>5. IndexOk'
  BY <1>1, <1>2, <1>3 DEF IndexOk
<1>6. \A r : Walk(index', r) = Walk(index, r)
  BY <1>2, WalkSame
<1>7. StandsFor'
  BY <1>1, <1>2, <1>3, <1>6 DEF StandsFor
<1> QED  BY <1>4, <1>5, <1>7

LEMMA ResetKeeps ==
  ASSUME Numbers, ResetChat
  PROVE  Numbers' /\ LiveOk' /\ TapeOk' /\ IndexOk' /\ StandsFor'
<1>1. /\ live' = <<>> /\ chatTape' = <<>> /\ index' = EmptyIndex /\ bootUid' = uid
      /\ lastId' = lastId /\ uid' = uid /\ removed' = removed
  BY DEF ResetChat
<1>2. Numbers' /\ Said' = {}
  BY <1>1 DEF Numbers, Said
<1>3. LeftOut' = {}
  BY <1>2 DEF LeftOut, Said
<1>4. ExportMessages(chatTape') = {}
  BY <1>1 DEF ExportMessages
<1>5. index'.body = <<>> /\ index'.lineage = <<>> /\ DOMAIN index' = Fields
  BY <1>1 DEF EmptyIndex, Fields
<1>6. LiveOk' /\ TapeOk'
  BY <1>1, <1>2, <1>4 DEF LiveOk, TapeOk
<1>7. IndexOk'
  BY <1>2, <1>3, <1>5 DEF IndexOk
<1>8. StandsFor'
  BY <1>1, <1>3 DEF StandsFor
<1> QED  BY <1>2, <1>6, <1>7, <1>8

LEMMA SummarizeKeeps ==
  ASSUME Numbers, LiveOk, TapeOk, IndexOk, StandsFor, SummarizeChat
  PROVE  Numbers' /\ LiveOk' /\ TapeOk' /\ IndexOk' /\ StandsFor'
<1> DEFINE m == NewMessage
           k == uid + 1
           L == Len(live)
           c == L - KeepTail
           middle == SubSeq(live, 2, c)
           end == SubSeq(live, c + 1, L)
<1>1. /\ Counts /\ L > KeepTail + 1
      /\ live' = <<live[1], m>> \o end /\ Publishes("appended", m)
      /\ index' = IndexCompact(IndexAppend(index, m), m.id, Ids(middle))
      /\ bootUid' = bootUid /\ removed' = removed /\ orphaned' = orphaned
  BY DEF SummarizeChat
<1>2. /\ Numbers' /\ k \notin Said /\ k \notin removed
      /\ Said' = Said \cup {k} /\ Said' \ removed' = (Said \ removed) \cup {k}
      /\ m \in Msgs /\ m.uid = k /\ m.id = k
  BY <1>1, SaidMore
<1>3. TapeOk'
  BY <1>1, TapeGrows
<1> HIDE DEF m, k
<1>4. /\ live \in Seq(Msgs)
      /\ \A i \in DOMAIN live : live[i].uid \in Said \ removed
      /\ \A i, j \in DOMAIN live : i # j => live[i].uid # live[j].uid
  BY DEF LiveOk
<1>5. \A i \in DOMAIN live : live[i] \in Msgs /\ live[i].id = live[i].uid
  BY <1>4 DEF Msgs
<1>6. KeepTail \in Nat /\ L \in Nat /\ c \in 2..L /\ L = c + KeepTail /\ DOMAIN live = 1..L
  BY <1>1, <1>4, TranscriptConstants
<1>7. /\ middle \in Seq(Msgs) /\ Len(middle) = c - 1
      /\ \A i \in 1..(c - 1) : middle[i] = live[i + 1]
  BY <1>4, <1>6
<1>8. /\ end \in Seq(Msgs) /\ Len(end) = KeepTail
      /\ \A i \in 1..KeepTail : end[i] = live[c + i]
  BY <1>4, <1>6
<1> HIDE DEF middle, end
<1>9. /\ live' \in Seq(Msgs) /\ Len(live') = KeepTail + 2 /\ DOMAIN live' = 1..(KeepTail + 2)
      /\ live'[1] = live[1] /\ live'[2] = m
      /\ \A i \in 3..(KeepTail + 2) : live'[i] = live[c + (i - 2)]
  <2>1. live[1] \in Msgs /\ m \in Msgs
    BY <1>2, <1>5, <1>6
  <2>2. <<live[1], m>> \in Seq(Msgs) /\ Len(<<live[1], m>>) = 2
    BY <2>1
  <2>3. live' \in Seq(Msgs) /\ Len(live') = KeepTail + 2 /\ DOMAIN live' = 1..(KeepTail + 2)
    BY <1>1, <1>6, <1>8, <2>2
  <2>4. live'[1] = live[1] /\ live'[2] = m
    BY <1>1, <1>6, <1>8, <2>1, <2>2
  <2>5. ASSUME NEW i \in 3..(KeepTail + 2)
        PROVE  live'[i] = live[c + (i - 2)]
    <3>1. i - 2 \in 1..KeepTail
      BY <1>6
    <3>2. live'[i] = end[i - 2]
      BY <1>1, <1>6, <1>8, <2>2, <3>1
    <3> QED  BY <1>8, <3>1, <3>2
  <2> QED  BY <2>3, <2>4, <2>5
<1> DEFINE src(i) == IF i = 1 THEN 1 ELSE c + (i - 2)
<1>10. \A i \in DOMAIN live' : i # 2 => src(i) \in 1..L /\ live'[i] = live[src(i)] /\ (i > 2 => src(i) > 2)
  <2>1. ASSUME NEW i \in DOMAIN live', i # 2
        PROVE  src(i) \in 1..L /\ live'[i] = live[src(i)] /\ (i > 2 => src(i) > 2)
    <3>1. CASE i = 1
      BY <1>6, <1>9, <3>1
    <3>2. CASE i # 1
      <4>1. i \in 3..(KeepTail + 2)
        <5>1. i \in 1..(KeepTail + 2) /\ i # 1 /\ i # 2
          BY <1>9, <2>1, <3>2
        <5> QED  BY <5>1
      <4>2. src(i) = c + (i - 2) /\ live'[i] = live[c + (i - 2)]
        BY <1>9, <3>2, <4>1
      <4>3. c + (i - 2) \in 1..L /\ c + (i - 2) > 2
        <5> HIDE DEF c, L
        <5> QED  BY <1>6, <4>1
      <4> QED  BY <4>2, <4>3
    <3> QED  BY <3>1, <3>2
  <2> QED  BY <2>1
<1>11. \A i, j \in DOMAIN live' : i # 2 /\ j # 2 /\ i # j => src(i) # src(j)
  BY <1>6, <1>9
<1> HIDE DEF src, c, L
<1>12. LiveOk'
  <2>1. \A i \in DOMAIN live' : live'[i].uid \in Said' \ removed'
    BY <1>2, <1>4, <1>6, <1>9, <1>10
  <2>2. \A i \in 1..L : live[i].uid # k
    BY <1>2, <1>4, <1>6
  <2>3. ASSUME NEW i \in DOMAIN live', NEW j \in DOMAIN live', i # j
        PROVE  live'[i].uid # live'[j].uid
    <3>1. CASE i = 2
      BY <1>2, <1>9, <1>10, <2>2, <2>3, <3>1
    <3>2. CASE j = 2
      BY <1>2, <1>9, <1>10, <2>2, <2>3, <3>2
    <3>3. CASE i # 2 /\ j # 2
      BY <1>4, <1>6, <1>10, <1>11, <2>3, <3>3
    <3> QED  BY <3>1, <3>2, <3>3
  <2> QED  BY <1>9, <2>1, <2>3 DEF LiveOk
<1>13. LeftOut' \subseteq LeftOut \cup Ids(middle)
  <2>1. LeftOut = Said \ (removed \cup Uids(live)) /\ LeftOut' = Said' \ (removed' \cup Uids(live'))
    BY Zenon DEF LeftOut, Said
  <2>2. k \in Uids(live')
    BY <1>2, <1>6, <1>9 DEF Uids
  <2>3. ASSUME NEW i \in DOMAIN live, live[i].uid \notin Uids(live')
        PROVE  live[i].uid \in Ids(middle)
    <3>1. \A j \in DOMAIN live' : live'[j].uid \in Uids(live')
      BY DEF Uids
    <3>2. i # 1
      BY <1>6, <1>9, <2>3, <3>1
    <3>3. ASSUME i > c
          PROVE  FALSE
      <4>1. i - c \in 1..KeepTail /\ i \in Nat /\ c \in Nat
        BY <1>6, <3>3
      <4>2. (i - c) + 2 \in 3..(KeepTail + 2) /\ c + (((i - c) + 2) - 2) = i
        BY <1>6, <4>1
      <4>3. live'[(i - c) + 2] = live[i] /\ (i - c) + 2 \in DOMAIN live'
        BY <1>6, <1>9, <4>2
      <4> QED  BY <2>3, <3>1, <4>3
    <3>4. i - 1 \in 1..(c - 1) /\ (i - 1) + 1 = i
      BY <1>6, <3>2, <3>3
    <3>5. middle[i - 1] = live[i] /\ i - 1 \in DOMAIN middle
      BY <1>7, <3>4
    <3> QED  BY <1>5, <3>5 DEF Ids
  <2>4. ASSUME NEW x \in LeftOut'
        PROVE  x \in LeftOut \cup Ids(middle)
    <3>1. x \in Said \cup {k} /\ x \notin removed /\ x \notin Uids(live')
      BY <1>1, <1>2, <2>1
    <3>2. x \in Said
      BY <2>2, <3>1
    <3>3. CASE x \in Uids(live)
      <4>1. PICK i \in DOMAIN live : live[i].uid = x
        BY <3>3 DEF Uids
      <4> QED  BY <2>3, <3>1, <4>1
    <3> QED  BY <2>1, <3>1, <3>2, <3>3
  <2> QED  BY <2>4
<1>14. Ids(middle) \subseteq Said \ removed /\ live[2].id \in Ids(middle)
  <2>1. \A i \in DOMAIN middle : i + 1 \in DOMAIN live /\ middle[i] = live[i + 1]
    BY <1>6, <1>7
  <2>2. 1 \in DOMAIN middle /\ middle[1] = live[2]
    BY <1>6, <1>7
  <2> QED  BY <1>4, <1>5, <2>1, <2>2 DEF Ids
<1> DEFINE A == Ids(middle)
<1> HIDE DEF A
<1>15. /\ DOMAIN index' = Fields /\ index'.body = At(index.body, k, k)
       /\ index'.lineage = At(index.lineage, k, A) /\ index'.compacted = index.compacted \cup A
  <2>1. DOMAIN index = Fields
    BY DEF IndexOk
  <2>2. PICK h : h = IndexAppend(index, m)
    OBVIOUS
  <2>3. /\ DOMAIN h = Fields /\ h.body = At(index.body, m.id, m.uid)
        /\ h.lineage = index.lineage /\ h.compacted = index.compacted
    BY <2>1, <2>2, IndexAppends, Zenon
  <2>4. index' = IndexCompact(h, m.id, A)
    BY <1>1, <2>2, Zenon DEF A
  <2>5. /\ DOMAIN index' = Fields /\ index'.body = h.body
        /\ index'.lineage = At(h.lineage, m.id, A) /\ index'.compacted = h.compacted \cup A
    <3>1. PICK g, id : g = IndexCompact(h, id, A) /\ id = m.id
      OBVIOUS
    <3>2. /\ DOMAIN g = Fields /\ g.body = h.body
          /\ g.lineage = At(h.lineage, id, A) /\ g.compacted = h.compacted \cup A
      BY <2>3, <3>1, IndexCompacts
    <3> QED  BY <2>4, <3>1, <3>2, Zenon
  <2> QED  BY <1>2, <2>3, <2>5, Zenon
<1>16. k \notin DOMAIN index.lineage /\ k \in Nat
  BY <1>2 DEF IndexOk, Numbers, k
<1>17. IndexOk'
  <2>1. index'.body \in [Said' \ removed' -> Nat] /\ \A x \in Said' \ removed' : index'.body[x] = x
    <3>1. Said \ removed \in SUBSET Nat
      BY DEF Numbers, Said
    <3>2. index.body \in [Said \ removed -> Nat] /\ \A x \in Said \ removed : index.body[x] = x
      BY DEF IndexOk
    <3>3. PICK b, D : b = index.body /\ D = Said \ removed
      OBVIOUS
    <3>4. D \in SUBSET Nat /\ b \in [D -> Nat] /\ \A x \in D : b[x] = x
      BY <3>1, <3>2, <3>3
    <3>5. At(b, k, k) \in [D \cup {k} -> Nat] /\ \A x \in D \cup {k} : At(b, k, k)[x] = x
      BY <1>16, <3>4, BodyGrows
    <3> QED  BY <1>2, <1>15, <3>3, <3>5, Zenon
  <2>2. /\ DOMAIN index'.lineage \subseteq Said' \ removed'
        /\ index'.lineage \in [DOMAIN index'.lineage -> SUBSET Said']
    <3>1. /\ DOMAIN index.lineage \subseteq Said \ removed
          /\ index.lineage \in [DOMAIN index.lineage -> SUBSET Said]
      BY DEF IndexOk
    <3>2. DOMAIN index'.lineage = DOMAIN index.lineage \cup {k}
      BY <1>15 DEF At
    <3>3. \A x \in DOMAIN index'.lineage : index'.lineage[x] = A \/ index'.lineage[x] \in SUBSET Said
      BY <1>15, <3>1 DEF At
    <3>4. A \in SUBSET Said
      BY <1>14 DEF A
    <3>5. \A x \in DOMAIN index'.lineage : index'.lineage[x] \in SUBSET Said'
      BY <1>2, <3>3, <3>4
    <3>6. index'.lineage = [x \in DOMAIN index'.lineage |-> index'.lineage[x]]
      BY <1>15 DEF At
    <3> QED  BY <1>2, <3>1, <3>2, <3>5, <3>6
  <2>3. LeftOut' \subseteq index'.compacted
    BY <1>13, <1>15 DEF IndexOk, A
  <2> QED  BY <1>15, <2>1, <2>2, <2>3 DEF IndexOk
<1>18. StandsFor'
  <2>1. ASSUME NEW i \in DOMAIN live', live'[i].id \in DOMAIN index'.lineage
        PROVE  i = 2
    <3>1. DOMAIN index'.lineage = DOMAIN index.lineage \cup {k}
      BY <1>15 DEF At
    <3>2. SUFFICES ASSUME i # 2
                   PROVE  FALSE
      OBVIOUS
    <3>3. src(i) \in DOMAIN live /\ live'[i] = live[src(i)]
      BY <1>6, <1>10, <3>2
    <3>4. live[src(i)].id # k
      BY <1>2, <1>4, <1>5, <3>3
    <3>5. i > 2 \/ src(i) = 1
      <4>1. i \in 1..(KeepTail + 2)
        BY <1>9
      <4> QED  BY <3>2, <4>1 DEF src
    <3>6. src(i) = 2
      BY <2>1, <3>1, <3>3, <3>4 DEF StandsFor
    <3> QED  BY <1>10, <3>2, <3>5, <3>6
  <2>2. /\ A \subseteq Walk(index', k)
        /\ \A r \in A : Walk(index, r) \subseteq Walk(index', k)
    <3>1. PICK h, g : h = index /\ g = index'
      OBVIOUS
    <3>2. g.lineage = At(h.lineage, k, A) /\ k \notin DOMAIN h.lineage
      BY <1>15, <1>16, <3>1
    <3>3. A \subseteq Walk(g, k) /\ \A r \in A : Walk(h, r) \subseteq Walk(g, k)
      BY <3>2, WalkGrows
    <3> QED  BY <3>1, <3>3, Zenon
  <2>3. LeftOut \ orphaned \subseteq Walk(index', k)
    BY <1>14, <2>2 DEF StandsFor, A
  <2>4. LeftOut' \ orphaned' \subseteq Walk(index', k)
    BY <1>1, <1>13, <2>2, <2>3 DEF A
  <2>5. Len(live') >= 2 /\ live'[2].id = k /\ k \in DOMAIN index'.lineage
    BY <1>2, <1>6, <1>9, <1>15 DEF At
  <2> QED  BY <2>1, <2>4, <2>5 DEF StandsFor
<1> QED  BY <1>2, <1>3, <1>12, <1>17, <1>18

LEMMA DropKeeps ==
  ASSUME Numbers, LiveOk, TapeOk, IndexOk, StandsFor, DropLatest
  PROVE  Numbers' /\ LiveOk' /\ TapeOk' /\ IndexOk' /\ StandsFor'
<1> DEFINE L == Len(live)
           m == live[L]
<1>1. /\ live # <<>> /\ live' = SubSeq(live, 1, L - 1) /\ Publishes("removed", m)
      /\ index' = IndexRemove(index, {m.id})
      /\ removed' = removed \cup {m.uid} /\ orphaned' = orphaned \cup Manifest(index, m.id)
      /\ lastId' = lastId /\ uid' = uid /\ bootUid' = bootUid
  BY DEF DropLatest
<1>2. /\ live \in Seq(Msgs)
      /\ \A i \in DOMAIN live : live[i].uid \in Said \ removed
      /\ \A i, j \in DOMAIN live : i # j => live[i].uid # live[j].uid
  BY DEF LiveOk
<1>3. L \in Nat \ {0} /\ DOMAIN live = 1..L /\ L \in DOMAIN live
  BY <1>1, <1>2
<1>4. \A i \in DOMAIN live : live[i] \in Msgs /\ live[i].id = live[i].uid
  BY <1>2 DEF Msgs
<1>5. m \in Msgs /\ m.id = m.uid /\ m.uid \in Said \ removed
  BY <1>2, <1>3, <1>4
<1>6. /\ live' \in Seq(Msgs) /\ Len(live') = L - 1 /\ DOMAIN live' = 1..(L - 1)
      /\ \A i \in 1..(L - 1) : live'[i] = live[i] /\ i \in DOMAIN live /\ i # L
  <2>1. live' = SubSeq(live, 1, L - 1) /\ L = Len(live)
    BY <1>1
  <2> HIDE DEF L
  <2>2. L - 1 \in Nat /\ L - 1 <= L
    BY <1>3
  <2>3. live' \in Seq(Msgs)
    BY <1>2, <2>1, <1>3
  <2>4. Len(live') = L - 1
    BY <1>2, <1>3, <2>1, <2>2
  <2>5. \A i \in 1..(L - 1) : live'[i] = live[i]
    BY <1>2, <1>3, <2>1, <2>2
  <2> QED  BY <1>3, <2>2, <2>3, <2>4, <2>5
<1> HIDE DEF m, L
<1>7. Said' = Said /\ Said' \ removed' = (Said \ removed) \ {m.uid}
  BY <1>1 DEF Said
<1>8. Numbers'
  <2>1. uid \in Nat /\ bootUid \in Nat /\ Said \subseteq 1..uid
    BY DEF Numbers, Said
  <2> QED  BY <1>1, <1>5, <2>1 DEF Numbers
<1>9. LiveOk'
  <2>1. \A i \in DOMAIN live' : live'[i].uid \in (Said \ removed) \ {m.uid}
    BY <1>2, <1>3, <1>6 DEF m
  <2>2. \A i, j \in DOMAIN live' : i # j => live'[i].uid # live'[j].uid
    BY <1>2, <1>6
  <2> QED  BY <1>6, <1>7, <2>1, <2>2 DEF LiveOk
<1>10. TapeOk'
  <2>1. chatTape \in Seq(Entries) /\ {x.uid : x \in ExportMessages(chatTape)} = Said \ removed
    BY DEF TapeOk
  <2>2. chatTape' = Append(chatTape, [op |-> "removed", m |-> m]) /\ [op |-> "removed", m |-> m] \in Entries
    BY <1>1, <1>5 DEF Publishes, Entries
  <2>3. chatTape' \in Seq(Entries)
    BY <2>1, <2>2
  <2>4. ExportMessages(chatTape') = {x \in ExportMessages(chatTape) : x.id # m.id}
    BY <1>5, <2>1, <2>2, ExportRemoved
  <2>5. \A x \in ExportMessages(chatTape) : x.id = x.uid
    <3>1. \A i \in DOMAIN chatTape : chatTape[i].m \in Msgs
      <4>1. \A e \in Entries : e.m \in Msgs
        BY DEF Entries
      <4>2. \A i \in DOMAIN chatTape : chatTape[i] \in Entries
        BY <2>1
      <4> QED  BY <4>1, <4>2
    <3>2. ExportMessages(chatTape) \subseteq Msgs
      BY <3>1 DEF ExportMessages
    <3> QED  BY <3>2 DEF Msgs
  <2>6. {x.uid : x \in ExportMessages(chatTape')} = (Said \ removed) \ {m.uid}
    BY <1>5, <2>1, <2>4, <2>5
  <2> QED  BY <1>7, <2>3, <2>6 DEF TapeOk
<1>11. /\ DOMAIN index' = Fields
       /\ index'.body = [y \in (Said \ removed) \ {m.id} |-> index.body[y]]
       /\ index'.lineage = [y \in DOMAIN index.lineage \ {m.id} |-> index.lineage[y]]
       /\ index'.compacted = index.compacted \ {m.id}
  <2>1. DOMAIN index = Fields /\ DOMAIN index.body = Said \ removed /\ m.id \in DOMAIN index.body
    BY <1>5 DEF IndexOk
  <2> DEFINE X == {m.id}
  <2>2. X \in SUBSET DOMAIN index.body
    BY <2>1
  <2> HIDE DEF X
  <2>3. /\ DOMAIN IndexRemove(index, X) = Fields
        /\ IndexRemove(index, X).body = [y \in DOMAIN index.body \ X |-> index.body[y]]
        /\ IndexRemove(index, X).lineage = [y \in DOMAIN index.lineage \ X |-> index.lineage[y]]
        /\ IndexRemove(index, X).compacted = index.compacted \ X
    BY <2>1, <2>2, IndexRemoves
  <2> QED  BY <1>1, <2>1, <2>3, Zenon DEF X
<1>12. LeftOut = Said \ (removed \cup Uids(live)) /\ LeftOut' = Said' \ (removed' \cup Uids(live'))
  BY Zenon DEF LeftOut, Said
<1>13. LeftOut' = LeftOut
  <2>1. Uids(live) = Uids(live') \cup {m.uid}
    <3>1. \A i \in DOMAIN live : i = L \/ i \in 1..(L - 1)
      BY <1>3
    <3>2. \A x \in Uids(live) : x \in Uids(live') \cup {m.uid}
      BY <1>6, <3>1 DEF Uids, m
    <3>3. \A x \in Uids(live') \cup {m.uid} : x \in Uids(live)
      BY <1>3, <1>6 DEF Uids, m
    <3> QED  BY <3>2, <3>3
  <2> QED  BY <1>1, <1>7, <1>12, <2>1
<1>14. m.id \notin LeftOut
  BY <1>3, <1>5, <1>12 DEF Uids, m
<1>15. IndexOk'
  <2>1. index'.body \in [Said' \ removed' -> Nat] /\ \A x \in Said' \ removed' : index'.body[x] = x
    BY <1>5, <1>7, <1>11 DEF IndexOk
  <2>2. DOMAIN index'.lineage \subseteq Said' \ removed'
    BY <1>5, <1>7, <1>11 DEF IndexOk
  <2>3. index'.lineage \in [DOMAIN index'.lineage -> SUBSET Said']
    BY <1>7, <1>11 DEF IndexOk
  <2>4. LeftOut' \subseteq index'.compacted
    BY <1>11, <1>13, <1>14 DEF IndexOk
  <2> QED  BY <1>11, <2>1, <2>2, <2>3, <2>4 DEF IndexOk
<1>16. StandsFor'
  <2>1. DOMAIN index'.lineage = DOMAIN index.lineage \ {m.id}
    BY <1>11
  <2>2. \A i \in DOMAIN live' : live'[i].id \in DOMAIN index'.lineage => i = 2
    BY <1>6, <2>1 DEF StandsFor
  <2>3. ASSUME LeftOut' \ orphaned' # {}
        PROVE  /\ Len(live') >= 2 /\ live'[2].id \in DOMAIN index'.lineage
               /\ LeftOut' \ orphaned' \subseteq Walk(index', live'[2].id)
    <3>1. LeftOut' \ orphaned' = (LeftOut \ orphaned) \ Manifest(index, m.id)
      BY <1>1, <1>13
    <3>2. /\ L >= 2 /\ live[2].id \in DOMAIN index.lineage
          /\ LeftOut \ orphaned \subseteq Walk(index, live[2].id)
      BY <2>3, <3>1 DEF StandsFor, L
    <3>3. L # 2
      <4>1. SUFFICES ASSUME L = 2
                     PROVE  FALSE
        OBVIOUS
      <4>2. LeftOut \ orphaned \subseteq Walk(index, m.id) /\ m.id # 0
        <5>1. m.id \in Said
          BY <1>5
        <5> QED  BY <3>2, <4>1, <5>1 DEF m, Said, Numbers
      <4>3. LeftOut \subseteq DOMAIN index.body /\ \A x \in LeftOut : index.body[x] = x
        BY <1>12 DEF IndexOk
      <4>4. Manifest(index, m.id) = {index.body[x] : x \in Walk(index, m.id) \cap DOMAIN index.body}
        BY <4>2 DEF Manifest
      <4>5. LeftOut \ orphaned \subseteq Manifest(index, m.id)
        BY <4>2, <4>3, <4>4
      <4> QED  BY <2>3, <3>1, <4>5
    <3>4. L > 2 /\ 2 \in 1..(L - 1)
      BY <1>3, <3>2, <3>3
    <3>5. live'[2] = live[2] /\ Len(live') >= 2
      BY <1>3, <1>6, <3>4
    <3>6. m.id \notin DOMAIN index.lineage
      BY <1>3, <3>3 DEF StandsFor, m
    <3>7. index'.lineage = index.lineage
      BY <1>11, <3>6 DEF IndexOk
    <3>8. Walk(index', live[2].id) = Walk(index, live[2].id)
      BY <3>7, WalkSame
    <3> QED  BY <3>1, <3>2, <3>5, <3>7, <3>8
  <2> QED  BY <2>2, <2>3 DEF StandsFor
<1> QED  BY <1>8, <1>9, <1>10, <1>15, <1>16

(* The messages at some positions, in their order; the first two keep their places. *)
Lists(f, K) ==
  /\ Cardinality(K) \in Nat /\ f \in [1..Cardinality(K) -> K] /\ DOMAIN f = 1..Cardinality(K)
  /\ \A i, j \in DOMAIN f : i # j => f[i] # f[j]
  /\ \A x \in K : \E i \in DOMAIN f : f[i] = x
  /\ 1 \in K /\ 2 \in K => Cardinality(K) >= 2 /\ f[2] = 2

LEMMA InOrderLists ==
  ASSUME NEW n \in Nat, NEW K \in SUBSET (1..n), NEW f \in InOrder(K)
  PROVE  Lists(f, K)
<1>1. Cardinality(K) \in Nat
  <2>1. IsFiniteSet(1..n)
    BY FS_Interval
  <2>2. IsFiniteSet(K)
    BY <2>1, FS_Subset
  <2> QED  BY <2>2, FS_CardinalityType
<1>2. PICK c \in Nat : c = Cardinality(K)
  BY <1>1
<1>3. /\ f \in [1..c -> K] /\ DOMAIN f = 1..c
      /\ \A i, j \in DOMAIN f : i < j => f[i] < f[j]
      /\ \A x \in K : \E i \in DOMAIN f : f[i] = x
  BY <1>2 DEF InOrder
<1>4. \A i \in DOMAIN f : f[i] \in K /\ f[i] \in Nat /\ i \in Nat /\ f[i] >= 1 /\ i >= 1 /\ i <= c
  <2>1. \A x \in K : x \in Nat /\ x >= 1
    OBVIOUS
  <2>2. f \in [1..c -> K] /\ DOMAIN f = 1..c
    BY <1>3
  <2>3. ASSUME NEW i \in 1..c
        PROVE  f[i] \in K /\ i \in Nat /\ i >= 1 /\ i <= c
    BY <2>2
  <2> QED  BY <2>1, <2>2, <2>3
<1>5. \A i, j \in DOMAIN f : i # j => f[i] # f[j]
  <2>1. ASSUME NEW i \in DOMAIN f, NEW j \in DOMAIN f, i # j
        PROVE  f[i] # f[j]
    <3>1. i < j \/ j < i
      BY <1>4, <2>1
    <3> QED  BY <1>3, <1>4, <3>1
  <2> QED  BY <2>1
<1>6. ASSUME 1 \in K, 2 \in K
      PROVE  c >= 2 /\ f[2] = 2
  <2>1. PICK a \in DOMAIN f, b \in DOMAIN f : f[a] = 1 /\ f[b] = 2
    BY <1>3, <1>6
  <2>2. a < b
    <3>1. a # b /\ ~(b < a)
      BY <1>3, <2>1
    <3> QED  BY <1>4, <3>1
  <2>3. 2 \in DOMAIN f
    BY <1>3, <1>4, <2>2
  <2>4. ~(2 < b)
    <3>1. SUFFICES ASSUME 2 < b
                   PROVE  FALSE
      OBVIOUS
    <3>2. f[2] < 2 /\ 1 \in DOMAIN f
      BY <1>3, <1>4, <2>1, <2>3, <3>1
    <3>3. f[1] < f[2]
      BY <1>3, <2>3, <3>2
    <3> QED  BY <1>4, <2>3, <3>2, <3>3
  <2>5. b = 2
    BY <1>4, <2>2, <2>4
  <2> QED  BY <1>4, <2>1, <2>3, <2>5
<1> QED  BY <1>1, <1>2, <1>3, <1>5, <1>6 DEF Lists

LEMMA RepairKeeps ==
  ASSUME Numbers, LiveOk, TapeOk, IndexOk, StandsFor, RepairToolCall
  PROVE  Numbers' /\ LiveOk' /\ TapeOk' /\ IndexOk' /\ StandsFor'
<1> DEFINE L == Len(live)
<1>0. PICK R \in SUBSET (2..L) : \E kept \in InOrder(DOMAIN live \ R), bad \in InOrder(R) :
        LET ids == {live[i].id : i \in R} IN
        /\ ids \cap DOMAIN index.lineage = {}
        /\ live' = [i \in DOMAIN kept |-> live[kept[i]]]
        /\ chatTape' = chatTape \o [i \in DOMAIN bad |-> [op |-> "removed", m |-> live[bad[i]]]]
        /\ index' = IndexRemove(index, ids)
        /\ removed' = removed \cup {live[i].uid : i \in R}
        /\ lastId' = lastId /\ uid' = uid /\ bootUid' = bootUid /\ orphaned' = orphaned
  BY DEF RepairToolCall
<1>1. PICK kept \in InOrder(DOMAIN live \ R), bad \in InOrder(R) :
        LET ids == {live[i].id : i \in R} IN
        /\ ids \cap DOMAIN index.lineage = {}
        /\ live' = [i \in DOMAIN kept |-> live[kept[i]]]
        /\ chatTape' = chatTape \o [i \in DOMAIN bad |-> [op |-> "removed", m |-> live[bad[i]]]]
        /\ index' = IndexRemove(index, ids)
        /\ removed' = removed \cup {live[i].uid : i \in R}
        /\ lastId' = lastId /\ uid' = uid /\ bootUid' = bootUid /\ orphaned' = orphaned
  BY <1>0
<1> DEFINE K == DOMAIN live \ R
           U == {live[i].uid : i \in R}
           g == [i \in DOMAIN bad |-> [op |-> "removed", m |-> live[bad[i]]]]
<1>2. /\ live \in Seq(Msgs)
      /\ \A i \in DOMAIN live : live[i].uid \in Said \ removed
      /\ \A i, j \in DOMAIN live : i # j => live[i].uid # live[j].uid
  BY DEF LiveOk
<1>3. L \in Nat /\ DOMAIN live = 1..L /\ R \subseteq DOMAIN live /\ R \in SUBSET (1..L) /\ K \in SUBSET (1..L) /\ 1 \notin R
  BY <1>0, <1>2
<1>4. \A i \in DOMAIN live : live[i] \in Msgs /\ live[i].id = live[i].uid
  BY <1>2 DEF Msgs
<1> HIDE DEF L, K
<1>5. /\ Cardinality(K) \in Nat /\ kept \in [1..Cardinality(K) -> K] /\ DOMAIN kept = 1..Cardinality(K)
      /\ \A i, j \in DOMAIN kept : i # j => kept[i] # kept[j]
      /\ \A x \in K : \E i \in DOMAIN kept : kept[i] = x
      /\ 1 \in K /\ 2 \in K => Cardinality(K) >= 2 /\ kept[2] = 2
  <2>1. kept \in InOrder(K)
    BY <1>1 DEF K
  <2>2. Lists(kept, K)
    BY <1>3, <2>1, InOrderLists
  <2> QED  BY <2>2 DEF Lists
<1>6. /\ Cardinality(R) \in Nat /\ bad \in [1..Cardinality(R) -> R] /\ DOMAIN bad = 1..Cardinality(R)
      /\ \A x \in R : \E i \in DOMAIN bad : bad[i] = x
  <2>1. bad \in InOrder(R)
    OBVIOUS
  <2>2. Lists(bad, R)
    BY <1>3, <2>1, InOrderLists
  <2> QED  BY <2>2 DEF Lists
<1>7. {live[i].id : i \in R} = U /\ U \subseteq Said \ removed
  BY <1>2, <1>3, <1>4
<1>8. /\ U \cap DOMAIN index.lineage = {} /\ live' = [i \in DOMAIN kept |-> live[kept[i]]]
      /\ chatTape' = chatTape \o g /\ index' = IndexRemove(index, U) /\ removed' = removed \cup U
      /\ lastId' = lastId /\ uid' = uid /\ bootUid' = bootUid /\ orphaned' = orphaned
  BY <1>1, <1>7
<1>9. /\ live' \in Seq(Msgs) /\ Len(live') = Cardinality(K) /\ DOMAIN live' = DOMAIN kept
      /\ \A i \in DOMAIN kept : live'[i] = live[kept[i]] /\ kept[i] \in K /\ kept[i] \in DOMAIN live
  <2>1. \A i \in DOMAIN kept : kept[i] \in K /\ kept[i] \in DOMAIN live
    BY <1>3, <1>5
  <2>2. PICK c \in Nat : c = Cardinality(K)
    BY <1>5
  <2>3. live' = [i \in 1..c |-> live[kept[i]]] /\ DOMAIN kept = 1..c
    BY <1>5, <1>8, <2>2
  <2>4. \A i \in 1..c : live[kept[i]] \in Msgs
    BY <1>4, <2>1, <2>3
  <2>5. live' \in Seq(Msgs) /\ Len(live') = c /\ DOMAIN live' = 1..c
    BY <2>3, <2>4
  <2> QED  BY <2>1, <2>2, <2>3, <2>5
<1>10. Said' = Said /\ Said' \ removed' = (Said \ removed) \ U
  BY <1>8 DEF Said
<1>11. g \in Seq(Entries) /\ DOMAIN g = DOMAIN bad
       /\ \A i \in DOMAIN g : g[i].op = "removed" /\ g[i].m = live[bad[i]]
  <2>1. \A i \in DOMAIN bad : [op |-> "removed", m |-> live[bad[i]]] \in Entries
    BY <1>3, <1>4, <1>6 DEF Entries
  <2> QED  BY <1>6, <2>1
<1> HIDE DEF g, U
<1>12. Numbers'
  <2>1. uid \in Nat /\ bootUid \in Nat /\ Said \subseteq 1..uid
    BY DEF Numbers, Said
  <2> QED  BY <1>7, <1>8, <2>1 DEF Numbers
<1>13. \A i \in K : live[i].uid \notin U
  BY <1>2, <1>3 DEF U, K
<1>14. LiveOk'
  <2>1. \A i \in DOMAIN live' : live'[i].uid \in (Said \ removed) \ U
    BY <1>2, <1>9, <1>13
  <2>2. \A i, j \in DOMAIN live' : i # j => live'[i].uid # live'[j].uid
    BY <1>2, <1>5, <1>9
  <2> QED  BY <1>9, <1>10, <2>1, <2>2 DEF LiveOk
<1>15. TapeOk'
  <2>1. chatTape \in Seq(Entries) /\ {x.uid : x \in ExportMessages(chatTape)} = Said \ removed
    BY DEF TapeOk
  <2>2. chatTape' \in Seq(Entries)
    BY <1>8, <1>11, <2>1
  <2>3. ExportMessages(chatTape') = {x \in ExportMessages(chatTape) : \A i \in DOMAIN g : x.id # g[i].m.id}
    BY <1>8, <1>11, <2>1, ExportRemovedAll
  <2>4. \A u : (\E i \in DOMAIN g : u = g[i].m.id) <=> u \in U
    <3>1. \A i \in DOMAIN g : g[i].m.id \in U
      <4>1. \A i \in DOMAIN bad : bad[i] \in R
        BY <1>6
      <4>2. \A x \in R : live[x].id = live[x].uid /\ live[x].uid \in U
        BY <1>3, <1>4 DEF U
      <4>3. ASSUME NEW i \in DOMAIN g
            PROVE  g[i].m.id \in U
        <5>1. g[i].m = live[bad[i]] /\ bad[i] \in R
          BY <1>11, <4>1
        <5> QED  BY <4>2, <5>1
      <4> QED  BY <4>3
    <3>2. \A u \in U : \E i \in DOMAIN g : u = g[i].m.id
      <4>1. ASSUME NEW x \in R
            PROVE  \E i \in DOMAIN g : live[x].uid = g[i].m.id
        <5>1. PICK i \in DOMAIN bad : bad[i] = x
          BY <1>6
        <5>2. g[i].m = live[x] /\ i \in DOMAIN g
          BY <1>11, <5>1
        <5>3. live[x].id = live[x].uid
          BY <1>3, <1>4
        <5> QED  BY <5>2, <5>3
      <4> QED  BY <4>1 DEF U
    <3> QED  BY <3>1, <3>2
  <2>5. \A x \in ExportMessages(chatTape) : x.id = x.uid
    <3>1. \A i \in DOMAIN chatTape : chatTape[i].m \in Msgs
      <4>1. \A e \in Entries : e.m \in Msgs
        BY DEF Entries
      <4>2. \A i \in DOMAIN chatTape : chatTape[i] \in Entries
        BY <2>1
      <4> QED  BY <4>1, <4>2
    <3>2. ExportMessages(chatTape) \subseteq Msgs
      BY <3>1 DEF ExportMessages
    <3> QED  BY <3>2 DEF Msgs
  <2>6. ExportMessages(chatTape') = {x \in ExportMessages(chatTape) : x.uid \notin U}
    BY <2>3, <2>4, <2>5
  <2>7. {x.uid : x \in ExportMessages(chatTape')} = (Said \ removed) \ U
    BY <2>1, <2>6
  <2> QED  BY <1>10, <2>2, <2>7 DEF TapeOk
<1>16. /\ DOMAIN index' = Fields
       /\ index'.body = [y \in (Said \ removed) \ U |-> index.body[y]]
       /\ index'.lineage = [y \in DOMAIN index.lineage \ U |-> index.lineage[y]]
       /\ index'.compacted = index.compacted \ U
  <2>1. DOMAIN index = Fields /\ DOMAIN index.body = Said \ removed /\ U \in SUBSET DOMAIN index.body
    BY <1>7 DEF IndexOk
  <2>2. /\ DOMAIN IndexRemove(index, U) = Fields
        /\ IndexRemove(index, U).body = [y \in DOMAIN index.body \ U |-> index.body[y]]
        /\ IndexRemove(index, U).lineage = [y \in DOMAIN index.lineage \ U |-> index.lineage[y]]
        /\ IndexRemove(index, U).compacted = index.compacted \ U
    BY <2>1, IndexRemoves
  <2> QED  BY <1>8, <2>1, <2>2, Zenon
<1>17. index'.lineage = index.lineage
  <2>1. DOMAIN index.lineage \ U = DOMAIN index.lineage
    BY <1>8
  <2> QED  BY <1>16, <2>1 DEF IndexOk
<1>18. LeftOut = Said \ (removed \cup Uids(live)) /\ LeftOut' = Said' \ (removed' \cup Uids(live'))
  BY Zenon DEF LeftOut, Said
<1>19. Uids(live) = Uids(live') \cup U
  <2>1. \A x \in Uids(live') \cup U : x \in Uids(live)
    BY <1>3, <1>9 DEF Uids, U
  <2>2. ASSUME NEW i \in DOMAIN live
        PROVE  live[i].uid \in Uids(live') \cup U
    <3>1. CASE i \in R
      BY <3>1 DEF U
    <3>2. CASE i \in K
      <4>1. PICK j \in DOMAIN kept : kept[j] = i
        BY <1>5, <3>2
      <4> QED  BY <1>9, <4>1 DEF Uids
    <3> QED  BY <3>1, <3>2 DEF K
  <2> QED  BY <2>1, <2>2 DEF Uids
<1>20. LeftOut' = LeftOut /\ LeftOut \cap U = {}
  BY <1>8, <1>10, <1>18, <1>19
<1>21. IndexOk'
  <2>1. index'.body \in [Said' \ removed' -> Nat] /\ \A x \in Said' \ removed' : index'.body[x] = x
    BY <1>10, <1>16 DEF IndexOk
  <2>2. DOMAIN index'.lineage \subseteq Said' \ removed'
    BY <1>8, <1>10, <1>17 DEF IndexOk
  <2>3. index'.lineage \in [DOMAIN index'.lineage -> SUBSET Said']
    BY <1>10, <1>17 DEF IndexOk
  <2>4. LeftOut' \subseteq index'.compacted
    BY <1>16, <1>20 DEF IndexOk
  <2> QED  BY <1>16, <2>1, <2>2, <2>3, <2>4 DEF IndexOk
<1>22. \A i \in DOMAIN live : live[i].id \in DOMAIN index.lineage => i = 2 /\ i \in K
  <2>1. \A i \in DOMAIN live : live[i].id \in DOMAIN index.lineage => i = 2
    BY DEF StandsFor
  <2>2. \A i \in R : live[i].id \notin DOMAIN index.lineage
    BY <1>3, <1>4, <1>8 DEF U
  <2> QED  BY <2>1, <2>2 DEF K
<1>23. \A i \in DOMAIN live' : live'[i].id \in DOMAIN index'.lineage => i = 2
  <2>1. ASSUME NEW i \in DOMAIN kept, live[kept[i]].id \in DOMAIN index.lineage
        PROVE  i = 2
    <3>1. kept[i] = 2 /\ 2 \in K /\ 1 \in K
      BY <1>3, <1>9, <1>22, <2>1 DEF K
    <3>2. 2 \in DOMAIN kept /\ kept[2] = 2
      BY <1>5, <3>1
    <3> QED  BY <1>5, <3>1, <3>2
  <2> QED  BY <1>9, <1>17, <2>1
<1>24. ASSUME LeftOut' \ orphaned' # {}
       PROVE  /\ Len(live') >= 2 /\ live'[2].id \in DOMAIN index'.lineage
              /\ LeftOut' \ orphaned' \subseteq Walk(index', live'[2].id)
  <2>1. /\ L >= 2 /\ live[2].id \in DOMAIN index.lineage
        /\ LeftOut \ orphaned \subseteq Walk(index, live[2].id)
    BY <1>8, <1>20, <1>24 DEF StandsFor, L
  <2>2. 2 \in K /\ 1 \in K
    BY <1>3, <1>22, <2>1 DEF K
  <2>3. Len(live') >= 2 /\ live'[2] = live[2]
    BY <1>5, <1>9, <2>2
  <2>4. Walk(index', live[2].id) = Walk(index, live[2].id)
    BY <1>17, WalkSame
  <2> QED  BY <1>8, <1>17, <1>20, <2>1, <2>3, <2>4
<1> QED  BY <1>12, <1>14, <1>15, <1>21, <1>23, <1>24 DEF StandsFor

LEMMA TranscriptStep == TranscriptInv /\ [TranscriptNext]_transcriptVars => TranscriptInv'
<1> SUFFICES ASSUME TranscriptInv, [TranscriptNext]_transcriptVars
             PROVE  TranscriptInv'
  OBVIOUS
<1>1. boots \in Nat /\ (boots = 0 => Numbers /\ LiveOk /\ TapeOk /\ IndexOk /\ StandsFor)
  BY DEF TranscriptInv
<1>2. CASE RestartChat
  BY <1>1, <1>2 DEF RestartChat, TranscriptInv
<1>3. CASE UNCHANGED transcriptVars
  <2>1. /\ live' = live /\ chatTape' = chatTape /\ index' = index /\ lastId' = lastId
        /\ uid' = uid /\ boots' = boots /\ bootUid' = bootUid /\ removed' = removed /\ orphaned' = orphaned
    BY <1>3 DEF transcriptVars
  <2>2. Said' = Said /\ LeftOut' = LeftOut
    BY <2>1 DEF Said, LeftOut
  <2> QED
    BY <1>1, <2>1, <2>2 DEF TranscriptInv, Numbers, LiveOk, TapeOk, IndexOk, StandsFor
<1>4. CASE Say
  <2>1. boots' = boots
    BY <1>4 DEF Say
  <2> QED  BY <1>1, <1>4, <2>1, SayKeeps DEF TranscriptInv
<1>5. CASE ElideMessage
  <2>1. boots' = boots
    BY <1>5 DEF ElideMessage
  <2> QED  BY <1>1, <1>5, <2>1, ElideKeeps DEF TranscriptInv
<1>6. CASE SummarizeChat
  <2>1. boots' = boots
    BY <1>6 DEF SummarizeChat
  <2> QED  BY <1>1, <1>6, <2>1, SummarizeKeeps DEF TranscriptInv
<1>7. CASE DropLatest
  <2>1. boots' = boots
    BY <1>7 DEF DropLatest
  <2> QED  BY <1>1, <1>7, <2>1, DropKeeps DEF TranscriptInv
<1>8. CASE ResetChat
  <2>1. boots' = boots
    BY <1>8 DEF ResetChat
  <2> QED  BY <1>1, <1>8, <2>1, ResetKeeps DEF TranscriptInv
<1>9. CASE RepairToolCall
  <2>1. boots' = boots
    BY <1>9 DEF RepairToolCall
  <2> QED  BY <1>1, <1>9, <2>1, RepairKeeps DEF TranscriptInv
<1> QED  BY <1>2, <1>3, <1>4, <1>5, <1>6, <1>7, <1>8, <1>9 DEF TranscriptNext

LEMMA TranscriptFound == TranscriptInv => NothingForgotten
<1> SUFFICES ASSUME TranscriptInv, boots = 0
             PROVE  /\ {m.uid : m \in ExportMessages(chatTape)} = ((bootUid + 1)..uid) \ removed
                    /\ \A i \in DOMAIN live : live[i].id \in DOMAIN index.lineage =>
                         LeftOut \ orphaned \subseteq Manifest(index, live[i].id)
                    /\ LeftOut \subseteq Manifest(index, 0)
  BY Zenon DEF NothingForgotten, ExportComplete, LineageWhole, LatestWhole
<1>1. Numbers /\ LiveOk /\ TapeOk /\ IndexOk /\ StandsFor
  BY DEF TranscriptInv
<1>2. {m.uid : m \in ExportMessages(chatTape)} = ((bootUid + 1)..uid) \ removed
  BY <1>1 DEF TapeOk, Said
<1>3. LeftOut \subseteq DOMAIN index.body /\ \A x \in LeftOut : index.body[x] = x
  BY <1>1 DEF IndexOk, LeftOut, Said
<1>4. ASSUME NEW i \in DOMAIN live, live[i].id \in DOMAIN index.lineage
      PROVE  LeftOut \ orphaned \subseteq Manifest(index, live[i].id)
  <2>1. i = 2 /\ LeftOut \ orphaned \subseteq Walk(index, live[i].id)
    BY <1>1, <1>4 DEF StandsFor
  <2>2. live[i].id # 0
    BY <1>1, <1>4 DEF IndexOk, Numbers, Said
  <2>3. Manifest(index, live[i].id) = {index.body[x] : x \in Walk(index, live[i].id) \cap DOMAIN index.body}
    BY <2>2 DEF Manifest
  <2> QED  BY <1>3, <2>1, <2>3
<1>5. LeftOut \subseteq Manifest(index, 0)
  <2>1. Manifest(index, 0) = {index.body[x] : x \in (Walk(index, index.latest) \cup
                                                      (index.compacted \cup index.elided)) \cap DOMAIN index.body}
    BY DEF Manifest
  <2> QED  BY <1>1, <1>3, <2>1 DEF IndexOk
<1> QED  BY <1>2, <1>4, <1>5

TranscriptSpec == TranscriptInit /\ [][TranscriptNext]_transcriptVars

(* In a process that did not restart, closing a chat exports every message  *)
(* said since its last reset but those that the operator or the repair of   *)
(* a tool call removed (operatorfiles/manager.go, exportMessages), and any  *)
(* other message that is no longer in the session is found through the      *)
(* summary that stands for it and through "latest" (events/history.go,      *)
(* historyIndex.resolve), for every number of messages, summaries of        *)
(* summaries and removals, and every number of messages that a summary      *)
(* leaves alone.                                                            *)
THEOREM NothingForgottenAlways == TranscriptSpec => []NothingForgotten
<1>1. TranscriptInit => TranscriptInv
  BY TranscriptStarts
<1>2. TranscriptInv /\ [TranscriptNext]_transcriptVars => TranscriptInv'
  BY TranscriptStep
<1>3. TranscriptInv => NothingForgotten
  BY TranscriptFound
<1> QED  BY <1>1, <1>2, <1>3, PTL DEF TranscriptSpec
=============================================================================
