------------------------------ MODULE Projector ------------------------------
(***************************************************************************)
(* The projector (internal/projection/projector.go): Next folds one event  *)
(* of a session into its snapshot, diff turns the change into the          *)
(* operations a browser applies (web/js/bus.js).                           *)
(*                                                                         *)
(* A message keeps its id, role, category, turn, the calls it makes or     *)
(* answers, and whether it is elided.  A chat entry keeps its type and key, *)
(* the run and turn it belongs to, its calls, whether it is done, and what *)
(* the operator decided.  Texts, telemetry and token counts are left out;  *)
(* the timeline is kept as the set of turns whose stream fragments it has. *)
(***************************************************************************)
EXTENDS Integers, Sequences, FiniteSets, SequencesExt

NoRun == 0

\* The elements of s that are in S, in the order of s.
KeepIn(s, S) ==
  LET f[n \in 0..Len(s)] == IF n = 0 THEN <<>>
                            ELSE IF s[n] \in S THEN Append(f[n-1], s[n]) ELSE f[n-1]
  IN f[Len(s)]

\* seed.snapshot: what session.created starts from.
Seeded(messages, status) ==
  [messages |-> messages, chat |-> <<>>, status |-> status, run |-> NoRun, last |-> NoRun,
   label |-> "", pending |-> <<>>, stream |-> {}, queued |-> 0, closed |-> FALSE,
   asYou |-> FALSE, host |-> "", seq |-> 0]

Entry(type, key, run, turn) ==
  [type |-> type, key |-> key, run |-> run, turn |-> turn, done |-> FALSE, calls |-> {},
   about |-> <<"", 0>>, decision |-> ""]

\* The last entry that satisfies P, 0 if none does: chatTurn, chatTurnAny, chatCall.
LastEntry(chat, P(_)) == Max({0} \cup {i \in 1..Len(chat) : P(chat[i])})
ChatTurn(chat, run, turn) ==
  LastEntry(chat, LAMBDA x : x.type = "agent" /\ x.run = run /\ x.turn = turn)
ChatTurnAny(chat, turn) == LastEntry(chat, LAMBDA x : x.type = "agent" /\ x.turn = turn)
ChatNotice(chat, about) ==
  LastEntry(chat, LAMBDA x : x.type = "notice" /\ x.about = about /\ x.decision # "resolved")

----------------------------------------------------------------------------
(* Session, run and model events.                                          *)

\* session.reset.
ProjectReset(p) == [p EXCEPT !.messages = <<>>, !.chat = <<>>, !.status = "idle", !.run = NoRun,
                             !.last = NoRun, !.label = "", !.pending = <<>>, !.stream = {},
                             !.queued = 0]

\* session.closed and session.reopened.
ProjectClosed(p, closed) ==
  [p EXCEPT !.closed = closed, !.asYou = IF closed THEN @ ELSE FALSE]

\* run.queued, run.started, run.stopping.
ProjectStarted(p, e) ==
  [p EXCEPT !.status = "running", !.run = e.run, !.last = NoRun, !.label = "",
            !.queued = IF @ = 0 THEN 0 ELSE @ - 1]

\* Bug: the answers of the run are left open.
ProjectStoppedOpen(p, e) ==
  [p EXCEPT !.status = IF e.held THEN "held" ELSE "idle", !.run = NoRun, !.last = e.run,
            !.label = "", !.stream = {s \in @ : s[1] # e.run}]
\* run.stopped: the pending approval of the run and its stream fragments go, and its
\* agent entries are done.
ProjectStopped(p, e) ==
  [p EXCEPT !.status  = IF e.held THEN "held" ELSE "idle",
            !.run     = NoRun,
            !.last    = e.run,
            !.label   = "",
            !.pending = IF @ # <<>> /\ @[1].run = e.run THEN <<>> ELSE @,
            !.stream  = {s \in @ : s[1] # e.run},
            !.chat    = [i \in 1..Len(@) |->
                          IF @[i].type = "agent" /\ @[i].run = e.run
                          THEN [@[i] EXCEPT !.done = TRUE] ELSE @[i]]]

\* run.labeled: only the run that ended last can be labelled.
ProjectLabeled(p, e) == IF e.run = p.last THEN [p EXCEPT !.label = e.label] ELSE p

\* model.request opens the agent's entry, model.delta and model.progress feed it.
ProjectRequest(p, e) ==
  [p EXCEPT !.chat = Append(@, Entry("agent", <<"turn", e.run, e.turn>>, e.run, e.turn))]
ProjectDelta(p, e) == [p EXCEPT !.stream = @ \cup {<<e.run, e.turn>>}]

\* model.response: the entry is done, a missing one is made.
ProjectResponse(p, e) ==
  LET i    == ChatTurn(p.chat, e.run, e.turn)
      made == Entry("agent", <<"turn", e.run, e.turn>>, e.run, e.turn)
      done == [(IF i = 0 THEN made ELSE p.chat[i]) EXCEPT !.done = TRUE, !.calls = @ \cup e.calls]
  IN [p EXCEPT !.chat = IF i = 0 THEN Append(@, done) ELSE [@ EXCEPT ![i] = done],
               !.stream = @ \ {<<e.run, e.turn>>}]

\* model.unreachable and model.reachable.
ProjectReachable(p) ==
  LET i == IF p.host = "" THEN 0 ELSE ChatNotice(p.chat, <<"model_unreachable", 0>>)
  IN [p EXCEPT !.host = "",
               !.chat = IF i = 0 THEN @ ELSE [@ EXCEPT ![i].decision = "resolved"]]

\* tool.call.
ProjectCall(p, e) ==
  [p EXCEPT !.chat = Append(@, [Entry("tool", <<"tool", e.call>>, NoRun, 0)
                                  EXCEPT !.calls = {e.call}])]

\* shell.grant, file.grant and their lapses.
ProjectGrant(p, e) ==
  IF e.scope = "session" /\ e.identity = "operator" THEN [p EXCEPT !.asYou = e.granted] ELSE p

\* approval.required and approval.decided.
ProjectApproval(p, e) ==
  [p EXCEPT !.status = "paused", !.pending = <<[run |-> e.run, call |-> e.call]>>]
ProjectDecided(p, e) ==
  LET i == ChatNotice(p.chat, <<"approval", e.call>>)
  IN [p EXCEPT !.status = IF e.decision \in {"superseded", "dismissed"} THEN @ ELSE "running",
               !.pending = IF @ # <<>> /\ @[1].call = e.call THEN <<>> ELSE @,
               !.chat = IF i = 0 THEN @ ELSE [@ EXCEPT ![i].decision = e.decision]]

----------------------------------------------------------------------------
(* Message events.                                                         *)

\* Bug: the summary is appended like any other message.
PlacedLast(ms, m) == Append(ms, m)
\* A summary goes after the first message, any other message to the end.
Placed(ms, m) ==
  IF m.cat = "summary" THEN InsertAt(ms, Min({1, Len(ms)}) + 1, m) ELSE Append(ms, m)

\* message.appended.
ProjectAppended(p, e) ==
  LET m == e.message
      c == IF m.cat = "summary"
           THEN Append(p.chat, Entry("summary", <<"message", m.id>>, NoRun, 0))
           ELSE IF m.role = "user"
           THEN Append(p.chat, Entry("user", <<"message", m.id>>, NoRun, 0))
           ELSE p.chat
      i == IF m.role = "assistant" THEN ChatTurnAny(c, m.turn) ELSE 0
  IN [p EXCEPT !.messages = Placed(@, m),
               !.chat = IF i = 0 THEN c
                        ELSE [c EXCEPT ![i].calls = m.calls, ![i].done = TRUE]]

\* message.updated: the patch elides the message, or takes its calls away.
ProjectUpdated(p, e) ==
  LET hit == {i \in 1..Len(p.messages) : p.messages[i].id = e.id}
      shown == {ChatTurnAny(p.chat, p.messages[i].turn) : i \in hit}
  IN [p EXCEPT !.messages = [i \in 1..Len(@) |->
                              IF i \notin hit THEN @[i]
                              ELSE IF e.patch = "elided" THEN [@[i] EXCEPT !.elided = TRUE]
                              ELSE [@[i] EXCEPT !.calls = {}]],
               !.chat = [i \in 1..Len(@) |->
                          IF e.patch = "tool_calls" /\ i \in shown THEN [@[i] EXCEPT !.calls = {}]
                          ELSE @[i]]]

\* message.removed: the chat entry that showed the message goes too.
ProjectRemoved(p, e) ==
  LET gone == {i \in 1..Len(p.messages) : p.messages[i].id = e.id}
      keyed(key) == KeepIn(p.chat, {x \in Range(p.chat) : x.key # key})
  IN IF gone = {} THEN p
     ELSE LET m == p.messages[Max(gone)]
              i == ChatTurnAny(p.chat, m.turn)
          IN [p EXCEPT !.messages = KeepIn(p.messages, {x \in Range(p.messages) : x.id # e.id}),
                       !.chat = IF m.cat = "summary" \/ m.role = "user"
                                THEN keyed(<<"message", m.id>>)
                                ELSE IF m.role = "tool" THEN keyed(<<"tool", m.of>>)
                                ELSE IF m.role = "assistant" /\ i # 0 THEN RemoveAt(p.chat, i)
                                ELSE p.chat]

\* compaction: a summary takes the messages it stands for away.
ProjectCompaction(p, e) ==
  IF e.kind # "summarize" THEN p
  ELSE [p EXCEPT !.messages = KeepIn(p.messages, {m \in Range(p.messages) : m.id \notin e.ids})]

----------------------------------------------------------------------------

\* chatNotice: the events that leave a notice in the chat.  The notice of an unreachable
\* model replaces the one that is not resolved yet.
Noticed(p, e) ==
  LET about == CASE e.t = "stopped" /\ e.reason = "model_unreachable" -> <<e.reason, 0>>
                 [] e.t = "required" -> <<"approval", e.call>>
                 [] OTHER -> <<e.t, 0>>
      n == [Entry("notice", <<"event", p.seq>>, e.run, 0) EXCEPT !.about = about]
      i == IF about = <<"model_unreachable", 0>> /\ p.host # ""
           THEN ChatNotice(p.chat, about) ELSE 0
  IN IF e.t \notin {"stopping", "stopped", "aborted", "retry", "compaction", "required", "grant", "queued"}
     THEN p
     ELSE [p EXCEPT !.chat = IF i = 0 THEN Append(@, n)
                             ELSE [@ EXCEPT ![i] = [n EXCEPT !.key = p.chat[i].key]]]

\* The state one event changes.
Folded(p, e) ==
  CASE e.t = "created"   -> Seeded(e.messages, "idle")
    [] e.t = "reset"     -> ProjectReset(p)
    [] e.t = "closed"    -> ProjectClosed(p, TRUE)
    [] e.t = "reopened"  -> ProjectClosed(p, FALSE)
    [] e.t = "queued"    -> [p EXCEPT !.queued = @ + 1]
    [] e.t = "started"   -> ProjectStarted(p, e)
    [] e.t = "stopping"  -> [p EXCEPT !.status = "stopping"]
    [] e.t = "stopped"   -> ProjectStopped(p, e)
    [] e.t = "labeled"   -> ProjectLabeled(p, e)
    [] e.t = "request"   -> ProjectRequest(p, e)
    [] e.t = "delta"     -> ProjectDelta(p, e)
    [] e.t = "response"  -> ProjectResponse(p, e)
    [] e.t = "unreach"   -> [p EXCEPT !.host = e.host]
    [] e.t = "reachable" -> ProjectReachable(p)
    [] e.t = "call"      -> ProjectCall(p, e)
    [] e.t = "grant"     -> ProjectGrant(p, e)
    [] e.t = "required"  -> ProjectApproval(p, e)
    [] e.t = "decided"   -> ProjectDecided(p, e)
    [] e.t = "appended"  -> ProjectAppended(p, e)
    [] e.t = "updated"   -> ProjectUpdated(p, e)
    [] e.t = "removed"   -> ProjectRemoved(p, e)
    [] e.t = "compaction" -> ProjectCompaction(p, e)
    [] OTHER             -> p

\* Next: the change and its notice.
NextSnapshot(p, e) == Noticed([Folded(p, e) EXCEPT !.seq = p.seq + 1], e)

----------------------------------------------------------------------------
(* Patches.                                                                *)

\* Bug: a chat that is one entry longer is taken for an append.
DiffChatLonger(a, b) ==
  IF a = b THEN <<>>
  ELSE IF Len(b) = Len(a) + 1 THEN <<[op |-> "append", value |-> b[Len(b)]]>>
  ELSE <<[op |-> "replace", value |-> b]>>
\* diffChat: one entry more is an append, changed entries with the same keys are upserts,
\* anything else replaces the chat.
DiffChat(a, b) ==
  IF a = b THEN <<>>
  ELSE IF Len(b) = Len(a) + 1 /\ SubSeq(b, 1, Len(a)) = a
  THEN <<[op |-> "append", value |-> b[Len(b)]]>>
  ELSE IF Len(a) = Len(b) /\ \A i \in 1..Len(a) : a[i].key = b[i].key
  THEN LET changed == KeepIn([i \in 1..Len(a) |-> i], {i \in 1..Len(a) : a[i] # b[i]})
       IN [k \in 1..Len(changed) |-> [op |-> "upsert", value |-> b[changed[k]]]]
  ELSE <<[op |-> "replace", value |-> b]>>

\* applyOperation in the browser: an upsert goes to the first entry with its key.
ApplyOperation(chat, o) ==
  CASE o.op = "append"  -> Append(chat, o.value)
    [] o.op = "replace" -> o.value
    [] o.op = "upsert"  ->
         LET at == {i \in 1..Len(chat) : chat[i].key = o.value.key}
         IN IF at = {} THEN Append(chat, o.value)
            ELSE [chat EXCEPT ![Min(at)] = o.value]

ApplyChat(chat, ops) ==
  LET f[k \in 0..Len(ops)] == IF k = 0 THEN chat ELSE ApplyOperation(f[k-1], ops[k])
  IN f[Len(ops)]
=============================================================================
