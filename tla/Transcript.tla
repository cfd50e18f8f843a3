----------------------------- MODULE Transcript -----------------------------
(***************************************************************************)
(* One chat's messages in the places that name them by id: the session     *)
(* (Session.Messages), the projection the browser and the next start see   *)
(* (projection/projector.go), the history index of the running process     *)
(* (events/history.go) and the transcript exported when the chat is closed *)
(* (operatorfiles/manager.go).                                             *)
(*                                                                         *)
(* Runner.id counts from 1 in every process and restored chats keep their  *)
(* ids, so after a restart an id may name two messages; `uid' tells them   *)
(* apart.  The tape the export reads is the one of the running process.    *)
(***************************************************************************)
EXTENDS Integers, Sequences, FiniteSets

CONSTANTS
  ChatBudgets,  \* bounds: messages appended, restarts, repairs of a tool call
  KeepTail      \* the messages at the end a summary leaves alone (6 in the code)

VARIABLES
  live,      \* Session.Messages
  shown,     \* the projection's Messages
  chatTape,  \* the message events on the tape of this process
  index,     \* the history index
  lastId,    \* Runner.ids
  uid,       \* messages ever appended
  boots,     \* restarts
  chatLeft,  \* what is left of the chosen budget
  bootUid,   \* uid at the last start or reset
  removed,   \* uids the operator or the repair of a tool call removed
  orphaned   \* uids that a summary the operator removed stood for

transcriptVars == <<live, shown, chatTape, index, lastId, uid, boots, chatLeft, bootUid, removed, orphaned>>

\* A summary leaves a number of messages alone; the others are bounds.
ASSUME TranscriptConstants == KeepTail \in Nat /\ ChatBudgets \subseteq [said : Nat, boots : Nat, repairs : Nat]

EmptyIndex == [order |-> <<>>, body |-> <<>>, elided |-> {}, compacted |-> {}, lineage |-> <<>>, latest |-> 0]

TranscriptInit ==
  /\ live = <<>> /\ shown = <<>> /\ chatTape = <<>> /\ index = EmptyIndex
  /\ lastId = 0 /\ uid = 0 /\ boots = 0 /\ bootUid = 0 /\ removed = {} /\ orphaned = {}
  /\ chatLeft \in ChatBudgets

ChatSpends(what) == chatLeft[what] > 0 /\ chatLeft' = [chatLeft EXCEPT ![what] = @ - 1]

Uids(s) == {s[i].uid : i \in DOMAIN s}
Ids(s) == {s[i].id : i \in DOMAIN s}
Without(s, ids) == SelectSeq(s, LAMBDA m : m.id \notin ids)
NewMessage == [uid |-> uid + 1, id |-> lastId + 1]
Counts == ChatSpends("said") /\ uid' = uid + 1 /\ lastId' = lastId + 1

Publishes(op, m) == chatTape' = Append(chatTape, [op |-> op, m |-> m])

\* The mutant exports the live prompt.
ExportLive(tape) == {live[i] : i \in DOMAIN live}
\* exportMessages: the tape's appended messages, without the ids removed later.
ExportMessages(tape) ==
  {tape[i].m : i \in {j \in DOMAIN tape : /\ tape[j].op = "appended"
                                        /\ \A k \in DOMAIN tape :
                                             k > j /\ tape[k].op = "removed" => tape[k].m.id # tape[j].m.id}}

\* f with the value v at k.
At(f, k, v) == [x \in DOMAIN f \cup {k} |-> IF x = k THEN v ELSE f[x]]

\* historyIndex.append, remove and compact.
IndexAppend(h, m) ==
  [h EXCEPT !.body = At(@, m.id, m.uid), !.order = IF m.id \in DOMAIN h.body THEN @ ELSE Append(@, m.id)]
IndexRemove(h, ids) ==
  LET known == ids \cap DOMAIN h.body IN
  [h EXCEPT !.body = [x \in DOMAIN @ \ known |-> @[x]],
            !.lineage = [x \in DOMAIN @ \ known |-> @[x]],
            !.elided = @ \ known, !.compacted = @ \ known,
            !.order = SelectSeq(@, LAMBDA x : x \notin known)]
IndexCompact(h, summary, affected) ==
  [h EXCEPT !.latest = summary, !.lineage = At(@, summary, affected), !.compacted = @ \cup affected]

\* historyIndex.resolve of a summary: what it replaced, and what those replaced in turn.
Replaced(h, ref) == IF ref \in DOMAIN h.lineage THEN h.lineage[ref] ELSE {}
Affected(h) == UNION {h.lineage[x] : x \in DOMAIN h.lineage}
Walked(h, root, S) == Replaced(h, root) \subseteq S /\ \A x \in S : Replaced(h, x) \subseteq S
Walk(h, root) == {x \in Affected(h) : \A S \in SUBSET Affected(h) : Walked(h, root, S) => x \in S}
Manifest(h, ref) ==
  LET root == IF ref = 0 THEN h.latest ELSE ref
      selected == Walk(h, root) \cup (IF ref = 0 THEN h.compacted \cup h.elided ELSE {})
  IN {h.body[x] : x \in selected \cap DOMAIN h.body}

\* A message is appended and its event published.
Say ==
  LET m == NewMessage IN
  /\ Counts
  /\ live' = Append(live, m) /\ shown' = Append(shown, m) /\ Publishes("appended", m)
  /\ index' = IndexAppend(index, m)
  /\ UNCHANGED <<boots, bootUid, removed, orphaned>>

\* Elision replaces a tool result's content; the projection and the index are told its id.
ElideMessage ==
  \E i \in DOMAIN live :
    /\ live[i].id \notin index.elided
    /\ index' = [index EXCEPT !.elided = @ \cup {live[i].id}]
    /\ UNCHANGED <<live, shown, chatTape, lastId, uid, boots, chatLeft, bootUid, removed, orphaned>>

\* Compactor.Summarize: the first message, the summary and the tail stay in the session; the
\* projection places the appended summary after the first message and drops the ids affected.
SummarizeChat ==
  LET m == NewMessage
      middle == SubSeq(live, 2, Len(live) - KeepTail)
  IN
  /\ Counts /\ Len(live) > KeepTail + 1
  /\ live' = <<live[1], m>> \o SubSeq(live, Len(live) - KeepTail + 1, Len(live))
  /\ LET kept == Without(shown, Ids(middle)) IN
     shown' = IF kept = <<>> THEN <<m>> ELSE <<kept[1], m>> \o Tail(kept)
  /\ Publishes("appended", m)
  /\ index' = IndexCompact(IndexAppend(index, m), m.id, Ids(middle))
  /\ UNCHANGED <<boots, bootUid, removed, orphaned>>

\* Registry.DropLastMessage: the session removes by position, everyone else by id.
DropLatest ==
  LET m == live[Len(live)] IN
  /\ live # <<>>
  /\ live' = SubSeq(live, 1, Len(live) - 1)
  /\ shown' = Without(shown, {m.id}) /\ Publishes("removed", m)
  /\ index' = IndexRemove(index, {m.id})
  /\ removed' = removed \cup {m.uid} /\ orphaned' = orphaned \cup Manifest(index, m.id)
  /\ UNCHANGED <<lastId, uid, boots, chatLeft, bootUid>>

\* The positions K in their order.
InOrder(K) == {f \in [1..Cardinality(K) -> K] : /\ \A i, j \in DOMAIN f : i < j => f[i] < f[j]
                                              /\ \A x \in K : \E i \in DOMAIN f : f[i] = x}

\* repairMalformedToolCall: an answer whose calls cannot be rendered goes, unless it has prose, and
\* so do the results under its call ids, which a model may have used before: any messages, for roles
\* are not modelled, but the first of the chat and the summaries, which are neither.
RepairToolCall ==
  \E R \in SUBSET (2..Len(live)) :
    \E kept \in InOrder(DOMAIN live \ R), bad \in InOrder(R) :
      LET ids == {live[i].id : i \in R} IN
      /\ ChatSpends("repairs")
      /\ R # {} /\ ids \cap DOMAIN index.lineage = {}
      /\ live' = [i \in DOMAIN kept |-> live[kept[i]]]
      /\ shown' = Without(shown, ids)
      /\ chatTape' = chatTape \o [i \in DOMAIN bad |-> [op |-> "removed", m |-> live[bad[i]]]]
      /\ index' = IndexRemove(index, ids)
      /\ removed' = removed \cup {live[i].uid : i \in R}
      /\ UNCHANGED <<lastId, uid, boots, bootUid, orphaned>>

\* Registry.Reset rotates the tape and starts a new index.
ResetChat ==
  /\ live # <<>>
  /\ live' = <<>> /\ shown' = <<>> /\ chatTape' = <<>> /\ index' = EmptyIndex
  /\ bootUid' = uid
  /\ UNCHANGED <<lastId, uid, boots, chatLeft, removed, orphaned>>

\* restoreRetainedChats: the session gets the projected messages, a new tape and a new index.
RestartChat ==
  /\ ChatSpends("boots") /\ boots' = boots + 1
  /\ live' = shown /\ chatTape' = <<>> /\ index' = EmptyIndex
  /\ lastId' = 0 /\ bootUid' = uid
  /\ UNCHANGED <<shown, uid, removed, orphaned>>

TranscriptNext ==
  Say \/ ElideMessage \/ SummarizeChat \/ DropLatest \/ RepairToolCall \/ ResetChat \/ RestartChat

\* While no restart has made ids ambiguous, closing a chat exports every message since its last
\* reset, the ones a summary replaced in the session too, and none that the operator or the repair
\* of a tool call removed.
ExportComplete ==
  boots = 0 => {m.uid : m \in ExportMessages(chatTape)} = ((bootUid + 1)..uid) \ removed

\* The messages since the last reset that the session no longer has though nobody removed them.
LeftOut == ((bootUid + 1)..uid) \ (removed \cup Uids(live))

\* While no restart has made ids ambiguous: every message the session no longer has is in the
\* manifest of the summary that stands for it, through any number of summaries of summaries.
\* The messages of a summary the operator removed with "drop latest" are in no later summary's.
LineageWhole ==
  boots = 0 =>
    \A i \in DOMAIN live : live[i].id \in DOMAIN index.lineage =>
      LeftOut \ orphaned \subseteq Manifest(index, live[i].id)

\* The ref "latest" finds every one of them, the orphaned ones too.
LatestWhole == boots = 0 => LeftOut \subseteq Manifest(index, 0)

\* history/lineage, transcript export: what was said is exported when the chat closes, and what
\* summaries replaced can be found through them.
NothingForgotten == ExportComplete /\ LineageWhole /\ LatestWhole

\* Dropping the latest message removes exactly that one, and a repair exactly what it drops: the
\* projection, which the browser shows and the next start restores, has the session's messages.
DropsExactlyLatest == Uids(shown) = Uids(live)
=============================================================================
