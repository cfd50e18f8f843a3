------------------------------ MODULE EventLog ------------------------------
(***************************************************************************)
(* The event path of one session: the bus (internal/events/bus.go), the    *)
(* log files (internal/events/jsonl.go), the live projection               *)
(* (internal/projection/store.go, file.go) and the browsers that follow it *)
(* (internal/web/server_state.go, web/js/bus.js).                          *)
(*                                                                         *)
(* A publisher takes a sequence number and the list of bus subscribers     *)
(* under the bus's lock, and does the rest without it: the append (under   *)
(* the writers' lock), the update of the projection (under the store's)    *)
(* and one send per subscriber.  A browser has a bus channel and a patch   *)
(* channel; it asks for a fresh snapshot when a patch does not fit.        *)
(*                                                                         *)
(* A record is its sequence number; its length in the file is RecordLen.   *)
(* A projected snapshot is a cursor and the records folded into it.        *)
(***************************************************************************)
EXTENDS Integers, Sequences, FiniteSets, SequencesExt

CONSTANTS Publishers,  \* goroutines that publish events of the session
          Clients,     \* browsers
          MaxSeq,      \* bound: events published
          MaxRotate,   \* bound: resets of the session
          MaxConn,     \* bound: connections of each browser
          MaxFail,     \* bound: failing appends, crashes included
          BusCap,      \* capacity of a bus channel (128)
          PatchCap     \* capacity of a patch channel (128)

ASSUME LogConstants ==
  /\ MaxSeq \in Nat /\ MaxRotate \in Nat /\ MaxConn \in Nat /\ MaxFail \in Nat
  /\ BusCap \in Nat \ {0} /\ PatchCap \in Nat \ {0}

VARIABLES
  seq,       \* Bus.seq
  pub,       \* publisher -> where it is in publish
  subs,      \* bus channels <<client, connection>> that are registered
  rawLen,    \* client -> events in its current bus channel
  shut,      \* bus channels that publish has closed
  tape,      \* the generations of the session's log: the lines that were written
             \* whole, with their end
  torn,      \* <<g, k>>: half a line stands behind the first k lines of generation g
  size,      \* Writers.sizes: the size the writers believe the last one has
  journal,   \* the records of the retained chat journal
  chat,      \* the journal's file: "none", "whole" or "torn" (half a last line)
  gone,      \* generations that log retention has deleted
  boot,      \* the process: "up", "down", "killed" in an append, "restored", "refused"
  store,     \* Store.states of the session, with initialized
  source,    \* Store.sources: the last durable cursor the store heard of
  stale,     \* Store.stale
  client,    \* browser -> its connection and its copy of the session
  disorder,  \* the store was given two records in the other order, or a cut that a
             \* reset has overtaken
  partial,   \* an append failed after its record was in the file
  fails,     \* number of failing appends
  panicked   \* a send on a closed channel

vars == <<seq, pub, subs, rawLen, shut, tape, torn, size, journal, chat, gone,
          boot, store, source, stale, client, disorder, partial, fails, panicked>>
busVars   == <<subs, rawLen, shut>>
fileVars  == <<tape, torn, size, journal, chat, gone, boot>>
keptVars  == <<torn, gone, boot>>
storeVars == <<store, source, stale>>
faultVars == <<disorder, partial, fails, panicked>>

NoCursor == <<0, 0>>
Away == [pc |-> "off", conn |-> 0, cut |-> NoCursor, closed |-> FALSE, queue |-> <<>>,
         cur |-> NoCursor, recs |-> <<>>, fetch |-> "none", gotCur |-> NoCursor,
         gotRecs |-> <<>>]
Idle == [pc |-> "idle", first |-> FALSE]
RecordLen(n) == 2 + (n % 2)

----------------------------------------------------------------------------
(* Log files and their projection.                                         *)

LastEnd(g) == IF tape[g] = <<>> THEN 0 ELSE Last(tape[g]).end
\* SessionCursors.
Cursor == <<Len(tape), size>>

\* ReadFile: the records up to a byte offset, 0 for the whole file.
Prefix(g, off) == SubSeq(tape[g], 1, Max({0} \cup {i \in 1..Len(tape[g]) : tape[g][i].end <= off}))
Upto(g, off) == IF off = 0 THEN tape[g] ELSE Prefix(g, off)
\* A line that continues half a line is no JSON, and nobody reads past it.
Torn(g) == \E t \in torn : t[1] = g
Behind(g, i) == \E t \in torn : t[1] = g /\ t[2] < i
Boundary(g, off) ==
  \/ off = 0 /\ ~Torn(g)
  \/ \E i \in 1..Len(tape[g]) : tape[g][i].end = off /\ ~Behind(g, i)
\* predecessorCursor: only the first record of a generation can name one.
Pred(g) == IF tape[g] = <<>> \/ tape[g][1].pred[2] = 0 THEN NoCursor ELSE tape[g][1].pred
Records(rs) == [i \in 1..Len(rs) |-> rs[i].n]

\* ProjectFile of every generation, each after its predecessor.
Carried ==
  LET f[g \in 0..Len(tape)] ==
        IF g = 0 \/ Pred(g) = NoCursor THEN [ok |-> TRUE, recs |-> <<>>]
        ELSE LET p == Pred(g) IN
             [ok |-> f[p[1]].ok /\ Boundary(p[1], p[2]) /\ p[1] \notin gone,
              recs |-> f[p[1]].recs \o Records(Upto(p[1], p[2]))]
  IN f

ProjectFile(c) ==
  LET rs == Upto(c[1], c[2])
  IN [ok   |-> Carried[c[1]].ok /\ Boundary(c[1], c[2]) /\ c[1] \notin gone,
      cur  |-> <<c[1], IF rs = <<>> THEN c[2] ELSE Last(rs).end>>,
      recs |-> Carried[c[1]].recs \o Records(rs)]

----------------------------------------------------------------------------
(* The store.                                                              *)

Listening == {c \in Clients : client[c].pc = "on" /\ ~client[c].closed}

\* broadcastLocked: a full channel is closed, no patch is dropped.
Broadcast(patch) ==
  client' = [c \in Clients |->
    IF c \notin Listening THEN client[c]
    ELSE IF Len(client[c].queue) < PatchCap
    THEN [client[c] EXCEPT !.queue = Append(@, patch)]
    ELSE [client[c] EXCEPT !.closed = TRUE]]

\* Bug: an older record is folded after a newer one.
AppliesAnyway(cur) == store.cur # cur
\* A record the state already has is skipped.
Applies(cur) == ~(store.cur[1] = cur[1] /\ store.cur[2] >= cur[2])

\* Store.Apply.
Apply(n, cur) ==
  LET starts == ~store.init /\ Listening # {} /\ n = 1  \* session.created
      base   == IF starts THEN [init |-> TRUE, cur |-> NoCursor, recs |-> <<>>] ELSE store
  IN
  /\ source' = cur
  /\ IF base.init /\ (starts \/ Applies(cur))
     THEN /\ store' = [init |-> TRUE, cur |-> cur, recs |-> Append(base.recs, n)]
          /\ stale' = FALSE
          /\ Broadcast([prev |-> base.cur, cur |-> cur, n |-> n])
     ELSE UNCHANGED <<store, stale, client>>

\* Store.MarkStale.
MarkStale ==
  /\ stale' = TRUE
  /\ client' = [c \in Clients |-> IF c \in Listening
                                  THEN [client[c] EXCEPT !.closed = TRUE] ELSE client[c]]
  /\ UNCHANGED <<store, source>>

\* snapshotLocked takes the captured cut only if it is ahead of the store's.
SourceAfter(cut) ==
  IF source[1] # cut[1] \/ source[2] < cut[2] THEN cut ELSE source

\* The live state is served if it stands exactly at the cut.
Fresh(src) == store.init /\ store.cur = src

\* The state snapshotLocked serves, and leaves in the store.
Served(cut) ==
  LET src == SourceAfter(cut)
      p   == ProjectFile(src)
  IN IF Fresh(src) THEN [ok |-> TRUE, cur |-> store.cur, recs |-> store.recs] ELSE p
\* The cut is of an older generation than the store's, or the new one is still
\* without its session.reset and names no predecessor.
Overtaken(cut) == \/ cut[1] < source[1]
                  \/ cut[1] > 1 /\ tape[cut[1]] = <<>>
SnapshotLocked(cut) ==
  /\ disorder' = (disorder \/ Overtaken(cut))
  /\ source' = SourceAfter(cut)
  /\ store' = IF Served(cut).ok
              THEN [init |-> TRUE, cur |-> Served(cut).cur, recs |-> Served(cut).recs]
              ELSE store

----------------------------------------------------------------------------
(* Publishing.                                                             *)

\* Registry.Create and Restore publish session.created before they unlock the
\* registry, so nobody else has the session before that.
Exists == seq > 0 /\ \A p \in Publishers : ~pub[p].first

\* publish under the bus's lock.
Publish(p) ==
  /\ pub[p].pc = "idle" /\ seq < MaxSeq
  /\ seq > 0 => Exists
  /\ seq' = seq + 1
  /\ pub' = [pub EXCEPT ![p] = [pc |-> "write", n |-> seq + 1, lost |-> FALSE,
                                first |-> seq = 0, to |-> subs, cur |-> NoCursor,
                                pred |-> NoCursor]]
  /\ UNCHANGED <<busVars, fileVars, storeVars, client, faultVars>>

\* Registry.Reset: a new generation, then session.reset with the old one's end.
Rotate(p) ==
  /\ pub[p].pc = "idle" /\ Exists /\ seq < MaxSeq
  /\ Len(tape) <= MaxRotate
  /\ pub' = [pub EXCEPT ![p] = [pc |-> "rotated", first |-> FALSE, to |-> {}, pred |-> Cursor]]
  /\ tape' = Append(tape, <<>>)
  /\ size' = 0
  /\ UNCHANGED <<seq, busVars, journal, chat, keptVars, storeVars, client, faultVars>>

PublishReset(p) ==
  /\ pub[p].pc = "rotated"
  /\ seq' = seq + 1
  /\ pub' = [pub EXCEPT ![p] = [pc |-> "write", n |-> seq + 1, lost |-> FALSE,
                                first |-> FALSE, to |-> subs, cur |-> NoCursor,
                                pred |-> pub[p].pred]]
  /\ UNCHANGED <<busVars, fileVars, storeVars, client, faultVars>>

Record(p) == [n |-> pub[p].n, pred |-> pub[p].pred,
              end |-> LastEnd(Len(tape)) + RecordLen(pub[p].n)]
OnTape(p) == tape' = [tape EXCEPT ![Len(tape)] = Append(@, Record(p))]
\* The tape's line alone: behind half a line it is a record in neither file.
OnTapeOnly(p) == IF Torn(Len(tape)) THEN UNCHANGED tape ELSE OnTape(p)
\* Half of the tape's line.
TearTape == torn' = torn \cup {<<Len(tape), Len(tape[Len(tape)])>>}

\* Bug: the line is written without its newline.
OpenedTorn == "torn"
\* durableChatLocked: the journal's file exists before either write.
Opened == IF chat = "none" THEN "whole" ELSE chat
OnJournal(p) == journal' = Append(journal, pub[p].n)
FailsWith(p, outcomes) ==
  /\ pub[p].pc = "write" /\ fails < MaxFail
  /\ pub' = [pub EXCEPT ![p].pc = "failed"]
  /\ fails' = fails + 1
  /\ chat' \in outcomes
Fails(p) == FailsWith(p, {Opened})

\* Bug: the journal is written before the tape.
AppendTapeFailsLate(p) ==
  /\ Fails(p) /\ OnJournal(p)
  /\ UNCHANGED <<seq, busVars, tape, size, keptVars, storeVars, client, disorder, partial,
                 panicked>>

\* WriteRecord: neither file has the record.  The journal could not be opened,
\* the tape has nothing of the line, or half of it, which the next append continues.
AppendTapeFails(p) ==
  /\ \/ FailsWith(p, {chat, Opened}) /\ UNCHANGED torn
     \/ Fails(p) /\ TearTape
  /\ UNCHANGED <<seq, busVars, tape, size, journal, gone, boot, storeVars, client, disorder,
                 partial, panicked>>

\* WriteRecord: the tape has the record and the journal has not, or half of it.
\* The believed size does not move.
AppendJournalFails(p) ==
  /\ FailsWith(p, {Opened, "torn"}) /\ OnTapeOnly(p)
  /\ partial' = TRUE
  /\ UNCHANGED <<seq, busVars, size, journal, keptVars, storeVars, client, disorder, panicked>>

\* WriteRecord of a record that is synced, run.stopped (any but the first): both
\* files have it, the sync fails.
AppendSyncFails(p) ==
  /\ pub[p].pc = "write" /\ ~pub[p].first
  /\ Fails(p) /\ OnTape(p) /\ OnJournal(p)
  /\ size' = size + RecordLen(pub[p].n)
  /\ partial' = TRUE
  /\ UNCHANGED <<seq, busVars, keptVars, storeVars, client, disorder, panicked>>


Appended(p) ==
  /\ pub[p].pc = "write"
  /\ OnTape(p) /\ OnJournal(p)
  /\ size' = size + RecordLen(pub[p].n)
  /\ chat' = Opened
  /\ pub' = [pub EXCEPT ![p].pc = "apply",
                        ![p].cur = <<Len(tape), size + RecordLen(pub[p].n)>>]
  /\ UNCHANGED <<seq, busVars, keptVars, storeVars, client, faultVars>>

\* publish returns when nothing is left to send.
Rest(r) == IF r.to = {} /\ ~r.lost THEN Idle ELSE r

\* Apply runs outside the writers' lock: a later record can overtake, and a
\* record of the old generation can come after a re-read of the new one.
OutOfOrder(p) ==
  \/ pub[p].cur[1] < store.cur[1]
  \/ \E q \in Publishers : /\ pub[q].pc = "apply"
                           /\ \/ pub[q].cur[1] < pub[p].cur[1]
                              \/ pub[q].cur[1] = pub[p].cur[1] /\ pub[q].cur[2] < pub[p].cur[2]
\* afterAppend.
Notify(p) ==
  /\ pub[p].pc = "apply"
  /\ Apply(pub[p].n, pub[p].cur)
  /\ disorder' = (disorder \/ OutOfOrder(p))
  /\ pub' = [pub EXCEPT ![p] = Rest([@ EXCEPT !.pc = "send", !.cur = NoCursor,
                                              !.pred = NoCursor])]
  /\ UNCHANGED <<seq, busVars, fileVars, partial, fails, panicked>>

\* Bug: the projection is updated although the append failed.
NotifyFailedApplies(p) ==
  /\ pub[p].pc = "failed"
  /\ Apply(pub[p].n, <<Len(tape), size + 1>>)
  /\ pub' = [pub EXCEPT ![p].pc = "send", ![p].lost = TRUE]
  /\ UNCHANGED <<seq, busVars, fileVars, faultVars>>

\* appendError; the event is then sent, and an error event after it.
NotifyFailed(p) ==
  /\ pub[p].pc = "failed"
  /\ MarkStale
  /\ pub' = [pub EXCEPT ![p].pc = "send", ![p].lost = TRUE]
  /\ UNCHANGED <<seq, busVars, fileVars, faultVars>>

Current(ch) == ch[2] = client[ch[1]].conn

\* One round of the send loop, for one captured channel.
Send(p, ch) ==
  /\ pub[p].pc = "send" /\ ch \in pub[p].to
  /\ pub' = [pub EXCEPT ![p] = Rest([pub[p] EXCEPT !.to = @ \ {ch}])]
  /\ \/ /\ ch \in shut
        /\ panicked' = TRUE
        /\ UNCHANGED busVars
     \/ /\ ch \notin shut /\ Current(ch) /\ rawLen[ch[1]] = BusCap
        /\ subs' = subs \ {ch}
        /\ shut' = IF ch \in subs THEN shut \cup {ch} ELSE shut
        /\ UNCHANGED <<rawLen, panicked>>
     \/ /\ ch \notin shut /\ Current(ch) /\ rawLen[ch[1]] < BusCap
        /\ rawLen' = [rawLen EXCEPT ![ch[1]] = @ + 1]
        /\ UNCHANGED <<subs, shut, panicked>>
     \/ /\ ch \notin shut /\ ~Current(ch)
        /\ UNCHANGED <<busVars, panicked>>
  /\ UNCHANGED <<seq, fileVars, storeVars, client, disorder, partial, fails>>

\* A lost event is followed by an error event that is not written to the log.
PublishError(p) ==
  /\ pub[p].pc = "send" /\ pub[p].to = {} /\ pub[p].lost
  /\ pub' = [pub EXCEPT ![p] = Rest([@ EXCEPT !.lost = FALSE, !.to = subs])]
  /\ UNCHANGED <<seq, busVars, fileVars, storeVars, client, faultVars>>

----------------------------------------------------------------------------
(* Browsers.                                                               *)

\* projectionSSE: the bus channel, and the cut.
Connect(c) ==
  LET n == client[c].conn + 1 IN
  /\ client[c].pc = "off" /\ n <= MaxConn
  /\ subs' = subs \cup {<<c, n>>}
  /\ rawLen' = [rawLen EXCEPT ![c] = 0]
  /\ client' = [client EXCEPT ![c] = [@ EXCEPT !.pc = "cut", !.conn = n, !.cut = Cursor]]
  /\ UNCHANGED <<seq, pub, shut, fileVars, storeVars, faultVars>>

\* SubscribeSnapshot; an unreadable log ends the connection.
SubscribeSnapshot(c) ==
  LET v == Served(client[c].cut) IN
  /\ client[c].pc = "cut"
  /\ SnapshotLocked(client[c].cut)
  /\ \/ /\ v.ok
        /\ client' = [client EXCEPT ![c] =
             [@ EXCEPT !.pc = "on", !.closed = FALSE, !.queue = <<>>,
                       !.cur = v.cur, !.recs = v.recs, !.cut = NoCursor]]
        /\ UNCHANGED subs
     \/ /\ ~v.ok
        /\ client' = [client EXCEPT ![c].pc = "off", ![c].cut = NoCursor]
        /\ subs' = subs \ {<<c, client[c].conn>>}
  /\ UNCHANGED <<seq, pub, rawLen, shut, fileVars, stale, partial, fails, panicked>>

\* Bug: a patch is applied whatever it continues.
FitsAlways(c, patch) == TRUE
Fits(c, patch) == client[c].cur = patch.prev

\* applyProjectionPatch: a patch that does not continue the copy asks for a
\* fresh snapshot, unless one is on its way.
TakePatch(c) ==
  LET patch == Head(client[c].queue) IN
  /\ client[c].pc = "on" /\ client[c].queue # <<>>
  /\ client' = [client EXCEPT ![c] =
       IF Fits(c, patch)
       THEN [client[c] EXCEPT !.queue = Tail(@), !.cur = patch.cur, !.recs = Append(@, patch.n)]
       ELSE IF client[c].fetch = "none"
       THEN [client[c] EXCEPT !.queue = Tail(@), !.fetch = "asked"]
       ELSE [client[c] EXCEPT !.queue = Tail(@)]]
  /\ UNCHANGED <<seq, pub, busVars, fileVars, storeVars, faultVars>>

\* Any other handler that answers with the state of the sessions.
Snapshot ==
  /\ seq > 0
  /\ SnapshotLocked(Cursor)
  /\ UNCHANGED <<seq, pub, busVars, fileVars, stale, client, partial, fails, panicked>>

\* GET /api/state on the server.  The gap between the cut and the store's lock
\* is the one of Connect and SubscribeSnapshot.
ServeState(c) ==
  LET v == Served(Cursor) IN
  /\ client[c].fetch = "asked"
  /\ SnapshotLocked(Cursor)
  /\ client' = [client EXCEPT ![c] =
       IF v.ok THEN [@ EXCEPT !.fetch = "answered", !.gotCur = v.cur, !.gotRecs = v.recs]
               ELSE [@ EXCEPT !.fetch = "none"]]
  /\ UNCHANGED <<seq, pub, busVars, fileVars, stale, partial, fails, panicked>>

TakeState(c) ==
  /\ client[c].fetch = "answered"
  /\ client' = [client EXCEPT ![c] =
       [@ EXCEPT !.fetch = "none", !.cur = client[c].gotCur, !.recs = client[c].gotRecs,
                 !.gotCur = NoCursor, !.gotRecs = <<>>]]
  /\ UNCHANGED <<seq, pub, busVars, fileVars, storeVars, faultVars>>

TakeRaw(c) ==
  /\ client[c].pc = "on" /\ rawLen[c] > 0
  /\ rawLen' = [rawLen EXCEPT ![c] = @ - 1]
  /\ UNCHANGED <<seq, pub, subs, shut, fileVars, storeVars, client, faultVars>>

\* The handler returns when a channel is closed and drained.
Ended(c) == \/ client[c].closed /\ client[c].queue = <<>>
            \/ <<c, client[c].conn>> \in shut /\ rawLen[c] = 0
Hangup(c) ==
  /\ client[c].pc = "on" /\ Ended(c)
  /\ subs' = subs \ {<<c, client[c].conn>>}
  /\ client' = [client EXCEPT ![c] = [@ EXCEPT !.pc = "off", !.queue = <<>>]]
  /\ UNCHANGED <<seq, pub, rawLen, shut, fileVars, storeVars, faultVars>>

----------------------------------------------------------------------------

(* Log retention, and the death of the process.                            *)

\* ApplyRetention: old files of the log directory, whatever still needs them.
\* The file that is written to is never old.
ApplyRetention(g) ==
  /\ g < Len(tape) /\ g \notin gone
  /\ gone' = gone \cup {g}
  /\ UNCHANGED <<seq, pub, busVars, tape, torn, size, journal, chat, boot, storeVars,
                 client, faultVars>>

\* The process dies and keeps what reached the files: of an append in progress
\* nothing, the journal's empty file, half of the tape's line or all of it, or half a
\* line in the journal too.  Pages keep what they show.
Crash ==
  /\ fails < MaxFail /\ seq > 0
  /\ fails' = fails + 1
  /\ \/ boot' = "down" /\ UNCHANGED <<tape, torn, chat>>
     \/ \E p \in Publishers :
          /\ pub[p].pc = "write"
          /\ boot' = "killed"
          /\ \/ chat' = Opened /\ UNCHANGED <<tape, torn>>
             \/ chat' = Opened /\ TearTape /\ UNCHANGED tape
             \/ chat' \in {Opened, "torn"} /\ OnTapeOnly(p) /\ UNCHANGED torn
  /\ pub' = [p \in Publishers |-> Idle]
  /\ subs' = {} /\ shut' = {} /\ rawLen' = [c \in Clients |-> 0]
  /\ size' = 0
  /\ store' = [init |-> FALSE, cur |-> NoCursor, recs |-> <<>>]
  /\ source' = NoCursor /\ stale' = FALSE
  /\ client' = [c \in Clients |-> [Away EXCEPT !.recs = client[c].recs]]
  /\ UNCHANGED <<seq, journal, gone, disorder, partial, panicked>>

\* LoadReplay refuses an empty journal and a broken line.
LoadReplayOK == chat = "none" \/ (chat = "whole" /\ journal # <<>>)

\* restoreRetainedChats: the chat is the fold of its journal, and the process
\* does not start on a journal that cannot be read.  Without journals it falls
\* back on the newest tape.
Restart ==
  /\ boot \in {"down", "killed"}
  /\ boot' = IF LoadReplayOK THEN "restored" ELSE "refused"
  /\ store' = IF ~LoadReplayOK THEN [init |-> FALSE, cur |-> NoCursor, recs |-> <<>>]
              ELSE [init |-> TRUE, cur |-> NoCursor,
                    recs |-> IF chat = "none" THEN Records(Last(tape)) ELSE journal]
  /\ UNCHANGED <<seq, pub, busVars, tape, torn, size, journal, chat, gone, source, stale,
                 client, faultVars>>

----------------------------------------------------------------------------

Init ==
  /\ seq = 0
  /\ pub = [p \in Publishers |-> Idle]
  /\ subs = {} /\ shut = {}
  /\ rawLen = [c \in Clients |-> 0]
  /\ tape = << <<>> >> /\ torn = {} /\ size = 0 /\ journal = <<>>
  /\ chat = "none" /\ gone = {} /\ boot = "up"
  /\ store = [init |-> FALSE, cur |-> NoCursor, recs |-> <<>>]
  /\ source = NoCursor /\ stale = FALSE
  /\ client = [c \in Clients |-> Away]
  /\ disorder = FALSE /\ partial = FALSE /\ fails = 0 /\ panicked = FALSE

\* The rest of a publish once its event has a number.
PublishStep(p) ==
  \/ AppendTapeFails(p) \/ AppendJournalFails(p) \/ AppendSyncFails(p) \/ Appended(p)
  \/ PublishReset(p) \/ Notify(p) \/ NotifyFailed(p) \/ PublishError(p)
  \/ \E ch \in pub[p].to : Send(p, ch)
PublisherStep(p) ==
  \/ Publish(p)
  \/ Rotate(p)
ClientStep(c) ==
  \/ SubscribeSnapshot(c) \/ TakePatch(c) \/ ServeState(c) \/ TakeState(c)
  \/ TakeRaw(c) \/ Hangup(c)

Next ==
  \/ /\ boot = "up" /\ ~panicked
     /\ \/ \E p \in Publishers : PublisherStep(p) \/ (pub[p].pc # "idle" /\ PublishStep(p))
        \/ \E c \in Clients : Connect(c) \/ ClientStep(c)
        \/ \E g \in 1..Len(tape) : ApplyRetention(g)
        \/ Snapshot
        \/ Crash
  \/ Restart

Spec == Init /\ [][Next]_vars

----------------------------------------------------------------------------
(* Properties.                                                             *)

\* Every generation that has records continues the last one that has: no event was
\* published between RotateSession and the session.reset of Reset, and no reset followed
\* one whose session.reset is not in the log, which names a predecessor without records
\* and so none (predecessorCursor).
Anchored ==
  \A g \in 1..Len(tape) :
    tape[g] # <<>> => Pred(g) # NoCursor \/ \A h \in 1..g - 1 : tape[h] = <<>>
Kept == gone = {}
\* The records a reader of the files finds up to a cursor.
Through(c) == Carried[c[1]].recs \o
              (IF c[1] = 0 THEN <<>>
               ELSE Records(Prefix(c[1], c[2])))
Orderly == ~disorder /\ ~partial /\ torn = {} /\ Anchored /\ Kept /\ boot = "up"

\* The live projection is the fold of the log: whenever the store holds a state,
\* it is what the files hold up to the state's cursor, so
\* incremental Apply and a re-read of the file agree (store.go Apply and
\* snapshotLocked, file.go ProjectFile).  Holds as long as Apply is called in
\* log order, no append failed half way or left half a line, every generation names the
\* one it continues and no predecessor file was deleted.
LiveIsReplay ==
  Orderly /\ store.init => store.recs = Through(store.cur)

\* A browser's copy is the fold of the log through the cursor it shows: the
\* snapshot, the patches after it and a resync never mix two histories
\* (server_state.go projectionSSE, web/js/bus.js applyProjectionPatch).
BrowserIsReplay ==
  Orderly => \A c \in Clients : client[c].pc = "on" => client[c].recs = Through(client[c].cur)

\* What any browser has ever shown survives a restart: it is in the journal from
\* which restoreRetainedChats rebuilds the chat, and it is in the rebuilt chat
\* (bus.go publish: afterAppend only after durableSink; jsonl.go WriteRecord).
ShownSurvives ==
  ~partial =>
    \A c \in Clients :
      /\ Range(client[c].recs) \subseteq Range(journal)
      /\ boot = "restored" => Range(client[c].recs) \subseteq Range(store.recs)

\* The records of the tapes, and which comes first in them.
Logged == {r.n : r \in UNION {Range(tape[g]) : g \in 1..Len(tape)}}
Before(a, b) ==
  \E g, h \in 1..Len(tape) : \E i \in 1..Len(tape[g]), j \in 1..Len(tape[h]) :
    /\ tape[g][i].n = a /\ tape[h][j].n = b
    /\ g < h \/ (g = h /\ i < j)

\* The retained journal is the tapes in order, whatever failed: it never has a
\* record that was not written whole to a tape before, nor another order, and a
\* complete log has no gap (WriteRecord writes the tape first and both under the
\* writers' lock).  The lines of a tape behind half a line are lost to its readers
\* (projection/file.go read): those records are in the journal.
JournalIsTape ==
  /\ Range(journal) \subseteq Logged
  /\ \A k, m \in 1..Len(journal) : k < m => Before(journal[k], journal[m])
  /\ fails = 0 => Logged \subseteq Range(journal)
  /\ \A g \in 1..Len(tape) : \A i \in 1..Len(tape[g]) :
       Behind(g, i) => tape[g][i].n \in Range(journal)

\* A process that died between two appends starts again: its journal can be
\* read (main.go log.Fatal on the error of restoreRetainedChats; replay.go
\* LoadReplay).  An append that failed half way, and a chat whose first record
\* never reached its journal, do refuse the next start.
StartsAgain == boot = "down" /\ ~partial /\ journal # <<>> => LoadReplayOK

\* The detailed event path implements Feed: its log is the generations of the
\* tape, its browsers show the records folded into their copies.  Whatever
\* fails, is reordered or is re-read, a browser only ever shows durable records:
\* written whole to the tape, and behind half a line of it to the journal as well
\* (JournalIsTape).
Feed == INSTANCE Feed WITH Viewers <- Clients,
                           log <- [g \in 1..Len(tape) |-> Records(tape[g])],
                           view <- [c \in Clients |-> Range(client[c].recs)]
FeedSpec == Feed!FeedSpec
=============================================================================
