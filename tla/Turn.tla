-------------------------------- MODULE Turn --------------------------------
(***************************************************************************)
(* The runs of one session and its transcript: the turn loop               *)
(* (internal/agent/run.go), compaction (internal/context/compact.go,       *)
(* agent/compaction_summary.go), the repair of a malformed call            *)
(* (agent/truncation.go), the run guards (agent/guards.go), the abort      *)
(* records (agent/abort.go) and the projection of the events they publish. *)
(*                                                                         *)
(* The transcript has several writers: the goroutine of a run, the one of  *)
(* a stopped run that did not yield, the scheduler when it starts a run,   *)
(* Stop when the bound is exceeded, and the operator who accepts a plan    *)
(* proposal.  None of them holds a lock over a change and its event, and   *)
(* compaction reads the transcript, works on a copy and puts it back.      *)
(*                                                                         *)
(* A message costs `size' tokens, 1 once it is elided.  A call is a kind   *)
(* of tool; calls of kind "bad" have arguments that cannot be decoded.     *)
(***************************************************************************)
EXTENDS Projector, FiniteSetsExt

CONSTANTS
  MaxTurns,      \* run.max_turns
  MaxToolCalls,  \* run.max_tool_calls
  CycleWindow,   \* run.cycle_window
  MaxErrors,     \* run.max_consecutive_tool_errors
  SummaryTail,   \* messages a summary keeps (6)
  ResultTail,    \* tool results elision keeps (4)
  FitMax,        \* largest prompt that leaves the output floor
  ReserveMax,    \* largest prompt that leaves the output reserve
  SummaryAt,     \* prompt size at which compaction elides and summarises
  Target,        \* prompt size elision aims at (60% of the ceiling)
  SummarySizes,  \* sizes a summary may have
  Batches,       \* answers of the model that call tools: kinds, and whether prose is empty
  Budgets        \* bounds: how often the environment does what, one record per scenario

ASSUME TurnConstants ==
  /\ {MaxTurns, MaxToolCalls, CycleWindow, MaxErrors, SummaryTail, ResultTail,
      FitMax, ReserveMax, SummaryAt, Target} \subseteq Nat
  /\ MaxTurns # 0  \* config.Validate
  /\ SummarySizes \subseteq Nat
  /\ Batches \subseteq [kinds : Seq(STRING) \ {<<>>}, empty : BOOLEAN]
  /\ Budgets \subseteq [runs : Nat, stops : Nat, batches : Nat, notes : Nat, faults : Nat,
                        settles : Nat, restarts : Nat]

VARIABLES
  msgs,      \* Session.Messages
  proj,      \* the projected snapshot
  w,         \* writer -> what it still has to publish and put back
  run,       \* run -> its goroutine
  active,    \* the run that has the session's slot, NoRun if none
  started,   \* number of runs started
  flight,    \* flightBook.active of the session
  recorded,  \* flightBook.recorded
  aborts,    \* the abort records written
  stopper,   \* run -> the Stop that waits for it
  ids,       \* Runner.ids, for messages
  calls,     \* number of calls the model server has named
  limits,    \* what is left of the scenario's budget
  raced,     \* two writers of the transcript were at work together
  late,      \* runs without a record whose flight ended or was taken before Stop wrote it
  forced,    \* runs that lost the slot before they returned
  crash      \* "none", or a restart: "clean", or "cut" if ids used again may unpair calls

vars == <<msgs, proj, w, run, active, started, flight, recorded, aborts, stopper, ids, calls,
          limits, raced, late, forced, crash>>
ghosts == <<late, forced, crash>>

Runs == 1..Max({b.runs : b \in Budgets})
Goroutine(r) == <<"run", r>>
Sched == <<"sched", 0>>
Stopping(r) == <<"stop", r>>
Operator == <<"operator", 0>>
Writers == {Goroutine(r) : r \in Runs} \cup {Stopping(r) : r \in Runs} \cup {Sched, Operator}

NoFlight == [run |-> NoRun, stage |-> "", paths |-> {}, complete |-> TRUE, streamed |-> {}]
Quiet == [pre |-> <<>>, app |-> <<>>, repl |-> <<>>, post |-> <<>>]
Asleep == [pc |-> "idle", turn |-> 0, kinds |-> <<>>, empty |-> FALSE, ok |-> <<>>,
           named |-> <<>>, used |-> 0, retry |-> FALSE,
           repaired |-> FALSE, recent |-> <<>>, errors |-> 0, at |-> 0,
           cancel |-> FALSE, wall |-> FALSE, reason |-> "", changed |-> FALSE]

\* Bug: the context has no deadline.
CanceledByStop(r) == run[r].cancel
\* The context a stopped or timed-out run sees: ctx.Err() # nil.
Canceled(r) == run[r].cancel \/ run[r].wall
Tokens(m) == IF m.elided THEN 1 ELSE m.size
Used(ms) == MapThenSumSet(LAMBDA i : Tokens(ms[i]), 1..Len(ms))

Message(id, role, turn) ==
  [id |-> id, role |-> role, cat |-> "history", turn |-> turn, calls |-> {}, of |-> 0,
   kind |-> "", ok |-> TRUE, bad |-> FALSE, empty |-> FALSE, size |-> 2, elided |-> FALSE,
   src |-> {}]

----------------------------------------------------------------------------
(* Writing the transcript.                                                 *)

Busy(a) == w[a] # Quiet
Appended(m) == [t |-> "appended", run |-> NoRun, message |-> m]

\* A writer begins: pre is published first, then app is appended or repl put back, then
\* post is published.
Write(a, pre, app, repl, post) ==
  /\ w' = [w EXCEPT ![a] = [pre |-> pre, app |-> app, repl |-> repl, post |-> post]]
  /\ raced' = (raced \/ \E b \in Writers \ {a} : Busy(b))
\* Session.Append and the event: the message is in the transcript at once.
WriteMessage(a, m) ==
  /\ msgs' = Append(msgs, m)
  /\ Write(a, <<Appended(m)>>, <<>>, <<>>, <<>>)

\* Bus.Publish of the next event of a writer.
Publish(a) ==
  /\ w[a].pre # <<>>
  /\ proj' = NextSnapshot(proj, Head(w[a].pre))
  /\ w' = [w EXCEPT ![a].pre = Tail(@)]
  /\ UNCHANGED <<msgs, run, active, started, flight, recorded, aborts, stopper, ids, calls,
                 limits, raced, ghosts>>

\* Session.Append or Session.ReplaceMessages.
Install(a) ==
  /\ w[a].pre = <<>> /\ (w[a].app # <<>> \/ w[a].repl # <<>>)
  /\ msgs' = IF w[a].repl # <<>> THEN w[a].repl[1] ELSE msgs \o w[a].app
  /\ w' = [w EXCEPT ![a] = [Quiet EXCEPT !.pre = w[a].post]]
  /\ UNCHANGED <<proj, run, active, started, flight, recorded, aborts, stopper, ids, calls,
                 limits, raced, ghosts>>

----------------------------------------------------------------------------
(* Compaction.                                                             *)

Elided(ms, is) == [i \in 1..Len(ms) |-> IF i \in is THEN [ms[i] EXCEPT !.elided = TRUE] ELSE ms[i]]
Updates(ms, is, patch) ==
  LET at == KeepIn([i \in 1..Len(ms) |-> i], is)
  IN [k \in 1..Len(at) |-> [t |-> "updated", run |-> NoRun, id |-> ms[at[k]].id, patch |-> patch]]
Compacted(kind, dropped) == [t |-> "compaction", run |-> NoRun, kind |-> kind, ids |-> dropped]

\* callFor: the call of a result is known as long as its answer is in the transcript.
CallFor(ms, c) == \E i \in 1..Len(ms) : c \in ms[i].calls

\* Supersede: a newer successful read of this turn makes the older ones redundant.
Superseded(ms, turn) ==
  LET read(i) == ms[i].role = "tool" /\ ms[i].kind = "read" /\ ms[i].ok /\ ~ms[i].elided
                 /\ CallFor(ms, ms[i].of)
  IN {i \in 1..Len(ms) : read(i) /\ \E j \in i+1..Len(ms) : read(j) /\ ms[j].turn = turn}

\* ElideOld: successful results, oldest first, until the prompt is down to the target; the
\* last ones stay.
Elidable(ms) ==
  LET open == {i \in 1..Len(ms) : ms[i].role = "tool" /\ ~ms[i].elided}
  IN {i \in open : ms[i].ok /\ Cardinality({j \in open : j > i}) >= ResultTail}
ElidedOld(ms) ==
  {i \in Elidable(ms) :
     Used(ms) - MapThenSumSet(LAMBDA j : ms[j].size - 1, {j \in Elidable(ms) : j < i}) > Target}

\* Summarize keeps the first message and the last ones.
Dropped(ms) == {ms[i].id : i \in 2..(Len(ms) - SummaryTail)}
Summarized(ms, summary) ==
  <<ms[1], summary>> \o SubSeq(ms, Len(ms) - SummaryTail + 1, Len(ms))

\* The run's goroutine elides the messages is, and publishes each before it puts the copy back.
Elide(r, is) ==
  /\ Write(Goroutine(r), Updates(msgs, is, "elided"), <<>>, <<Elided(msgs, is)>>,
           <<Compacted("elide", {})>>)
  /\ UNCHANGED msgs

\* repairMalformedToolCall: the last answer with arguments that cannot be decoded loses its
\* calls, or goes if it has no prose; the results of its calls go.
Malformed == Max({0} \cup {i \in 1..Len(msgs) : msgs[i].bad /\ msgs[i].calls # {}})
Repair(r) ==
  LET bad  == msgs[Malformed]
      gone == {m \in Range(msgs) : (m = bad /\ m.empty) \/ (m.role = "tool" /\ m.of \in bad.calls)}
      left == [msgs EXCEPT ![Malformed].calls = {}]
      kept == KeepIn(left, {m \in Range(left) : m.id \notin {x.id : x \in gone}})
      seq  == KeepIn(msgs, gone)
  IN
  /\ Write(Goroutine(r), <<>>, <<>>, <<kept>>,
           (IF bad.empty THEN <<>> ELSE Updates(msgs, {Malformed}, "tool_calls"))
           \o [k \in 1..Len(seq) |-> [t |-> "removed", run |-> r, id |-> seq[k].id]]
           \o <<[t |-> "retry", run |-> r]>>)
  /\ UNCHANGED msgs

----------------------------------------------------------------------------
(* Abort records.                                                          *)

\* recordAbort: the first of the run and of Stop writes the record, from what the flight
\* book says of the session.  With no path of its own the record names the paths of the
\* calls the model had streamed.
AbortPaths ==
  IF flight.paths # {} \/ flight.streamed = {} THEN flight.paths
  ELSE {c[1] : c \in {x \in flight.streamed : x[2] = "write"}}
AbortComplete ==
  IF flight.paths # {} \/ flight.streamed = {} THEN flight.complete
  ELSE "shell" \notin {c[2] : c \in flight.streamed}
InFlight(r) == {run[r].named[k] : k \in {x \in {run[r].at} : run[r].pc = "tool" /\ run[r].kinds[x] = "write"}}
AbortOf(r) == [run |-> r, paths |-> AbortPaths, complete |-> AbortComplete, writing |-> InFlight(r)]

\* Bug: nobody looks whether the run has its record.
RecordAbortAgain(r, a) ==
  LET m == Message(ids + 1, "system", run[r].turn)
  IN /\ ids' = ids + 1
     /\ aborts' = Append(aborts, AbortOf(r))
     /\ Write(a, <<[t |-> "aborted", run |-> r]>>, <<m>>, <<>>, <<Appended(m)>>)
     /\ UNCHANGED recorded
RecordAbort(r, a) ==
  LET m == Message(ids + 1, "system", run[r].turn)
  IN IF r \in recorded THEN UNCHANGED <<ids, aborts, w, raced, recorded>>
     ELSE /\ recorded' = recorded \cup {r}
          /\ ids' = ids + 1
          /\ aborts' = Append(aborts, AbortOf(r))
          /\ Write(a, <<[t |-> "aborted", run |-> r]>>, <<m>>, <<>>, <<Appended(m)>>)

\* setFlightStage and setFlightTool: only the run the book knows writes into it, and what
\* the model streamed is forgotten with the next turn.
FlightAt(r, stage, paths, complete) ==
  flight' = IF flight.run = r
            THEN [flight EXCEPT !.stage = stage, !.paths = paths, !.complete = complete,
                                !.streamed = IF stage = "assemble" THEN {} ELSE @]
            ELSE flight

----------------------------------------------------------------------------
(* The turn loop.                                                          *)

\* The goroutine r takes a step: it has nothing left to publish.
At(r, pc) == run[r].pc = pc /\ ~Busy(Goroutine(r))
Goes(r, rec) == run' = [run EXCEPT ![r] = rec]
Returns(r, reason) == Goes(r, [run[r] EXCEPT !.pc = "return", !.reason = reason])
Silent == UNCHANGED <<msgs, w, raced, ids>>
LoopKept == UNCHANGED <<proj, active, started, stopper, calls, limits, ghosts>>
BookKept == UNCHANGED <<flight, recorded, aborts>>
Publishes(r, es) == Write(Goroutine(r), es, <<>>, <<>>, <<>>) /\ UNCHANGED <<msgs, ids>>

\* publishModelUnreachable.
Unreachable(r) ==
  /\ Publishes(r, <<[t |-> "unreach", run |-> r, host |-> "host"]>>)
  /\ Returns(r, "model_unreachable")

\* contextStop: the wall clock ends a run without a record, Stop with one.
ContextStop(r) ==
  /\ Canceled(r)
  /\ \/ /\ run[r].wall
        /\ Returns(r, "wall_clock")
        /\ Silent /\ UNCHANGED <<recorded, aborts>>
     \/ /\ ~run[r].wall
        /\ Returns(r, "aborted")
        /\ RecordAbort(r, Goroutine(r))
        /\ UNCHANGED msgs
  /\ UNCHANGED flight /\ LoopKept

Stops(r) ==
  /\ run[r].pc \in {"top", "call", "cycle"} /\ ~Busy(Goroutine(r))
  /\ ContextStop(r)

\* The loop's head: applyMailboxBoundary, then the next turn is assembled.
Boundary(r) ==
  /\ At(r, "top") /\ ~Canceled(r)
  /\ \/ /\ Goes(r, [run[r] EXCEPT !.pc = "assemble", !.turn = @ + 1, !.kinds = <<>>])
        /\ Silent
        /\ FlightAt(r, "assemble", {}, TRUE)
        /\ UNCHANGED <<proj, active, started, stopper, calls, limits, ghosts, recorded, aborts>>
     \/ /\ limits.notes > 0  \* a revision becomes a user message
        /\ limits' = [limits EXCEPT !.notes = @ - 1]
        /\ Goes(r, [run[r] EXCEPT !.pc = "assemble", !.turn = @ + 1, !.kinds = <<>>])
        /\ ids' = ids + 1
        /\ WriteMessage(Goroutine(r), Message(ids + 1, "user", 0))
        /\ FlightAt(r, "assemble", {}, TRUE)
        /\ UNCHANGED <<proj, active, started, stopper, calls, ghosts, recorded, aborts>>
     \/ /\ limits.notes > 0
        /\ limits' = [limits EXCEPT !.notes = @ - 1]
        /\ Returns(r, "mailbox_stop")
        /\ Silent /\ BookKept
        /\ UNCHANGED <<proj, active, started, stopper, calls, ghosts>>

\* The prompt is measured: a failure is repaired once or ends the run, a prompt that leaves
\* no room is compacted, any other is sent.
Assemble(r) ==
  /\ At(r, "assemble")
  /\ UNCHANGED <<proj, active, started, stopper, calls, late, forced, recorded, aborts, ids>>
  /\ \/ /\ Used(msgs) <= FitMax
        /\ Goes(r, [run[r] EXCEPT !.pc = "call"])
        /\ Publishes(r, <<[t |-> "request", run |-> r, turn |-> run[r].turn]>>)
        /\ FlightAt(r, "call_model", {}, TRUE)
        /\ UNCHANGED <<limits, crash>>
     \/ /\ Used(msgs) > FitMax
        /\ Goes(r, [run[r] EXCEPT !.pc = "fit", !.changed = FALSE])
        /\ Silent /\ UNCHANGED <<flight, limits, crash>>
     \/ /\ limits.faults > 0 /\ ~Canceled(r)
        /\ limits' = [limits EXCEPT !.faults = @ - 1]
        /\ IF Malformed # 0 /\ ~run[r].repaired
           THEN /\ Repair(r)
                /\ Goes(r, [run[r] EXCEPT !.pc = "top", !.turn = @ - 1, !.repaired = TRUE])
                /\ crash' = IF crash = "none" THEN "none" ELSE "cut"
           ELSE /\ \/ Returns(r, "model_error") /\ Silent
                   \/ Unreachable(r)
                /\ UNCHANGED crash
        /\ UNCHANGED flight
     \/ /\ Canceled(r)  \* the measurement fails with the context
        /\ Goes(r, [run[r] EXCEPT !.pc = "top", !.turn = @ - 1])
        /\ Silent /\ UNCHANGED <<flight, limits, crash>>

\* The model's answer, or its failure.
Fails(r) ==
  /\ At(r, "call") /\ limits.faults > 0 /\ ~Canceled(r)
  /\ limits' = [limits EXCEPT !.faults = @ - 1]
  /\ \/ Returns(r, "model_error") /\ Silent
     \/ Unreachable(r) /\ UNCHANGED ids
  /\ BookKept
  /\ UNCHANGED <<proj, active, started, stopper, calls, ghosts>>

Response(r, named) ==
  <<[t |-> "delta", run |-> r, turn |-> run[r].turn],
    [t |-> "response", run |-> r, turn |-> run[r].turn, calls |-> named]>>

\* Prose ends the run; a truncated answer without calls too, and is not kept.
Text(r) ==
  /\ At(r, "call")
  /\ \/ /\ Goes(r, [run[r] EXCEPT !.pc = IF run[r].retry THEN "return" ELSE "answer",
                                 !.reason = IF run[r].retry THEN "length" ELSE "done"])
        /\ UNCHANGED limits
     \/ /\ limits.batches > 0
        /\ limits' = [limits EXCEPT !.batches = @ - 1]
        /\ Returns(r, "length")
  /\ Publishes(r, Response(r, {}))
  /\ BookKept
  /\ UNCHANGED <<proj, active, started, stopper, calls, ghosts>>

\* The user message a plan proposal of this answer would settle with it.
Source(id) ==
  LET us == {i \in 1..Len(msgs) : msgs[i].role = "user" /\ ~msgs[i].elided}
  IN {id} \cup (IF us = {} THEN {} ELSE {msgs[Max(us)].id})

Answer(r) ==
  /\ At(r, "answer")
  /\ Goes(r, [run[r] EXCEPT !.pc = "return"])
  /\ ids' = ids + 1
  /\ WriteMessage(Goroutine(r), [Message(ids + 1, "assistant", run[r].turn)
                                   EXCEPT !.src = Source(ids + 1)])
  /\ FlightAt(r, "append", {}, TRUE)
  /\ LoopKept /\ UNCHANGED <<recorded, aborts>>

\* A call that the output limit cut is asked for once more, in a turn of its own.
Truncated(r) ==
  /\ At(r, "call") /\ limits.batches > 0
  /\ limits' = [limits EXCEPT !.batches = @ - 1]
  /\ IF run[r].retry
     THEN Returns(r, "length") /\ Publishes(r, Response(r, {}))
     ELSE /\ Goes(r, [run[r] EXCEPT !.pc = "top", !.retry = TRUE])
          /\ Publishes(r, Append(Response(r, {}), [t |-> "retry", run |-> r]))
  /\ BookKept
  /\ UNCHANGED <<proj, active, started, stopper, calls, ghosts>>

\* Bug: the calls of the turn are not counted before they run.
OverBudgetNever(r, n) == FALSE
\* The batch would exceed the run's tool calls.
OverBudget(r, n) == run[r].used + n > MaxToolCalls

\* The model calls tools.
Calls(r) ==
  \E b \in Batches :
    LET n == Len(b.kinds)
        named == [k \in 1..n |-> calls + k]
    IN
    /\ At(r, "call") /\ limits.batches > 0
    /\ limits' = [limits EXCEPT !.batches = @ - 1]
    /\ calls' = calls + n
    /\ Publishes(r, Response(r, Range(named)))
    /\ IF OverBudget(r, n)
       THEN Returns(r, "tool_budget")
       ELSE Goes(r, [run[r] EXCEPT !.pc = "dispatch", !.kinds = b.kinds, !.empty = b.empty,
                                   !.named = named, !.ok = <<>>, !.at = 1,
                                   !.retry = FALSE, !.used = @ + n])
    /\ flight' = IF flight.run = r
                 THEN [flight EXCEPT !.streamed = {<<named[k], b.kinds[k]>> : k \in 1..n}]
                 ELSE flight
    /\ UNCHANGED <<proj, active, started, stopper, ghosts, recorded, aborts>>

\* A tool starts: the flight book names what it may write.
ToolStarts(r) ==
  LET k == run[r].at
      kind == run[r].kinds[k]
      call == run[r].named[k]
  IN
  /\ At(r, "dispatch")
  /\ Goes(r, [run[r] EXCEPT !.pc = "tool"])
  /\ Publishes(r, <<[t |-> "call", run |-> r, call |-> call]>>)
  /\ IF kind = "bad" THEN UNCHANGED flight
     ELSE FlightAt(r, "execute", IF kind = "write" THEN {call}
                                 ELSE IF kind = "shell" THEN {0} ELSE {}, kind # "shell")
  /\ LoopKept /\ UNCHANGED <<recorded, aborts>>

\* It returns: a canceled run drops the whole turn, any other keeps the result.
ToolReturns(r) ==
  LET k == run[r].at
  IN
  /\ At(r, "tool")
  /\ \/ ContextStop(r)
     \/ /\ ~Canceled(r)
        /\ \E ok \in BOOLEAN :
             /\ run[r].kinds[k] = "bad" => ~ok
             /\ Goes(r, [run[r] EXCEPT !.ok = Append(@, ok),
                                       !.at = IF k = Len(run[r].kinds) THEN 0 ELSE k + 1,
                                       !.pc = IF k = Len(run[r].kinds) THEN "append" ELSE "dispatch"])
        /\ Silent /\ BookKept /\ LoopKept

\* Bug: the last result is not kept.
TurnKeptShort(r) == run[r].at >= Len(run[r].kinds) - 1
\* The answer and its results are kept when every call has returned: the last one is due.
TurnKept(r) == run[r].at = Len(run[r].kinds)

AppendNext(r) ==
  LET k == run[r].at
      m == IF k = 0
           THEN [Message(ids + 1, "assistant", run[r].turn) EXCEPT
                   !.calls = Range(run[r].named), !.bad = "bad" \in Range(run[r].kinds),
                   !.empty = run[r].empty, !.src = Source(ids + 1)]
           ELSE [Message(ids + 1, "tool", run[r].turn) EXCEPT
                   !.of = run[r].named[k], !.kind = run[r].kinds[k], !.ok = run[r].ok[k],
                   !.size = 4]
  IN
  /\ At(r, "append")
  /\ Goes(r, [run[r] EXCEPT !.at = IF TurnKept(r) THEN 1 ELSE k + 1,
                            !.pc = IF TurnKept(r) THEN "guard" ELSE "append"])
  /\ ids' = ids + 1
  /\ WriteMessage(Goroutine(r), m)
  /\ FlightAt(r, "append", {}, TRUE)
  /\ LoopKept /\ UNCHANGED <<recorded, aborts>>

AtCeiling(r) == run[r].turn >= MaxTurns

\* runGuards.Observe: the same call with the same result again, or too many errors in a row.
Cycle(r, pair) ==
  LET recent == run[r].recent
  IN CycleWindow > 0 /\ (\/ recent # <<>> /\ Last(recent) = pair
                         \/ Cardinality({i \in 1..Len(recent) : recent[i] = pair}) >= 2)
Recent(s) == SubSeq(s, Max({1, Len(s) - CycleWindow + 1}), Len(s))
Observe(r) ==
  LET k == run[r].at
      pair == <<run[r].kinds[k], run[r].ok[k]>>
      errors == IF run[r].ok[k] THEN 0 ELSE run[r].errors + 1
      seen == IF CycleWindow = 0 THEN <<>> ELSE Recent(Append(run[r].recent, pair))
      after == [run[r] EXCEPT !.errors = errors, !.recent = seen]
      more == k < Len(run[r].kinds)
  IN
  /\ At(r, "guard")
  /\ Goes(r, IF Cycle(r, pair) THEN [after EXCEPT !.pc = "cycle"]
              ELSE IF MaxErrors > 0 /\ errors >= MaxErrors
              THEN [after EXCEPT !.pc = "return", !.reason = "tool_errors"]
              ELSE IF more THEN [after EXCEPT !.at = @ + 1]
              ELSE IF AtCeiling(r)
              THEN [after EXCEPT !.pc = "return", !.reason = "turn_ceiling"]
              ELSE [after EXCEPT !.pc = "compact", !.changed = FALSE])
  /\ Silent /\ BookKept /\ LoopKept

\* The operator lets the repetition go on, or stops the run.
CycleDecided(r) ==
  LET more == run[r].at < Len(run[r].kinds)
  IN
  /\ At(r, "cycle") /\ ~Canceled(r)
  /\ \/ Goes(r, [run[r] EXCEPT !.recent = <<>>, !.at = IF more THEN @ + 1 ELSE @,
                 !.pc = IF more THEN "guard"
                        ELSE IF AtCeiling(r) THEN "return" ELSE "compact",
                 !.reason = IF ~more /\ AtCeiling(r) THEN "turn_ceiling" ELSE @])
     \/ Returns(r, "cycle")
  /\ Silent /\ BookKept /\ LoopKept

\* compactAfterTurn: Supersede, then elision and a summary if the prompt is large.  A failed
\* measurement ends it.
Compact(r) ==
  LET is == Superseded(msgs, run[r].turn)
  IN
  /\ At(r, "compact")
  /\ IF is = {} THEN Silent ELSE Elide(r, is) /\ UNCHANGED ids
  /\ Goes(r, [run[r] EXCEPT !.pc = "elide"])
  /\ FlightAt(r, "compact", {}, TRUE)
  /\ LoopKept /\ UNCHANGED <<recorded, aborts>>

\* shouldBatchElide is off while the model server has nothing cached.
ElideOld(r) ==
  LET is == ElidedOld(msgs)
  IN
  /\ At(r, "elide")
  /\ \/ /\ Used(msgs) < SummaryAt
        /\ Goes(r, [run[r] EXCEPT !.pc = "top"])
        /\ Silent /\ UNCHANGED limits
     \/ /\ Used(msgs) >= SummaryAt
        /\ IF is = {} THEN Silent ELSE Elide(r, is) /\ UNCHANGED ids
        /\ Goes(r, [run[r] EXCEPT !.pc = "summarize"])
        /\ UNCHANGED limits
     \/ /\ Used(msgs) >= SummaryAt  \* a cold prefix
        /\ Goes(r, [run[r] EXCEPT !.pc = "summarize"])
        /\ Silent /\ UNCHANGED limits
     \/ /\ limits.faults > 0
        /\ limits' = [limits EXCEPT !.faults = @ - 1]
        /\ Goes(r, [run[r] EXCEPT !.pc = "top"])
        /\ Silent
  /\ BookKept
  /\ UNCHANGED <<proj, active, started, stopper, calls, ghosts>>

\* trySummary: the summary is put in place of the older messages if that makes the
\* transcript smaller.
SummaryOf(size) == [Message(ids + 1, "assistant", 0) EXCEPT !.cat = "summary", !.size = size]
Accepted(size) ==
  /\ Len(msgs) > SummaryTail + 1
  /\ Used(Summarized(msgs, SummaryOf(size))) < Used(msgs)
TrySummary(r, after, otherwise) ==
  \/ \E size \in SummarySizes :
       /\ Len(msgs) > SummaryTail + 1
       /\ ids' = ids + 1
       /\ IF Accepted(size)
          THEN /\ Write(Goroutine(r), <<>>, <<>>, <<Summarized(msgs, SummaryOf(size))>>,
                        <<Compacted("summarize", Dropped(msgs)), Appended(SummaryOf(size))>>)
               /\ Goes(r, after)
          ELSE Goes(r, otherwise) /\ UNCHANGED <<w, raced>>
       /\ UNCHANGED <<msgs, limits>>
  \/ /\ IF Len(msgs) <= SummaryTail + 1  \* nothing to drop, or the model call fails
        THEN UNCHANGED limits
        ELSE limits.faults > 0 /\ limits' = [limits EXCEPT !.faults = @ - 1]
     /\ Goes(r, otherwise)
     /\ Silent

Summarize(r) ==
  /\ At(r, "summarize")
  /\ \/ /\ Used(msgs) < SummaryAt
        /\ Goes(r, [run[r] EXCEPT !.pc = "top"])
        /\ Silent /\ UNCHANGED limits
     \/ /\ Used(msgs) >= SummaryAt
        /\ TrySummary(r, [run[r] EXCEPT !.pc = "top"], [run[r] EXCEPT !.pc = "top"])
  /\ BookKept
  /\ UNCHANGED <<proj, active, started, stopper, calls, ghosts>>

\* compactToFit: the turn is assembled again if anything was elided or summarised.
FitElides(r) ==
  LET is == ElidedOld(msgs)
  IN
  /\ At(r, "fit")
  /\ IF is = {} THEN Silent ELSE Elide(r, is) /\ UNCHANGED ids
  /\ Goes(r, [run[r] EXCEPT !.pc = "fitted", !.changed = is # {}])
  /\ BookKept /\ LoopKept

FitSummarizes(r) ==
  LET again == [run[r] EXCEPT !.pc = "top", !.turn = @ - 1]
      ends == IF run[r].changed THEN again
              ELSE [run[r] EXCEPT !.pc = "return", !.reason = "context_ceiling"]
  IN
  /\ At(r, "fitted")
  /\ \/ /\ Used(msgs) <= ReserveMax
        /\ Goes(r, ends)
        /\ Silent /\ UNCHANGED limits
     \/ Used(msgs) > ReserveMax /\ TrySummary(r, again, ends)
  /\ BookKept
  /\ UNCHANGED <<proj, active, started, stopper, calls, ghosts>>

\* The deferred calls of Run: files are delivered, grants lapse, the flight ends.
EndFlight(r) ==
  /\ At(r, "return")
  /\ Goes(r, [run[r] EXCEPT !.pc = "finish"])
  /\ flight' = IF flight.run = r THEN NoFlight ELSE flight
  /\ recorded' = recorded \ {r}
  /\ Silent /\ LoopKept /\ UNCHANGED aborts

----------------------------------------------------------------------------
(* The scheduler, the operator, the process.                               *)

StoppedEvent(r) == [t |-> "stopped", run |-> r, reason |-> run[r].reason, held |-> FALSE]
SchedKept == UNCHANGED <<msgs, w, ids, calls, raced, aborts>>

\* startLocked: the message is appended, the run started.
Start ==
  LET r == started + 1
      m == Message(ids + 1, "user", 0)
  IN
  /\ active = NoRun /\ limits.runs > 0 /\ ~Busy(Sched)
  /\ limits' = [limits EXCEPT !.runs = @ - 1]
  /\ started' = r /\ active' = r
  /\ run' = [run EXCEPT ![r] = [Asleep EXCEPT !.pc = "begin"]]
  /\ ids' = ids + 1
  /\ msgs' = Append(msgs, m)
  /\ Write(Sched, <<Appended(m), [t |-> "started", run |-> r]>>, <<>>, <<>>, <<>>)
  /\ BookKept
  /\ UNCHANGED <<proj, stopper, calls, ghosts>>

\* Run begins: the flight; a session that is not runnable, a plan registration.
Begin(r) ==
  /\ At(r, "begin") /\ ~Busy(Sched)
  /\ \/ Goes(r, [run[r] EXCEPT !.pc = "top"]) /\ UNCHANGED limits
     \/ /\ limits.faults > 0
        /\ limits' = [limits EXCEPT !.faults = @ - 1]
        /\ \E reason \in {"profile_not_runnable", "done"} : Returns(r, reason)
  /\ flight' = [NoFlight EXCEPT !.run = r, !.stage = "starting"]
  /\ recorded' = recorded \ {r}
  /\ late' = late \cup ({flight.run} \ (recorded \cup {NoRun, r}))
  /\ Silent /\ UNCHANGED <<proj, active, started, stopper, calls, forced, crash, aborts>>

\* finish: a run that has lost its slot ends in silence.
Finish(r) ==
  /\ At(r, "finish")
  /\ Goes(r, [Asleep EXCEPT !.pc = "done"])
  /\ IF active = r
     THEN active' = NoRun /\ proj' = NextSnapshot(proj, StoppedEvent(r))
     ELSE UNCHANGED <<active, proj>>
  /\ SchedKept /\ UNCHANGED <<started, stopper, limits, ghosts, flight, recorded>>

\* Stop cancels the run and waits for it.
Stop(r) ==
  /\ active = r /\ stopper[r] = "none" /\ limits.stops > 0
  /\ limits' = [limits EXCEPT !.stops = @ - 1]
  /\ stopper' = [stopper EXCEPT ![r] = "waits"]
  /\ run' = [run EXCEPT ![r].cancel = TRUE]
  /\ proj' = NextSnapshot(proj, [t |-> "stopping", run |-> r])
  /\ SchedKept /\ UNCHANGED <<active, started, ghosts, flight, recorded>>

StopReturns(r) ==
  /\ stopper[r] = "waits" /\ run[r].pc = "done"
  /\ stopper' = [stopper EXCEPT ![r] = "gone"]
  /\ SchedKept /\ UNCHANGED <<proj, run, active, started, limits, ghosts, flight, recorded>>

\* The bound is exceeded: Stop writes the record, then takes the slot.
StopTimeout(r) ==
  /\ stopper[r] = "waits"
  /\ stopper' = [stopper EXCEPT ![r] = "records"]
  /\ RecordAbort(r, Stopping(r))
  /\ late' = late \cup ({r} \ (recorded \cup {flight.run}))
  /\ UNCHANGED <<msgs, proj, run, active, started, flight, calls, limits, forced, crash>>

ForceFinish(r) ==
  /\ stopper[r] = "records" /\ ~Busy(Stopping(r))
  /\ stopper' = [stopper EXCEPT ![r] = "gone"]
  /\ IF active = r
     THEN /\ active' = NoRun
          /\ proj' = NextSnapshot(proj, [StoppedEvent(r) EXCEPT !.reason = "aborted"])
          /\ forced' = forced \cup {r}
     ELSE UNCHANGED <<active, proj, forced>>
  /\ SchedKept /\ UNCHANGED <<run, started, limits, late, crash, flight, recorded>>

\* The wall-clock timer of a run.  It may fire at any time, but only these points look at it.
Wall(r) ==
  /\ run[r].pc \in {"top", "assemble", "call", "tool", "cycle"} /\ ~run[r].wall /\ ~Busy(Goroutine(r))
  /\ run' = [run EXCEPT ![r].wall = TRUE]
  /\ SchedKept
  /\ UNCHANGED <<proj, active, started, stopper, limits, ghosts, flight, recorded>>

\* Settle: the operator accepts a proposal of an answer; the answer and the user message
\* before it are replaced by a pointer, at any time, a running run or not.
Settle ==
  \E i \in 1..Len(msgs) :
    LET is == {j \in 1..Len(msgs) : msgs[j].id \in msgs[i].src /\ ~msgs[j].elided
                                     /\ msgs[j].role \in {"user", "assistant"}}
        settled == [j \in 1..Len(msgs) |->
                      IF j \in is THEN [msgs[j] EXCEPT !.elided = TRUE, !.calls = {}]
                      ELSE msgs[j]]
    IN
    /\ ~Busy(Operator) /\ limits.settles > 0 /\ is # {}
    /\ limits' = [limits EXCEPT !.settles = @ - 1]
    /\ Write(Operator, Updates(msgs, is, "elided"), <<>>, <<settled>>,
             <<Compacted("settled", {})>>)
    /\ UNCHANGED <<msgs, proj, run, active, started, flight, recorded, aborts, stopper, ids,
                   calls, ghosts>>

Answered(ms, i) ==
  \A c \in ms[i].calls : \E j \in i+1..Len(ms) : ms[j].role = "tool" /\ ms[j].of = c

\* Every call has its result, and the message that a summary keeps makes none.
WellPaired(ms) ==
  \A i \in 1..Len(ms) : Answered(ms, i) /\ (i = 1 => ms[i].calls = {})

\* The process dies and comes back: the transcript is the projected one, and the message
\* ids start again.
Restart ==
  /\ limits.restarts > 0
  /\ limits' = [limits EXCEPT !.restarts = @ - 1]
  /\ msgs' = proj.messages
  /\ proj' = NextSnapshot(proj, [t |-> "created", run |-> NoRun, messages |-> proj.messages])
  /\ w' = [a \in Writers |-> Quiet]
  /\ run' = [r \in Runs |-> IF run[r].pc = "idle" THEN run[r] ELSE [Asleep EXCEPT !.pc = "done"]]
  /\ active' = NoRun /\ flight' = NoFlight /\ recorded' = {} /\ ids' = 0
  /\ stopper' = [r \in Runs |-> IF stopper[r] = "none" THEN "none" ELSE "gone"]
  /\ crash' = IF crash = "cut" \/ ~WellPaired(proj.messages) THEN "cut" ELSE "clean"
  /\ UNCHANGED <<started, aborts, calls, raced, late, forced>>

Init ==
  /\ msgs = <<>> /\ proj = Seeded(<<>>, "idle")
  /\ w = [a \in Writers |-> Quiet]
  /\ run = [r \in Runs |-> Asleep]
  /\ active = NoRun /\ started = 0
  /\ flight = NoFlight /\ recorded = {} /\ aborts = <<>>
  /\ stopper = [r \in Runs |-> "none"]
  /\ ids = 0 /\ calls = 0
  /\ limits \in Budgets
  /\ raced = FALSE /\ late = {} /\ forced = {} /\ crash = "none"

\* The steps a goroutine takes by itself, and those it waits for.
Own(r) ==
  \/ Begin(r) \/ Stops(r) \/ Boundary(r) \/ Assemble(r) \/ Answer(r) \/ ToolStarts(r)
  \/ ToolReturns(r) \/ AppendNext(r) \/ Observe(r) \/ Compact(r) \/ ElideOld(r)
  \/ Summarize(r) \/ FitElides(r) \/ FitSummarizes(r) \/ EndFlight(r) \/ Finish(r)
Served(r) == Fails(r) \/ Text(r) \/ Truncated(r) \/ Calls(r) \/ CycleDecided(r)

Next ==
  \/ \E a \in Writers : Publish(a) \/ Install(a)
  \/ \E r \in Runs : Own(r) \/ Served(r) \/ Wall(r)
  \/ \E r \in Runs : Stop(r) \/ StopReturns(r) \/ StopTimeout(r) \/ ForceFinish(r)
  \/ Start \/ Settle \/ Restart

\* Goroutines are scheduled and a timer fires; the model server and the operator need not
\* answer.
Fairness ==
  /\ \A a \in {Sched} \cup {Goroutine(r) : r \in Runs} : WF_vars(Publish(a) \/ Install(a))
  /\ \A r \in Runs : WF_vars(Own(r)) /\ WF_vars(Wall(r))

Spec == Init /\ [][Next]_vars /\ Fairness

----------------------------------------------------------------------------
(* Properties.                                                             *)

SameMessage(m, n) ==
  m.id = n.id /\ m.role = n.role /\ m.elided = n.elided /\ (m.elided \/ m.calls = n.calls)

\* The projected transcript, which is what a restart restores, is the session's: the same
\* messages in the same order, elided alike, with the same calls (Settle takes the calls of
\* an elided answer from the session only).  Compaction, repair, abort records and summaries
\* reach the projection as events of their own (compact.go, truncation.go, abort.go against
\* projector.go).  Two writers at work together, and ids used again after a restart, void it.
TranscriptAgrees ==
  (~raced /\ crash = "none" /\ \A a \in Writers : ~Busy(a)) =>
    /\ Len(msgs) = Len(proj.messages)
    /\ \A i \in 1..Len(msgs) : SameMessage(msgs[i], proj.messages[i])

\* A request never carries a call without its result: the turn of a canceled run is dropped
\* whole, and compaction and repair take results only with their calls (run.go, compact.go,
\* truncation.go).  Overlapping writers void it, a crash between the two appends, and after a
\* restart a repair, which removes messages by ids that are used again.
CallsAnswered ==
  (~raced /\ crash # "cut" /\ forced = {}) =>
    \A r \in Runs : run[r].pc = "call" => \A i \in 1..Len(msgs) : Answered(msgs, i)

\* A run has at most one abort record, whether its goroutine or Stop writes it, and the
\* record names the file that the call in flight may have written (abort.go), unless its
\* flight had ended, or another run had taken its place in the flight book, when Stop gave up
\* on it.
AbortOnce ==
  /\ \A r \in Runs \ late : Cardinality({i \in 1..Len(aborts) : aborts[i].run = r}) <= 1
  /\ \A i \in 1..Len(aborts) : aborts[i].run \notin late => aborts[i].writing \subseteq aborts[i].paths

\* The backstops hold: a run has at most one turn more than run.max_turns (the retry of a
\* truncated call is not checked) and no more tool calls than run.max_tool_calls (run.go).
RunBounded == \A r \in Runs : run[r].turn <= MaxTurns + 1 /\ run[r].used <= MaxToolCalls

\* Once a run has ended, the chat shows none of its answers as unfinished and the timeline
\* keeps none of its stream fragments (projector.go, run.stopped), unless it lost its slot
\* before it returned and published on.
ChatSettled ==
  \A r \in Runs : (run[r].pc = "done" /\ r \notin forced) =>
    /\ \A s \in proj.stream : s[1] # r
    /\ \A i \in 1..Len(proj.chat) : proj.chat[i].type = "agent" /\ proj.chat[i].run = r
                                     => proj.chat[i].done

\* The operations diffChat computes rebuild the new chat in a browser that has the old one
\* (projector.go against bus.js).
PatchFaithful == [][ApplyChat(proj.chat, DiffChat(proj.chat, proj'.chat)) = proj'.chat]_vars

\* Every run ends, even if the model server never answers: the wall clock cancels it, and
\* the loops of repair, retry and compaction are finite (run.go).
RunEnds == <>[](\A r \in Runs : run[r].pc \in {"idle", "done"})

=============================================================================
