------------------------------ MODULE Progress ------------------------------
(***************************************************************************)
(* The shadow detectors (progress/progress.go): a subscriber of the event  *)
(* bus that keeps a little state per run, asks after every event which     *)
(* detectors would fire, remembers the turn of each first fire, and        *)
(* publishes one verdict per detector when the run stops.  Its own reports *)
(* come back to it through its own subscription, where a full buffer       *)
(* evicts it.  Nothing acts on the verdicts; a team tunes thresholds with  *)
(* them, so what matters is that a verdict is about one run and all of it. *)
(*                                                                         *)
(* A result stands for its normalised text, a reasoning delta for one      *)
(* admission of being stuck.  The seven reports of a run travel as one.    *)
(***************************************************************************)
EXTENDS Naturals, Sequences, SequencesExt, FiniteSets, FiniteSetsExt

CONSTANTS WatchedRuns,     \* runs, of different sessions
          Armed,           \* the detectors armed for a run
          NoNovelTurns, RepeatCount, RepeatWindow, TimeoutCount, TimeoutWindow,
          StuckAdmissions, ErrorWindow, BaselineTurns, DurationMultiplier,   \* GuessedThresholds
          ErrorPercent,    \* GuessedThresholds.ErrorRatio, in percent
          WatchBuffer,     \* events the subscription holds (128 in the code)
          WatchMenus       \* bounds: runs, kinds of event, and events of one run

VARIABLES
  taped,        \* per run: what it published before it stopped (history)
  watched,      \* per run: "new", "on", "over"
  watchTurn,    \* per run: its turn
  watchStream,  \* the subscription's buffered events
  watchOpen,    \* the subscription has not been evicted
  delivered,    \* runs whose stop went into the subscription (history)
  watchRuns,    \* Manager.runs: the runs with a state
  runState,     \* per run: its runState
  reports,      \* the verdicts published, one sequence per run
  watchMenu     \* the bounds of this behaviour

progressVars == <<taped, watched, watchTurn, watchStream, watchOpen, delivered, watchRuns, runState, reports, watchMenu>>

Detectors == {"novel_action", "result_repetition", "repeated_timeouts", "model_says_stuck",
              "error_success_ratio", "baseline_deviation", "aux_progress"}

\* newRunState.
NewRunState ==
  [first |-> [d \in Detectors |-> 0], calls |-> {}, reads |-> {}, novel |-> {}, tools |-> {},
   results |-> << >>, timeouts |-> << >>, errors |-> << >>, known |-> FALSE, on |-> FALSE,
   stuck |-> 0, ms |-> << >>, auxKnown |-> FALSE, auxStuck |-> FALSE, maxTurn |-> 0]

ProgressInit ==
  /\ taped = [r \in WatchedRuns |-> << >>]
  /\ watched = [r \in WatchedRuns |-> "new"]
  /\ watchTurn = [r \in WatchedRuns |-> 0]
  /\ watchStream = << >> /\ watchOpen = TRUE
  /\ delivered = {}
  /\ watchRuns = {}
  /\ runState = [r \in WatchedRuns |-> NewRunState]
  /\ reports = [r \in WatchedRuns |-> << >>]
  /\ watchMenu \in WatchMenus

-----------------------------------------------------------------------------
(* What a run publishes                                                     *)

WatchEvents ==
       [type : {"model.request"}, on : BOOLEAN]
  \cup [type : {"model.delta"}]
  \cup [type : {"tool.call"}, name : {"read_file", "write_file", "shell"}, arg : {"a", "b"}]
  \cup [type : {"tool.result"}, what : {"x", "y"}, timeout : BOOLEAN, ok : BOOLEAN]
  \cup [type : {"model.response"}, ms : {1, 2}]
  \cup [type : {"progress.aux"}, available : BOOLEAN, stuck : BOOLEAN]

\* Bus.publish to this subscriber, of one event.
WatchPublished(stream, r, turn, e) ==
  LET fits == watchOpen /\ Len(stream) < WatchBuffer
  IN  /\ watchStream' = IF fits THEN Append(stream, [r |-> r, turn |-> turn, e |-> e]) ELSE stream
      /\ watchOpen' = fits

WatchStart(r) ==
  /\ watched[r] = "new" /\ r \in watchMenu.runs
  /\ watched' = [watched EXCEPT ![r] = "on"]
  /\ WatchPublished(watchStream, r, 0, [type |-> "run.started"])
  /\ UNCHANGED <<taped, watchTurn, delivered, watchRuns, runState, reports, watchMenu>>

\* An event of the run; a request begins the next turn.
WatchEvent(r, e) ==
  /\ watched[r] = "on" /\ Len(taped[r]) < watchMenu.length
  /\ (e.type = "model.request") \/ watchTurn[r] > 0
  /\ watchTurn' = IF e.type = "model.request" THEN [watchTurn EXCEPT ![r] = @ + 1] ELSE watchTurn
  /\ taped' = [taped EXCEPT ![r] = Append(@, [turn |-> watchTurn'[r], e |-> e])]
  /\ WatchPublished(watchStream, r, watchTurn'[r], e)
  /\ UNCHANGED <<watched, delivered, watchRuns, runState, reports, watchMenu>>

WatchStop(r) ==
  /\ watched[r] = "on"
  /\ watched' = [watched EXCEPT ![r] = "over"]
  /\ WatchPublished(watchStream, r, 0, [type |-> "run.stopped"])
  /\ delivered' = IF watchOpen' THEN delivered \cup {r} ELSE delivered
  /\ UNCHANGED <<taped, watchTurn, watchRuns, runState, reports, watchMenu>>

\* An abandoned run goes on publishing after the scheduler stopped it.
WatchLate(r, e) ==
  /\ watched[r] = "over" /\ watchTurn[r] = 1 /\ e.type = "tool.result"
  /\ watchTurn' = [watchTurn EXCEPT ![r] = 2]
  /\ WatchPublished(watchStream, r, 1, e)
  /\ UNCHANGED <<taped, watched, delivered, watchRuns, runState, reports, watchMenu>>

-----------------------------------------------------------------------------
(* The detectors                                                            *)

LastOf(s, n) == IF Len(s) > n THEN SubSeq(s, Len(s) - n + 1, Len(s)) ELSE s
CountTrue(s) == Cardinality({i \in DOMAIN s : s[i]})

\* A call is novel if it was not made before; a read if its path was not read
\* before, whatever else its arguments say; a write always.
NovelCall(st, e) ==
  CASE e.name = "read_file"  -> e.arg \notin st.reads
    [] e.name = "write_file" -> TRUE
    [] OTHER                 -> <<e.name, e.arg>> \notin st.calls

\* observe.
Observe(was, turn, e) ==
  LET st == [was EXCEPT !.maxTurn = Max({turn, was.maxTurn})]
  IN  CASE e.type = "model.request"  -> [st EXCEPT !.known = TRUE, !.on = e.on]
        [] e.type = "model.delta"    -> [st EXCEPT !.stuck = @ + 1]
        [] e.type = "tool.call"      ->
             [st EXCEPT !.calls = @ \cup {<<e.name, e.arg>>},
                        !.reads = IF e.name = "read_file" THEN @ \cup {e.arg} ELSE @,
                        !.novel = IF NovelCall(st, e) THEN @ \cup {turn} ELSE @,
                        !.tools = @ \cup {<<turn, e.name>>}]
        [] e.type = "tool.result"    ->
             [st EXCEPT !.results = Append(@, e.what), !.timeouts = Append(@, e.timeout), !.errors = Append(@, ~e.ok)]
        [] e.type = "model.response" ->
             [st EXCEPT !.ms = [t \in DOMAIN @ \cup {turn} |-> IF t = turn THEN e.ms ELSE @[t]]]
        [] e.type = "progress.aux"   -> [st EXCEPT !.auxKnown = e.available, !.auxStuck = e.stuck]
        [] OTHER                     -> st

TotalMs(st, turns) == FoldSet(LAMBDA t, sum : sum + st.ms[t], 0, turns)

\* headInts and tailInts of sortedTurns.
Earliest(turns, n) == {t \in turns : Cardinality({u \in turns : u < t}) < n}
Latest(turns, n) == {t \in turns : Cardinality({u \in turns : u > t}) < n}

\* Both averages are over BaselineTurns turns when it matters.
Deviates(st) ==
  LET turns == DOMAIN st.ms
      recent == Latest(turns, BaselineTurns)
      baseline == TotalMs(st, Earliest(turns, BaselineTurns))
  IN  /\ Cardinality(turns) >= 2 * BaselineTurns /\ baseline > 0
      /\ TotalMs(st, recent) >= DurationMultiplier * baseline
      /\ Cardinality({name \in {u[2] : u \in st.tools} : \E t \in recent : <<t, name>> \in st.tools}) <= 1

\* evaluateCurrent: the detectors that have their input.
Available(st) ==
  {d \in Detectors : /\ d = "model_says_stuck"   => st.known /\ st.on
                     /\ d = "baseline_deviation" => Cardinality(DOMAIN st.ms) >= 2 * BaselineTurns
                     /\ d = "aux_progress"       => d \in Armed /\ st.auxKnown}

\* Turns without a novel action, counted back from the current one.
NoNovel(st) == st.maxTurn - Max({0} \cup {t \in st.novel : t <= st.maxTurn})

\* evaluateCurrent: the detectors over their thresholds.
Firing(st) ==
  LET results == LastOf(st.results, RepeatWindow)
      errors == LastOf(st.errors, ErrorWindow)
      over == [novel_action        |-> NoNovel(st) >= NoNovelTurns,
               result_repetition   |-> \E i \in DOMAIN results :
                                         Cardinality({j \in DOMAIN results : results[j] = results[i]}) >= RepeatCount,
               repeated_timeouts   |-> CountTrue(LastOf(st.timeouts, TimeoutWindow)) >= TimeoutCount,
               model_says_stuck    |-> st.stuck >= StuckAdmissions,
               error_success_ratio |-> Len(errors) >= ErrorWindow
                                         /\ 100 * CountTrue(errors) >= ErrorPercent * Len(errors),
               baseline_deviation  |-> Deviates(st),
               aux_progress        |-> st.auxKnown /\ st.auxStuck]
  IN  {d \in Detectors : over[d]}

\* Mutant of FirstFires: the turn of the latest fire.
FirstFiresLatest(st) ==
  [st EXCEPT !.first = [d \in Detectors |-> IF d \in Available(st) \cap Firing(st) THEN Max({1, st.maxTurn}) ELSE @[d]]]

\* recordFirstFires.
FirstFires(st) ==
  [st EXCEPT !.first = [d \in Detectors |-> IF d \in Available(st) \cap Firing(st) /\ @[d] = 0
                                            THEN Max({1, st.maxTurn}) ELSE @[d]]]

\* Evaluate.
Verdicts(st) ==
  [d \in Detectors |-> [armed |-> d \in Armed, available |-> d \in Available(st),
                        fire |-> d \in Firing(st) \/ st.first[d] > 0, first |-> st.first[d]]]

\* Consume: an event of a run without a state, such as one of this subscriber's
\* own reports, is dropped.
Consume ==
  /\ watchStream # << >>
  /\ LET m == Head(watchStream)
         r == m.r
         st == IF m.e.type = "run.started" THEN NewRunState ELSE runState[r]
         rest == Tail(watchStream)
     IN  IF m.e.type # "run.started" /\ r \notin watchRuns
         THEN watchStream' = rest /\ UNCHANGED <<watchOpen, watchRuns, runState, reports>>
         ELSE IF m.e.type = "run.stopped"
         THEN /\ watchRuns' = watchRuns \ {r}
              /\ runState' = [runState EXCEPT ![r] = NewRunState]
              /\ reports' = [reports EXCEPT ![r] = Append(@, Verdicts(FirstFires(st)))]
              /\ WatchPublished(rest, r, 0, [type |-> "progress.shadow"])
         ELSE /\ watchRuns' = watchRuns \cup {r}
              /\ runState' = [runState EXCEPT ![r] = FirstFires(Observe(st, m.turn, m.e))]
              /\ watchStream' = rest /\ UNCHANGED <<watchOpen, reports>>
  /\ UNCHANGED <<taped, watched, watchTurn, delivered, watchMenu>>

ProgressNext ==
  \/ \E r \in WatchedRuns :
       \/ WatchStart(r) \/ WatchStop(r)
       \/ \E e \in watchMenu.events : WatchEvent(r, e) \/ WatchLate(r, e)
  \/ Consume

ProgressSpec == ProgressInit /\ [][ProgressNext]_progressVars

-----------------------------------------------------------------------------
(* Properties                                                               *)

\* What a run's own events say, by looking at them as a whole: a prefix of them
\* fires a detector, a novel call is one nothing before it equals.
Turns(evs) == {evs[i].turn : i \in DOMAIN evs}
Of(evs, type) == SelectSeq(evs, LAMBDA m : m.e.type = type)

NovelTurns(evs) ==
  {evs[i].turn : i \in {i \in DOMAIN evs :
     /\ evs[i].e.type = "tool.call"
     /\ evs[i].e.name = "write_file" \/ ~\E j \in 1..(i - 1) : evs[j].e = evs[i].e}}

DurationIn(evs, t) == LET of == SelectSeq(Of(evs, "model.response"), LAMBDA m : m.turn = t) IN Last(of).e.ms

SaysFires(evs, d) ==
  LET results == Of(evs, "tool.result")
      timed == Turns(Of(evs, "model.response"))
      aux == Of(evs, "progress.aux")
  IN  CASE d = "novel_action" ->
             \E t \in Turns(evs) : /\ t >= NoNovelTurns /\ \A u \in Turns(evs) : u <= t
                                   /\ NovelTurns(evs) \cap ((t - NoNovelTurns + 1)..t) = {}
        [] d = "result_repetition" ->
             \E what \in {"x", "y"} :
               Len(SelectSeq(LastOf(results, RepeatWindow), LAMBDA m : m.e.what = what)) >= RepeatCount
        [] d = "repeated_timeouts" ->
             Len(SelectSeq(LastOf(results, TimeoutWindow), LAMBDA m : m.e.timeout)) >= TimeoutCount
        [] d = "model_says_stuck" -> Len(Of(evs, "model.delta")) >= StuckAdmissions
        [] d = "error_success_ratio" ->
             /\ Len(results) >= ErrorWindow
             /\ 100 * Len(SelectSeq(LastOf(results, ErrorWindow), LAMBDA m : ~m.e.ok)) >= ErrorPercent * ErrorWindow
        [] d = "baseline_deviation" ->
             \E early, late \in SUBSET timed :
               /\ Cardinality(early) = BaselineTurns /\ Cardinality(late) = BaselineTurns
               /\ \A t \in early, u \in timed \ early : t < u
               /\ \A t \in late, u \in timed \ late : t > u
               /\ early \cap late = {}
               /\ MapThenSumSet(LAMBDA t : DurationIn(evs, t), late)
                    >= DurationMultiplier * MapThenSumSet(LAMBDA t : DurationIn(evs, t), early)
               /\ Cardinality({m.e.name : m \in {evs[i] : i \in {i \in DOMAIN evs :
                                  evs[i].e.type = "tool.call" /\ evs[i].turn \in late}}}) <= 1
        [] d = "aux_progress" -> aux # << >> /\ Last(aux).e.available /\ Last(aux).e.stuck

SaysAvailable(evs, d) ==
  CASE d = "model_says_stuck"   -> Of(evs, "model.request") # << >> /\ Last(Of(evs, "model.request")).e.on
    [] d = "baseline_deviation" -> Cardinality(Turns(Of(evs, "model.response"))) >= 2 * BaselineTurns
    [] d = "aux_progress"       -> d \in Armed /\ Of(evs, "progress.aux") # << >> /\ Last(Of(evs, "progress.aux")).e.available
    [] OTHER                    -> TRUE

\* The verdict a detector deserves: that of the run's whole tape, or of any part of it from its start.
Deserved(evs, d) ==
  LET prefix(i) == SubSeq(evs, 1, i)
      fired == {i \in 1..Len(evs) : SaysAvailable(prefix(i), d) /\ SaysFires(prefix(i), d)}
  IN  [armed |-> d \in Armed, available |-> SaysAvailable(evs, d),
       fire  |-> SaysFires(evs, d) \/ fired # {},
       first |-> IF fired = {} THEN 0 ELSE Max({1} \cup Turns(prefix(Min(fired))))]

\* Whatever other runs publish meanwhile and whatever comes after the stop, a
\* run whose stop was delivered is reported once.
ReportedOnce ==
  \A r \in WatchedRuns :
    LET ahead == \E i \in DOMAIN watchStream : watchStream[i].r = r /\ watchStream[i].e.type = "run.stopped"
    IN  Len(reports[r]) = IF r \in delivered /\ ~ahead THEN 1 ELSE 0

\* progress/progress.go: every run whose stop reached the subscriber is reported
\* exactly once, and each verdict, first fire included, is the one the run's own
\* events up to its stop deserve, however runs interleave.
VerdictsDeserved ==
  /\ ReportedOnce
  /\ \A r \in WatchedRuns : \A i \in DOMAIN reports[r] :
       \A d \in Detectors : reports[r][i][d] = Deserved(taped[r], d)
=============================================================================
