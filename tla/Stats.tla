-------------------------------- MODULE Stats --------------------------------
(***************************************************************************)
(* The token and reliability ledger of each agent (stats/ledger.go): one   *)
(* subscriber of the event bus counts what runs do, for the agent as a     *)
(* whole and per server profile, keeps the counts in memory and saves them *)
(* when a chat is created or a run stops; the operator may clear a ledger  *)
(* (web/server_actions.go).  Whose ledger an event belongs to is looked up *)
(* when the subscriber gets to it, not when the event was published.       *)
(*                                                                         *)
(* Of the counters those are kept that relate to each other: chats, runs,  *)
(* answers (of the model's responses), and how the runs ended.                 *)
(***************************************************************************)
EXTENDS Naturals, Sequences, SequencesExt, FiniteSets, FiniteSetsExt

CONSTANTS StatSessions,   \* sessions
          StatAgents,     \* agents
          StatProfiles,   \* server profiles
          StatsBuffer,    \* events the subscription holds (128 in the code)
          StatsBudgets    \* bounds: sessions used, runs, clears, rebindings and deletions, failed saves, restarts

VARIABLES
  home,          \* per session what the registry knows: whether it is there ("retained": on disk, not
                 \*   restored yet), its agent and profile
  statRun,       \* per session: its current run, and whether that published an answer
  statsStream,   \* the subscription's buffered events
  statsOpen,     \* the subscription has not been evicted
  statsRuns,     \* Manager.runs, as a set of records
  ledgers,       \* Manager.ledgers (NotLoaded: not read yet)
  statsFile,     \* per agent: <agent>.json (NotLoaded: no file)
  endedRuns,     \* per agent: the ends counted since it was last cleared (history)
  behind,        \* per agent: "no", "yes" while memory is ahead of the file, "lost" when a restart
                 \*   found it so or the file could not be read (history)
  statsLeft      \* what is left of the chosen budget

statsVars == <<home, statRun, statsStream, statsOpen, statsRuns, ledgers, statsFile, endedRuns, behind, statsLeft>>

Tallies == {"chats", "runs", "answers", "done", "silent", "failed"}
NoCounts == [c \in Tallies |-> 0]
EmptyLedger == [agent |-> NoCounts, profiles |-> [p \in StatProfiles |-> NoCounts]]
NotLoaded == [agent |-> NoCounts, profiles |-> << >>]
NoStatRun == [id |-> 0, on |-> FALSE, answered |-> FALSE]

\* The server listens once the retained chats are restored.
Listening == \A s \in StatSessions : home[s].there # "retained"

StatsInit ==
  /\ home = [s \in StatSessions |-> [there |-> "no", agent |-> Min(StatAgents), profile |-> Min(StatProfiles)]]
  /\ statRun = [s \in StatSessions |-> NoStatRun]
  /\ statsStream = << >> /\ statsOpen = TRUE
  /\ statsRuns = {}
  /\ ledgers = [a \in StatAgents |-> NotLoaded]
  /\ statsFile = [a \in StatAgents |-> NotLoaded]
  /\ endedRuns = [a \in StatAgents |-> {}]
  /\ behind = [a \in StatAgents |-> "no"]
  /\ statsLeft \in StatsBudgets

StatSpends(what) == statsLeft[what] > 0 /\ statsLeft' = [statsLeft EXCEPT ![what] = @ - 1]

-----------------------------------------------------------------------------
(* What the rest of the program publishes                                   *)

\* Bus.publish to this subscriber: a full buffer evicts it for good.
Published(type, s, answered) ==
  LET fits == statsOpen /\ Len(statsStream) < StatsBuffer
  IN  /\ statsStream' = IF fits THEN Append(statsStream, [type |-> type, s |-> s, run |-> statRun'[s].id,
                                                          answered |-> answered])
                        ELSE statsStream
      /\ statsOpen' = fits

StatCreate(s, p) ==
  /\ Listening /\ home[s].there = "no" /\ s \in statsLeft.sessions
  /\ home' = [home EXCEPT ![s] = [@ EXCEPT !.there = "yes", !.profile = p]]
  /\ UNCHANGED statRun
  /\ Published("session.created", s, FALSE)
  /\ UNCHANGED <<statsRuns, ledgers, statsFile, endedRuns, behind, statsLeft>>

StatStart(s) ==
  /\ Listening /\ home[s].there = "yes" /\ ~statRun[s].on
  /\ StatSpends("runs")
  /\ statRun' = [statRun EXCEPT ![s] = [id |-> @.id + 1, on |-> TRUE, answered |-> FALSE]]
  /\ Published("run.started", s, FALSE)
  /\ UNCHANGED <<home, statsRuns, ledgers, statsFile, endedRuns, behind>>

\* A response with content and no tool calls.
StatAnswer(s) ==
  /\ statRun[s].on /\ ~statRun[s].answered
  /\ statRun' = [statRun EXCEPT ![s].answered = TRUE]
  /\ Published("model.response", s, FALSE)
  /\ UNCHANGED <<home, statsRuns, ledgers, statsFile, endedRuns, behind, statsLeft>>

StatStop(s, reason) ==
  /\ statRun[s].on
  /\ statRun' = [statRun EXCEPT ![s].on = FALSE]
  /\ Published(reason, s, statRun[s].answered)
  /\ UNCHANGED <<home, statsRuns, ledgers, statsFile, endedRuns, behind, statsLeft>>

\* An idle session is rebound to another agent or profile, or deleted.
StatRebind(s, a, p) ==
  /\ Listening /\ home[s].there = "yes" /\ ~statRun[s].on /\ <<a, p>> # <<home[s].agent, home[s].profile>>
  /\ StatSpends("moves")
  /\ home' = [home EXCEPT ![s].agent = a, ![s].profile = p]
  /\ UNCHANGED <<statRun, statsStream, statsOpen, statsRuns, ledgers, statsFile, endedRuns, behind>>

StatDelete(s) ==
  /\ Listening /\ home[s].there = "yes" /\ ~statRun[s].on
  /\ StatSpends("moves")
  /\ home' = [home EXCEPT ![s].there = "deleted"]
  /\ UNCHANGED <<statRun, statsStream, statsOpen, statsRuns, ledgers, statsFile, endedRuns, behind>>

-----------------------------------------------------------------------------
(* The ledger                                                               *)

\* load: from memory, else from the file, else empty; a file that cannot be read
\* or parsed counts as empty, and the next save replaces it.
CanBeSpoilt(a) == ledgers[a] = NotLoaded /\ statsFile[a] # NotLoaded
LoadedLedger(a, spoilt) ==
  IF ledgers[a] # NotLoaded THEN ledgers[a]
  ELSE IF statsFile[a] # NotLoaded /\ ~spoilt THEN statsFile[a] ELSE EmptyLedger

Bump(c, which) == [k \in Tallies |-> IF k \in which THEN c[k] + 1 ELSE c[k]]

StopReasons == {"done", "failed"}

\* add: what an event counts for; a run is silent when its answer was not seen,
\* and only if its start was.
Counted(e, known, evidence) ==
  CASE e.type = "session.created" -> {"chats"}
    [] e.type = "run.started"     -> {"runs"}
    [] e.type = "model.response"  -> {"answers"}
    [] e.type = "done"            -> {"done"} \cup IF known /\ ~evidence THEN {"silent"} ELSE {}
    [] OTHER                      -> {"failed"}

\* Manager.runs after an event: one entry per session and run.
TrackedRuns(e) ==
  LET others == {r \in statsRuns : <<r.s, r.run>> # <<e.s, e.run>>}
      one(evidence) == {[s |-> e.s, run |-> e.run, evidence |-> evidence]}
  IN  CASE e.type = "run.started"                           -> others \cup one(FALSE)
        [] e.type = "model.response" /\ others # statsRuns  -> others \cup one(TRUE)
        [] e.type \in StopReasons                                  -> others
        [] OTHER                                            -> statsRuns

\* save: a temporary file renamed over the agent's.
SavedStats(a, ledger, fails) == IF fails THEN statsFile ELSE [statsFile EXCEPT ![a] = ledger]

\* record: nothing for a session that is gone; else both counts, and for a new
\* chat and an ended run the file (an error of save is dropped).
Record(fails, spoilt) ==
  /\ statsStream # << >>
  /\ ~(fails /\ spoilt)
  /\ IF fails \/ spoilt THEN StatSpends("faults") ELSE UNCHANGED statsLeft
  /\ statsStream' = Tail(statsStream)
  /\ LET e == Head(statsStream)
         a == home[e.s].agent
         p == home[e.s].profile
         mine == {r \in statsRuns : <<r.s, r.run>> = <<e.s, e.run>>}
         which == Counted(e, mine # {}, \E r \in mine : r.evidence)
         old == LoadedLedger(a, spoilt)
         new == [agent    |-> Bump(old.agent, which),
                 profiles |-> [old.profiles EXCEPT ![p] = Bump(@, which)]]
         saves == e.type \in StopReasons \cup {"session.created"}
     IN  IF home[e.s].there # "yes"
         THEN ~fails /\ ~spoilt /\ UNCHANGED <<statsRuns, ledgers, statsFile, endedRuns, behind>>
         ELSE /\ (fails => saves) /\ (spoilt => CanBeSpoilt(a))
              /\ statsRuns' = TrackedRuns(e)
              /\ ledgers' = [ledgers EXCEPT ![a] = new]
              /\ statsFile' = SavedStats(a, new, fails \/ ~saves)
              /\ endedRuns' = IF e.type \in StopReasons THEN [endedRuns EXCEPT ![a] = @ \cup {e}] ELSE endedRuns
              /\ behind' = CASE spoilt                       -> [behind EXCEPT ![a] = "lost"]
                             [] saves /\ behind[a] # "lost" -> [behind EXCEPT ![a] = IF fails THEN "yes" ELSE "no"]
                             [] OTHER                        -> behind
  /\ UNCHANGED <<home, statRun, statsOpen>>

\* GET /api/stats/{agent} loads the ledger.
ShowStats(a, spoilt) ==
  /\ Listening /\ ledgers[a] = NotLoaded
  /\ IF spoilt THEN CanBeSpoilt(a) /\ StatSpends("faults") ELSE UNCHANGED statsLeft
  /\ ledgers' = [ledgers EXCEPT ![a] = LoadedLedger(a, spoilt)]
  /\ behind' = IF spoilt THEN [behind EXCEPT ![a] = "lost"] ELSE behind
  /\ UNCHANGED <<home, statRun, statsStream, statsOpen, statsRuns, statsFile, endedRuns>>

\* Clear's new ledger.
Cleared(a) == EmptyLedger

\* POST /api/stats/{agent}/clear: memory first, then the file; the entries of
\* open runs stay, so their ends are counted in the new ledger.
ClearStats(a, fails) ==
  /\ Listening /\ StatSpends("clears") /\ (fails => statsLeft.faults > 0)
  /\ ledgers' = [ledgers EXCEPT ![a] = Cleared(a)]
  /\ statsFile' = SavedStats(a, Cleared(a), fails)
  /\ endedRuns' = [endedRuns EXCEPT ![a] = {}]
  /\ behind' = [behind EXCEPT ![a] = IF fails THEN "yes" ELSE "no"]
  /\ UNCHANGED <<home, statRun, statsStream, statsOpen, statsRuns>>

\* The process ends and starts again: a new subscription, nothing loaded, the
\* chats that were not deleted still to be restored.
StatsBoot ==
  /\ StatSpends("boots")
  /\ statRun' = [s \in StatSessions |-> [statRun[s] EXCEPT !.on = FALSE]]
  /\ statsStream' = << >> /\ statsOpen' = TRUE
  /\ statsRuns' = {}
  /\ ledgers' = [a \in StatAgents |-> NotLoaded]
  /\ behind' = [a \in StatAgents |-> IF behind[a] = "no" THEN "no" ELSE "lost"]
  /\ home' = [s \in StatSessions |-> [home[s] EXCEPT !.there = IF @ = "yes" THEN "retained" ELSE @]]
  /\ UNCHANGED <<statsFile, endedRuns>>

\* Registry.Restore publishes session.created for a chat that was created long ago,
\* and the new subscription counts it once more.
StatRestore(s) ==
  /\ home[s].there = "retained"
  /\ home' = [home EXCEPT ![s].there = "yes"]
  /\ UNCHANGED statRun
  /\ Published("session.created", s, FALSE)
  /\ UNCHANGED <<statsRuns, ledgers, statsFile, endedRuns, behind, statsLeft>>

StatsNext ==
  \/ \E s \in StatSessions :
       \/ \E p \in StatProfiles : StatCreate(s, p) \/ \E a \in StatAgents : StatRebind(s, a, p)
       \/ StatStart(s) \/ StatAnswer(s) \/ StatDelete(s) \/ StatRestore(s)
       \/ \E reason \in StopReasons : StatStop(s, reason)
  \/ \E fails \in BOOLEAN :
       \/ \E spoilt \in BOOLEAN : Record(fails, spoilt)
       \/ \E a \in StatAgents : ClearStats(a, fails) \/ ShowStats(a, fails)
  \/ StatsBoot

StatsSpec == StatsInit /\ [][StatsNext]_statsVars

-----------------------------------------------------------------------------
(* Properties                                                               *)

\* In memory and in the file, an agent's counts are the sums over the profiles.
SumsAgree ==
  \A a \in StatAgents : \A l \in {ledgers[a], statsFile[a]} :
    l # NotLoaded =>
      \A c \in Tallies : l.agent[c] = FoldSet(LAMBDA p, sum : sum + l.profiles[p][c], 0, StatProfiles)

\* The file holds every end counted since the ledger was cleared, and none from
\* before, unless the last save failed (and, from then on, a restart happened) or
\* a start could not read the file, whose counts the next save then replaces.
EndsInFile ==
  \A a \in StatAgents :
    LET file == IF statsFile[a] = NotLoaded THEN EmptyLedger ELSE statsFile[a]
    IN  behind[a] = "no" => file.agent["done"] + file.agent["failed"] = Cardinality(endedRuns[a])

\* No run that published an answer is counted as silent.
SilentNever ==
  \A a \in StatAgents :
    (behind[a] # "lost" /\ ledgers[a] # NotLoaded) =>
      ledgers[a].agent["silent"] <= Cardinality({e \in endedRuns[a] : e.type = "done" /\ ~e.answered})

\* stats/ledger.go: through rebindings, clears, failed saves and restarts, an
\* agent's ledger is the sum of its profiles, its file holds exactly the runs
\* whose ends were recorded since it was cleared, as long as it can be read, and a run is called silent
\* only if it published no answer.
StatsKept == SumsAgree /\ EndsInFile /\ SilentNever
=============================================================================
