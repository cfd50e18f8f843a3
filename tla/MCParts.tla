------------------------------ MODULE MCParts ------------------------------
(***************************************************************************)
(* The parts of the program that do not share state in the model, checked  *)
(* in one run: a behaviour picks one part and takes only its steps.  The   *)
(* modules are independent, so the states reached are the sum of theirs.   *)
(***************************************************************************)
EXTENDS Sessions, Reach, OperatorFiles, Notices, Settings, Transcript, Grants, Files, RepoPolicy,
        Memory, Plans, Stats, Progress

VARIABLE part   \* the part this behaviour is about

-----------------------------------------------------------------------------
(* Values of the constants                                                  *)

MCMenus ==
  {{"create", "submit", "close", "label"}, {"create", "submit", "close", "delete"},
   {"create", "submit", "stop", "reset", "close"}, {"create", "like", "rename", "restart"},
   {"create", "close", "delete", "reset", "agent"}, {"create", "submit", "close", "delete", "label"},
   {"create", "submit", "server", "fault"}, {"create", "submit", "agent", "tools"},
   {"create", "design", "policy", "tools", "close"}}

MCFleets == {[chats |-> {1}, probes |-> 2], [chats |-> {1, 2}, probes |-> 1]}

MCChatBudgets ==
  {[said |-> 6, boots |-> 0, repairs |-> 1],
   [said |-> 5, boots |-> 1, repairs |-> 0], [said |-> 4, boots |-> 1, repairs |-> 1]}

MCGrantBudgets ==
  {[runs |-> 2, calls |-> 2, revokes |-> 1, switches |-> 0, writes |-> 0, tools |-> {"file", "shell"}],
   [runs |-> 1, calls |-> 2, revokes |-> 1, switches |-> 0, writes |-> 0, tools |-> {"cmd", "script"}],
   [runs |-> 1, calls |-> 1, revokes |-> 0, switches |-> 2, writes |-> 1, tools |-> {"other"}],
   [runs |-> 1, calls |-> 1, revokes |-> 0, switches |-> 1, writes |-> 0, tools |-> {"shell", "repo"}]}

MCMemoryBudgets ==
  {[notes |-> 2, asks |-> 2, boots |-> 0, stores |-> {"folder"}, texts |-> {"a", "A"}],
   [notes |-> 2, asks |-> 1, boots |-> 0, stores |-> {"agent"}, texts |-> {"a", "b"}],
   [notes |-> 1, asks |-> 2, boots |-> 0, stores |-> {"agent"}, texts |-> {"a"}],
   [notes |-> 1, asks |-> 1, boots |-> 1, stores |-> Stores, texts |-> {"a"}]}

MCPlanBudgets ==
  {[ensures |-> 3, accepts |-> 0, calls |-> 0, faults |-> 1, boots |-> 1],
   [ensures |-> 0, accepts |-> 2, calls |-> 2, faults |-> 0, boots |-> 1],
   [ensures |-> 1, accepts |-> 2, calls |-> 0, faults |-> 0, boots |-> 0]}

MCStatsBudgets ==
  {[sessions |-> {1}, runs |-> 2, clears |-> 1, moves |-> 0, faults |-> 1, boots |-> 1],
   [sessions |-> {1}, runs |-> 2, clears |-> 0, moves |-> 1, faults |-> 0, boots |-> 1],
   [sessions |-> {1, 2}, runs |-> 2, clears |-> 0, moves |-> 0, faults |-> 0, boots |-> 0]}

ToolCall(name, arg) == [type |-> "tool.call", name |-> name, arg |-> arg]
Request(on) == [type |-> "model.request", on |-> on]
Response(ms) == [type |-> "model.response", ms |-> ms]
Result(what, timeout, ok) == [type |-> "tool.result", what |-> what, timeout |-> timeout, ok |-> ok]
Aux(available, stuck) == [type |-> "progress.aux", available |-> available, stuck |-> stuck]

MCWatchMenus ==
  {[runs |-> {1}, length |-> 5,
    events |-> {Request(TRUE), ToolCall("read_file", "a"), ToolCall("shell", "a"), ToolCall("write_file", "a")}],
   [runs |-> {1}, length |-> 4,
    events |-> {Request(TRUE), Result("x", TRUE, FALSE), Result("y", FALSE, FALSE), Result("x", FALSE, TRUE)}],
   [runs |-> {1}, length |-> 4,
    events |-> {Request(TRUE), Request(FALSE), [type |-> "model.delta"], Aux(TRUE, TRUE), Aux(FALSE, FALSE)}],
   [runs |-> {1}, length |-> 5, events |-> {Request(TRUE), Response(1), Response(2), ToolCall("shell", "a")}],
   [runs |-> {1, 2}, length |-> 2, events |-> {Request(TRUE), Result("x", TRUE, FALSE)}]}

P1 == [Profile("p") EXCEPT !.key = "k", !.override = 3, !.cap = 4]
P2 == [Profile("q") EXCEPT !.nctx = 3, !.cap = 4, !.label = "Other"]

\* Files of every version, with and without keys, an odd label, old timeouts and limits; shared
\* credentials; agents and memory of the current version.
MCDocuments ==
       {Document}
  \cup {[Document EXCEPT !.legacy = TRUE, !.version = 0, !.servers = <<P1>>, !.approval = a, !.limit = 1] :
          a \in {"", "mutating"}}
  \cup {[Document EXCEPT !.version = v, !.servers = s, !.idleOld = 7, !.limit = 20, !.turns = t] :
          v \in {0, 2, 3, 4, 5}, t \in {-1, 0},
          s \in {<<P1>>, <<P1, P2>>, <<[P1 EXCEPT !.label = "odd"]>>}}
  \cup {[Document EXCEPT !.version = 5, !.servers = <<P1, P2>>, !.main = "q", !.aux = x] : x \in {"", "p", "r"}}
  \cup {[Document EXCEPT !.servers = <<P1, [P2 EXCEPT !.key = "j", !.cred = c]>>,
                         !.agents = <<[name |-> "n", b |-> "p", c |-> "", tool |-> TRUE]>>,
                         !.memory = [dir |-> "d", on |-> FALSE]] : c \in Names}

MCPatches ==
  {[field |-> "approval", id |-> "", value |-> "mutating"], [field |-> "turns", id |-> "", value |-> ""],
   [field |-> "memory", id |-> "", value |-> ""], [field |-> "agent", id |-> "q", value |-> ""],
   [field |-> "key", id |-> "p", value |-> "l"], [field |-> "key", id |-> "q", value |-> "l"],
   [field |-> "credential", id |-> "q", value |-> "p"],
   [field |-> "profiles", id |-> "p", value |-> "l", other |-> "q", cred |-> "q"]}

-----------------------------------------------------------------------------
(* One part at a time                                                       *)

Parts == {"sessions", "reach", "mail", "adopt", "notices", "settings", "transcript", "grants", "files",
          "policy", "memory", "plans", "stats", "progress"}

\* The parts that choose their bounds in their initial state choose when it is their turn.
Chosen(p, v, values) == IF part = p THEN TRUE ELSE v = CHOOSE x \in values : TRUE

MCInit ==
  /\ part \in Parts
  /\ Chosen("sessions", menu, MCMenus) /\ SessionsInit
  /\ Chosen("reach", bound, {{1}}) /\ ReachInit
  /\ OperatorFilesMailInit /\ OperatorFilesAdoptInit /\ NoticesInit
  /\ Chosen("settings", document, MCDocuments) /\ SettingsInit
  /\ Chosen("transcript", chatLeft, MCChatBudgets) /\ TranscriptInit
  /\ Chosen("grants", split, {FALSE}) /\ Chosen("grants", left, MCGrantBudgets) /\ GrantsInit
  /\ FilesInit /\ RepoPolicyInit
  /\ Chosen("memory", memSteps, MCMemoryBudgets) /\ MemoryInit
  /\ Chosen("plans", planLeft, MCPlanBudgets) /\ PlansInit
  /\ Chosen("stats", statsLeft, MCStatsBudgets) /\ StatsInit
  /\ Chosen("progress", watchMenu, MCWatchMenus) /\ ProgressInit

mcVars ==
  <<part, sesVars, reachVars, mailFileVars, adoptVars, noticeVars, settingsVars, transcriptVars,
    grantVars, fileVars, policyVars, memoryVars, planVars, statsVars, progressVars>>

MCNext ==
  \/ /\ part = "sessions" /\ SessionsNext
     /\ UNCHANGED <<part, reachVars, mailFileVars, adoptVars, noticeVars, settingsVars,
                    transcriptVars, grantVars, fileVars, policyVars, memoryVars, planVars,
                    statsVars, progressVars>>
  \/ /\ part = "reach" /\ ReachNext
     /\ UNCHANGED <<part, sesVars, mailFileVars, adoptVars, noticeVars, settingsVars,
                    transcriptVars, grantVars, fileVars, policyVars, memoryVars, planVars,
                    statsVars, progressVars>>
  \/ /\ part = "mail" /\ OperatorFilesMailNext
     /\ UNCHANGED <<part, sesVars, reachVars, adoptVars, noticeVars, settingsVars,
                    transcriptVars, grantVars, fileVars, policyVars, memoryVars, planVars,
                    statsVars, progressVars>>
  \/ /\ part = "adopt" /\ OperatorFilesAdoptNext
     /\ UNCHANGED <<part, sesVars, reachVars, mailFileVars, noticeVars, settingsVars,
                    transcriptVars, grantVars, fileVars, policyVars, memoryVars, planVars,
                    statsVars, progressVars>>
  \/ /\ part = "notices" /\ NoticesNext
     /\ UNCHANGED <<part, sesVars, reachVars, mailFileVars, adoptVars, settingsVars,
                    transcriptVars, grantVars, fileVars, policyVars, memoryVars, planVars,
                    statsVars, progressVars>>
  \/ /\ part = "settings" /\ SettingsNext
     /\ UNCHANGED <<part, sesVars, reachVars, mailFileVars, adoptVars, noticeVars,
                    transcriptVars, grantVars, fileVars, policyVars, memoryVars, planVars,
                    statsVars, progressVars>>
  \/ /\ part = "transcript" /\ TranscriptNext
     /\ UNCHANGED <<part, sesVars, reachVars, mailFileVars, adoptVars, noticeVars, settingsVars,
                    grantVars, fileVars, policyVars, memoryVars, planVars, statsVars,
                    progressVars>>
  \/ /\ part = "grants" /\ GrantsNext
     /\ UNCHANGED <<part, sesVars, reachVars, mailFileVars, adoptVars, noticeVars, settingsVars,
                    transcriptVars, fileVars, policyVars, memoryVars, planVars, statsVars,
                    progressVars>>
  \/ /\ part = "files" /\ FilesNext
     /\ UNCHANGED <<part, sesVars, reachVars, mailFileVars, adoptVars, noticeVars, settingsVars,
                    transcriptVars, grantVars, policyVars, memoryVars, planVars, statsVars,
                    progressVars>>
  \/ /\ part = "policy" /\ RepoPolicyNext
     /\ UNCHANGED <<part, sesVars, reachVars, mailFileVars, adoptVars, noticeVars, settingsVars,
                    transcriptVars, grantVars, fileVars, memoryVars, planVars, statsVars,
                    progressVars>>
  \/ /\ part = "memory" /\ MemoryNext
     /\ UNCHANGED <<part, sesVars, reachVars, mailFileVars, adoptVars, noticeVars, settingsVars,
                    transcriptVars, grantVars, fileVars, policyVars, planVars, statsVars,
                    progressVars>>
  \/ /\ part = "plans" /\ PlansNext
     /\ UNCHANGED <<part, sesVars, reachVars, mailFileVars, adoptVars, noticeVars, settingsVars,
                    transcriptVars, grantVars, fileVars, policyVars, memoryVars, statsVars,
                    progressVars>>
  \/ /\ part = "stats" /\ StatsNext
     /\ UNCHANGED <<part, sesVars, reachVars, mailFileVars, adoptVars, noticeVars, settingsVars,
                    transcriptVars, grantVars, fileVars, policyVars, memoryVars, planVars,
                    progressVars>>
  \/ /\ part = "progress" /\ ProgressNext
     /\ UNCHANGED <<part, sesVars, reachVars, mailFileVars, adoptVars, noticeVars, settingsVars,
                    transcriptVars, grantVars, fileVars, policyVars, memoryVars, planVars,
                    statsVars>>

MCSpec == MCInit /\ [][MCNext]_mcVars

\* The two bookkeepers of the event bus, stats/ledger.go and progress/progress.go, are right about
\* what they saw: ledgers add up and hold every recorded run, verdicts are the ones deserved.
BookkeepersRight == StatsKept /\ VerdictsDeserved
=============================================================================
