------------------------------- MODULE Grants -------------------------------
(***************************************************************************)
(* Under which identity a tool call runs.  With the service account split  *)
(* on, a call runs as the restricted account unless the operator said      *)
(* otherwise: for this call, for the run, for the chat, or for everything  *)
(* while the operator context is switched on.  One chat, its runs and tool *)
(* calls (agent/run.go executeTool), the grants (agent/shell_grant.go,     *)
(* agent/file_grant.go), the switch with its idle timer                    *)
(* (web/operator_context.go) and the configuration the tools were last     *)
(* given (tools/shell_identity.go, tools/file_identity.go).                *)
(*                                                                         *)
(* Abstracted: a call is its tool and whether its command is one of the    *)
(* operator's executables ("cmd") or one of the repository's default       *)
(* grants ("repo"); the outcome of the service account (ran, refused) is   *)
(* free.  The approval card itself is module Gate.                         *)
(***************************************************************************)
EXTENDS Naturals, Sequences, FiniteSets, SequencesExt

CONSTANT GrantBudgets   \* bounds: runs, calls and their tools, revocations, switches, configuration writes

Kinds == {"file", "shell", "cmd", "repo", "script", "other"}

ASSUME BudgetsAssumption ==
  GrantBudgets \subseteq [runs : Nat, calls : Nat, revokes : Nat, switches : Nat, writes : Nat,
                          tools : SUBSET Kinds]

VARIABLES
  split,        \* cfg.Shell.ServiceAccount.Enabled
  switch,       \* Server.operatorEnabled
  opEpoch,      \* Server.operatorEpoch
  armed,        \* epochs whose idle timer is set
  firing,       \* epochs whose timer callback has started and waits for the lock
  switching,    \* the holder of operatorChangeMu
  writer,       \* another handler between ConfigSnapshot and Configure
  given,        \* the configuration the tools last received
  running,      \* the run in progress, 0 when none
  call,         \* the tool call in progress
  runGrants,    \* shellGrants and fileRunGrants: <<run, rule>>
  chatGrants,   \* shellSessionGrants, fileSessionGrants, identityChatGrants, policyChatGrants
  lapsing,      \* the grant tables lapseSessionGrants has still to clear
  left,         \* how many of each bounded step may still be taken
  told,         \* what the operator said: a run's number, or 0 for the chat (history)
  racing,       \* the last revocation met a chat answer that was on its way (history)
  staleConfig   \* the last Configure carried an outdated snapshot (history)

grantVars == <<split, switch, opEpoch, armed, firing, switching, writer, given, running, call,
               runGrants, chatGrants, lapsing, left, told, racing, staleConfig>>
switchVars == <<switch, opEpoch, armed, firing>>

IsShell(t) == t \in {"shell", "cmd", "repo"}
PolicyOf(t) == IF IsShell(t) THEN "policy_shell" ELSE IF t = "script" THEN "policy_script"
               ELSE IF t = "file" THEN "policy_file" ELSE "policy_other"
Tables == <<{"identity"}, {"policy_shell", "policy_script", "policy_file", "policy_other"},
            {"shell_policy", "shell_boundary", "operator_command"}, {"file"}>>

NoSnap == [split |-> FALSE, on |-> FALSE, at |-> "none"]
Snapshot == [split |-> split, on |-> switch, at |-> "taken"]
NoToolCall == [tool |-> "other", at |-> "none", answer |-> "", owes |-> <<>>, forced |-> FALSE,
         override |-> FALSE, told |-> FALSE]
NotSwitching == [by |-> "none", snap |-> NoSnap]

GrantsInit ==
  /\ split \in BOOLEAN
  /\ switch = FALSE /\ opEpoch = 0 /\ armed = {} /\ firing = {} /\ switching = NotSwitching
  /\ writer = NoSnap
  /\ given = [split |-> split, on |-> FALSE]
  /\ running = 0 /\ call = NoToolCall
  /\ runGrants = {} /\ chatGrants = {} /\ lapsing = <<>>
  /\ left \in GrantBudgets
  /\ told = {} /\ racing = FALSE /\ staleConfig = FALSE

-----------------------------------------------------------------------------
(* The switch and the configuration of the tools                            *)

\* resetOperatorTimerLocked: a new epoch; the old timer is stopped, a callback
\* that has already started is not.
ResetTimer(enabled) ==
  /\ switch' = enabled
  /\ opEpoch' = opEpoch + 1
  /\ armed' = IF enabled THEN {opEpoch + 1} ELSE {}

Held(by) == switching.by = "none" /\ switching' = [by |-> by, snap |-> NoSnap]

\* The operator works the switch (applyOperatorContextPatch).
SetOperatorContext ==
  /\ left.switches > 0
  /\ Held("request")
  /\ \E enabled \in BOOLEAN : ResetTimer(enabled)
  /\ left' = [left EXCEPT !.switches = @ - 1]
  /\ UNCHANGED <<split, firing, writer, given, running, call, runGrants, chatGrants, lapsing,
                 told, racing, staleConfig>>

\* The idle timer fires: from here Stop no longer recalls it.
TimerFires ==
  /\ \E e \in armed : armed' = armed \ {e} /\ firing' = firing \cup {e}
  /\ UNCHANGED <<split, switch, opEpoch, switching, writer, given, running, call, runGrants,
                 chatGrants, lapsing, left, told, racing, staleConfig>>

\* The callback gets the lock: it switches off only what its own epoch switched on.
TimerRuns ==
  /\ \E e \in firing :
       /\ switching.by = "none"
       /\ firing' = firing \ {e}
       /\ IF e = opEpoch
          THEN Held("timer") /\ ResetTimer(FALSE)
          ELSE UNCHANGED <<switch, opEpoch, armed, switching>>
  /\ UNCHANGED <<split, writer, given, running, call, runGrants, chatGrants, lapsing, left,
                 told, racing, staleConfig>>

\* applyOperatorContext: ConfigSnapshot, then Runner.Configure; no lock that the
\* other writers take is held between the two.
ApplySnapshot ==
  /\ switching.by # "none" /\ switching.snap = NoSnap
  /\ switching' = [switching EXCEPT !.snap = Snapshot]
  /\ UNCHANGED <<split, switchVars, writer, given, running, call, runGrants, chatGrants, lapsing,
                 left, told, racing, staleConfig>>

\* Shell.Configure and FileIdentity.Configure: the tools take the snapshot.
Configured(snap) ==
  /\ given' = [split |-> snap.split, on |-> snap.on]
  /\ staleConfig' = (given' # [split |-> split, on |-> switch])

ApplyConfigures ==
  /\ switching.by # "none" /\ switching.snap # NoSnap
  /\ Configured(switching.snap)
  /\ switching' = NotSwitching
  /\ call' = CASE switching.by = "card" -> [call EXCEPT !.answer = "operator_mode", !.told = TRUE]
               [] switching.by = "started" -> [call EXCEPT !.at = "exec"]
               [] switching.by = "done" -> [call EXCEPT !.at = "completed"]
               [] OTHER -> call
  /\ UNCHANGED <<split, switchVars, writer, running, runGrants, chatGrants, lapsing, left, told,
                 racing>>

\* A handler that saved the configuration (POST config, tool toggle, server
\* change, network policy) takes its snapshot and configures the tools later.
WriterSnapshot ==
  /\ left.writes > 0 /\ writer = NoSnap
  /\ writer' = Snapshot
  /\ left' = [left EXCEPT !.writes = @ - 1]
  /\ UNCHANGED <<split, switchVars, switching, given, running, call, runGrants, chatGrants,
                 lapsing, told, racing, staleConfig>>

\* enableConfiguredServiceAccount copies the stored configuration itself, in
\* which the operator context is never set.
EnableServiceAccount ==
  /\ left.writes > 0 /\ writer = NoSnap
  /\ split' = TRUE
  /\ writer' = [split |-> TRUE, on |-> FALSE, at |-> "taken"]
  /\ left' = [left EXCEPT !.writes = @ - 1]
  /\ UNCHANGED <<switchVars, switching, given, running, call, runGrants, chatGrants, lapsing,
                 told, racing, staleConfig>>

WriterConfigures ==
  /\ writer # NoSnap
  /\ Configured(writer)
  /\ writer' = NoSnap
  /\ UNCHANGED <<split, switchVars, switching, running, call, runGrants, chatGrants, lapsing,
                 left, told, racing>>

-----------------------------------------------------------------------------
(* Grants                                                                   *)

HasShell(rule) == rule \in chatGrants \/ <<running, rule>> \in runGrants
HasFile == "file" \in chatGrants \/ <<running, "file">> \in runGrants
HasIdentity == "identity" \in chatGrants
HasPolicy(t) == PolicyOf(t) \in chatGrants

\* What the operator said covers a call of this run that starts now.
Covered == 0 \in told \/ running \in told

StartRun ==
  /\ running = 0 /\ left.runs > 0
  /\ left' = [left EXCEPT !.runs = @ - 1]
  /\ running' = left.runs
  /\ UNCHANGED <<split, switchVars, switching, writer, given, call, runGrants, chatGrants, lapsing,
                 told, racing, staleConfig>>

LapseFileRun(grants) == {g \in grants : g # <<running, "file">>}
LapseShellRun(grants) == {g \in grants : g[1] # running \/ g[2] = "file"}

\* Run returns: its deferred calls lapse the grants of the run.
EndRun ==
  /\ running # 0 /\ call.at = "none"
  /\ runGrants' = LapseShellRun(LapseFileRun(runGrants))
  /\ running' = 0
  /\ told' = told \ {running}
  /\ UNCHANGED <<split, switchVars, switching, writer, given, call, chatGrants, lapsing, left,
                 racing, staleConfig>>

\* RevokeSessionGrants (any time) and LapseSessionGrants (a closed chat).
Revoke ==
  /\ lapsing = <<>> /\ left.revokes > 0
  /\ left' = [left EXCEPT !.revokes = @ - 1]
  /\ lapsing' = Tables
  /\ racing' = (call.answer = "session" \/ call.owes # <<>>)
  /\ UNCHANGED <<split, switchVars, switching, writer, given, running, call, runGrants, chatGrants,
                 told, staleConfig>>

\* lapseSessionGrants clears one table under its lock, then the next.
LapseTable ==
  /\ lapsing # <<>>
  /\ chatGrants' = chatGrants \ Head(lapsing)
  /\ lapsing' = Tail(lapsing)
  /\ told' = IF Len(lapsing) = 1 /\ ~racing THEN told \ {0} ELSE told
  /\ UNCHANGED <<split, switchVars, switching, writer, given, running, call, runGrants, left,
                 racing, staleConfig>>

-----------------------------------------------------------------------------
(* One tool call                                                            *)

Forced(t) == [NoToolCall EXCEPT !.tool = t, !.at = "started", !.forced = TRUE, !.told = Covered]
Plain(t) == [NoToolCall EXCEPT !.tool = t, !.at = "started"]
AsksOperator(t, kind) == [NoToolCall EXCEPT !.tool = t, !.at = kind]

Divided == split /\ ~switch

\* Mutant of RunsForced: a policy grant of the shell lets it run as the operator.
RunsForcedByPolicy(t) ==
  /\ Divided
  /\ \/ t # "other" /\ HasIdentity
     \/ t = "file" /\ HasFile
     \/ IsShell(t) /\ (HasShell("shell_boundary") \/ HasShell("shell_policy"))
     \/ t = "cmd" /\ HasShell("operator_command")

\* The grants under which executeTool runs a call as the operator without asking.
RunsForced(t) ==
  /\ Divided
  /\ \/ t # "other" /\ HasIdentity
     \/ t = "file" /\ HasFile
     \/ IsShell(t) /\ HasShell("shell_boundary")
     \/ t = "cmd" /\ HasShell("operator_command")

\* The command's executable is one of the configured operator commands.
IsOperatorCommand(t) == t = "cmd"
\* The command matches a default grant of the repository's approved policy.
RepoGranted(t) == t = "repo"

\* gate.requiredFor: under approval.mode "mutating" or "all" the call asks first.
AsksPolicy(t, required, policy) ==
  IF t = "script" /\ split /\ ~HasPolicy(t) THEN TRUE
  ELSE IF IsShell(t) /\ policy THEN FALSE
  ELSE IF IsShell(t) /\ Divided /\ required THEN TRUE
  ELSE ~HasPolicy(t) /\ required

\* executeTool, up to the first approval or the execution.
Dispatch(t, required) ==
  /\ running # 0 /\ call.at = "none" /\ left.calls > 0
  /\ left' = [left EXCEPT !.calls = @ - 1]
  /\ IF RunsForced(t)
     THEN call' = Forced(t) /\ UNCHANGED runGrants
     ELSE IF IsOperatorCommand(t) /\ Divided
     THEN call' = AsksOperator(t, "command") /\ UNCHANGED runGrants
     ELSE LET grants == IF RepoGranted(t) /\ ~HasShell("shell_policy")
                        THEN runGrants \cup {<<running, "shell_policy">>} ELSE runGrants
              policy == "shell_policy" \in chatGrants \/ <<running, "shell_policy">> \in grants
          IN  /\ runGrants' = grants
              /\ call' = IF AsksPolicy(t, required, policy) THEN AsksOperator(t, "policy") ELSE Plain(t)
  /\ UNCHANGED <<split, switchVars, switching, writer, given, running, chatGrants, lapsing, told,
                 racing, staleConfig>>

Waiting == call.at \in {"command", "policy", "override"} /\ call.answer = ""
Boundary == call.at \in {"command", "override"}

\* Gate.DecideWith, the decisions each kind of wait accepts.
Offers(d) ==
  \/ d \in {"once", "deny", "session"}
  \/ d = "run" /\ (IsShell(call.tool) \/ call.at = "override")

DecideCard(d) ==
  /\ Waiting /\ Offers(d) /\ switching.by # "card"
  /\ call' = [call EXCEPT !.answer = d, !.told = Boundary /\ d # "deny"]
  /\ told' = IF ~Boundary THEN told
             ELSE IF d = "session" THEN told \cup {0}
             ELSE IF d = "run" THEN told \cup {running} ELSE told
  /\ racing' = (racing \/ (lapsing # <<>> /\ d = "session"))
  /\ UNCHANGED <<split, switchVars, switching, writer, given, running, runGrants, chatGrants,
                 lapsing, left, staleConfig>>

\* "operator_mode": the switch goes on, with the gate locked, before the answer counts.
DecideOperatorMode ==
  /\ Waiting /\ IsShell(call.tool) /\ left.switches > 0
  /\ Held("card") /\ ResetTimer(TRUE)
  /\ left' = [left EXCEPT !.switches = @ - 1]
  /\ UNCHANGED <<split, firing, writer, given, running, call, runGrants, chatGrants, lapsing, told,
                 racing, staleConfig>>

\* The run is stopped while the call waits.
Canceled ==
  /\ Waiting /\ switching.by # "card"
  /\ call' = NoToolCall
  /\ UNCHANGED <<split, switchVars, switching, writer, given, running, runGrants, chatGrants,
                 lapsing, left, told, racing, staleConfig>>

GrantRun(rule) == runGrants' = runGrants \cup {<<running, rule>>}

\* The rule a decision of this wait is recorded under.
RuleOf == IF call.at = "command" THEN "operator_command"
          ELSE IF call.at = "policy" THEN "shell_policy"
          ELSE IF call.tool = "file" THEN "file" ELSE "shell_boundary"
HasRule == IsShell(call.tool) \/ (call.at = "override" /\ call.tool = "file")
ChatRules == (IF HasRule THEN <<RuleOf>> ELSE <<>>)
             \o (IF Boundary THEN <<"identity">> ELSE <<PolicyOf(call.tool)>>)

\* The waiting goroutine wakes with the decision.
Wakes ==
  /\ call.answer # ""
  /\ LET next == [call EXCEPT !.answer = "", !.forced = Boundary,
                              !.at = IF call.at = "override" THEN "exec" ELSE "started"]
     IN  CASE call.answer = "deny" -> call' = NoToolCall /\ UNCHANGED runGrants
           [] call.answer = "run" ->
                /\ IF HasRule THEN GrantRun(RuleOf) ELSE UNCHANGED runGrants
                /\ call' = next
           [] call.answer = "session" ->
                call' = [next EXCEPT !.owes = ChatRules] /\ UNCHANGED runGrants
           [] OTHER -> call' = next /\ UNCHANGED runGrants
  /\ UNCHANGED <<split, switchVars, switching, writer, given, running, chatGrants, lapsing, left,
                 told, racing, staleConfig>>

\* grantShellSession or grantFileSession, then grantIdentityChat or
\* grantPolicyChat: one table and one lock after the other.
GrantChat ==
  /\ call.owes # <<>>
  /\ chatGrants' = chatGrants \cup {Head(call.owes)}
  /\ call' = [call EXCEPT !.owes = Tail(@)]
  /\ UNCHANGED <<split, switchVars, switching, writer, given, running, runGrants, lapsing, left,
                 told, racing, staleConfig>>

\* toolActivity, before and after a call: touchOperatorContext renews the idle
\* window of a switch that is on.
TouchOff(phase, next) ==
  /\ call.at = phase /\ call.owes = <<>> /\ switching.by = "none" /\ ~switch
  /\ call' = [call EXCEPT !.at = next]
  /\ UNCHANGED <<split, switchVars, switching, writer, given, running, runGrants, chatGrants,
                 lapsing, left, told, racing, staleConfig>>

TouchOn(phase) ==
  /\ call.at = phase /\ call.owes = <<>> /\ switch
  /\ Held(phase) /\ ResetTimer(TRUE)
  /\ call' = [call EXCEPT !.at = "touching"]
  /\ UNCHANGED <<split, firing, writer, given, running, runGrants, chatGrants, lapsing, left,
                 told, racing, staleConfig>>

ToolStarted == TouchOff("started", "exec") \/ TouchOn("started")

\* The call runs.  A forced call and an undivided host run as the operator; the
\* service account may refuse, and then the operator is asked to rerun it.
AsService == ~call.forced /\ given.split /\ ~given.on
Perhaps(possible) == IF possible THEN BOOLEAN ELSE {FALSE}
StartRefused == Perhaps(AsService)                 \* no credential, or the spawn failed
StartInputRefused == Perhaps(AsService)
ProcessRefused(service) == Perhaps(service)        \* it ran, and was denied permission
ShellRefused == {r \in StartRefused : r} \cup ProcessRefused(AsService)
ScriptRefused == {r \in StartInputRefused : r} \cup ProcessRefused(AsService)
FileRefused == Perhaps(AsService)
BoundaryRefused(t) == CASE IsShell(t) -> ShellRefused [] t = "script" -> ScriptRefused
                [] t = "file" -> FileRefused [] OTHER -> {FALSE}

Execute ==
  /\ call.at = "exec" /\ call.owes = <<>>
  /\ \E refused \in BoundaryRefused(call.tool) :
       call' = [call EXCEPT !.at = IF call.override THEN "completed" ELSE "done",
                            !.override = refused]
  /\ UNCHANGED <<split, switchVars, switching, writer, given, running, runGrants, chatGrants,
                 lapsing, left, told, racing, staleConfig>>

ToolCompleted == TouchOff("done", "completed") \/ TouchOn("done")

\* callDetailed has returned: the override card, or the end of the call.
Returns ==
  /\ call.at = "completed"
  /\ call' = IF call.override THEN [call EXCEPT !.at = "override"] ELSE NoToolCall
  /\ UNCHANGED <<split, switchVars, switching, writer, given, running, runGrants, chatGrants,
                 lapsing, left, told, racing, staleConfig>>

GrantsNext ==
  \/ SetOperatorContext \/ TimerFires \/ TimerRuns \/ ApplySnapshot \/ ApplyConfigures
  \/ WriterSnapshot \/ EnableServiceAccount \/ WriterConfigures
  \/ StartRun \/ EndRun \/ Revoke \/ LapseTable
  \/ \E t \in left.tools, required \in BOOLEAN : Dispatch(t, required)
  \/ \E d \in {"once", "run", "session", "deny"} : DecideCard(d)
  \/ DecideOperatorMode \/ Canceled \/ Wakes \/ GrantChat
  \/ ToolStarted \/ Execute \/ ToolCompleted \/ Returns

GrantsSpec == GrantsInit /\ [][GrantsNext]_grantVars

-----------------------------------------------------------------------------
(* Properties                                                               *)

\* A call that executeTool forces to run as the operator was allowed by the
\* operator: on its own card, or by a run or chat answer to an identity card
\* that stood when the call was dispatched.  A policy answer, a repository
\* default, an ended run or a revoked chat grant never carries the operator's
\* identity.  The one exception is a chat answer already given but not yet
\* written down when the operator revokes: its grant lands after the revocation.
RunsAsTold ==
  /\ call.forced /\ call.at \in {"started", "touching", "exec"} => call.told
  /\ \A g \in runGrants : g[1] = running

\* The operator context always has an idle timer that will end it, and once no
\* change is on its way the tools run with the switch and the account split the
\* server shows.  The exception the code leaves: the last Configure carried a
\* snapshot taken before the latest change.
OperatorContextKept ==
  /\ switch => opEpoch \in armed \cup firing
  /\ switching = NotSwitching /\ writer = NoSnap /\ ~staleConfig => given = [split |-> split, on |-> switch]

\* run.go executeTool, shell_grant.go, file_grant.go, operator_context.go: nothing runs with the
\* operator's identity that the operator did not allow, and the operator context ends.
GrantsHonoured == RunsAsTold /\ OperatorContextKept

=============================================================================
