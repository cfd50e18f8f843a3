-------------------------- MODULE PermissionProofs --------------------------
(***************************************************************************)
(* What the operator decided is what happens, for every number of          *)
(* sessions, edits, decisions, runs and calls: the folder policy a session *)
(* enforces (module RepoPolicy), the identity a tool call runs under       *)
(* (module Grants), and the configuration, which is the same after a       *)
(* restart (module Settings).                                              *)
(***************************************************************************)
EXTENDS RepoPolicy, Grants, Settings, WellFoundedInduction, TLAPS

-----------------------------------------------------------------------------
(* The folder policy                                                        *)

PolicyTypes ==
  /\ making \in [s : Sharers \cup {0}, policy : Contents \cup {"none"}, approved : BOOLEAN]
  /\ making.s = 0 => making = NotMaking
  /\ deciding \in [Sharers -> [kind : {"none", "approve", "once"},
                               hash : Contents \cup {"none"},
                               at : {"none", "asked", "checked", "stored"}]]
  /\ policyFile \in Contents \cup {"none"}
  /\ card \in [Sharers -> Contents \cup {"none"}]
  /\ enforced \in [Sharers -> Contents \cup {"none"}]
  /\ folderGiven \in SUBSET (Contents \cup {"none"})
  /\ chatGiven \in [Sharers -> SUBSET (Contents \cup {"none"})]

\* The hash the folder's file holds was given for the folder.
StoredGiven == approvedHash # "none" => approvedHash \in folderGiven

\* What Inspect told the create call under way stands until the call ends: a
\* revocation waits for Registry.mu before it takes the approval away.
MakingGiven == making.approved => making.policy \in folderGiven

\* A decision under way was given for its session, an approval for the folder
\* as well, and only an approval is stored before it is applied.
DecisionGiven(s) ==
  /\ deciding[s].at # "none" => deciding[s].kind # "none"
  /\ deciding[s].kind # "none" => deciding[s].hash \in chatGiven[s]
  /\ deciding[s].kind = "approve" => deciding[s].hash \in folderGiven
  /\ deciding[s].at = "checked" => deciding[s].kind = "approve"

PolicyInv ==
  /\ PolicyTypes /\ StoredGiven /\ MakingGiven /\ PolicyDecided
  /\ \A s \in Sharers : DecisionGiven(s)

LEMMA PolicyInitially == RepoPolicyInit => PolicyInv
  BY SharersAssumption
     DEF RepoPolicyInit, PolicyInv, PolicyTypes, StoredGiven, MakingGiven, DecisionGiven,
         PolicyDecided, NotMaking, NoDecision, Contents

LEMMA PolicyStep == PolicyInv /\ [RepoPolicyNext]_policyVars => PolicyInv'
<1> SUFFICES ASSUME PolicyInv, [RepoPolicyNext]_policyVars
             PROVE  PolicyInv'
  OBVIOUS
<1> USE SharersAssumption
    DEF PolicyInv, PolicyTypes, StoredGiven, MakingGiven, DecisionGiven, PolicyDecided
<1>1. ASSUME NEW c \in Contents \cup {"none"}, EditPolicy(c)
      PROVE  PolicyInv'
  BY <1>1 DEF EditPolicy
<1>2. ASSUME NEW s \in Sharers, CreateInspects(s)
      PROVE  PolicyInv'
  BY <1>2 DEF CreateInspects, InspectedApproved, Parses, RegistryFree, NotMaking
<1>3. ASSUME NEW s \in Sharers, DenyPolicy(s)
      PROVE  PolicyInv'
  BY <1>3 DEF DenyPolicy
<1>4. ASSUME NEW s \in Sharers, DecisionChecks(s)
      PROVE  PolicyInv'
  <2> DEFINE D == [kind : {"none", "approve", "once"}, hash : Contents \cup {"none"},
                   at : {"none", "asked", "checked", "stored"}]
  <2>1. PICK y : y = deciding[s] /\ y \in D /\ y.at = "asked" /\ y.kind # "none"
    BY <1>4 DEF DecisionChecks
  <2>2. PICK x : /\ deciding' = [deciding EXCEPT ![s] = x]
                 /\ x = IF Parses(policyFile) /\ SameHash(policyFile, deciding[s].hash)
                        THEN [deciding[s] EXCEPT !.hash = policyFile,
                                !.at = IF deciding[s].kind = "approve" THEN "checked" ELSE "stored"]
                        ELSE NoDecision
    BY <1>4 DEF DecisionChecks
  <2>3. /\ x \in D /\ (x.at # "none" => x.kind # "none") /\ (x.at = "checked" => x.kind = "approve")
        /\ x.kind # "none" => x.kind = y.kind /\ x.hash = y.hash
    <3>1. CASE x = [y EXCEPT !.hash = y.hash, !.at = IF y.kind = "approve" THEN "checked" ELSE "stored"]
      BY <2>1, <3>1
    <3>2. CASE x = NoDecision
      BY <3>2 DEF NoDecision
    <3>3. QED  BY <2>1, <2>2, <3>1, <3>2 DEF SameHash
  <2>4. /\ deciding'[s] = x /\ \A k \in Sharers \ {s} : deciding'[k] = deciding[k]
        /\ deciding' \in [Sharers -> D]
    BY <2>2, <2>3
  <2>5. ASSUME NEW k \in Sharers PROVE DecisionGiven(k)'
    <3>1. DecisionGiven(s) /\ DecisionGiven(k) /\ chatGiven' = chatGiven /\ folderGiven' = folderGiven
      BY <1>4 DEF DecisionChecks
    <3>2. CASE k = s
      BY <2>1, <2>3, <2>4, <3>1, <3>2
    <3>3. CASE k # s
      BY <2>4, <3>1, <3>3
    <3>4. QED  BY <3>2, <3>3
  <2>6. QED  BY <1>4, <2>4, <2>5 DEF DecisionChecks
<1>5. ASSUME NEW s \in Sharers, ApproveStores(s)
      PROVE  PolicyInv'
  BY <1>5 DEF ApproveStores
<1>6. ASSUME NEW s \in Sharers, ApproveFails(s)
      PROVE  PolicyInv'
  BY <1>6 DEF ApproveFails, NoDecision
<1>7. ASSUME NEW s \in Sharers, ApplyRepoPolicy(s)
      PROVE  PolicyInv'
  BY <1>7 DEF ApplyRepoPolicy, NoDecision
<1>8. ASSUME NEW s \in Sharers, NEW kind \in {"approve", "once"}, Decide(s, kind)
      PROVE  PolicyInv'
  BY <1>8 DEF Decide
<1>9. CASE CreateSets
  BY <1>9 DEF CreateSets, NotMaking
<1>10. CASE CreateFails
  BY <1>10 DEF CreateFails, NotMaking
<1>11. CASE RevokeStores
  BY <1>11 DEF RevokeStores
<1>12. CASE RevokeClears
  BY <1>12 DEF RevokeClears, RegistryFree, NotMaking
<1>13. CASE RebootPolicies
  BY <1>13 DEF RebootPolicies, NotMaking, NoDecision
<1>14. CASE UNCHANGED policyVars
  BY <1>14 DEF policyVars
<1>15. QED
  BY <1>1, <1>2, <1>3, <1>4, <1>5, <1>6, <1>7, <1>8, <1>9, <1>10, <1>11, <1>12, <1>13, <1>14
     DEF RepoPolicyNext

\* What a session enforces was decided by the operator, for exactly that content,
\* and not revoked since (workspace/manager.go Approve and Revoke,
\* registry.go create and RevokeRepoPolicy), however many sessions share the folder.
THEOREM PolicyCorrect == RepoPolicySpec => []PolicyDecided
<1>1. PolicyInv => PolicyDecided
  BY DEF PolicyInv
<1>2. QED
  BY <1>1, PolicyInitially, PolicyStep, PTL DEF RepoPolicySpec

-----------------------------------------------------------------------------
(* The identity of a tool call                                              *)

\* The rules under which a call runs as the operator without being asked.
Ids == {"identity", "file", "shell_boundary", "operator_command"}
GrantRules == Ids \cup {"shell_policy", "policy_shell", "policy_script", "policy_file", "policy_other"}
Cards == {"command", "policy", "override"}
Underway == {"started", "touching", "exec", "done", "completed"}

Budget ==
  [runs : Nat, calls : Nat, revokes : Nat, switches : Nat, writes : Nat, tools : SUBSET Kinds]
ToolCalls ==
  [tool : Kinds, at : Cards \cup {"none", "started", "touching", "exec", "done", "completed"},
   answer : {"", "once", "run", "session", "deny", "operator_mode"},
   owes : Seq(GrantRules), forced : BOOLEAN, override : BOOLEAN, told : BOOLEAN]
Changers == {"none", "request", "timer", "card", "started", "done"}
Changes == [by : Changers, snap : [split : BOOLEAN, on : BOOLEAN, at : {"none", "taken"}]]

GrantTypes ==
  /\ left \in Budget
  /\ running \in Nat
  /\ call \in ToolCalls
  /\ switching \in Changes
  /\ split \in BOOLEAN /\ switch \in BOOLEAN /\ racing \in BOOLEAN
  /\ runGrants \in SUBSET (Nat \X GrantRules)
  /\ chatGrants \in SUBSET GrantRules
  /\ lapsing \in Seq(SUBSET GrantRules)

\* Where a call stands: who may be changing the switch on its behalf, when it
\* has an answer, and when it still has grants to write down.
CallShape ==
  /\ call.at = "none" => call = NoToolCall
  /\ running = 0 => call = NoToolCall /\ runGrants = {}
  /\ switching.by = "card" => call.at \in Cards /\ call.answer = ""
  /\ switching.by \in {"started", "done"} <=> call.at = "touching"
  /\ call.answer # "" => call.at \in Cards
  /\ call.owes # <<>> => call.at \in {"started", "exec"}

\* An answer that lets the call run as the operator is the operator's, and so
\* are the grants that the call has still to write down.
AnswerTold ==
  /\ call.forced /\ call.at \in Underway => call.told
  /\ Boundary /\ call.answer \notin {"", "deny"} => call.told
  /\ Boundary /\ call.answer = "run" => running \in told
  /\ Boundary /\ call.answer = "session" => 0 \in told
  /\ \A i \in 1 .. Len(call.owes) : call.owes[i] \in Ids => 0 \in told

\* So are the grants written down.
GrantsTold ==
  /\ \A g \in runGrants : g[1] = running /\ (g[2] \in Ids => running \in told)
  /\ \A r \in chatGrants : r \in Ids => 0 \in told

\* A revocation that met no chat answer on its way finds in the tables it has
\* still to clear every grant that is left, and none is being added.
RevocationComplete ==
  lapsing # <<>> /\ ~racing =>
    /\ call.answer # "session" /\ call.owes = <<>>
    /\ \A r \in chatGrants : r \in Ids => \E i \in 1 .. Len(lapsing) : r \in lapsing[i]

GrantsInv ==
  /\ GrantTypes /\ CallShape /\ AnswerTold /\ GrantsTold /\ RevocationComplete
  /\ OperatorContextKept

LEMMA BudgetSpent ==
  ASSUME NEW l \in Budget
  PROVE  /\ l.runs \in Nat /\ l.tools \subseteq Kinds
         /\ l.runs > 0 => [l EXCEPT !.runs = @ - 1] \in Budget
         /\ l.calls > 0 => [l EXCEPT !.calls = @ - 1] \in Budget
         /\ l.revokes > 0 => [l EXCEPT !.revokes = @ - 1] \in Budget
         /\ l.switches > 0 => [l EXCEPT !.switches = @ - 1] \in Budget
         /\ l.writes > 0 => [l EXCEPT !.writes = @ - 1] \in Budget
  BY DEF Budget

LEMMA EmptyOwed ==
  /\ <<>> \in Seq(GrantRules) /\ <<>> \in Seq(SUBSET GrantRules)
  /\ 1 .. Len(<<>>) = {}
  OBVIOUS

LEMMA NoCallFacts ==
  /\ NoToolCall \in ToolCalls
  /\ NoToolCall.at = "none" /\ NoToolCall.answer = "" /\ NoToolCall.owes = <<>>
  /\ NoToolCall.forced = FALSE
  BY EmptyOwed DEF NoToolCall, ToolCalls, Kinds

LEMMA HeadAndTail ==
  ASSUME NEW S, NEW s \in Seq(S), s # <<>>
  PROVE  /\ 1 \in 1 .. Len(s) /\ Head(s) = s[1] /\ Head(s) \in S /\ Tail(s) \in Seq(S)
         /\ \A i \in 1 .. Len(Tail(s)) : i + 1 \in 1 .. Len(s) /\ Tail(s)[i] = s[i + 1]
  OBVIOUS

LEMMA ShortSequences ==
  ASSUME NEW S
  PROVE  /\ <<>> \in Seq(S) /\ \A x \in S : <<x>> \in Seq(S)
         /\ \A s, t \in Seq(S) : s \o t \in Seq(S)
  OBVIOUS

LEMMA GrantsInitially == GrantsInit => GrantsInv
<1> SUFFICES ASSUME GrantsInit
             PROVE  GrantsInv
  OBVIOUS
<1>1. left \in Budget /\ switching \in Changes /\ switching.by = "none"
  BY BudgetsAssumption DEF GrantsInit, Budget, NotSwitching, Changes, Changers, NoSnap
<1>2. GrantTypes
  BY <1>1, NoCallFacts, EmptyOwed DEF GrantsInit, GrantTypes
<1>3. CallShape /\ AnswerTold /\ GrantsTold
  BY <1>1, NoCallFacts, EmptyOwed DEF GrantsInit, CallShape, AnswerTold, GrantsTold, Boundary
<1>4. RevocationComplete /\ OperatorContextKept
  BY DEF GrantsInit, RevocationComplete, OperatorContextKept
<1>5. QED
  BY <1>2, <1>3, <1>4 DEF GrantsInv

\* A step that leaves the call and the grants alone and at most starts a change
\* of the switch that no call waits for.
LEMMA CallUntouched ==
  ASSUME GrantsInv,
         UNCHANGED <<running, call, runGrants, chatGrants, lapsing, told, racing>>,
         left' \in Budget, switching' \in Changes, split' \in BOOLEAN, switch' \in BOOLEAN,
         \/ switching'.by = switching.by
         \/ switching.by = "none" /\ switching'.by \in {"request", "timer"}
         \/ switching.by \in {"none", "request", "timer"} /\ switching'.by = "none",
         OperatorContextKept'
  PROVE  GrantsInv'
<1>1. GrantTypes'
  BY DEF GrantsInv, GrantTypes
<1>2. CallShape'
  BY DEF GrantsInv, CallShape
<1>3. AnswerTold'
  BY DEF GrantsInv, AnswerTold, Boundary
<1>4. GrantsTold' /\ RevocationComplete'
  BY DEF GrantsInv, GrantsTold, RevocationComplete
<1>5. QED
  BY <1>1, <1>2, <1>3, <1>4 DEF GrantsInv

\* The switch, its timer and the configuration handlers.
LEMMA SwitchSteps ==
  ASSUME GrantsInv,
         \/ SetOperatorContext \/ TimerFires \/ TimerRuns \/ ApplySnapshot
         \/ WriterSnapshot \/ EnableServiceAccount \/ WriterConfigures
  PROVE  GrantsInv'
<1>1. left \in Budget /\ switching \in Changes /\ split \in BOOLEAN /\ switch \in BOOLEAN
  BY DEF GrantsInv, GrantTypes
<1>2. OperatorContextKept
  BY DEF GrantsInv
<1>3. CASE SetOperatorContext
  <2>1. left' \in Budget /\ switch' \in BOOLEAN
    BY <1>1, <1>3, BudgetSpent DEF SetOperatorContext, ResetTimer
  <2>2. switching.by = "none" /\ switching' \in Changes /\ switching'.by = "request"
    BY <1>3 DEF SetOperatorContext, Held, NoSnap, Changes, Changers
  <2>3. OperatorContextKept'
    BY <1>2, <1>3, <2>2 DEF SetOperatorContext, ResetTimer, OperatorContextKept, NotSwitching
  <2>4. QED
    BY <1>1, <1>3, <2>1, <2>2, <2>3, CallUntouched DEF SetOperatorContext
<1>4. CASE TimerFires
  <2>1. OperatorContextKept'
    BY <1>2, <1>4 DEF TimerFires, OperatorContextKept
  <2>2. QED
    BY <1>1, <1>4, <2>1, CallUntouched DEF TimerFires
<1>5. CASE TimerRuns
  <2>1. PICK e \in firing :
          /\ firing' = firing \ {e}
          /\ IF e = opEpoch THEN Held("timer") /\ ResetTimer(FALSE)
                            ELSE UNCHANGED <<switch, opEpoch, armed, switching>>
    BY <1>5 DEF TimerRuns
  <2>2. CASE e = opEpoch
    <3>1. switch' = FALSE /\ switching.by = "none" /\ switching' = [by |-> "timer", snap |-> NoSnap]
      BY <2>1, <2>2 DEF Held, ResetTimer
    <3>2. switching' \in Changes /\ switching'.by = "timer"
      BY <3>1 DEF NoSnap, Changes, Changers
    <3>3. OperatorContextKept'
      BY <3>1, <3>2 DEF OperatorContextKept, NotSwitching
    <3>4. QED
      BY <1>1, <1>5, <3>1, <3>2, <3>3, CallUntouched DEF TimerRuns
  <2>3. CASE e # opEpoch
    <3>1. UNCHANGED <<switch, opEpoch, armed, switching, split, writer, given, staleConfig>>
      BY <1>5, <2>1, <2>3 DEF TimerRuns
    <3>2. OperatorContextKept'
      BY <1>2, <2>1, <2>3, <3>1 DEF OperatorContextKept
    <3>3. QED
      BY <1>1, <1>5, <3>1, <3>2, CallUntouched DEF TimerRuns
  <2>4. QED
    BY <2>2, <2>3
<1>6. CASE ApplySnapshot
  <2>1. switching' \in Changes /\ switching'.by = switching.by /\ switching'.by # "none"
    BY <1>1, <1>6 DEF ApplySnapshot, Snapshot, Changes
  <2>2. OperatorContextKept'
    BY <1>2, <1>6, <2>1 DEF ApplySnapshot, OperatorContextKept, NotSwitching, switchVars
  <2>3. QED
    BY <1>1, <1>6, <2>1, <2>2, CallUntouched DEF ApplySnapshot, switchVars
<1>7. CASE WriterSnapshot
  <2>1. left' \in Budget
    BY <1>1, <1>7, BudgetSpent DEF WriterSnapshot
  <2>2. OperatorContextKept'
    BY <1>2, <1>7 DEF WriterSnapshot, OperatorContextKept, NoSnap, Snapshot, switchVars
  <2>3. QED
    BY <1>1, <1>7, <2>1, <2>2, CallUntouched DEF WriterSnapshot, switchVars
<1>8. CASE EnableServiceAccount
  <2>1. left' \in Budget
    BY <1>1, <1>8, BudgetSpent DEF EnableServiceAccount
  <2>2. OperatorContextKept'
    BY <1>2, <1>8 DEF EnableServiceAccount, OperatorContextKept, NoSnap, switchVars
  <2>3. QED
    BY <1>1, <1>8, <2>1, <2>2, CallUntouched DEF EnableServiceAccount, switchVars
<1>9. CASE WriterConfigures
  <2>1. OperatorContextKept'
    BY <1>2, <1>9 DEF WriterConfigures, Configured, OperatorContextKept, switchVars
  <2>2. QED
    BY <1>1, <1>9, <2>1, CallUntouched DEF WriterConfigures, switchVars
<1>10. QED
  BY <1>3, <1>4, <1>5, <1>6, <1>7, <1>8, <1>9

LEMMA ApplyConfiguresStep == GrantsInv /\ ApplyConfigures => GrantsInv'
<1> SUFFICES ASSUME GrantsInv, ApplyConfigures
             PROVE  GrantsInv'
  OBVIOUS
<1>1. OperatorContextKept'
  BY DEF GrantsInv, OperatorContextKept, ApplyConfigures, Configured, switchVars
<1>2. switching' \in Changes /\ switching'.by = "none"
  BY DEF ApplyConfigures, NotSwitching, NoSnap, Changes, Changers
<1>3. UNCHANGED <<running, runGrants, chatGrants, lapsing, told, racing, left, split, switch>>
  BY DEF ApplyConfigures, switchVars
<1>4. call \in ToolCalls
  BY DEF GrantsInv, GrantTypes
<1>5. ASSUME call' \in ToolCalls, AnswerTold', CallShape',
             call'.owes = call.owes, call'.answer \in {call.answer, "operator_mode"}
      PROVE  GrantsInv'
  <2>1. GrantTypes'
    BY <1>2, <1>3, <1>5 DEF GrantsInv, GrantTypes
  <2>2. GrantsTold' /\ RevocationComplete'
    BY <1>3, <1>5 DEF GrantsInv, GrantsTold, RevocationComplete
  <2>3. QED
    BY <1>1, <1>5, <2>1, <2>2 DEF GrantsInv
<1>6. CASE switching.by = "card"
  <2>1. call.at \in Cards /\ call.owes = <<>> /\ running # 0
    BY <1>6, NoCallFacts DEF GrantsInv, CallShape, Cards
  <2>2. /\ call' \in ToolCalls /\ call'.answer = "operator_mode" /\ call'.told = TRUE
        /\ call'.at = call.at /\ call'.owes = call.owes
    BY <1>4, <1>6 DEF ApplyConfigures, ToolCalls
  <2>3. CallShape'
    BY <1>2, <1>3, <2>1, <2>2 DEF CallShape, Cards
  <2>4. AnswerTold'
    BY <2>1, <2>2, EmptyOwed DEF AnswerTold, Cards
  <2>5. QED
    BY <1>5, <2>2, <2>3, <2>4
<1>7. ASSUME NEW at \in {"exec", "completed"}, call' = [call EXCEPT !.at = at],
             switching.by \in {"started", "done"}
      PROVE  GrantsInv'
  <2>1. call.at = "touching" /\ call.owes = <<>> /\ call.answer = "" /\ running # 0
    BY <1>7, NoCallFacts DEF GrantsInv, CallShape, Cards
  <2>2. /\ call' \in ToolCalls /\ call'.at = at /\ call'.answer = call.answer
        /\ call'.owes = call.owes /\ call'.forced = call.forced /\ call'.told = call.told
    BY <1>4, <1>7 DEF ToolCalls
  <2>3. CallShape'
    BY <1>2, <1>3, <2>1, <2>2 DEF CallShape
  <2>4. AnswerTold'
    BY <2>1, <2>2, EmptyOwed DEF GrantsInv, AnswerTold, Boundary, Underway
  <2>5. QED
    BY <1>5, <2>2, <2>3, <2>4
<1>8. CASE switching.by \in {"started", "done"}
  BY <1>7, <1>8 DEF ApplyConfigures
<1>9. CASE switching.by \notin {"card", "started", "done"}
  <2>1. call' = call
    BY <1>9 DEF ApplyConfigures
  <2>2. CallShape' /\ AnswerTold'
    BY <1>2, <1>3, <1>9, <2>1 DEF GrantsInv, CallShape, AnswerTold, Boundary
  <2>3. QED
    BY <1>4, <1>5, <2>1, <2>2
<1>10. QED
  BY <1>6, <1>8, <1>9

LEMMA RunSteps == GrantsInv /\ (StartRun \/ EndRun) => GrantsInv'
<1> SUFFICES ASSUME GrantsInv, StartRun \/ EndRun
             PROVE  GrantsInv'
  OBVIOUS
<1>1. OperatorContextKept'
  BY DEF StartRun, EndRun, GrantsInv, OperatorContextKept, switchVars
<1>2. RevocationComplete'
  BY DEF StartRun, EndRun, GrantsInv, RevocationComplete, switchVars
<1>3. call' = NoToolCall /\ call = NoToolCall /\ runGrants' = {} /\ running' \in Nat
  <2>1. CASE StartRun
    BY <2>1, BudgetSpent DEF StartRun, GrantsInv, GrantTypes, CallShape
  <2>2. CASE EndRun
    <3>1. \A g \in runGrants : g = <<running, g[2]>>
      BY DEF GrantsInv, GrantTypes, GrantsTold
    <3>2. runGrants' = {}
      BY <2>2, <3>1 DEF EndRun, LapseFileRun, LapseShellRun
    <3>3. QED
      BY <2>2, <3>2 DEF EndRun, GrantsInv, CallShape
  <2>3. QED
    BY <2>1, <2>2
<1>4. left' \in Budget
  BY BudgetSpent DEF StartRun, EndRun, GrantsInv, GrantTypes
<1>5. GrantTypes'
  BY <1>3, <1>4, NoCallFacts DEF StartRun, EndRun, GrantsInv, GrantTypes, switchVars
<1>6. CallShape'
  BY <1>3, NoCallFacts DEF StartRun, EndRun, GrantsInv, CallShape
<1>7. AnswerTold'
  BY <1>3, NoCallFacts, EmptyOwed DEF AnswerTold, Boundary
<1>8. GrantsTold'
  BY <1>3 DEF StartRun, EndRun, GrantsInv, GrantTypes, GrantsTold, CallShape
<1>9. QED
  BY <1>1, <1>2, <1>5, <1>6, <1>7, <1>8 DEF GrantsInv

\* Every grant is in one of the tables a revocation clears.
LEMMA TablesComplete ==
  /\ Tables \in Seq(SUBSET GrantRules) /\ Tables # <<>>
  /\ \A r \in Ids : \E i \in 1 .. Len(Tables) : r \in Tables[i]
  BY DEF Tables, GrantRules, Ids

LEMMA RevokeSteps == GrantsInv /\ (Revoke \/ LapseTable) => GrantsInv'
<1> SUFFICES ASSUME GrantsInv, Revoke \/ LapseTable
             PROVE  GrantsInv'
  OBVIOUS
<1>1. OperatorContextKept'
  BY DEF Revoke, LapseTable, GrantsInv, OperatorContextKept, switchVars
<1>2. CallShape'
  BY DEF Revoke, LapseTable, GrantsInv, CallShape
<1>3. CASE Revoke
  <2>1. GrantTypes'
    <3>1. left' \in Budget /\ lapsing' \in Seq(SUBSET GrantRules) /\ racing' \in BOOLEAN
      BY <1>3, TablesComplete, BudgetSpent DEF Revoke, GrantsInv, GrantTypes
    <3>2. QED
      BY <1>3, <3>1 DEF Revoke, GrantsInv, GrantTypes, switchVars
  <2>2. AnswerTold' /\ GrantsTold'
    BY <1>3 DEF Revoke, GrantsInv, AnswerTold, GrantsTold, Boundary
  <2>3. RevocationComplete'
    BY <1>3, TablesComplete DEF Revoke, GrantsInv, RevocationComplete
  <2>4. QED
    BY <1>1, <1>2, <2>1, <2>2, <2>3 DEF GrantsInv
<1>4. CASE LapseTable
  <2>1. /\ lapsing \in Seq(SUBSET GrantRules) /\ lapsing # <<>>
        /\ lapsing' = Tail(lapsing) /\ chatGrants' = chatGrants \ Head(lapsing)
        /\ call' = call /\ racing' = racing /\ runGrants' = runGrants /\ running' = running
        /\ told' = IF Len(lapsing) = 1 /\ ~racing THEN told \ {0} ELSE told
    BY <1>4 DEF LapseTable, GrantsInv, GrantTypes
  <2>2. GrantTypes'
    <3>1. lapsing' \in Seq(SUBSET GrantRules) /\ chatGrants' \in SUBSET GrantRules
      BY <2>1 DEF GrantsInv, GrantTypes
    <3>2. QED
      BY <1>4, <3>1 DEF LapseTable, GrantsInv, GrantTypes, switchVars
  <2>3. RevocationComplete'
    <3> SUFFICES ASSUME lapsing' # <<>>, ~racing, NEW r \in chatGrants', r \in Ids
                 PROVE  \E i \in 1 .. Len(lapsing') : r \in lapsing'[i]
      BY <2>1 DEF GrantsInv, RevocationComplete
    <3>1. PICK i \in 1 .. Len(lapsing) : r \in lapsing[i]
      BY <2>1 DEF GrantsInv, RevocationComplete
    <3>2. i # 1
      BY <2>1, <3>1
    <3>3. i - 1 \in 1 .. Len(lapsing') /\ lapsing'[i - 1] = lapsing[i]
      BY <2>1, <3>1, <3>2
    <3>4. QED
      BY <3>1, <3>3
  <2>4. CASE Len(lapsing) = 1 /\ ~racing
    <3>1. \A r \in chatGrants' : r \notin Ids
      BY <2>1, <2>4 DEF GrantsInv, RevocationComplete
    <3>2. call.answer # "session" /\ call.owes = <<>>
      BY <2>1, <2>4 DEF GrantsInv, RevocationComplete
    <3>3. call.at # "none" => running # 0
      BY NoCallFacts DEF GrantsInv, CallShape
    <3>4. AnswerTold'
      BY <2>1, <2>4, <3>2, <3>3, EmptyOwed DEF GrantsInv, AnswerTold, Boundary
    <3>5. \A g \in runGrants : running # 0
      BY DEF GrantsInv, CallShape
    <3>6. GrantsTold'
      BY <2>1, <2>4, <3>1, <3>5 DEF GrantsInv, GrantsTold
    <3>7. QED
      BY <1>1, <1>2, <2>2, <2>3, <3>4, <3>6 DEF GrantsInv
  <2>5. CASE ~(Len(lapsing) = 1 /\ ~racing)
    <3>1. told' = told
      BY <2>1, <2>5
    <3>2. AnswerTold' /\ GrantsTold'
      BY <2>1, <3>1 DEF GrantsInv, AnswerTold, GrantsTold, Boundary
    <3>3. QED
      BY <1>1, <1>2, <2>2, <2>3, <3>2 DEF GrantsInv
  <2>6. QED
    BY <2>4, <2>5
<1>5. QED
  BY <1>3, <1>4

\* A call moves on and neither has an answer nor owes a grant; a run grant may be
\* added that carries no identity.
LEMMA CallMoves ==
  ASSUME GrantsInv, call' \in ToolCalls, left' \in Budget, running # 0,
         runGrants' \in SUBSET (Nat \X GrantRules), GrantsTold',
         UNCHANGED <<running, chatGrants, lapsing, told, racing, split, switch, opEpoch, armed,
                     firing, switching, writer, given, staleConfig>>,
         call.at = "touching" => call'.at = "touching",
         switching.by # "card", call'.at = "touching" => call.at = "touching",
         call'.answer = "", call'.owes = <<>>,
         call'.at = "none" => call' = NoToolCall,
         call'.forced /\ call'.at \in Underway => call'.told
  PROVE  GrantsInv'
<1>1. GrantTypes'
  BY DEF GrantsInv, GrantTypes
<1>2. CallShape'
  BY DEF GrantsInv, CallShape
<1>3. AnswerTold'
  BY EmptyOwed DEF AnswerTold
<1>4. RevocationComplete'
  BY DEF GrantsInv, RevocationComplete
<1>5. OperatorContextKept'
  BY DEF GrantsInv, OperatorContextKept
<1>6. QED
  BY <1>1, <1>2, <1>3, <1>4, <1>5 DEF GrantsInv

\* The grants that force a call to the operator's identity were told.
LEMMA ForcedCovered ==
  ASSUME GrantsInv, NEW t, RunsForced(t)
  PROVE  Covered
  BY DEF GrantsInv, GrantsTold, RunsForced, HasIdentity, HasFile, HasShell, Covered, Ids

LEMMA DispatchStep ==
  ASSUME GrantsInv, NEW t \in left.tools, NEW required \in BOOLEAN, Dispatch(t, required)
  PROVE  GrantsInv'
<1>1. t \in Kinds /\ left' \in Budget
  BY BudgetSpent DEF GrantsInv, GrantTypes, Dispatch
<1>2. running # 0 /\ switching.by # "card" /\ call.at = "none"
  BY DEF GrantsInv, CallShape, Dispatch, Cards
<1>3. /\ runGrants' = runGrants \/ runGrants' = runGrants \cup {<<running, "shell_policy">>}
      /\ \/ RunsForced(t) /\ call' = Forced(t)
         \/ call' \in {AsksOperator(t, "command"), AsksOperator(t, "policy"), Plain(t)}
  BY DEF Dispatch
<1>4. UNCHANGED <<running, chatGrants, lapsing, told, racing, split, switch, opEpoch, armed,
                  firing, switching, writer, given, staleConfig>>
  BY DEF Dispatch, switchVars
<1>5. runGrants' \in SUBSET (Nat \X GrantRules)
  BY <1>3 DEF GrantsInv, GrantTypes, GrantRules
<1>6. GrantsTold'
  BY <1>3, <1>4 DEF GrantsInv, GrantsTold, Ids
<1>7. CASE RunsForced(t) /\ call' = Forced(t)
  <2>1. Covered = TRUE
    BY <1>7, ForcedCovered DEF Covered
  <2>2. /\ call' \in ToolCalls /\ call'.at = "started" /\ call'.answer = "" /\ call'.owes = <<>>
        /\ call'.told
    BY <1>1, <1>7, <2>1, EmptyOwed DEF Forced, NoToolCall, ToolCalls
  <2>3. QED
    BY <1>1, <1>2, <1>4, <1>5, <1>6, <2>2, CallMoves
<1>8. CASE call' \in {AsksOperator(t, "command"), AsksOperator(t, "policy"), Plain(t)}
  <2>1. /\ call' \in ToolCalls /\ call'.at \in {"command", "policy", "started"}
        /\ call'.answer = "" /\ call'.owes = <<>> /\ ~call'.forced
    BY <1>1, <1>8, EmptyOwed DEF AsksOperator, Plain, NoToolCall, ToolCalls, Cards
  <2>2. QED
    BY <1>1, <1>2, <1>4, <1>5, <1>6, <2>1, CallMoves
<1>9. QED
  BY <1>3, <1>7, <1>8

\* A call that is stopped, whose switch is off, that runs or that returns.
LEMMA MovingSteps ==
  ASSUME GrantsInv,
         Canceled \/ TouchOff("started", "exec") \/ TouchOff("done", "completed") \/ Execute \/ Returns
  PROVE  GrantsInv'
<1>1. left' \in Budget /\ call \in ToolCalls /\ runGrants' \in SUBSET (Nat \X GrantRules)
  BY DEF GrantsInv, GrantTypes, Canceled, TouchOff, Execute, Returns
<1>2. UNCHANGED <<running, chatGrants, runGrants, lapsing, told, racing, split, switch, opEpoch,
                  armed, firing, switching, writer, given, staleConfig>>
  BY DEF Canceled, TouchOff, Execute, Returns, switchVars
<1>3. call.at \in {"command", "policy", "override", "started", "done", "exec", "completed"}
  BY DEF Canceled, TouchOff, Execute, Returns, Waiting
<1>4. running # 0 /\ switching.by # "card"
  BY <1>3, NoCallFacts DEF GrantsInv, CallShape, Canceled, TouchOff, Execute, Returns, Cards
<1>5. GrantsTold'
  BY <1>2 DEF GrantsInv, GrantsTold
<1>6. ASSUME call' = NoToolCall
      PROVE  GrantsInv'
  BY <1>1, <1>2, <1>3, <1>4, <1>5, <1>6, NoCallFacts, CallMoves
<1>7. call.at \notin Cards => call.answer = ""
  BY DEF GrantsInv, CallShape
<1>8. call.at \notin {"started", "exec"} => call.owes = <<>>
  BY DEF GrantsInv, CallShape
<1>9. CASE TouchOff("started", "exec") \/ TouchOff("done", "completed")
  <2>1. /\ call' \in ToolCalls /\ call'.answer = "" /\ call'.owes = <<>>
        /\ \/ call.at = "started" /\ call'.at = "exec"
           \/ call.at = "done" /\ call'.at = "completed"
        /\ call'.forced = call.forced /\ call'.told = call.told
    BY <1>1, <1>7, <1>9 DEF TouchOff, ToolCalls, Cards
  <2>2. call'.forced => call'.told
    BY <2>1 DEF GrantsInv, AnswerTold, Underway
  <2>3. QED
    BY <1>1, <1>2, <1>3, <1>4, <1>5, <2>1, <2>2, CallMoves
<1>10. CASE Execute
  <2>1. PICK refused \in BoundaryRefused(call.tool) :
          call' = [call EXCEPT !.at = IF call.override THEN "completed" ELSE "done",
                               !.override = refused]
    BY <1>10 DEF Execute
  <2>2. refused \in BOOLEAN
    BY <2>1 DEF BoundaryRefused, ShellRefused, ScriptRefused, FileRefused, StartRefused,
                StartInputRefused, ProcessRefused, Perhaps
  <2>3. /\ call' \in ToolCalls /\ call'.at \in {"completed", "done"} /\ call'.answer = ""
        /\ call'.owes = <<>> /\ call'.forced = call.forced /\ call'.told = call.told
    BY <1>1, <1>7, <1>10, <2>1, <2>2 DEF Execute, ToolCalls, Cards
  <2>4. call'.forced => call'.told
    BY <1>10, <2>3 DEF Execute, GrantsInv, AnswerTold, Underway
  <2>5. QED
    BY <1>1, <1>2, <1>3, <1>4, <1>5, <2>3, <2>4, CallMoves
<1>11. CASE Returns /\ call.override
  <2>1. /\ call' \in ToolCalls /\ call'.at = "override" /\ call'.answer = "" /\ call'.owes = <<>>
    BY <1>1, <1>7, <1>8, <1>11 DEF Returns, ToolCalls, Cards
  <2>2. QED
    BY <1>1, <1>2, <1>3, <1>4, <1>5, <2>1, CallMoves DEF Underway
<1>12. CASE Canceled \/ (Returns /\ ~call.override)
  BY <1>6, <1>12 DEF Canceled, Returns
<1>13. QED
  BY <1>9, <1>10, <1>11, <1>12

LEMMA TouchOnStep ==
  ASSUME GrantsInv, NEW phase \in {"started", "done"}, TouchOn(phase)
  PROVE  GrantsInv'
<1>1. /\ call \in ToolCalls /\ call.at = phase /\ call.owes = <<>>
      /\ switching' = [by |-> phase, snap |-> NoSnap] /\ switch' = TRUE
      /\ call' = [call EXCEPT !.at = "touching"]
  BY DEF GrantsInv, GrantTypes, TouchOn, Held, ResetTimer
<1>2. call.answer = "" /\ running # 0
  BY <1>1, NoCallFacts DEF GrantsInv, CallShape, Cards
<1>3. /\ call' \in ToolCalls /\ call'.at = "touching" /\ call'.answer = "" /\ call'.owes = <<>>
      /\ call'.forced = call.forced /\ call'.told = call.told
  BY <1>1, <1>2 DEF ToolCalls
<1>4. switching' \in Changes /\ switching'.by = phase
  BY <1>1 DEF NoSnap, Changes, Changers
<1>5. UNCHANGED <<running, runGrants, chatGrants, lapsing, told, racing, left, split>>
  BY DEF TouchOn
<1>6. GrantTypes'
  BY <1>1, <1>3, <1>4, <1>5 DEF GrantsInv, GrantTypes
<1>7. CallShape'
  BY <1>2, <1>3, <1>4, <1>5 DEF CallShape
<1>8. call'.forced => call'.told
  BY <1>1, <1>3 DEF GrantsInv, AnswerTold, Underway
<1>9. AnswerTold'
  BY <1>3, <1>8, EmptyOwed DEF AnswerTold
<1>10. GrantsTold' /\ RevocationComplete'
  BY <1>3, <1>5 DEF GrantsInv, GrantsTold, RevocationComplete
<1>11. OperatorContextKept'
  <2>1. switching' # NotSwitching
    BY <1>4 DEF NotSwitching
  <2>2. QED
    BY <2>1 DEF TouchOn, ResetTimer, OperatorContextKept
<1>12. QED
  BY <1>6, <1>7, <1>9, <1>10, <1>11 DEF GrantsInv

LEMMA DecideOperatorModeStep == GrantsInv /\ DecideOperatorMode => GrantsInv'
<1> SUFFICES ASSUME GrantsInv, DecideOperatorMode
             PROVE  GrantsInv'
  OBVIOUS
<1>1. /\ call.at \in Cards /\ call.answer = "" /\ switching.by = "none" /\ switch' = TRUE
      /\ switching' = [by |-> "card", snap |-> NoSnap]
  BY DEF DecideOperatorMode, Held, ResetTimer, Waiting, Cards
<1>2. left' \in Budget
  BY BudgetSpent DEF GrantsInv, GrantTypes, DecideOperatorMode
<1>3. switching' \in Changes /\ switching'.by = "card"
  BY <1>1 DEF NoSnap, Changes, Changers
<1>4. UNCHANGED <<running, call, runGrants, chatGrants, lapsing, told, racing, split>>
  BY DEF DecideOperatorMode
<1>5. GrantTypes'
  BY <1>1, <1>2, <1>3, <1>4 DEF GrantsInv, GrantTypes
<1>6. CallShape'
  BY <1>1, <1>3, <1>4 DEF GrantsInv, CallShape, Cards
<1>7. AnswerTold' /\ GrantsTold' /\ RevocationComplete'
  BY <1>4 DEF GrantsInv, AnswerTold, Boundary, GrantsTold, RevocationComplete
<1>8. OperatorContextKept'
  <2>1. switching' # NotSwitching
    BY <1>3 DEF NotSwitching
  <2>2. QED
    BY <2>1 DEF DecideOperatorMode, ResetTimer, OperatorContextKept
<1>9. QED
  BY <1>5, <1>6, <1>7, <1>8 DEF GrantsInv

LEMMA DecideCardStep ==
  ASSUME GrantsInv, NEW d \in {"once", "run", "session", "deny"}, DecideCard(d)
  PROVE  GrantsInv'
<1>1. /\ call \in ToolCalls /\ call.at \in Cards /\ call.answer = "" /\ switching.by # "card"
      /\ call' = [call EXCEPT !.answer = d, !.told = Boundary /\ d # "deny"]
  BY DEF GrantsInv, GrantTypes, DecideCard, Waiting, Cards
<1>2. running # 0 /\ call.owes = <<>> /\ call.at # "touching"
  BY <1>1, NoCallFacts DEF GrantsInv, CallShape, Cards
<1>3. /\ call' \in ToolCalls /\ call'.answer = d /\ call'.at = call.at /\ call'.owes = <<>>
      /\ (call'.told <=> Boundary /\ d # "deny")
  BY <1>1, <1>2 DEF ToolCalls, Boundary
<1>4. /\ UNCHANGED <<running, runGrants, chatGrants, lapsing, left, split, switch, switching>>
      /\ told \subseteq told'
      /\ racing' = (racing \/ (lapsing # <<>> /\ d = "session"))
      /\ Boundary /\ d = "session" => 0 \in told'
      /\ Boundary /\ d = "run" => running \in told'
  BY DEF DecideCard, switchVars
<1>5. GrantTypes'
  BY <1>3, <1>4 DEF GrantsInv, GrantTypes
<1>6. CallShape'
  BY <1>1, <1>2, <1>3, <1>4 DEF GrantsInv, CallShape, Cards
<1>7. Boundary' = Boundary
  BY <1>3 DEF Boundary
<1>8. AnswerTold'
  BY <1>1, <1>3, <1>4, <1>7, EmptyOwed DEF AnswerTold, Cards, Underway
<1>9. GrantsTold' /\ RevocationComplete'
  BY <1>3, <1>4 DEF GrantsInv, GrantsTold, RevocationComplete
<1>10. OperatorContextKept'
  BY DEF GrantsInv, DecideCard, OperatorContextKept, switchVars
<1>11. QED
  BY <1>5, <1>6, <1>8, <1>9, <1>10 DEF GrantsInv

\* A chat answer to an identity card owes identity rules, an answer to a policy
\* card none.
LEMMA ChatRulesFacts ==
  ASSUME call \in ToolCalls, call.at \in Cards
  PROVE  /\ ChatRules \in Seq(GrantRules)
         /\ \A i \in 1 .. Len(ChatRules) : ChatRules[i] \in Ids => Boundary
<1>1. RuleOf \in GrantRules /\ (RuleOf \in Ids => Boundary) /\ PolicyOf(call.tool) \in GrantRules \ Ids
  BY DEF RuleOf, GrantRules, Ids, Boundary, Cards, PolicyOf
<1>2. "identity" \in GrantRules
  BY DEF GrantRules, Ids
<1>3. CASE Boundary
  <2>1. <<RuleOf>> \in Seq(GrantRules) /\ <<>> \in Seq(GrantRules) /\ <<"identity">> \in Seq(GrantRules)
    BY <1>1, <1>2, ShortSequences
  <2>2. ChatRules \in Seq(GrantRules)
    BY <1>3, <2>1, ShortSequences DEF ChatRules
  <2>3. QED
    BY <1>3, <2>2
<1>4. CASE ~Boundary
  <2>1. /\ <<RuleOf>> \in Seq(GrantRules \ Ids) /\ <<>> \in Seq(GrantRules \ Ids)
        /\ <<PolicyOf(call.tool)>> \in Seq(GrantRules \ Ids)
    BY <1>1, <1>4, ShortSequences
  <2>2. ChatRules \in Seq(GrantRules \ Ids)
    BY <1>4, <2>1, ShortSequences DEF ChatRules
  <2>3. ChatRules \in Seq(GrantRules) /\ \A i \in 1 .. Len(ChatRules) : ChatRules[i] \notin Ids
    BY <2>2
  <2>4. QED
    BY <2>3
<1>5. QED
  BY <1>3, <1>4

LEMMA GrantChatStep == GrantsInv /\ GrantChat => GrantsInv'
<1> SUFFICES ASSUME GrantsInv, GrantChat
             PROVE  GrantsInv'
  OBVIOUS
<1>1. /\ call \in ToolCalls /\ call.owes \in Seq(GrantRules) /\ call.owes # <<>>
      /\ call' = [call EXCEPT !.owes = Tail(@)]
      /\ chatGrants' = chatGrants \cup {Head(call.owes)}
  BY DEF GrantsInv, GrantTypes, GrantChat, ToolCalls
<1>2. call.at \in {"started", "exec"} /\ call.answer = "" /\ running # 0
  BY <1>1, NoCallFacts DEF GrantsInv, CallShape, Cards
<1>3. /\ call' \in ToolCalls /\ call'.at = call.at /\ call'.answer = "" /\ call'.owes = Tail(call.owes)
      /\ call'.forced = call.forced /\ call'.told = call.told
  <2>1. Tail(call.owes) \in Seq(GrantRules)
    BY <1>1, HeadAndTail
  <2>2. QED
    BY <1>1, <1>2, <2>1 DEF ToolCalls
<1>4. UNCHANGED <<running, runGrants, lapsing, left, split, switch, switching, told, racing>>
  BY DEF GrantChat, switchVars
<1>5. Head(call.owes) \in GrantRules /\ (Head(call.owes) \in Ids => 0 \in told)
  BY <1>1, HeadAndTail DEF GrantsInv, AnswerTold
<1>6. GrantTypes'
  BY <1>1, <1>3, <1>4, <1>5 DEF GrantsInv, GrantTypes
<1>7. CallShape'
  BY <1>2, <1>3, <1>4 DEF GrantsInv, CallShape
<1>8. \A i \in 1 .. Len(call'.owes) : call'.owes[i] \in Ids => 0 \in told
  <2>1. SUFFICES ASSUME NEW i \in 1 .. Len(Tail(call.owes)), Tail(call.owes)[i] \in Ids
                 PROVE  0 \in told
    BY <1>3
  <2>2. i + 1 \in 1 .. Len(call.owes) /\ call.owes[i + 1] \in Ids
    BY <1>1, <2>1, HeadAndTail
  <2>3. QED
    BY <2>2 DEF GrantsInv, AnswerTold
<1>9. AnswerTold'
  BY <1>2, <1>3, <1>4, <1>8 DEF GrantsInv, AnswerTold, Boundary
<1>10. GrantsTold'
  BY <1>1, <1>4, <1>5 DEF GrantsInv, GrantsTold
<1>11. RevocationComplete'
  BY <1>1, <1>4 DEF GrantsInv, RevocationComplete
<1>12. OperatorContextKept'
  BY DEF GrantsInv, GrantChat, OperatorContextKept, switchVars
<1>13. QED
  BY <1>6, <1>7, <1>9, <1>10, <1>11, <1>12 DEF GrantsInv

LEMMA WakesStep == GrantsInv /\ Wakes => GrantsInv'
<1> SUFFICES ASSUME GrantsInv, Wakes
             PROVE  GrantsInv'
  OBVIOUS
<1> DEFINE next == [call EXCEPT !.answer = "", !.forced = Boundary,
                                !.at = IF call.at = "override" THEN "exec" ELSE "started"]
<1>1. call \in ToolCalls /\ call.answer # "" /\ call.at \in Cards
  BY DEF GrantsInv, GrantTypes, CallShape, Wakes
<1>2. running # 0 /\ call.owes = <<>> /\ switching.by # "card" /\ call.at # "touching"
  BY <1>1, NoCallFacts DEF GrantsInv, CallShape, Cards
<1>3. UNCHANGED <<running, chatGrants, lapsing, left, told, racing, split, switch, opEpoch, armed,
                  firing, switching, writer, given, staleConfig>>
  BY DEF Wakes, switchVars
<1>4. left \in Budget
  BY DEF GrantsInv, GrantTypes
<1>5. /\ next \in ToolCalls /\ next.at \in {"exec", "started"} /\ next.answer = "" /\ next.owes = <<>>
      /\ (next.forced <=> Boundary) /\ next.told = call.told
  <2>1. CASE Boundary
    <3>1. next = [call EXCEPT !.answer = "", !.forced = TRUE,
                              !.at = IF call.at = "override" THEN "exec" ELSE "started"]
      BY <2>1 DEF Boundary
    <3>2. QED
      BY <1>1, <1>2, <2>1, <3>1 DEF ToolCalls
  <2>2. CASE ~Boundary
    <3>1. Boundary = FALSE
      BY <2>2 DEF Boundary
    <3>2. next = [call EXCEPT !.answer = "", !.forced = FALSE,
                              !.at = IF call.at = "override" THEN "exec" ELSE "started"]
      BY <3>1, Zenon
    <3>3. QED
      BY <1>1, <1>2, <2>2, <3>2 DEF ToolCalls
  <2>3. QED
    BY <2>1, <2>2
<1>6. call.answer # "deny" /\ Boundary => call.told
  BY <1>1 DEF GrantsInv, AnswerTold
<1>7. CASE call.answer = "deny"
  <2>1. call' = NoToolCall /\ runGrants' = runGrants
    BY <1>7 DEF Wakes
  <2>2. GrantsTold' /\ runGrants' \in SUBSET (Nat \X GrantRules)
    BY <1>3, <2>1 DEF GrantsInv, GrantTypes, GrantsTold
  <2>3. QED
    BY <1>2, <1>3, <1>4, <2>1, <2>2, NoCallFacts, CallMoves
<1>8. CASE call.answer \in {"once", "run", "operator_mode"}
  <2>1. call' = next
    BY <1>8 DEF Wakes
  <2>2. runGrants' = runGrants \/ (call.answer = "run" /\ runGrants' = runGrants \cup {<<running, RuleOf>>})
    BY <1>8 DEF Wakes, GrantRun
  <2>3. RuleOf \in GrantRules /\ (RuleOf \in Ids => Boundary)
    BY <1>1 DEF RuleOf, GrantRules, Ids, Boundary, Cards
  <2>4. runGrants' \in SUBSET (Nat \X GrantRules)
    BY <2>2, <2>3 DEF GrantsInv, GrantTypes
  <2>5. call.answer = "run" /\ RuleOf \in Ids => running \in told
    BY <2>3 DEF GrantsInv, AnswerTold
  <2>6. GrantsTold'
    BY <1>3, <2>2, <2>5 DEF GrantsInv, GrantsTold
  <2>7. call'.forced => call'.told
    BY <1>5, <1>6, <1>8, <2>1
  <2>8. QED
    BY <1>2, <1>3, <1>4, <1>5, <2>1, <2>4, <2>6, <2>7, CallMoves
<1>9. CASE call.answer = "session"
  <2>1. call' = [next EXCEPT !.owes = ChatRules] /\ runGrants' = runGrants
    BY <1>9 DEF Wakes
  <2>2. ChatRules \in Seq(GrantRules) /\ \A i \in 1 .. Len(ChatRules) : ChatRules[i] \in Ids => Boundary
    BY <1>1, ChatRulesFacts
  <2> HIDE DEF next
  <2>3. /\ call' \in ToolCalls /\ call'.at = next.at /\ call'.answer = "" /\ call'.owes = ChatRules
        /\ call'.forced = next.forced /\ call'.told = call.told
    BY <1>5, <2>1, <2>2 DEF ToolCalls
  <2>4. GrantTypes'
    BY <1>3, <2>1, <2>3 DEF GrantsInv, GrantTypes
  <2>5. CallShape'
    BY <1>2, <1>3, <1>5, <2>3 DEF GrantsInv, CallShape
  <2>6. Boundary => 0 \in told
    BY <1>9 DEF GrantsInv, AnswerTold
  <2>7. AnswerTold'
    <3>1. call'.forced => call'.told
      BY <1>5, <1>6, <1>9, <2>3
    <3>2. \A i \in 1 .. Len(call'.owes) : call'.owes[i] \in Ids => 0 \in told
      BY <2>2, <2>3, <2>6
    <3>3. QED
      BY <1>3, <2>3, <3>1, <3>2 DEF AnswerTold
  <2>8. GrantsTold'
    BY <1>3, <2>1 DEF GrantsInv, GrantsTold
  <2>9. RevocationComplete'
    BY <1>3, <1>9 DEF GrantsInv, RevocationComplete
  <2>10. OperatorContextKept'
    BY <1>3 DEF GrantsInv, OperatorContextKept
  <2>11. QED
    BY <2>4, <2>5, <2>7, <2>8, <2>9, <2>10 DEF GrantsInv
<1>10. QED
  BY <1>1, <1>7, <1>8, <1>9 DEF ToolCalls

LEMMA GrantsStep == GrantsInv /\ [GrantsNext]_grantVars => GrantsInv'
<1> SUFFICES ASSUME GrantsInv, [GrantsNext]_grantVars
             PROVE  GrantsInv'
  OBVIOUS
<1>1. CASE ToolStarted \/ ToolCompleted
  BY <1>1, MovingSteps, TouchOnStep DEF ToolStarted, ToolCompleted
<1>2. CASE UNCHANGED grantVars
  <2>1. UNCHANGED <<running, call, runGrants, chatGrants, lapsing, told, racing, left, split, switch,
                    opEpoch, armed, firing, switching, writer, given, staleConfig>>
    BY <1>2 DEF grantVars
  <2>2. OperatorContextKept'
    BY <2>1 DEF GrantsInv, OperatorContextKept
  <2>3. left \in Budget /\ switching \in Changes /\ split \in BOOLEAN /\ switch \in BOOLEAN
    BY DEF GrantsInv, GrantTypes
  <2>4. QED
    BY <2>1, <2>2, <2>3, CallUntouched
<1>3. CASE GrantsNext
  BY <1>1, <1>3, SwitchSteps, ApplyConfiguresStep, RunSteps, RevokeSteps, DispatchStep, DecideCardStep,
     DecideOperatorModeStep, MovingSteps, WakesStep, GrantChatStep
     DEF GrantsNext
<1>4. QED
  BY <1>2, <1>3

\* A call runs with the operator's identity only where the operator said so, and
\* the operator context has a timer that ends it (agent/run.go executeTool,
\* shell_grant.go, file_grant.go, web/operator_context.go), for any number of
\* runs, calls, revocations and switches.
THEOREM GrantsCorrect == GrantsSpec => []GrantsHonoured
<1>1. GrantsInv => GrantsHonoured
  BY DEF GrantsInv, GrantsHonoured, RunsAsTold, AnswerTold, GrantsTold, Underway
<1>2. QED
  BY <1>1, GrantsInitially, GrantsStep, PTL DEF GrantsSpec

-----------------------------------------------------------------------------
(* The configuration                                                        *)

\* What applyDefaults leaves: nothing for it to do at the next start.
Defaulted(d) ==
  /\ d.turns \notin {-1, 0} /\ d.approval # "" /\ d.memory.dir # "" /\ d.limit # 0 /\ d.idle # 0
  /\ d.servers = <<>> => d.agents = <<>>
  /\ \A i \in DOMAIN d.servers : d.servers[i].nctx # -1

\* A document of the current version that lacks nothing.
Uptodate(d) ==
  /\ Formed(d) /\ Defaulted(d)
  /\ d.parses /\ d.legacy = FALSE /\ d.version = CurrentConfigVersion

\* What a process runs with: every profile with a key names the credential that holds it.  A
\* change that was made in place need not validate.
Running(d) ==
  /\ Uptodate(d)
  /\ \A i \in DOMAIN d.servers : d.servers[i].key # "" <=> d.servers[i].cred # ""

Agrees(store, d) ==
  \A i \in DOMAIN d.servers : d.servers[i].cred # "" => store[d.servers[i].cred] = d.servers[i].key

\* Starting again from document d with the credentials in store gives configuration c.
StartsAs(store, d, c) ==
  /\ Readable(d) /\ Validate(Normalized(d)) /\ ~NeedsSave(d)
  /\ Resolvable(store, Normalized(d))
  /\ Resolved(store, Normalized(d)) = [c EXCEPT !.operator = FALSE]

Keeps(store, d) == \A n \in owed : store[n] # "" \/ n \in KeysIn(d)

JobTypes ==
  /\ job = [kind |-> job.kind, at |-> job.at, next |-> job.next, save |-> job.save]
  /\ job.kind \in {"none", "load", "patch", "keep", "copy", Down}
  /\ job.at \in {"idle", "resolve", "save", "write", "commit"}
  /\ job.kind \in {"none", Down} <=> job.at = "idle"
  /\ job.at = "resolve" => job.kind \in {"load", "patch"}

\* The steps of a load or a request.
Resolving ==
  job.at = "resolve" =>
    /\ Uptodate(job.next)
    /\ job.kind = "load" =>
         /\ Readable(document) /\ Validate(Normalized(document))
         /\ job.next = Normalized(document) /\ job.save = NeedsSave(document)
    /\ job.kind = "patch" => job.save = TRUE /\ KeysIn(document) = {}

\* The store has the keys of the configuration to come: a load and a patch have stored them,
\* the other requests change no key.
Trusted == IF job.kind \in {"load", "patch"} THEN ~SharedCredential(job.next) ELSE ~apart

Settled ==
  job.at \in {"save", "write", "commit"} =>
    /\ Running(job.next)
    /\ Trusted => Agrees(creds, job.next)
    /\ job.kind \in {"load", "patch"} => apart

Saving ==
  /\ job.at \in {"save", "write"} => \A n \in owed : creds[n] # ""
  /\ job.at = "save" /\ job.kind # "load" => KeysIn(document) = {}
  /\ job.at = "write" => KeysIn(document) = {} /\ Validate(job.next)
  /\ job.at = "commit" => KeysIn(document) = {} /\ (Trusted => StartsAs(creds, document, job.next))

\* A request under way has not made the file or the store differ without saying so.
Working ==
  /\ job.kind \notin {"load", Down} => Running(config) /\ (~apart => Agrees(creds, config))
  /\ job.kind = "none" => KeysIn(document) = {}
  /\ job.kind \in {"none", "patch"} \/ (job.kind = "copy" /\ job.at = "save") =>
       (~apart /\ ~ahead => StartsAs(creds, document, config))

\* What is run with and what the next start would run with, at every step of a load or request.
SettingsInv ==
  /\ creds = [n \in Names |-> creds[n]] /\ owed \subseteq Names /\ Formed(document)
  /\ JobTypes /\ Resolving /\ Settled /\ Saving /\ Working
  /\ Keeps(creds, document)

DocF == {"parses", "legacy", "version", "approval", "turns", "idleOld", "idle", "limit", "memory",
         "servers", "main", "aux", "agents", "operator"}
ProfF == {"id", "label", "key", "cred", "nctx", "override", "cap"}
IsDoc(d) == d = [f \in DocF |-> d[f]]
IsProf(p) == p = [f \in ProfF |-> p[f]]

LEMMA FieldsAre == DOMAIN Document = DocF /\ DOMAIN Profile("") = ProfF
BY DEF Document, Profile, DocF, ProfF

LEMMA SameDoc ==
  ASSUME NEW d, NEW e, IsDoc(d), IsDoc(e), \A f \in DocF : d[f] = e[f]
  PROVE  d = e
<1>1. [f \in DocF |-> d[f]] = [f \in DocF |-> e[f]]
  OBVIOUS
<1> QED  BY <1>1, Zenon DEF IsDoc

(* What one update of a document or a profile changes. *)
LEMMA DocSet ==
  ASSUME NEW d, IsDoc(d), NEW f \in DocF, NEW v
  PROVE  /\ IsDoc([d EXCEPT ![f] = v]) /\ [d EXCEPT ![f] = v][f] = v
         /\ \A g \in DocF \ {f} : [d EXCEPT ![f] = v][g] = d[g]
BY DEF IsDoc

LEMMA ProfSet ==
  ASSUME NEW d, IsProf(d), NEW f \in ProfF, NEW v
  PROVE  /\ IsProf([d EXCEPT ![f] = v]) /\ [d EXCEPT ![f] = v][f] = v
         /\ \A g \in ProfF \ {f} : [d EXCEPT ![f] = v][g] = d[g]
BY DEF IsProf

\* What applyDefaults does to each section.
Completed(n, d) ==
  /\ IsDoc(n)
  /\ n.parses = d.parses /\ n.legacy = d.legacy /\ n.idleOld = d.idleOld /\ n.main = d.main
  /\ n.aux = d.aux /\ n.operator = d.operator
  /\ n.version = CurrentConfigVersion
  /\ n.turns = (IF d.turns \in {-1, 0} THEN DefaultTurns ELSE d.turns)
  /\ n.approval = (IF d.approval = "" THEN "boundary-only" ELSE d.approval)
  /\ n.memory = (IF d.memory.dir = "" THEN [dir |-> "memory", on |-> TRUE] ELSE d.memory)
  /\ n.limit = (IF d.limit = 0 THEN DefaultLimit ELSE d.limit)
  /\ n.idle = (IF d.idle = 0 THEN DefaultIdle ELSE d.idle)
  /\ n.agents = (IF d.servers = <<>> THEN <<>> ELSE d.agents)
  /\ n.servers = [i \in DOMAIN d.servers |->
                     IF d.servers[i].nctx = -1 THEN [d.servers[i] EXCEPT !.nctx = 0] ELSE d.servers[i]]

LEMMA Defaults ==
  ASSUME NEW d, IsDoc(d), NEW n, n = ApplyDefaults(d)
  PROVE  Completed(n, d)
<1>1. IsDoc(n)
  BY DEF IsDoc, ApplyDefaults
<1>2. /\ n.parses = d.parses /\ n.legacy = d.legacy /\ n.idleOld = d.idleOld /\ n.main = d.main
      /\ n.aux = d.aux /\ n.operator = d.operator
      /\ n.version = CurrentConfigVersion
  BY DEF IsDoc, DocF, ApplyDefaults
<1>3. /\ n.turns = (IF d.turns \in {-1, 0} THEN DefaultTurns ELSE d.turns)
      /\ n.approval = (IF d.approval = "" THEN "boundary-only" ELSE d.approval)
      /\ n.memory = (IF d.memory.dir = "" THEN [dir |-> "memory", on |-> TRUE] ELSE d.memory)
      /\ n.limit = (IF d.limit = 0 THEN DefaultLimit ELSE d.limit)
      /\ n.idle = (IF d.idle = 0 THEN DefaultIdle ELSE d.idle)
  BY DEF IsDoc, DocF, ApplyDefaults
<1>4. n.agents = (IF d.servers = <<>> THEN <<>> ELSE d.agents)
  BY DEF IsDoc, DocF, ApplyDefaults
<1>5. n.servers = [i \in DOMAIN d.servers |->
                    IF d.servers[i].nctx = -1 THEN [d.servers[i] EXCEPT !.nctx = 0] ELSE d.servers[i]]
  BY DEF IsDoc, DocF, ApplyDefaults
<1> QED  BY <1>1, <1>2, <1>3, <1>4, <1>5, Zenon DEF Completed

LEMMA Numerals ==
  /\ 6 >= 4 /\ 6 >= 6 /\ ~(6 < 5) /\ 6 # 0 /\ 0 # -1
  /\ DefaultTurns \notin {-1, 0} /\ DefaultLimit # 0 /\ DefaultIdle # 0
BY DEF DefaultTurns, DefaultLimit, DefaultIdle

LEMMA SeqSelf ==
  ASSUME NEW S, NEW s \in Seq(S)
  PROVE  s = [i \in DOMAIN s |-> s[i]]
<1>1. s \in [1..Len(s) -> S] /\ DOMAIN s = 1..Len(s)
  OBVIOUS
<1> QED  BY <1>1

IsServers(s) ==
  /\ s \in Seq({s[i] : i \in DOMAIN s})
  /\ \A i \in DOMAIN s : FormedProfile(s[i])

LEMMA FormedIs ==
  ASSUME NEW d
  PROVE  Formed(d) <=> IsDoc(d) /\ IsServers(d.servers) /\ d.legacy \in BOOLEAN /\ (d.legacy => Len(d.servers) = 1)
BY FieldsAre, Zenon DEF Formed, IsDoc, IsServers

LEMMA FormedProfileIs ==
  ASSUME NEW p
  PROVE  FormedProfile(p) <=> IsProf(p) /\ p.id \in Names /\ p.cred \in Names \cup {""}
BY FieldsAre, Zenon DEF FormedProfile, IsProf

LEMMA SeqMapped ==
  ASSUME NEW s, s \in Seq({s[i] : i \in DOMAIN s}), NEW t,
         DOMAIN t = DOMAIN s, t = [i \in DOMAIN s |-> t[i]]
  PROVE  t \in Seq({t[i] : i \in DOMAIN t}) /\ Len(t) = Len(s)
<1>1. Len(s) \in Nat /\ DOMAIN s = 1..Len(s)
  OBVIOUS
<1>2. PICK n \in Nat : n = Len(s) /\ DOMAIN t = 1..n
  BY <1>1
<1>3. \A i \in 1..n : t[i] \in {t[j] : j \in DOMAIN t}
  BY <1>2
<1>4. PICK T : T = {t[j] : j \in DOMAIN t}
  OBVIOUS
<1>5. t \in [1..n -> T]
  BY <1>1, <1>2, <1>3, <1>4
<1>6. t \in Seq(T)
  BY <1>5
<1>7. Len(t) = n
  BY <1>2, <1>6
<1> QED  BY <1>2, <1>4, <1>6, <1>7

\* The profiles s became t, with the ids and keys they had, and keys under the same names.
Carries(t, s) ==
  /\ IsServers(t) /\ DOMAIN t = DOMAIN s
  /\ \A i \in DOMAIN s : /\ t[i].id = s[i].id /\ t[i].key = s[i].key
                         /\ CredentialName(t[i]) = CredentialName(s[i])

LEMMA CarriesOn ==
  ASSUME NEW r, NEW s, NEW t, Carries(t, s), Carries(s, r)
  PROVE  Carries(t, r)
BY Zenon DEF Carries

\* m is d in the current structure.
Brings(m, d) ==
  /\ IsDoc(m) /\ m.parses = d.parses /\ m.version = d.version
  /\ Carries(m.servers, d.servers)

LEMMA BringsOn ==
  ASSUME NEW d, NEW m, NEW n, Brings(n, m), Brings(m, d)
  PROVE  Brings(n, d)
<1>1. Carries(n.servers, d.servers)
  BY CarriesOn, Zenon DEF Brings
<1> QED  BY <1>1, Zenon DEF Brings

LEMMA BringsSelf ==
  ASSUME NEW d, IsDoc(d), IsServers(d.servers)
  PROVE  Brings(d, d)
BY Zenon DEF Brings, Carries

LEMMA Single ==
  ASSUME NEW s, IsServers(s), Len(s) = 1, NEW p, FormedProfile(p),
         p.id = s[1].id, p.key = s[1].key, p.cred = s[1].cred
  PROVE  Carries(<<p>>, s)
<1>1. DOMAIN s = {1}
  BY DEF IsServers
<1>2. DOMAIN <<p>> = {1} /\ <<p>>[1] = p
  OBVIOUS
<1>3. <<p>> \in Seq({<<p>>[i] : i \in DOMAIN <<p>>})
  OBVIOUS
<1>4. CredentialName(p) = CredentialName(s[1])
  BY DEF CredentialName
<1> QED  BY <1>1, <1>2, <1>3, <1>4, Zenon DEF Carries, IsServers

LEMMA V1Brings ==
  ASSUME NEW d, Formed(d), NEW m, m = MigrateV1(d)
  PROVE  Brings(m, d) /\ m.legacy = FALSE
<1>1. IsDoc(d) /\ IsServers(d.servers) /\ d.legacy \in BOOLEAN /\ (d.legacy => Len(d.servers) = 1)
  BY FormedIs
<1>2. CASE ~d.legacy
  <2>1. m = d
    BY <1>2 DEF MigrateV1
  <2> QED  BY <1>1, <1>2, <2>1, BringsSelf
<1>3. CASE d.legacy
  <2>1. PICK p : p = [d.servers[1] EXCEPT !.nctx = d.servers[1].override, !.override = 0]
    OBVIOUS
  <2>2. m = [d EXCEPT !.legacy = FALSE, !.idleOld = 0, !.servers = <<p>>]
    BY <1>3, <2>1, Zenon DEF MigrateV1
  <2>3. IsDoc(m) /\ m.legacy = FALSE /\ m.servers = <<p>> /\ m.parses = d.parses /\ m.version = d.version
    BY <1>1, <2>2 DEF IsDoc, DocF
  <2>4. FormedProfile(d.servers[1])
    BY <1>1, <1>3 DEF IsServers
  <2>5. IsProf(d.servers[1]) /\ d.servers[1].id \in Names /\ d.servers[1].cred \in Names \cup {""}
    BY <2>4, FormedProfileIs
  <2>6. IsProf(p) /\ p.id = d.servers[1].id /\ p.key = d.servers[1].key /\ p.cred = d.servers[1].cred
    BY <2>1, <2>5 DEF IsProf, ProfF
  <2>7. FormedProfile(p)
    BY <2>5, <2>6, FormedProfileIs
  <2>8. Carries(<<p>>, d.servers)
    BY <1>1, <1>3, <2>6, <2>7, Single
  <2> QED  BY <2>3, <2>8 DEF Brings
<1> QED  BY <1>1, <1>2, <1>3

LEMMA IdleBrings ==
  ASSUME NEW d, IsDoc(d), IsServers(d.servers), NEW v, NEW m, m = MigrateOperatorIdleTimeout(d, v)
  PROVE  Brings(m, d) /\ m.legacy = d.legacy /\ m.servers = d.servers
<1>1. IsDoc(m) /\ m.parses = d.parses /\ m.version = d.version /\ m.servers = d.servers /\ m.legacy = d.legacy
  BY DEF IsDoc, DocF, MigrateOperatorIdleTimeout
<1>2. Carries(d.servers, d.servers)
  BY Zenon DEF Carries
<1> QED  BY <1>1, <1>2, Zenon DEF Brings

LEMMA BytesBring ==
  ASSUME NEW d, IsDoc(d), IsServers(d.servers), NEW v, NEW m, m = MigrateByteWindows(d, v)
  PROVE  Brings(m, d) /\ m.legacy = d.legacy /\ m.servers = d.servers
<1>1. IsDoc(m) /\ m.parses = d.parses /\ m.version = d.version /\ m.servers = d.servers /\ m.legacy = d.legacy
  BY DEF IsDoc, DocF, MigrateByteWindows
<1>2. Carries(d.servers, d.servers)
  BY Zenon DEF Carries
<1> QED  BY <1>1, <1>2, Zenon DEF Brings

LEMMA AgentsBring ==
  ASSUME NEW d, IsDoc(d), IsServers(d.servers), NEW v, NEW m, m = MigrateAgentObjects(d, v)
  PROVE  Brings(m, d) /\ m.legacy = d.legacy /\ m.servers = d.servers
<1>1. IsDoc(m) /\ m.parses = d.parses /\ m.version = d.version /\ m.servers = d.servers /\ m.legacy = d.legacy
  BY DEF IsDoc, DocF, MigrateAgentObjects
<1>2. Carries(d.servers, d.servers)
  BY Zenon DEF Carries
<1> QED  BY <1>1, <1>2, Zenon DEF Brings

\* Every profile with a key names the credential that will hold it.
NamesKeys(s) == \A i \in DOMAIN s : s[i].key # "" => s[i].cred # ""

LEMMA ProfilesBring ==
  ASSUME NEW d, IsDoc(d), IsServers(d.servers), NEW v, NEW m, m = MigrateModelProfiles(d, v)
  PROVE  Brings(m, d) /\ m.legacy = d.legacy /\ NamesKeys(m.servers)
<1> DEFINE size(p) == IF p.nctx # -1 THEN p.nctx ELSE IF p.override # 0 THEN p.override ELSE p.cap
           named(p) == IF p.key # "" /\ p.cred = "" THEN [p EXCEPT !.cred = p.id] ELSE p
           resized(p) == IF v < 5 THEN [p EXCEPT !.nctx = size(p), !.override = 0] ELSE p
           t == [i \in DOMAIN d.servers |-> named(resized(d.servers[i]))]
<1>1. IsDoc(m) /\ m.parses = d.parses /\ m.version = d.version /\ m.legacy = d.legacy /\ m.servers = t
  BY DEF IsDoc, DocF, MigrateModelProfiles
<1>2. ASSUME NEW i \in DOMAIN d.servers
      PROVE  /\ FormedProfile(t[i]) /\ t[i].id = d.servers[i].id /\ t[i].key = d.servers[i].key
             /\ CredentialName(t[i]) = CredentialName(d.servers[i])
             /\ t[i].key # "" => t[i].cred # ""
  <2>1. PICK p : p = d.servers[i]
    OBVIOUS
  <2>2. IsProf(p) /\ p.id \in Names /\ p.cred \in Names \cup {""}
    BY <1>2, <2>1, FormedProfileIs DEF IsServers
  <2>3. PICK q : q = resized(p)
    OBVIOUS
  <2>4. IsProf(q) /\ q.id = p.id /\ q.key = p.key /\ q.cred = p.cred
    <3>1. CASE v < 5
      <4>1. PICK z : z = size(p)
        OBVIOUS
      <4>2. q = [p EXCEPT !.nctx = z, !.override = 0]
        BY <2>3, <3>1, <4>1
      <4> QED  BY <2>2, <4>2 DEF IsProf, ProfF
    <3>2. CASE ~(v < 5)
      BY <2>2, <2>3, <3>2
    <3> QED  BY <3>1, <3>2
  <2>5. PICK r : r = named(q)
    OBVIOUS
  <2>6. /\ IsProf(r) /\ r.id = p.id /\ r.key = p.key /\ r.cred = (IF p.key # "" /\ p.cred = "" THEN p.id ELSE p.cred)
    BY <2>4, <2>5 DEF IsProf, ProfF
  <2>7. t[i] = r
    <3> HIDE DEF named, resized
    <3>1. t[i] = named(resized(d.servers[i]))
      BY <1>2
    <3> QED  BY <2>1, <2>3, <2>5, <3>1, Zenon
  <2>8. p.id # ""
    BY <2>2, SettingsConstants
  <2>9. FormedProfile(r)
    BY <2>2, <2>6, FormedProfileIs
  <2>10. CredentialName(r) = CredentialName(p) /\ (r.key # "" => r.cred # "")
    BY <2>2, <2>6, <2>8 DEF CredentialName
  <2> QED  BY <2>1, <2>6, <2>7, <2>9, <2>10
<1>3. DOMAIN t = DOMAIN d.servers /\ t = [i \in DOMAIN d.servers |-> t[i]]
  <2> HIDE DEF named, resized
  <2> QED  OBVIOUS
<1> HIDE DEF t
<1>4. t \in Seq({t[i] : i \in DOMAIN t})
  BY <1>3, SeqMapped DEF IsServers
<1>5. Carries(t, d.servers)
  BY <1>2, <1>3, <1>4, Zenon DEF Carries, IsServers
<1> QED  BY <1>1, <1>2, <1>3, <1>5, Zenon DEF Brings, NamesKeys

LEMMA DefaultsLeave ==
  ASSUME NEW d, IsDoc(d), IsServers(d.servers), NEW n, n = ApplyDefaults(d)
  PROVE  /\ IsDoc(n) /\ Carries(n.servers, d.servers) /\ Defaulted(n)
         /\ \A i \in DOMAIN d.servers : n.servers[i].cred = d.servers[i].cred
         /\ n.parses = d.parses /\ n.legacy = d.legacy /\ n.version = CurrentConfigVersion
<1> DEFINE t == [i \in DOMAIN d.servers |->
                   IF d.servers[i].nctx = -1 THEN [d.servers[i] EXCEPT !.nctx = 0] ELSE d.servers[i]]
<1>1. Completed(n, d)
  BY Defaults
<1>0. /\ IsDoc(n) /\ n.parses = d.parses /\ n.legacy = d.legacy /\ n.version = CurrentConfigVersion
      /\ n.servers = t
  BY <1>1, Zenon DEF Completed
<1>2. ASSUME NEW i \in DOMAIN d.servers
      PROVE  /\ FormedProfile(t[i]) /\ t[i].id = d.servers[i].id /\ t[i].key = d.servers[i].key
             /\ t[i].cred = d.servers[i].cred /\ t[i].nctx # -1
  <2>1. PICK p : p = d.servers[i]
    OBVIOUS
  <2>2. IsProf(p) /\ p.id \in Names /\ p.cred \in Names \cup {""}
    BY <1>2, <2>1, FormedProfileIs DEF IsServers
  <2>3. PICK r : r = IF p.nctx = -1 THEN [p EXCEPT !.nctx = 0] ELSE p
    OBVIOUS
  <2>4. IsProf(r) /\ r.id = p.id /\ r.key = p.key /\ r.cred = p.cred /\ r.nctx # -1
    <3>1. CASE p.nctx = -1
      <4>1. r = [p EXCEPT !.nctx = 0]
        BY <2>3, <3>1
      <4>2. IsProf(r) /\ r.id = p.id /\ r.key = p.key /\ r.cred = p.cred /\ r.nctx = 0
        BY <2>2, <4>1 DEF IsProf, ProfF
      <4>3. 0 # -1
        OBVIOUS
      <4> QED  BY <4>2, <4>3
    <3>2. CASE p.nctx # -1
      BY <2>2, <2>3, <3>2
    <3> QED  BY <3>1, <3>2
  <2>5. FormedProfile(r)
    BY <2>2, <2>4, FormedProfileIs
  <2>6. t[i] = r
    BY <1>2, <2>1, <2>3, Zenon
  <2> QED  BY <2>1, <2>4, <2>5, <2>6
<1>3. DOMAIN t = DOMAIN d.servers /\ t = [i \in DOMAIN d.servers |-> t[i]]
  OBVIOUS
<1> HIDE DEF t
<1>4. t \in Seq({t[i] : i \in DOMAIN t}) /\ Len(t) = Len(d.servers)
  BY <1>3, SeqMapped DEF IsServers
<1>5. Carries(t, d.servers)
  BY <1>2, <1>3, <1>4, Zenon DEF Carries, IsServers, CredentialName
<1>6. Defaulted(n)
  <2>1. /\ n.turns \notin {-1, 0} /\ n.approval # "" /\ n.memory.dir # "" /\ n.limit # 0 /\ n.idle # 0
    <3>1. n.turns \notin {-1, 0}
      BY <1>1, Numerals, Zenon DEF Completed
    <3>2. n.approval # ""
      BY <1>1 DEF Completed
    <3>3. n.memory.dir # ""
      <4>1. CASE d.memory.dir = ""
        <5>1. n.memory = [dir |-> "memory", on |-> TRUE]
          BY <1>1, <4>1, Zenon DEF Completed
        <5> QED  BY <5>1
      <4>2. CASE d.memory.dir # ""
        BY <1>1, <4>2, Zenon DEF Completed
      <4> QED  BY <4>1, <4>2
    <3>4. n.limit # 0 /\ n.idle # 0
      BY <1>1, Numerals, Zenon DEF Completed
    <3> QED  BY <3>1, <3>2, <3>3, <3>4
  <2>2. \A i \in DOMAIN n.servers : n.servers[i].nctx # -1
    BY <1>0, <1>2, <1>3
  <2>3. n.servers = <<>> => n.agents = <<>>
    <3>1. SUFFICES ASSUME t = <<>>
                   PROVE  d.servers = <<>>
      BY <1>0, <1>1, Zenon DEF Completed
    <3>2. Len(d.servers) = 0
      BY <1>4, <3>1
    <3>3. d.servers \in Seq({d.servers[i] : i \in DOMAIN d.servers})
      BY DEF IsServers
    <3> QED  BY <3>2, <3>3
  <2> QED  BY <2>1, <2>2, <2>3 DEF Defaulted
<1> QED  BY <1>0, <1>2, <1>5, <1>6

LEMMA SameKeys ==
  ASSUME NEW d, NEW m, Carries(m.servers, d.servers)
  PROVE  KeysIn(m) = KeysIn(d)
<1>1. DOMAIN m.servers = DOMAIN d.servers
  BY DEF Carries
<1>2. \A i \in DOMAIN d.servers : /\ m.servers[i].key = d.servers[i].key
                                  /\ CredentialName(m.servers[i]) = CredentialName(d.servers[i])
  BY DEF Carries
<1> QED  BY <1>1, <1>2 DEF KeysIn

(* What a load makes of a document it can parse. *)
LEMMA NormalizedIs ==
  ASSUME NEW d, Formed(d), NEW n, n = Normalized(d)
  PROVE  /\ Formed(n) /\ Defaulted(n) /\ Carries(n.servers, d.servers)
         /\ n.parses = d.parses /\ n.legacy = FALSE /\ n.version = CurrentConfigVersion /\ n.operator = FALSE
         /\ NamesKeys(n.servers)
<1> DEFINE v == d.version
<1>1. PICK a : a = MigrateV1(d)
  OBVIOUS
<1>2. PICK b : b = MigrateOperatorIdleTimeout(a, v)
  OBVIOUS
<1>3. PICK c : c = MigrateByteWindows(b, v)
  OBVIOUS
<1>4. PICK e : e = MigrateModelProfiles(c, v)
  OBVIOUS
<1>5. PICK f : f = MigrateAgentObjects(e, v)
  OBVIOUS
<1>6. PICK g : g = ApplyDefaults(f)
  OBVIOUS
<1>7. f = Migrated(d)
  BY <1>1, <1>2, <1>3, <1>4, <1>5, Zenon DEF Migrated
<1>8. Brings(a, d) /\ a.legacy = FALSE
  BY <1>1, V1Brings
<1>9. IsDoc(a) /\ IsServers(a.servers)
  BY <1>8 DEF Brings, Carries
<1>10. Brings(b, a) /\ b.legacy = FALSE /\ IsDoc(b) /\ IsServers(b.servers)
  BY <1>2, <1>8, <1>9, IdleBrings DEF Brings, Carries
<1>11. Brings(c, b) /\ c.legacy = FALSE /\ IsDoc(c) /\ IsServers(c.servers)
  BY <1>3, <1>10, BytesBring DEF Brings, Carries
<1>12. /\ Brings(e, c) /\ e.legacy = FALSE /\ IsDoc(e) /\ IsServers(e.servers)
       /\ NamesKeys(e.servers)
  <2>1. /\ Brings(e, c) /\ e.legacy = c.legacy
        /\ NamesKeys(e.servers)
    BY <1>4, <1>11, ProfilesBring
  <2>2. IsDoc(e) /\ IsServers(e.servers)
    BY <2>1 DEF Brings, Carries
  <2> QED  BY <1>11, <2>1, <2>2
<1>13. Brings(f, e) /\ f.legacy = FALSE /\ IsDoc(f) /\ IsServers(f.servers) /\ f.servers = e.servers
  <2>1. Brings(f, e) /\ f.legacy = e.legacy /\ f.servers = e.servers
    BY <1>5, <1>12, AgentsBring
  <2> QED  BY <1>12, <2>1 DEF Brings
<1>14. Brings(f, d)
  BY <1>8, <1>10, <1>11, <1>12, <1>13, BringsOn
<1>15. /\ IsDoc(g) /\ Carries(g.servers, f.servers) /\ Defaulted(g)
       /\ \A i \in DOMAIN f.servers : g.servers[i].cred = f.servers[i].cred
       /\ g.parses = f.parses /\ g.legacy = FALSE /\ g.version = CurrentConfigVersion
  BY <1>6, <1>13, DefaultsLeave
<1>16. PICK w : w = IF d.version = 0 /\ d.approval = "mutating" THEN "boundary-only" ELSE g.approval
  OBVIOUS
<1>17. n = [g EXCEPT !.operator = FALSE, !.approval = w]
  <2>1. g = ApplyDefaults(Migrated(d))
    BY <1>6, <1>7
  <2>2. n = [g EXCEPT !.operator = FALSE, !.approval = IF d.version = 0 /\ d.approval = "mutating" THEN "boundary-only" ELSE @]
    BY <2>1, Zenon DEF Normalized
  <2> QED  BY <1>15, <1>16, <2>2 DEF IsDoc, DocF
<1>18. /\ IsDoc(n) /\ n.operator = FALSE /\ n.approval = w /\ n.parses = g.parses /\ n.legacy = g.legacy
       /\ n.version = g.version /\ n.servers = g.servers
       /\ n.turns = g.turns /\ n.memory = g.memory /\ n.limit = g.limit /\ n.idle = g.idle /\ n.agents = g.agents
  BY <1>15, <1>17 DEF IsDoc, DocF
<1>19. Defaulted(n)
  <2>1. w # ""
    BY <1>15, <1>16 DEF Defaulted
  <2> QED  BY <1>15, <1>18, <2>1 DEF Defaulted
<1>20. Carries(n.servers, d.servers)
  BY <1>14, <1>15, <1>18, CarriesOn DEF Brings
<1>21. Formed(n)
  <2>1. IsServers(n.servers)
    BY <1>20 DEF Carries
  <2>2. n.legacy = FALSE
    BY <1>15, <1>18
  <2> QED  BY <1>18, <2>1, <2>2, FormedIs
<1>22. NamesKeys(n.servers)
  <2>1. /\ n.servers = g.servers /\ DOMAIN g.servers = DOMAIN e.servers
        /\ \A i \in DOMAIN e.servers : g.servers[i].key = e.servers[i].key /\ g.servers[i].cred = e.servers[i].cred
    BY <1>13, <1>15, <1>18 DEF Carries
  <2> QED  BY <1>12, <2>1 DEF NamesKeys
<1>23. n.parses = d.parses
  BY <1>14, <1>15, <1>18 DEF Brings
<1> QED  BY <1>15, <1>18, <1>19, <1>20, <1>21, <1>22, <1>23

(* A load changes nothing of what a save wrote, operator mode aside. *)
LEMMA NormalizedSame ==
  ASSUME NEW d, Formed(d), Defaulted(d), d.legacy = FALSE, d.version = CurrentConfigVersion,
         \A i \in DOMAIN d.servers : d.servers[i].key = ""
  PROVE  Normalized(d) = [d EXCEPT !.operator = FALSE]
<1>1. IsDoc(d) /\ IsServers(d.servers)
  BY FormedIs
<1>2. MigrateV1(d) = d
  BY DEF MigrateV1
<1>3. MigrateOperatorIdleTimeout(d, 6) = d /\ MigrateByteWindows(d, 6) = d /\ MigrateAgentObjects(d, 6) = d
  <2>1. MigrateOperatorIdleTimeout(d, 6) = d
    BY DEF MigrateOperatorIdleTimeout, CurrentConfigVersion
  <2>2. 6 >= 4 /\ 6 >= 6
    BY Numerals
  <2>3. MigrateByteWindows(d, 6) = d
    BY <2>2, Zenon DEF MigrateByteWindows
  <2>4. MigrateAgentObjects(d, 6) = d
    BY <2>2, Zenon DEF MigrateAgentObjects
  <2> QED  BY <2>1, <2>3, <2>4
<1>4. d.servers = [i \in DOMAIN d.servers |-> d.servers[i]]
  <2>1. PICK S : d.servers \in Seq(S)
    BY <1>1 DEF IsServers
  <2> QED  BY <2>1, SeqSelf
<1>5. MigrateModelProfiles(d, 6) = d
  <2>1. PICK m : m = MigrateModelProfiles(d, 6)
    OBVIOUS
  <2>2. m = [d EXCEPT !.main = d.main, !.servers = [i \in DOMAIN d.servers |-> d.servers[i]]]
    <3> DEFINE size(p) == IF p.nctx # -1 THEN p.nctx ELSE IF p.override # 0 THEN p.override ELSE p.cap
               named(p) == IF p.key # "" /\ p.cred = "" THEN [p EXCEPT !.cred = p.id] ELSE p
               resized(p) == IF 6 < 5 THEN [p EXCEPT !.nctx = size(p), !.override = 0] ELSE p
    <3>1. m = [d EXCEPT !.main = IF 6 < 5 THEN LegacyMainProfile(d) ELSE @,
                        !.servers = [i \in DOMAIN d.servers |-> named(resized(d.servers[i]))]]
      BY <2>1, Zenon DEF MigrateModelProfiles
    <3>2. ~(6 < 5)
      BY Numerals
    <3>3. \A i \in DOMAIN d.servers : named(resized(d.servers[i])) = d.servers[i]
      BY <3>2, Zenon
    <3> HIDE DEF named, resized
    <3>4. [i \in DOMAIN d.servers |-> named(resized(d.servers[i]))] = [i \in DOMAIN d.servers |-> d.servers[i]]
      BY <3>3
    <3>5. m = [d EXCEPT !.main = IF 6 < 5 THEN LegacyMainProfile(d) ELSE @,
                        !.servers = [i \in DOMAIN d.servers |-> d.servers[i]]]
      BY <3>1, <3>4, Zenon
    <3>6. \A x : (IF 6 < 5 THEN LegacyMainProfile(d) ELSE x) = x
      BY <3>2, Zenon
    <3> QED  BY <3>2, <3>5
  <2>3. m = [d EXCEPT !.main = d.main, !.servers = d.servers]
    BY <1>4, <2>2
  <2>4. m = d
    BY <1>1, <2>3 DEF IsDoc, DocF
  <2> QED  BY <2>1, <2>4
<1>6. Migrated(d) = d
  BY <1>2, <1>3, <1>5 DEF Migrated, CurrentConfigVersion
<1>7. ApplyDefaults(d) = d
  <2>1. PICK n : n = ApplyDefaults(d)
    OBVIOUS
  <2>2. [i \in DOMAIN d.servers |->
           IF d.servers[i].nctx = -1 THEN [d.servers[i] EXCEPT !.nctx = 0] ELSE d.servers[i]] = d.servers
    BY <1>4 DEF Defaulted
  <2>3. /\ IsDoc(n)
        /\ n.parses = d.parses /\ n.legacy = d.legacy /\ n.idleOld = d.idleOld /\ n.main = d.main
        /\ n.aux = d.aux /\ n.operator = d.operator /\ n.version = d.version
        /\ n.turns = d.turns /\ n.approval = d.approval /\ n.memory = d.memory /\ n.limit = d.limit
        /\ n.idle = d.idle /\ n.agents = d.agents
    <3>1. Completed(n, d)
      BY <1>1, <2>1, Defaults
    <3> QED  BY <3>1, Zenon DEF Defaulted, Completed
  <2>4. n.servers = d.servers
    <3>1. Completed(n, d)
      BY <1>1, <2>1, Defaults
    <3> QED  BY <2>2, <3>1, Zenon DEF Completed
  <2>5. \A f \in DocF : n[f] = d[f]
    BY <2>3, <2>4 DEF DocF
  <2> QED  BY <1>1, <2>1, <2>3, <2>5, SameDoc
<1>8. Normalized(d) = [d EXCEPT !.operator = FALSE, !.approval = d.approval]
  <2>1. Normalized(d) = [d EXCEPT !.operator = FALSE,
                                  !.approval = IF d.version = 0 /\ d.approval = "mutating" THEN "boundary-only" ELSE @]
    BY <1>6, <1>7, Zenon DEF Normalized
  <2>2. d.version # 0
    BY Numerals, Zenon DEF CurrentConfigVersion
  <2> QED  BY <1>1, <2>1, <2>2 DEF IsDoc, DocF
<1> QED  BY <1>1, <1>8 DEF IsDoc, DocF

LEMMA LastOf ==
  ASSUME NEW n \in Nat, NEW S \in SUBSET (1..n), S # {}
  PROVE  \E x \in S : \A y \in S : y <= x
<1> DEFINE T == {n - x : x \in S}
<1>0. \A x \in S : x \in Nat /\ x <= n /\ n - x \in Nat
  OBVIOUS
<1>1. T \subseteq Nat /\ T # {}
  BY <1>0
<1>2. PICK t \in T : \A u \in T : ~(u < t)
  <2> DEFINE R == OpToRel(<, Nat)
  <2> HIDE DEF T, R
  <2>1. IsWellFoundedOn(R, Nat)
    BY NatLessThanWellFounded DEF R
  <2>2. \E x \in T : \A y \in T : ~(<<y, x>> \in R)
    BY <1>1, <2>1, WFMin
  <2> QED  BY <1>1, <2>2 DEF R, OpToRel
<1>3. PICK x \in S : t = n - x
  BY <1>2
<1>4. \A y \in S : y <= x
  <2> TAKE y \in S
  <2>1. ~(n - y < n - x)
    BY <1>2, <1>3
  <2> QED  BY <1>0, <2>1
<1> QED  BY <1>3, <1>4

\* The profiles among the first n that give a key for credential c.
Giving(d, n, c) == {i \in 1..n : d.servers[i].key # "" /\ CredentialName(d.servers[i]) = c}
Giver(d, n, c) == CHOOSE i \in Giving(d, n, c) : \A j \in Giving(d, n, c) : j <= i

LEMMA StoreShape ==
  ASSUME NEW store, NEW d, NEW n
  PROVE  StoreAfter(store, d, n) = [c \in Names |-> StoreAfter(store, d, n)[c]]
<1> DEFINE v(c) == IF Giving(d, n, c) = {} THEN store[c] ELSE d.servers[Giver(d, n, c)].key
<1>1. StoreAfter(store, d, n) = [c \in Names |-> v(c)]
  BY Zenon DEF StoreAfter, Giving, Giver
<1> HIDE DEF v
<1> QED  BY <1>1

LEMMA StoreAt ==
  ASSUME NEW store, NEW d, NEW n, NEW c \in Names
  PROVE  StoreAfter(store, d, n)[c] =
           IF Giving(d, n, c) = {} THEN store[c] ELSE d.servers[Giver(d, n, c)].key
<1> DEFINE v(k) == IF Giving(d, n, k) = {} THEN store[k] ELSE d.servers[Giver(d, n, k)].key
<1>1. StoreAfter(store, d, n) = [k \in Names |-> v(k)]
  BY Zenon DEF StoreAfter, Giving, Giver
<1> HIDE DEF v
<1>2. StoreAfter(store, d, n)[c] = v(c)
  BY <1>1
<1> QED  BY <1>2, Zenon DEF v

LEMMA GiverGives ==
  ASSUME NEW d, NEW n \in Nat, NEW c, Giving(d, n, c) # {}
  PROVE  Giver(d, n, c) \in Giving(d, n, c)
<1> DEFINE G == Giving(d, n, c)
<1>1. G \in SUBSET (1..n)
  BY DEF Giving
<1> HIDE DEF G
<1>2. \E i \in G : \A j \in G : j <= i
  BY <1>1, LastOf DEF G
<1>3. Giver(d, n, c) = CHOOSE i \in G : \A j \in G : j <= i
  BY Zenon DEF Giver, G
<1>4. Giver(d, n, c) \in G
  BY <1>2, <1>3
<1> QED  BY <1>4 DEF G

LEMMA StoreSome ==
  ASSUME NEW store, NEW d, NEW n, NEW c \in Names
  PROVE  Giving(d, n, c) # {} => StoreAfter(store, d, n)[c] = d.servers[Giver(d, n, c)].key
<1>1. StoreAfter(store, d, n)[c] =
      IF Giving(d, n, c) = {} THEN store[c] ELSE d.servers[Giver(d, n, c)].key
  BY StoreAt, ZenonT(40)
<1>2. PICK G, a, b, e : /\ G = Giving(d, n, c) /\ a = StoreAfter(store, d, n)[c]
                        /\ b = store[c] /\ e = d.servers[Giver(d, n, c)].key
  OBVIOUS
<1>3. a = IF G = {} THEN b ELSE e
  BY <1>1, <1>2, ZenonT(40)
<1>4. G # {} => a = e
  BY <1>3
<1> QED  BY <1>2, <1>4, ZenonT(40)

LEMMA StoreGrows ==
  ASSUME NEW store, NEW d, NEW n \in Nat, NEW c \in Names
  PROVE  /\ store[c] # "" => StoreAfter(store, d, n)[c] # ""
         /\ \A i \in Giving(d, n, c) : StoreAfter(store, d, n)[c] # ""
<1>1. CASE Giving(d, n, c) = {}
  BY <1>1, StoreAt, Zenon
<1>2. CASE Giving(d, n, c) # {}
  <2>1. PICK k : k = Giver(d, n, c)
    OBVIOUS
  <2>2. k \in Giving(d, n, c)
    BY <1>2, <2>1, GiverGives
  <2>3. d.servers[k].key # ""
    BY <2>2 DEF Giving
  <2>4. StoreAfter(store, d, n)[c] = d.servers[k].key
    BY <1>2, <2>1, StoreSome
  <2> QED  BY <2>3, <2>4, Zenon
<1> QED  BY <1>1, <1>2

LEMMA StoreOne ==
  ASSUME NEW store, NEW d, NEW n \in Nat, NEW c \in Names, NEW i, Giving(d, n, c) = {i}
  PROVE  StoreAfter(store, d, n)[c] = d.servers[i].key
<1>1. Giving(d, n, c) # {}
  OBVIOUS
<1>2. Giver(d, n, c) = i
  BY <1>1, GiverGives
<1> QED  BY <1>1, <1>2, StoreSome

LEMMA StoreNone ==
  ASSUME NEW store, NEW d, NEW n, NEW c \in Names, Giving(d, n, c) = {}
  PROVE  StoreAfter(store, d, n)[c] = store[c]
BY StoreAt, Zenon

Keyless(d, n) == \A i \in 1..n : d.servers[i].key = ""

LEMMA StoreSame ==
  ASSUME NEW store, store = [c \in Names |-> store[c]], NEW d, NEW n, Keyless(d, n)
  PROVE  StoreAfter(store, d, n) = store
<1>1. \A c \in Names : Giving(d, n, c) = {}
  BY DEF Giving, Keyless
<1>2. StoreAfter(store, d, n) = [c \in Names |-> StoreAfter(store, d, n)[c]]
  BY StoreShape
<1>3. ASSUME NEW c \in Names
      PROVE  StoreAfter(store, d, n)[c] = store[c]
  <2>1. Giving(d, n, c) = {}
    BY <1>1
  <2> QED  BY <2>1, StoreNone
<1> QED  BY <1>2, <1>3

(* Two documents that Validate cannot tell apart. *)
LEMMA ValidSame ==
  ASSUME NEW d, NEW e, DOMAIN d.servers = DOMAIN e.servers, (d.servers = <<>>) = (e.servers = <<>>),
         \A i \in DOMAIN d.servers : /\ d.servers[i].id = e.servers[i].id /\ d.servers[i].cap = e.servers[i].cap
                                     /\ d.servers[i].nctx = e.servers[i].nctx,
         d.agents = e.agents, d.turns = e.turns, d.approval = e.approval,
         Validate(d)
  PROVE  Validate(e)
<1>1. ValidServers(d) /\ ValidAgents(d) /\ ValidLimits(d)
  BY DEF Validate
<1>2. ValidServers(e)
  BY <1>1 DEF ValidServers
<1>3. {d.servers[i].id : i \in DOMAIN d.servers} = {e.servers[i].id : i \in DOMAIN e.servers}
  OBVIOUS
<1>4. ValidAgents(e)
  BY <1>1, <1>3, Zenon DEF ValidAgents
<1>5. ValidLimits(e)
  BY <1>1, Zenon DEF ValidLimits
<1> QED  BY <1>2, <1>4, <1>5 DEF Validate

\* Profiles that differ in their keys and credentials only.
Alike(t, s) ==
  /\ IsServers(t) /\ DOMAIN t = DOMAIN s /\ (t = <<>> <=> s = <<>>)
  /\ \A i \in DOMAIN s : t[i].id = s[i].id /\ t[i].cap = s[i].cap /\ t[i].nctx = s[i].nctx

LEMMA MappedAlike ==
  ASSUME NEW s, IsServers(s), NEW t, DOMAIN t = DOMAIN s, t = [i \in DOMAIN s |-> t[i]],
         \A i \in DOMAIN s : /\ FormedProfile(t[i]) /\ t[i].id = s[i].id
                             /\ t[i].cap = s[i].cap /\ t[i].nctx = s[i].nctx
  PROVE  Alike(t, s)
<1>1. s \in Seq({s[i] : i \in DOMAIN s})
  BY DEF IsServers
<1>2. t \in Seq({t[i] : i \in DOMAIN t}) /\ Len(t) = Len(s)
  BY <1>1, SeqMapped
<1>3. IsServers(t)
  BY <1>2, Zenon DEF IsServers
<1>4. t = <<>> <=> s = <<>>
  <2>1. t = <<>> <=> Len(t) = 0
    BY <1>2
  <2>2. s = <<>> <=> Len(s) = 0
    BY <1>1
  <2> QED  BY <1>2, <2>1, <2>2
<1> QED  BY <1>3, <1>4, Zenon DEF Alike

LEMMA AlikeUptodate ==
  ASSUME NEW d, NEW e, Uptodate(d), IsDoc(e), Alike(e.servers, d.servers),
         \A f \in DocF \ {"servers", "operator"} : e[f] = d[f]
  PROVE  Uptodate(e) /\ (Validate(d) => Validate(e))
<1>1. Formed(d) /\ Defaulted(d) /\ d.parses /\ d.legacy = FALSE /\ d.version = CurrentConfigVersion
  BY DEF Uptodate
<1>2. /\ e.parses = d.parses /\ e.legacy = d.legacy /\ e.version = d.version /\ e.turns = d.turns
      /\ e.approval = d.approval /\ e.memory = d.memory /\ e.limit = d.limit /\ e.idle = d.idle /\ e.agents = d.agents
  BY DEF DocF
<1>3. Defaulted(e)
  BY <1>1, <1>2 DEF Defaulted, Alike
<1>4. Formed(e)
  BY <1>1, <1>2, FormedIs DEF Alike
<1>5. Validate(d) => Validate(e)
  BY <1>1, <1>2, ValidSame DEF Alike
<1> QED  BY <1>1, <1>2, <1>3, <1>4, <1>5 DEF Uptodate

\* What becomes of one profile when the credentials are resolved.
ResolvedProfile(store, d, i) ==
  LET p == d.servers[i] IN
  IF p.key # "" THEN [p EXCEPT !.cred = CredentialName(p)]
  ELSE IF p.cred # "" THEN [p EXCEPT !.key = StoreAfter(store, d, i)[p.cred]]
  ELSE p

\* The profile r of p: a key that was given stays, one that was named is read.
Answers(r, p, k) ==
  /\ FormedProfile(r) /\ r.id = p.id /\ r.cap = p.cap /\ r.nctx = p.nctx
  /\ p.key # "" => r.key = p.key /\ r.cred = CredentialName(p)
  /\ p.key = "" => r.cred = p.cred /\ r.key = (IF p.cred = "" THEN "" ELSE k)

LEMMA ProfileAnswers ==
  ASSUME NEW store, NEW d, NEW i, FormedProfile(d.servers[i])
  PROVE  Answers(ResolvedProfile(store, d, i), d.servers[i], StoreAfter(store, d, i)[d.servers[i].cred])
<1>1. PICK p, k : p = d.servers[i] /\ k = StoreAfter(store, d, i)[p.cred]
  OBVIOUS
<1>2. IsProf(p) /\ p.id \in Names /\ p.cred \in Names \cup {""}
  BY <1>1, FormedProfileIs
<1>3. PICK r : r = IF p.key # "" THEN [p EXCEPT !.cred = CredentialName(p)]
                   ELSE IF p.cred # "" THEN [p EXCEPT !.key = k] ELSE p
  OBVIOUS
<1>4. r = ResolvedProfile(store, d, i)
  BY <1>1, <1>3, Zenon DEF ResolvedProfile
<1>5. Answers(r, p, k)
  <2>1. CASE p.key # ""
    <3>1. PICK x : x = CredentialName(p)
      OBVIOUS
    <3>2. x \in Names
      BY <1>2, <3>1 DEF CredentialName
    <3>3. r = [p EXCEPT !.cred = x]
      BY <1>3, <2>1, <3>1, Zenon
    <3>4. IsProf(r) /\ r.id = p.id /\ r.cap = p.cap /\ r.nctx = p.nctx /\ r.key = p.key /\ r.cred = x
      BY <1>2, <3>3 DEF IsProf, ProfF
    <3>5. FormedProfile(r)
      BY <1>2, <3>2, <3>4, FormedProfileIs
    <3> QED  BY <2>1, <3>1, <3>4, <3>5, Zenon DEF Answers
  <2>2. CASE p.key = "" /\ p.cred # ""
    <3>1. r = [p EXCEPT !.key = k]
      BY <1>3, <2>2, Zenon
    <3>2. IsProf(r) /\ r.id = p.id /\ r.cap = p.cap /\ r.nctx = p.nctx /\ r.key = k /\ r.cred = p.cred
      BY <1>2, <3>1 DEF IsProf, ProfF
    <3>3. FormedProfile(r)
      BY <1>2, <3>2, FormedProfileIs
    <3> QED  BY <2>2, <3>2, <3>3, Zenon DEF Answers
  <2>3. CASE p.key = "" /\ p.cred = ""
    <3>1. r = p
      BY <1>3, <2>3, Zenon
    <3>2. FormedProfile(r)
      BY <1>2, <3>1, FormedProfileIs
    <3> QED  BY <2>3, <3>1, <3>2, Zenon DEF Answers
  <2> QED  BY <2>1, <2>2, <2>3
<1> QED  BY <1>1, <1>4, <1>5, Zenon

LEMMA ResolvedIs ==
  ASSUME NEW store, NEW d, IsDoc(d), IsServers(d.servers), NEW r, r = Resolved(store, d)
  PROVE  /\ IsDoc(r) /\ Alike(r.servers, d.servers)
         /\ \A f \in DocF \ {"servers"} : r[f] = d[f]
         /\ \A i \in DOMAIN d.servers :
              Answers(r.servers[i], d.servers[i], StoreAfter(store, d, i)[d.servers[i].cred])
<1> DEFINE t == [i \in DOMAIN d.servers |-> ResolvedProfile(store, d, i)]
<1>1. r = [d EXCEPT !.servers = t]
  BY Zenon DEF Resolved, ResolvedProfile
<1>2. \A i \in DOMAIN d.servers : t[i] = ResolvedProfile(store, d, i)
  OBVIOUS
<1>3. DOMAIN t = DOMAIN d.servers /\ t = [i \in DOMAIN d.servers |-> t[i]]
  OBVIOUS
<1> HIDE DEF t
<1>4. /\ IsDoc(r) /\ r.servers = t /\ \A f \in DocF \ {"servers"} : r[f] = d[f]
  BY <1>1 DEF IsDoc, DocF
<1>5. ASSUME NEW i \in DOMAIN d.servers
      PROVE  Answers(t[i], d.servers[i], StoreAfter(store, d, i)[d.servers[i].cred])
  <2>1. FormedProfile(d.servers[i])
    BY DEF IsServers
  <2> QED  BY <1>2, <2>1, ProfileAnswers, Zenon
<1>6. \A i \in DOMAIN d.servers : /\ FormedProfile(t[i]) /\ t[i].id = d.servers[i].id
                                  /\ t[i].cap = d.servers[i].cap /\ t[i].nctx = d.servers[i].nctx
  BY <1>5, Zenon DEF Answers
<1>7. Alike(t, d.servers)
  BY <1>3, <1>6, MappedAlike
<1> QED  BY <1>4, <1>5, <1>7, Zenon

\* The profiles of r are those of d with their credentials resolved.
AnswersAll(store, d, r) ==
  /\ DOMAIN r.servers = DOMAIN d.servers
  /\ \A i \in DOMAIN d.servers :
       Answers(r.servers[i], d.servers[i], StoreAfter(store, d, i)[d.servers[i].cred])

NamesCred(r, i, c) == r.servers[i].cred = c

(* A key that no other profile shares is in the store under its credential. *)
LEMMA StoredAt ==
  ASSUME NEW store, NEW d, IsServers(d.servers), NEW r, AnswersAll(store, d, r), ~SharedCredential(r),
         NEW i \in DOMAIN d.servers, NEW c \in Names, NamesCred(r, i, c)
  PROVE  Stored(store, d)[c] = r.servers[i].key
<1>1. PICK L : L = Len(d.servers)
  OBVIOUS
<1>2. L \in Nat /\ DOMAIN d.servers = 1..L
  <2>1. d.servers \in Seq({d.servers[j] : j \in DOMAIN d.servers})
    BY DEF IsServers
  <2> QED  BY <1>1, <2>1
<1>3. PICK p, q, k : p = d.servers[i] /\ q = r.servers[i] /\ k = StoreAfter(store, d, i)[p.cred]
  OBVIOUS
<1>4. Answers(q, p, k)
  BY <1>3, Zenon DEF AnswersAll
<1>5. \A j \in DOMAIN d.servers : d.servers[j].key # "" => r.servers[j].cred = CredentialName(d.servers[j])
  BY Zenon DEF AnswersAll, Answers
<1>6. c # ""
  BY SettingsConstants
<1>7. \A j \in DOMAIN d.servers : r.servers[j].cred = c => j = i
  BY <1>6, Zenon DEF SharedCredential, AnswersAll, NamesCred
<1>8. ASSUME NEW n \in Nat, n <= L, NEW j \in Giving(d, n, c)
      PROVE  j = i
  <2>1. j \in 1..n /\ d.servers[j].key # "" /\ CredentialName(d.servers[j]) = c
    BY <1>8 DEF Giving
  <2>2. j \in DOMAIN d.servers
    <3>1. j \in 1..n
      BY <2>1
    <3> QED  BY <1>2, <1>8, <3>1
  <2> QED  BY <1>5, <1>7, <2>1, <2>2
<1>9. i \in 1..L /\ i \in Nat /\ i <= L /\ L <= L /\ i \in 1..i
  BY <1>2
<1>10. Giving(d, L, c) \subseteq {i} /\ Giving(d, i, c) \subseteq {i}
  BY <1>2, <1>8, <1>9
<1>11. CASE p.key # ""
  <2>1. q.key = p.key /\ c = CredentialName(p)
    BY <1>3, <1>4, <1>11, Zenon DEF Answers, NamesCred
  <2>2. i \in Giving(d, L, c)
    BY <1>3, <1>9, <1>11, <2>1 DEF Giving
  <2>3. Giving(d, L, c) = {i}
    BY <1>10, <2>2
  <2>4. StoreAfter(store, d, L)[c] = d.servers[i].key
    BY <1>2, <2>2, <2>3, StoreOne
  <2> QED  BY <1>1, <1>3, <2>1, <2>4, Zenon DEF Stored
<1>12. CASE p.key = ""
  <2>1. c = p.cred
    BY <1>3, <1>4, <1>12, Zenon DEF Answers, NamesCred
  <2>2. q.key = k
    BY <1>4, <1>6, <1>12, <2>1, Zenon DEF Answers
  <2>3. i \notin Giving(d, L, c) /\ i \notin Giving(d, i, c)
    BY <1>3, <1>12 DEF Giving
  <2>4. Giving(d, L, c) = {} /\ Giving(d, i, c) = {}
    BY <1>10, <2>3
  <2>5. StoreAfter(store, d, L)[c] = store[c] /\ StoreAfter(store, d, i)[c] = store[c]
    BY <2>4, StoreNone
  <2> QED  BY <1>1, <1>3, <2>1, <2>2, <2>5, Zenon DEF Stored
<1> QED  BY <1>11, <1>12, Zenon

(* Resolving makes a configuration to run with, and stores its keys.        *)
LEMMA ResolvedRuns ==
  ASSUME NEW store, NEW d, Uptodate(d), Resolvable(store, d), NEW r, r = Resolved(store, d)
  PROVE  /\ Running(r) /\ r.operator = d.operator
         /\ ~SharedCredential(r) => Agrees(Stored(store, d), r)
<1>1. IsDoc(d) /\ IsServers(d.servers)
  BY FormedIs DEF Uptodate
<1>2. /\ IsDoc(r) /\ Alike(r.servers, d.servers)
      /\ \A f \in DocF \ {"servers"} : r[f] = d[f]
  BY <1>1, ResolvedIs
<1>3. ASSUME NEW i \in DOMAIN d.servers
      PROVE  Answers(r.servers[i], d.servers[i], StoreAfter(store, d, i)[d.servers[i].cred])
  BY <1>1, <1>3, ResolvedIs
<1>4. Uptodate(r)
  BY <1>2, AlikeUptodate
<1>5. DOMAIN r.servers = DOMAIN d.servers /\ DOMAIN d.servers = 1..Len(d.servers) /\ Len(d.servers) \in Nat
  <2>1. d.servers \in Seq({d.servers[i] : i \in DOMAIN d.servers})
    BY <1>1 DEF IsServers
  <2>2. DOMAIN d.servers = 1..Len(d.servers) /\ Len(d.servers) \in Nat
    BY <2>1
  <2> QED  BY <1>2, <2>2, Zenon DEF Alike
<1>6. \A i \in DOMAIN d.servers : /\ d.servers[i].id \in Names /\ d.servers[i].id # ""
                                  /\ d.servers[i].cred \in Names \cup {""}
  BY <1>1, FormedProfileIs, SettingsConstants DEF IsServers
<1>7. ASSUME NEW i \in DOMAIN r.servers
      PROVE  r.servers[i].key # "" <=> r.servers[i].cred # ""
  <2>1. PICK p, q, k : p = d.servers[i] /\ q = r.servers[i] /\ k = StoreAfter(store, d, i)[p.cred]
    OBVIOUS
  <2>2. i \in DOMAIN d.servers
    BY <1>5
  <2>3. Answers(q, p, k)
    BY <1>3, <2>1, <2>2, Zenon
  <2>4. p.key = "" /\ p.cred # "" => k # ""
    BY <2>1, <2>2, Zenon DEF Resolvable, NotStored
  <2>5. p.id # "" /\ (p.cred # "" \/ p.cred = "")
    BY <1>6, <2>1, <2>2
  <2>6. CredentialName(p) # ""
    BY <2>5 DEF CredentialName
  <2>7. q.key # "" <=> q.cred # ""
    BY <2>3, <2>4, <2>6 DEF Answers
  <2> QED  BY <2>1, <2>7, Zenon
<1>8. Running(r)
  BY <1>4, <1>7, Zenon DEF Running
<1>9. r.operator = d.operator
  BY <1>2 DEF DocF
<1>10. AnswersAll(store, d, r)
  BY <1>3, <1>5, Zenon DEF AnswersAll
<1>11. ASSUME ~SharedCredential(r), NEW i \in DOMAIN r.servers
       PROVE  r.servers[i].cred # "" => Stored(store, d)[r.servers[i].cred] = r.servers[i].key
  <2>1. PICK c : c = r.servers[i].cred
    OBVIOUS
  <2>2. c \in Names \cup {""}
    <3>1. FormedProfile(r.servers[i])
      BY <1>4, FormedIs DEF Uptodate, IsServers
    <3> QED  BY <2>1, <3>1, FormedProfileIs
  <2>3. i \in DOMAIN d.servers
    BY <1>5
  <2>4. c \in Names => Stored(store, d)[c] = r.servers[i].key
    <3>1. NamesCred(r, i, c)
      BY <2>1, Zenon DEF NamesCred
    <3> QED  BY <1>1, <1>10, <1>11, <2>3, <3>1, StoredAt
  <2> QED  BY <2>1, <2>2, <2>4, Zenon
<1> QED  BY <1>8, <1>9, <1>11, Zenon DEF Agrees

LEMMA SavedProfile ==
  ASSUME NEW c, FormedProfile(c), NEW p, p = [c EXCEPT !.key = ""], NEW k
  PROVE  /\ FormedProfile(p) /\ p.id = c.id /\ p.cap = c.cap /\ p.nctx = c.nctx /\ p.key = "" /\ p.cred = c.cred
         /\ k = c.key => [p EXCEPT !.key = k] = c
         /\ c.key = "" => p = c
<1>1. IsProf(c) /\ c.id \in Names /\ c.cred \in Names \cup {""}
  BY FormedProfileIs
<1>2. IsProf(p) /\ p.id = c.id /\ p.cap = c.cap /\ p.nctx = c.nctx /\ p.key = "" /\ p.cred = c.cred
  BY <1>1 DEF IsProf, ProfF
<1>3. FormedProfile(p)
  BY <1>1, <1>2, FormedProfileIs
<1>4. k = c.key => [p EXCEPT !.key = k] = c
  <2> SUFFICES ASSUME k = c.key
               PROVE  [p EXCEPT !.key = k] = c
    OBVIOUS
  <2>1. \A f \in ProfF : [p EXCEPT !.key = k][f] = c[f]
    BY <1>1, <1>2 DEF IsProf, ProfF
  <2>2. IsProf([p EXCEPT !.key = k])
    BY <1>2 DEF IsProf, ProfF
  <2>3. [f \in ProfF |-> [p EXCEPT !.key = k][f]] = [f \in ProfF |-> c[f]]
    BY <2>1
  <2> QED  BY <1>1, <2>2, <2>3, Zenon DEF IsProf
<1>5. c.key = "" => p = c
  <2> SUFFICES ASSUME c.key = ""
               PROVE  p = c
    OBVIOUS
  <2>1. \A f \in ProfF : p[f] = c[f]
    BY <1>1, <1>2 DEF IsProf, ProfF
  <2>2. [f \in ProfF |-> p[f]] = [f \in ProfF |-> c[f]]
    BY <2>1
  <2> QED  BY <1>1, <1>2, <2>2, Zenon DEF IsProf
<1> QED  BY <1>2, <1>3, <1>4, <1>5

\* The profiles of c without their keys.
Blanked(d, c) == \A i \in DOMAIN c.servers : d.servers[i] = [c.servers[i] EXCEPT !.key = ""]

LEMMA PersistedIs ==
  ASSUME NEW c, Running(c), NEW d, d = Persisted(c)
  PROVE  /\ Uptodate(d) /\ d.operator = FALSE /\ (Validate(c) => Validate(d))
         /\ \A f \in DocF \ {"servers", "operator"} : d[f] = c[f]
         /\ Alike(d.servers, c.servers)
         /\ Blanked(d, c)
<1> DEFINE t == [i \in DOMAIN c.servers |-> [c.servers[i] EXCEPT !.key = ""]]
<1>1. IsDoc(c) /\ IsServers(c.servers) /\ Uptodate(c) /\ c.version = CurrentConfigVersion
  BY FormedIs DEF Running, Uptodate
<1>2. d = [c EXCEPT !.version = CurrentConfigVersion, !.operator = FALSE, !.servers = t]
  BY Zenon DEF Persisted
<1>3. \A i \in DOMAIN c.servers : t[i] = [c.servers[i] EXCEPT !.key = ""]
  OBVIOUS
<1>4. DOMAIN t = DOMAIN c.servers /\ t = [i \in DOMAIN c.servers |-> t[i]]
  OBVIOUS
<1> HIDE DEF t
<1>5. /\ IsDoc(d) /\ d.servers = t /\ d.operator = FALSE
      /\ \A f \in DocF \ {"servers", "operator"} : d[f] = c[f]
  BY <1>1, <1>2 DEF IsDoc, DocF
<1>6. ASSUME NEW i \in DOMAIN c.servers
      PROVE  /\ FormedProfile(t[i]) /\ t[i].id = c.servers[i].id
             /\ t[i].cap = c.servers[i].cap /\ t[i].nctx = c.servers[i].nctx
  <2>1. PICK p, q : p = t[i] /\ q = c.servers[i]
    OBVIOUS
  <2>2. FormedProfile(q)
    BY <1>1, <2>1 DEF IsServers
  <2>3. p = [q EXCEPT !.key = ""]
    BY <1>3, <2>1, Zenon
  <2>4. FormedProfile(p) /\ p.id = q.id /\ p.cap = q.cap /\ p.nctx = q.nctx
    BY <2>2, <2>3, SavedProfile, ZenonT(40)
  <2> QED  BY <2>1, <2>4, Zenon
<1>7. Alike(t, c.servers)
  BY <1>1, <1>4, <1>6, MappedAlike
<1>8. Uptodate(d) /\ (Validate(c) => Validate(d))
  BY <1>1, <1>5, <1>7, AlikeUptodate
<1>9. Blanked(d, c)
  BY <1>3, <1>5, Zenon DEF Blanked
<1> QED  BY <1>5, <1>7, <1>8, <1>9

\* No profile of d has a key.
Blank(d) == \A i \in DOMAIN d.servers : d.servers[i].key = ""

LEMMA BlankIs ==
  ASSUME NEW d, Formed(d)
  PROVE  /\ Blank(d) => KeysIn(d) = {}
         /\ Blank(d) => \A i \in DOMAIN d.servers : Keyless(d, i)
         /\ Blank(d) => Keyless(d, Len(d.servers))
         /\ ~NeedsSave(d) => Blank(d) /\ d.version = CurrentConfigVersion /\ d.legacy = FALSE
         /\ Blank(d) /\ d.version = CurrentConfigVersion /\ d.legacy = FALSE => ~NeedsSave(d)
<1>1. DOMAIN d.servers = 1..Len(d.servers) /\ Len(d.servers) \in Nat /\ d.legacy \in BOOLEAN
  <2>1. d.servers \in Seq({d.servers[i] : i \in DOMAIN d.servers})
    BY FormedIs DEF IsServers
  <2>2. d.legacy \in BOOLEAN
    BY FormedIs
  <2> QED  BY <2>1, <2>2
<1>2. Blank(d) => KeysIn(d) = {}
  BY DEF Blank, KeysIn
<1>3. \A i \in DOMAIN d.servers : 1..i \subseteq DOMAIN d.servers
  BY <1>1
<1>4. Blank(d) => \A i \in DOMAIN d.servers : Keyless(d, i)
  BY <1>3, Zenon DEF Blank, Keyless
<1>5. Blank(d) => Keyless(d, Len(d.servers))
  BY <1>1, Zenon DEF Blank, Keyless
<1>6. ~NeedsSave(d) <=> Blank(d) /\ d.version = CurrentConfigVersion /\ d.legacy = FALSE
  BY <1>1, Zenon DEF NeedsSave, Blank
<1> QED  BY <1>2, <1>4, <1>5, <1>6, Zenon

LEMMA SetSame ==
  ASSUME NEW d, IsDoc(d), d.operator = FALSE
  PROVE  [d EXCEPT !.operator = FALSE] = d
<1>1. PICK e : e = [d EXCEPT !.operator = FALSE]
  OBVIOUS
<1>2. IsDoc(e) /\ \A f \in DocF : e[f] = d[f]
  BY <1>1 DEF IsDoc, DocF
<1> QED  BY <1>1, <1>2, SameDoc

(* The configuration read from the file that was saved is the one saved.    *)
LEMMA SavedStarts ==
  ASSUME NEW store, store = [n \in Names |-> store[n]], NEW c, Running(c), Validate(c), Agrees(store, c)
  PROVE  StartsAs(store, Persisted(c), c)
<1>1. PICK d : d = Persisted(c)
  OBVIOUS
<1>2. /\ Uptodate(d) /\ d.operator = FALSE /\ Validate(d)
      /\ \A f \in DocF \ {"servers", "operator"} : d[f] = c[f]
      /\ Alike(d.servers, c.servers)
      /\ Blanked(d, c)
  BY <1>1, PersistedIs
<1>3. /\ Formed(d) /\ Defaulted(d) /\ Validate(d) /\ d.parses /\ d.legacy = FALSE
      /\ d.version = CurrentConfigVersion /\ IsDoc(d) /\ IsServers(d.servers) /\ IsDoc(c) /\ IsServers(c.servers)
  BY <1>2, FormedIs DEF Uptodate, Running
<1>4. DOMAIN d.servers = DOMAIN c.servers
  BY <1>2 DEF Alike
<1>5. ASSUME NEW i \in DOMAIN c.servers
      PROVE  FormedProfile(c.servers[i]) /\ d.servers[i].key = "" /\ d.servers[i].cred = c.servers[i].cred
  <2>1. PICK p, q : p = d.servers[i] /\ q = c.servers[i]
    OBVIOUS
  <2>2. FormedProfile(q)
    BY <1>3, <2>1 DEF IsServers
  <2>3. p = [q EXCEPT !.key = ""]
    BY <1>2, <2>1, Zenon DEF Blanked
  <2>4. p.key = "" /\ p.cred = q.cred
    BY <2>2, <2>3, SavedProfile
  <2> QED  BY <2>1, <2>2, <2>4, Zenon
<1>6. Blank(d)
  BY <1>4, <1>5, Zenon DEF Blank
<1>7. ~NeedsSave(d)
  BY <1>3, <1>6, BlankIs
<1>8. Readable(d)
  BY <1>3 DEF Readable, Defaulted
<1>9. Normalized(d) = d
  <2>1. Normalized(d) = [d EXCEPT !.operator = FALSE]
    BY <1>3, <1>6, NormalizedSame DEF Blank
  <2>2. IsDoc(d) /\ d.operator = FALSE
    BY <1>2, <1>3
  <2> QED  BY <2>1, <2>2, SetSame
<1>13. Resolvable(store, d)
  <2> SUFFICES ASSUME NEW i \in DOMAIN d.servers
               PROVE  ~NotStored(store, d, i)
    BY DEF Resolvable
  <2>1. PICK p, q : p = d.servers[i] /\ q = c.servers[i]
    OBVIOUS
  <2>2. p.cred = q.cred /\ (q.key # "" <=> q.cred # "")
    BY <1>4, <1>5, <2>1, Zenon DEF Running
  <2>3. StoreAfter(store, d, i) = store
    <3>1. Keyless(d, i)
      BY <1>3, <1>6, BlankIs
    <3> QED  BY <3>1, StoreSame
  <2>4. q.cred # "" => store[q.cred] = q.key
    BY <1>4, <2>1, Zenon DEF Agrees
  <2> QED  BY <2>1, <2>2, <2>3, <2>4, Zenon DEF NotStored
<1>10. PICK r : r = Resolved(store, d)
  OBVIOUS
<1>11. r.servers = c.servers
  <2>1. r.servers = [i \in DOMAIN d.servers |-> ResolvedProfile(store, d, i)]
    <3>1. r = [d EXCEPT !.servers = [i \in DOMAIN d.servers |-> ResolvedProfile(store, d, i)]]
      BY <1>10, Zenon DEF Resolved, ResolvedProfile
    <3> QED  BY <1>3, <3>1 DEF IsDoc, DocF
  <2>2. ASSUME NEW i \in DOMAIN d.servers
        PROVE  ResolvedProfile(store, d, i) = c.servers[i]
    <3>1. PICK p, q, k : p = d.servers[i] /\ q = c.servers[i] /\ k = StoreAfter(store, d, i)[p.cred]
      OBVIOUS
    <3>2. FormedProfile(q) /\ p.key = "" /\ p.cred = q.cred
      BY <1>4, <1>5, <3>1, Zenon
    <3>3. p = [q EXCEPT !.key = ""]
      BY <1>2, <1>4, <3>1, Zenon DEF Blanked
    <3>4. q.key # "" <=> q.cred # ""
      BY <1>4, <3>1, Zenon DEF Running
    <3>5. CASE q.cred = ""
      <4>1. ResolvedProfile(store, d, i) = p
        BY <3>1, <3>2, <3>5, Zenon DEF ResolvedProfile
      <4>2. p = q
        BY <3>2, <3>3, <3>4, <3>5, SavedProfile
      <4> QED  BY <3>1, <4>1, <4>2
    <3>6. CASE q.cred # ""
      <4>1. ResolvedProfile(store, d, i) = [p EXCEPT !.key = k]
        BY <3>1, <3>2, <3>6, Zenon DEF ResolvedProfile
      <4>2. StoreAfter(store, d, i) = store
        <5>1. Keyless(d, i)
          BY <1>3, <1>6, BlankIs
        <5> QED  BY <5>1, StoreSame
      <4>3. k = q.key
        BY <1>4, <3>1, <3>2, <3>6, <4>2, Zenon DEF Agrees
      <4>4. [p EXCEPT !.key = k] = q
        BY <3>2, <3>3, <4>3, SavedProfile
      <4> QED  BY <3>1, <4>1, <4>4
    <3> QED  BY <3>5, <3>6
  <2>3. r.servers = [i \in DOMAIN c.servers |-> c.servers[i]]
    BY <1>4, <2>1, <2>2
  <2>4. PICK S : c.servers \in Seq(S)
    BY <1>3 DEF IsServers
  <2> QED  BY <2>3, <2>4, SeqSelf
<1>12. Resolved(store, d) = [c EXCEPT !.operator = FALSE]
  <2>1. PICK e : e = [c EXCEPT !.operator = FALSE]
    OBVIOUS
  <2>2. IsDoc(e) /\ e.operator = FALSE /\ \A f \in DocF \ {"operator"} : e[f] = c[f]
    BY <1>3, <2>1 DEF IsDoc, DocF
  <2>3. IsDoc(r) /\ \A f \in DocF \ {"servers"} : r[f] = d[f]
    BY <1>3, <1>10, ResolvedIs
  <2>4. \A f \in DocF : r[f] = e[f]
    <3>1. r.servers = e.servers /\ r.operator = e.operator
      BY <1>2, <1>11, <2>2, <2>3 DEF DocF
    <3>2. \A f \in DocF \ {"servers", "operator"} : r[f] = e[f]
      BY <1>2, <2>2, <2>3
    <3>3. \A f \in DocF : f = "servers" \/ f = "operator" \/ f \in DocF \ {"servers", "operator"}
      OBVIOUS
    <3> QED  BY <3>1, <3>2, <3>3
  <2> QED  BY <1>10, <2>1, <2>2, <2>3, <2>4, SameDoc
<1> QED  BY <1>1, <1>3, <1>7, <1>8, <1>9, <1>12, <1>13, Zenon DEF StartsAs

LEMMA ServersRange ==
  ASSUME NEW s, IsServers(s)
  PROVE  Len(s) \in Nat /\ DOMAIN s = 1..Len(s)
<1>1. s \in Seq({s[j] : j \in DOMAIN s})
  BY DEF IsServers
<1> QED  BY <1>1

LEMMA StoreKeeps ==
  ASSUME NEW store, NEW d, NEW n, IsServers(n.servers), KeysIn(d) \subseteq KeysIn(n), NEW x \in Names,
         store[x] # "" \/ x \in KeysIn(d)
  PROVE  Stored(store, n)[x] # ""
<1>1. PICK L : L = Len(n.servers)
  OBVIOUS
<1>2. L \in Nat /\ DOMAIN n.servers = 1..L
  BY <1>1, ServersRange, Zenon
<1>3. /\ store[x] # "" => StoreAfter(store, n, L)[x] # ""
      /\ \A i \in Giving(n, L, x) : StoreAfter(store, n, L)[x] # ""
  BY <1>2, StoreGrows
<1>4. x \in KeysIn(n) => \E i \in DOMAIN n.servers : i \in Giving(n, L, x)
  BY <1>2 DEF KeysIn, Giving
<1> QED  BY <1>1, <1>3, <1>4, Zenon DEF Stored

(* A file that needs no rewriting has no key, and loading it stores none. *)
LEMMA LoadedStarts ==
  ASSUME NEW store, store = [x \in Names |-> store[x]], NEW d, Formed(d), Readable(d), ~NeedsSave(d),
         Validate(Normalized(d)), NEW n, n = Normalized(d), Resolvable(store, n)
  PROVE  /\ KeysIn(d) = {} /\ Stored(store, n) = store
         /\ StartsAs(store, d, Resolved(store, n))
<1>1. /\ Formed(n) /\ Carries(n.servers, d.servers) /\ n.operator = FALSE
  BY NormalizedIs
<1>2. IsDoc(n) /\ IsServers(n.servers)
  BY <1>1, FormedIs
<1>3. Blank(d) /\ KeysIn(d) = {}
  BY BlankIs
<1>4. Blank(n)
  BY <1>1, <1>3, Zenon DEF Blank, Carries
<1>5. Keyless(n, Len(n.servers))
  BY <1>1, <1>4, BlankIs
<1>6. Stored(store, n) = store
  BY <1>5, StoreSame DEF Stored
<1>7. PICK r : r = Resolved(store, n)
  OBVIOUS
<1>8. IsDoc(r) /\ r.operator = FALSE
  <2>1. IsDoc(r) /\ \A f \in DocF \ {"servers"} : r[f] = n[f]
    BY <1>2, <1>7, ResolvedIs
  <2> QED  BY <1>1, <2>1 DEF DocF
<1>9. [r EXCEPT !.operator = FALSE] = r
  BY <1>8, SetSame
<1> QED  BY <1>3, <1>6, <1>7, <1>9, Zenon DEF StartsAs

LEMMA NormalizedUptodate ==
  ASSUME NEW d, Formed(d), Readable(d)
  PROVE  Uptodate(Normalized(d)) /\ KeysIn(Normalized(d)) = KeysIn(d)
<1>1. PICK n : n = Normalized(d)
  OBVIOUS
<1>2. /\ Formed(n) /\ Defaulted(n) /\ Carries(n.servers, d.servers)
      /\ n.parses = d.parses /\ n.legacy = FALSE /\ n.version = CurrentConfigVersion
  BY <1>1, NormalizedIs
<1>3. n.parses
  BY <1>2 DEF Readable
<1>4. Uptodate(n)
  BY <1>1, <1>2, <1>3 DEF Uptodate
<1>5. KeysIn(n) = KeysIn(d)
  BY <1>2, SameKeys
<1> QED  BY <1>1, <1>4, <1>5

(* Turning the operator's mode on or off is seen in memory only. *)
LEMMA Toggled ==
  ASSUME NEW c, Running(c), NEW v, NEW e, e = [c EXCEPT !.operator = v]
  PROVE  /\ Running(e) /\ (\A store : Agrees(store, c) => Agrees(store, e))
         /\ [e EXCEPT !.operator = FALSE] = [c EXCEPT !.operator = FALSE]
<1>1. Uptodate(c) /\ IsDoc(c) /\ IsServers(c.servers)
  BY FormedIs DEF Running, Uptodate
<1>2. IsDoc(e) /\ \A f \in DocF \ {"operator"} : e[f] = c[f]
  BY <1>1 DEF IsDoc, DocF
<1>3. e.servers = c.servers
  BY <1>2 DEF DocF
<1>4. Alike(e.servers, c.servers)
  BY <1>1, <1>3, Zenon DEF Alike
<1>5. Uptodate(e)
  BY <1>1, <1>2, <1>4, AlikeUptodate
<1>6. Running(e)
  BY <1>3, <1>5, Zenon DEF Running
<1>7. \A store : Agrees(store, c) => Agrees(store, e)
  BY <1>3, Zenon DEF Agrees
<1>8. [e EXCEPT !.operator = FALSE] = [c EXCEPT !.operator = FALSE]
  <2>1. PICK x, y : x = [e EXCEPT !.operator = FALSE] /\ y = [c EXCEPT !.operator = FALSE]
    OBVIOUS
  <2>2. /\ IsDoc(x) /\ x.operator = FALSE /\ \A f \in DocF \ {"operator"} : x[f] = e[f]
        /\ IsDoc(y) /\ y.operator = FALSE /\ \A f \in DocF \ {"operator"} : y[f] = c[f]
    BY <1>1, <1>2, <2>1 DEF IsDoc, DocF
  <2>3. \A f \in DocF : x[f] = y[f]
    BY <1>2, <2>2
  <2> QED  BY <2>1, <2>2, <2>3, SameDoc
<1> QED  BY <1>6, <1>7, <1>8

(* What a request makes of the running configuration has the sections and   *)
(* profiles of one.                                                         *)
Shaped(m) == IsDoc(m) /\ IsServers(m.servers) /\ m.parses /\ m.legacy = FALSE

LEMMA Reshaped ==
  ASSUME NEW d, IsDoc(d), d.parses, d.legacy = FALSE, NEW t, IsServers(t), NEW m, m = [d EXCEPT !.servers = t]
  PROVE  Shaped(m)
<1>1. IsDoc(m) /\ m.servers = t /\ m.parses = d.parses /\ m.legacy = d.legacy
  BY DEF IsDoc, DocF
<1> QED  BY <1>1 DEF Shaped

LEMMA ProfilesMapped ==
  ASSUME NEW s, IsServers(s), NEW t, DOMAIN t = DOMAIN s, t = [i \in DOMAIN s |-> t[i]],
         \A i \in DOMAIN s : FormedProfile(t[i])
  PROVE  IsServers(t)
<1>1. s \in Seq({s[i] : i \in DOMAIN s})
  BY DEF IsServers
<1>2. t \in Seq({t[i] : i \in DOMAIN t})
  BY <1>1, SeqMapped
<1> QED  BY <1>2, Zenon DEF IsServers

LEMMA ProfileKeyed ==
  ASSUME NEW p, FormedProfile(p), NEW v
  PROVE  FormedProfile([p EXCEPT !.key = v])
<1>1. IsProf(p) /\ p.id \in Names /\ p.cred \in Names \cup {""}
  BY FormedProfileIs
<1>2. PICK q : q = [p EXCEPT !.key = v]
  OBVIOUS
<1>3. IsProf(q) /\ q.id = p.id /\ q.cred = p.cred
  BY <1>1, <1>2 DEF IsProf, ProfF
<1>4. FormedProfile(q)
  BY <1>1, <1>3, FormedProfileIs
<1> QED  BY <1>2, <1>4

LEMMA ProfileCredited ==
  ASSUME NEW p, FormedProfile(p), NEW v \in Names \cup {""}
  PROVE  FormedProfile([p EXCEPT !.cred = v])
<1>1. IsProf(p) /\ p.id \in Names
  BY FormedProfileIs
<1>2. PICK q : q = [p EXCEPT !.cred = v]
  OBVIOUS
<1>3. IsProf(q) /\ q.id = p.id /\ q.cred = v
  BY <1>1, <1>2 DEF IsProf, ProfF
<1>4. FormedProfile(q)
  BY <1>1, <1>3, FormedProfileIs
<1> QED  BY <1>2, <1>4

LEMMA ServersAppended ==
  ASSUME NEW s, IsServers(s), NEW p, FormedProfile(p)
  PROVE  IsServers(Append(s, p))
<1>1. PICK S : S = {s[i] : i \in DOMAIN s}
  OBVIOUS
<1>2. s \in Seq(S) /\ Len(s) \in Nat /\ DOMAIN s = 1..Len(s)
  BY <1>1, ServersRange DEF IsServers
<1>3. PICK t : t = Append(s, p)
  OBVIOUS
<1>4. t \in Seq(S \cup {p}) /\ Len(t) = Len(s) + 1 /\ t[Len(s) + 1] = p /\ \A i \in 1..Len(s) : t[i] = s[i]
  BY <1>2, <1>3
<1>5. DOMAIN t = 1..(Len(s) + 1)
  BY <1>4
<1>6. \A i \in DOMAIN t : i \in DOMAIN s \/ i = Len(s) + 1
  BY <1>2, <1>5
<1>7. \A i \in DOMAIN t : FormedProfile(t[i])
  BY <1>2, <1>4, <1>6, Zenon DEF IsServers
<1>8. t \in Seq({t[i] : i \in DOMAIN t})
  <2>1. PICK T, n : T = {t[i] : i \in DOMAIN t} /\ n = Len(s) + 1
    OBVIOUS
  <2>2. t \in [1..n -> T] /\ n \in Nat
    <3>1. \A i \in 1..n : t[i] \in T
      BY <1>5, <2>1
    <3>2. t = [i \in 1..n |-> t[i]]
      BY <1>4, <1>5, <2>1, SeqSelf
    <3> QED  BY <1>2, <2>1, <3>1, <3>2
  <2> QED  BY <2>1, <2>2
<1> QED  BY <1>3, <1>7, <1>8, Zenon DEF IsServers

LEMMA Credited ==
  ASSUME NEW d, Shaped(d), NEW id, NEW v \in Names \cup {""}, NEW m, m = SetCredential(d, id, v)
  PROVE  Shaped(m)
<1> DEFINE at == Named(d, id)
<1>1. PICK t : t = [i \in DOMAIN d.servers |->
                      IF i \in at THEN [d.servers[i] EXCEPT !.cred = v] ELSE d.servers[i]]
  OBVIOUS
<1>2. m = [d EXCEPT !.servers = t]
  BY <1>1, Zenon DEF SetCredential
<1>3. DOMAIN t = DOMAIN d.servers /\ t = [i \in DOMAIN d.servers |-> t[i]]
  BY <1>1
<1>4. ASSUME NEW i \in DOMAIN d.servers
      PROVE  FormedProfile(t[i])
  <2>1. FormedProfile(d.servers[i])
    BY Zenon DEF Shaped, IsServers
  <2>2. FormedProfile([d.servers[i] EXCEPT !.cred = v])
    BY <2>1, ProfileCredited
  <2>3. t[i] = IF i \in at THEN [d.servers[i] EXCEPT !.cred = v] ELSE d.servers[i]
    BY <1>1, Zenon
  <2> QED  BY <2>1, <2>2, <2>3, Zenon
<1>5. IsServers(t)
  BY <1>3, <1>4, ProfilesMapped DEF Shaped
<1>6. IsDoc(d) /\ d.parses /\ d.legacy = FALSE
  BY DEF Shaped
<1> QED  BY <1>2, <1>5, <1>6, Reshaped

LEMMA Keyed ==
  ASSUME NEW d, Shaped(d), NEW id \in Names, NEW v, NEW m, m = SetKey(d, id, v)
  PROVE  Shaped(m)
<1> DEFINE at == Named(d, id)
           keyed == [i \in DOMAIN d.servers |->
                       IF i \in at THEN [d.servers[i] EXCEPT !.key = v] ELSE d.servers[i]]
           new == [Profile(id) EXCEPT !.key = v]
<1>1. PICK t : t = IF at = {} THEN Append(d.servers, new) ELSE keyed
  OBVIOUS
<1>2. m = [d EXCEPT !.servers = t]
  BY <1>1, Zenon DEF SetKey
<1>3. FormedProfile(new)
  <2>1. PICK p, q : p = Profile(id) /\ q = [p EXCEPT !.key = v] /\ q = new
    OBVIOUS
  <2>2. IsProf(p) /\ p.id = id /\ p.cred = ""
    BY <2>1 DEF IsProf, ProfF, Profile
  <2>3. IsProf(q) /\ q.id = id /\ q.cred = ""
    BY <2>1, <2>2 DEF IsProf, ProfF
  <2> QED  BY <2>1, <2>3, FormedProfileIs
<1>4. IsDoc(d) /\ IsServers(d.servers) /\ d.parses /\ d.legacy = FALSE
  BY DEF Shaped
<1>5. CASE at = {}
  <2>1. IsServers(t)
    BY <1>1, <1>3, <1>4, <1>5, ServersAppended
  <2> QED  BY <1>2, <1>4, <2>1, Reshaped
<1>6. CASE at # {}
  <2>1. t = keyed
    BY <1>1, <1>6
  <2>2. DOMAIN t = DOMAIN d.servers /\ t = [i \in DOMAIN d.servers |-> t[i]]
    BY <2>1
  <2>3. ASSUME NEW i \in DOMAIN d.servers
        PROVE  FormedProfile(t[i])
    <3>1. FormedProfile(d.servers[i])
      BY <1>4, Zenon DEF IsServers
    <3>2. FormedProfile([d.servers[i] EXCEPT !.key = v])
      BY <3>1, ProfileKeyed
    <3>3. t[i] = IF i \in at THEN [d.servers[i] EXCEPT !.key = v] ELSE d.servers[i]
      BY <2>1, Zenon
    <3> QED  BY <3>1, <3>2, <3>3, Zenon
  <2>4. IsServers(t)
    BY <1>4, <2>2, <2>3, ProfilesMapped
  <2> QED  BY <1>2, <1>4, <2>4, Reshaped
<1> QED  BY <1>5, <1>6

LEMMA Merged ==
  ASSUME NEW d, Running(d), NEW patch, FormedPatch(patch), NEW m, m = Merge(d, patch)
  PROVE  Shaped(m)
<1>1. IsDoc(d) /\ IsServers(d.servers) /\ d.parses /\ d.legacy = FALSE /\ Shaped(d)
  BY FormedIs DEF Running, Uptodate, Shaped
<1>2. CASE patch.field = "approval"
  <2>1. PICK v : v = patch.value
    OBVIOUS
  <2>2. m = [d EXCEPT !.approval = v]
    BY <1>2, <2>1 DEF Merge
  <2>3. IsDoc(m) /\ m.servers = d.servers /\ m.parses = d.parses /\ m.legacy = d.legacy
    BY <1>1, <2>2 DEF IsDoc, DocF
  <2> QED  BY <1>1, <2>3 DEF Shaped
<1>3. CASE patch.field = "turns"
  <2>1. m = [d EXCEPT !.turns = 0]
    BY <1>3 DEF Merge
  <2>2. IsDoc(m) /\ m.servers = d.servers /\ m.parses = d.parses /\ m.legacy = d.legacy
    BY <1>1, <2>1 DEF IsDoc, DocF
  <2> QED  BY <1>1, <2>2 DEF Shaped
<1>4. CASE patch.field = "memory"
  <2>1. PICK v : v = [dir |-> "", on |-> d.memory.on]
    OBVIOUS
  <2>2. m = [d EXCEPT !.memory = v]
    BY <1>1, <1>4, <2>1 DEF Merge, IsDoc, DocF
  <2>3. IsDoc(m) /\ m.servers = d.servers /\ m.parses = d.parses /\ m.legacy = d.legacy
    BY <1>1, <2>2 DEF IsDoc, DocF
  <2> QED  BY <1>1, <2>3 DEF Shaped
<1>5. CASE patch.field = "agent"
  <2>1. PICK v : v = <<[name |-> "Name", b |-> patch.id, c |-> "", tool |-> TRUE]>>
    OBVIOUS
  <2>2. m = [d EXCEPT !.agents = v]
    BY <1>5, <2>1 DEF Merge
  <2>3. IsDoc(m) /\ m.servers = d.servers /\ m.parses = d.parses /\ m.legacy = d.legacy
    BY <1>1, <2>2 DEF IsDoc, DocF
  <2> QED  BY <1>1, <2>3 DEF Shaped
<1>6. CASE patch.field = "credential"
  <2>1. m = SetCredential(d, patch.id, patch.value)
    BY <1>6 DEF Merge
  <2>2. patch.value \in Names \cup {""}
    BY <1>6 DEF FormedPatch
  <2> QED  BY <1>1, <2>1, <2>2, Credited
<1>7. CASE patch.field = "key"
  <2>1. m = SetKey(d, patch.id, patch.value)
    BY <1>7 DEF Merge
  <2>2. patch.id \in Names
    BY <1>7 DEF FormedPatch
  <2> QED  BY <1>1, <2>1, <2>2, Keyed
<1>8. CASE patch.field = "profiles"
  <2>1. PICK k : k = SetKey(d, patch.id, patch.value)
    OBVIOUS
  <2>2. m = SetCredential(k, patch.other, patch.cred)
    BY <1>8, <2>1 DEF Merge
  <2>3. patch.id \in Names /\ patch.cred \in Names \cup {""}
    BY <1>8 DEF FormedPatch
  <2>4. Shaped(k)
    BY <1>1, <2>1, <2>3, Keyed
  <2> QED  BY <2>2, <2>3, <2>4, Credited
<1>9. patch.field \in {"approval", "turns", "memory", "agent", "credential", "key", "profiles"}
  BY DEF FormedPatch
<1> QED  BY <1>2, <1>3, <1>4, <1>5, <1>6, <1>7, <1>8, <1>9

LEMMA MergedUptodate ==
  ASSUME NEW d, Running(d), NEW patch, FormedPatch(patch), NEW n, n = ApplyDefaults(Merge(d, patch))
  PROVE  Uptodate(n)
<1>1. PICK m : m = Merge(d, patch)
  OBVIOUS
<1>2. Shaped(m) /\ n = ApplyDefaults(m)
  BY <1>1, Merged
<1>3. /\ IsDoc(n) /\ Carries(n.servers, m.servers) /\ Defaulted(n)
      /\ n.parses = m.parses /\ n.legacy = m.legacy /\ n.version = CurrentConfigVersion
  BY <1>2, DefaultsLeave DEF Shaped
<1>4. IsServers(n.servers) /\ n.parses /\ n.legacy = FALSE
  BY <1>2, <1>3 DEF Shaped, Carries
<1>5. Formed(n)
  BY <1>3, <1>4, FormedIs
<1> QED  BY <1>3, <1>4, <1>5 DEF Uptodate

(* The changes made in the running configuration: no key and no credential  *)
(* becomes another.                                                         *)
Same(p, q) == p.key = q.key /\ p.cred = q.cred

\* Each profile of t has the key and the credential of one of s.
Derives(t, s) ==
  /\ IsServers(t)
  /\ \A i \in DOMAIN t : t[i].nctx # -1 /\ \E j \in DOMAIN s : Same(t[i], s[j])

LEMMA ServersChange ==
  ASSUME NEW c, Running(c), NEW t, Derives(t, c.servers), t = <<>> => c.servers = <<>>,
         NEW e, e = [c EXCEPT !.servers = t]
  PROVE  Running(e) /\ (\A store : Agrees(store, c) => Agrees(store, e))
<1>1. Uptodate(c) /\ Defaulted(c) /\ IsDoc(c)
  BY FormedIs DEF Running, Uptodate
<1>2. IsDoc(e) /\ e.servers = t /\ \A f \in DocF \ {"servers"} : e[f] = c[f]
  BY <1>1 DEF IsDoc, DocF
<1>3. /\ e.parses = c.parses /\ e.legacy = c.legacy /\ e.version = c.version /\ e.turns = c.turns
      /\ e.approval = c.approval /\ e.memory = c.memory /\ e.limit = c.limit /\ e.idle = c.idle /\ e.agents = c.agents
  BY <1>2 DEF DocF
<1>4. Formed(e)
  BY <1>1, <1>2, <1>3, FormedIs DEF Derives, Uptodate
<1>5. Defaulted(e)
  BY <1>1, <1>2, <1>3, Zenon DEF Defaulted, Derives
<1>6. Uptodate(e)
  BY <1>1, <1>3, <1>4, <1>5 DEF Uptodate
<1>7. ASSUME NEW i \in DOMAIN e.servers
      PROVE  e.servers[i].key # "" <=> e.servers[i].cred # ""
  <2>1. PICK j \in DOMAIN c.servers : Same(e.servers[i], c.servers[j])
    BY <1>2, <1>7, Zenon DEF Derives
  <2> QED  BY <2>1, Zenon DEF Same, Running
<1>8. ASSUME NEW store, Agrees(store, c), NEW i \in DOMAIN e.servers
      PROVE  e.servers[i].cred # "" => store[e.servers[i].cred] = e.servers[i].key
  <2>1. PICK j \in DOMAIN c.servers : Same(e.servers[i], c.servers[j])
    BY <1>2, <1>8, Zenon DEF Derives
  <2> QED  BY <1>8, <2>1, Zenon DEF Same, Agrees
<1> QED  BY <1>6, <1>7, <1>8, Zenon DEF Running, Agrees

LEMMA AgentsChange ==
  ASSUME NEW c, Running(c), c.servers # <<>>, NEW a, NEW e, e = [c EXCEPT !.agents = a]
  PROVE  Running(e) /\ (\A store : Agrees(store, c) => Agrees(store, e))
<1>1. Uptodate(c) /\ Defaulted(c) /\ IsDoc(c) /\ IsServers(c.servers)
  BY FormedIs DEF Running, Uptodate
<1>2. IsDoc(e) /\ \A f \in DocF \ {"agents"} : e[f] = c[f]
  BY <1>1 DEF IsDoc, DocF
<1>3. /\ e.parses = c.parses /\ e.legacy = c.legacy /\ e.version = c.version /\ e.turns = c.turns
      /\ e.approval = c.approval /\ e.memory = c.memory /\ e.limit = c.limit /\ e.idle = c.idle /\ e.servers = c.servers
  BY <1>2 DEF DocF
<1>4. Formed(e)
  BY <1>1, <1>2, <1>3, FormedIs DEF Uptodate
<1>5. Defaulted(e)
  BY <1>1, <1>3, Zenon DEF Defaulted
<1>6. Uptodate(e)
  BY <1>1, <1>3, <1>4, <1>5 DEF Uptodate
<1>7. Running(e)
  BY <1>3, <1>6, Zenon DEF Running
<1> QED  BY <1>3, <1>7, Zenon DEF Agrees

LEMMA ServerDeleted ==
  ASSUME NEW c, Running(c), Len(c.servers) > 1, NEW k \in DOMAIN c.servers,
         NEW e, e = [c EXCEPT !.servers = WithoutServer(c.servers, k)]
  PROVE  Running(e) /\ (\A store : Agrees(store, c) => Agrees(store, e))
<1>1. PICK s, t, n : s = c.servers /\ t = WithoutServer(s, k) /\ n = Len(s) - 1
  OBVIOUS
<1>2. IsServers(s) /\ \A i \in DOMAIN s : s[i].nctx # -1
  BY <1>1, FormedIs DEF Running, Uptodate, Defaulted
<1>3. n \in Nat /\ n > 0 /\ DOMAIN s = 1..(n + 1) /\ k \in 1..(n + 1)
  BY <1>1, <1>2, ServersRange
<1>4. t = [i \in 1..n |-> IF i < k THEN s[i] ELSE s[i + 1]]
  BY <1>1, <1>3 DEF WithoutServer
<1>5. DOMAIN t = 1..n /\ t # <<>>
  BY <1>3, <1>4
<1>6. \A i \in 1..n : \E j \in DOMAIN s : t[i] = s[j]
  <2> TAKE i \in 1..n
  <2>1. i \in DOMAIN s /\ i + 1 \in DOMAIN s /\ (t[i] = s[i] \/ t[i] = s[i + 1])
    BY <1>3, <1>4
  <2> QED  BY <2>1
<1>7. t \in Seq({t[i] : i \in DOMAIN t})
  <2>1. PICK T : T = {t[i] : i \in DOMAIN t}
    OBVIOUS
  <2>2. \A i \in 1..n : t[i] \in T
    BY <1>5, <2>1
  <2>3. t \in [1..n -> T] /\ n \in Nat
    BY <1>3, <1>4, <2>2
  <2>4. t \in Seq(T)
    BY <2>3
  <2> QED  BY <2>1, <2>4
<1>8. Derives(t, s)
  BY <1>2, <1>5, <1>6, <1>7, Zenon DEF Derives, IsServers, Same
<1> QED  BY <1>1, <1>5, <1>8, ServersChange

LEMMA ProfileSized ==
  ASSUME NEW p, FormedProfile(p), NEW size \in Nat, NEW q, q = Sized(p, size)
  PROVE  FormedProfile(q) /\ Same(q, p) /\ (p.nctx # -1 => q.nctx # -1)
<1>1. IsProf(p) /\ p.id \in Names /\ p.cred \in Names \cup {""}
  BY FormedProfileIs
<1>2. PICK z : z = IF p.nctx = 0 THEN size ELSE p.nctx
  OBVIOUS
<1>3. p.nctx # -1 => z # -1
  BY <1>2
<1>4. q = [p EXCEPT !.cap = size, !.nctx = z]
  BY <1>1, <1>2 DEF Sized, IsProf, ProfF
<1>5. IsProf(q) /\ q.id = p.id /\ q.cred = p.cred /\ q.key = p.key /\ q.nctx = z
  BY <1>1, <1>4 DEF IsProf, ProfF
<1>6. FormedProfile(q)
  BY <1>1, <1>5, FormedProfileIs
<1> QED  BY <1>3, <1>5, <1>6, Zenon DEF Same

LEMMA ProfilesSized ==
  ASSUME NEW c, Running(c), NEW k, NEW size \in Nat,
         NEW e, e = [c EXCEPT !.servers = [i \in DOMAIN c.servers |->
                                             IF i = k THEN Sized(c.servers[i], size) ELSE c.servers[i]]]
  PROVE  Running(e) /\ (\A store : Agrees(store, c) => Agrees(store, e))
<1>1. PICK s, t : s = c.servers /\ t = [i \in DOMAIN s |-> IF i = k THEN Sized(s[i], size) ELSE s[i]]
  OBVIOUS
<1>2. IsServers(s) /\ \A i \in DOMAIN s : s[i].nctx # -1
  BY <1>1, FormedIs DEF Running, Uptodate, Defaulted
<1>3. DOMAIN t = DOMAIN s /\ t = [i \in DOMAIN s |-> t[i]]
  BY <1>1
<1>4. ASSUME NEW i \in DOMAIN s
      PROVE  FormedProfile(t[i]) /\ Same(t[i], s[i]) /\ t[i].nctx # -1
  <2>1. FormedProfile(s[i]) /\ s[i].nctx # -1
    BY <1>2, Zenon DEF IsServers
  <2>2. PICK q : q = Sized(s[i], size)
    OBVIOUS
  <2>3. FormedProfile(q) /\ Same(q, s[i]) /\ q.nctx # -1
    BY <2>1, <2>2, ProfileSized
  <2>4. t[i] = q \/ t[i] = s[i]
    BY <1>1, <2>2, Zenon
  <2> QED  BY <2>1, <2>3, <2>4, Zenon DEF Same
<1>5. IsServers(t)
  BY <1>2, <1>3, <1>4, ProfilesMapped
<1>6. Derives(t, s)
  BY <1>3, <1>4, <1>5, Zenon DEF Derives
<1>7. t = <<>> => s = <<>>
  <2>1. DOMAIN s = 1..Len(s) /\ Len(s) \in Nat /\ s \in Seq({s[i] : i \in DOMAIN s})
    BY <1>2, ServersRange DEF IsServers
  <2>2. t = <<>> => DOMAIN s = {}
    BY <1>3
  <2> QED  BY <2>1, <2>2
<1>8. e = [c EXCEPT !.servers = t]
  BY <1>1, Zenon
<1> QED  BY <1>1, <1>6, <1>7, <1>8, ServersChange

SettingsSpec == SettingsInit /\ [][SettingsNext]_settingsVars

LEMMA InitSettings == SettingsInit => SettingsInv
<1> SUFFICES ASSUME SettingsInit
             PROVE  SettingsInv
  OBVIOUS
<1>1. Formed(document)
  BY SettingsConstants DEF SettingsInit
<1>2. \A i \in DOMAIN document.servers : /\ document.servers[i].id \in Names
                                         /\ document.servers[i].cred \in Names \cup {""}
  BY <1>1, FormedIs, FormedProfileIs DEF IsServers
<1>3. owed \subseteq Names
  <2>1. \A i \in DOMAIN document.servers : CredentialName(document.servers[i]) \in Names
    BY <1>2 DEF CredentialName
  <2> QED  BY <2>1 DEF SettingsInit, KeysIn
<1>4. creds = [n \in Names |-> creds[n]]
  BY DEF SettingsInit
<1>5. job.kind = Down /\ job.at = "idle" /\ JobTypes
  BY DEF SettingsInit, Job, JobTypes, Down
<1>6. Keeps(creds, document)
  BY Zenon DEF SettingsInit, Keeps
<1>7. Resolving /\ Settled /\ Saving /\ Working
  BY <1>5 DEF Resolving, Settled, Saving, Working, Down
<1> QED  BY <1>1, <1>3, <1>4, <1>5, <1>6, <1>7 DEF SettingsInv

LEMMA LoadsInv ==
  ASSUME SettingsInv, Loads
  PROVE  SettingsInv'
<1>1. PICK n, w : n = Normalized(document) /\ w = NeedsSave(document)
  OBVIOUS
<1>2. /\ Readable(document) /\ Validate(n)
      /\ job' = [kind |-> "load", at |-> "resolve", next |-> n, save |-> w]
      /\ UNCHANGED <<document, creds, config, owed>>
  BY <1>1, Zenon DEF Loads
<1>3. /\ creds = [x \in Names |-> creds[x]] /\ owed \subseteq Names /\ Formed(document) /\ Keeps(creds, document)
  BY DEF SettingsInv
<1>4. Uptodate(n)
  BY <1>1, <1>2, <1>3, NormalizedUptodate
<1>5. job'.kind = "load" /\ job'.at = "resolve" /\ job'.next = n /\ job'.save = w /\ JobTypes'
  BY <1>2 DEF JobTypes, Down
<1>6. Resolving'
  <2>1. Uptodate(job'.next)
    BY <1>4, <1>5, Zenon
  <2>2. /\ Readable(document') /\ Validate(Normalized(document'))
        /\ job'.next = Normalized(document') /\ job'.save = NeedsSave(document')
    BY <1>1, <1>2, <1>5, Zenon
  <2>3. job'.kind # "patch"
    BY <1>5
  <2> QED  BY <2>1, <2>2, <2>3, Zenon DEF Resolving
<1>7. Settled' /\ Saving' /\ Working'
  BY <1>5 DEF Settled, Saving, Working
<1>8. Keeps(creds, document)'
  BY <1>2, <1>3, Zenon DEF Keeps
<1>9. creds' = [x \in Names |-> creds'[x]] /\ owed' \subseteq Names /\ Formed(document')
  BY <1>2, <1>3
<1> QED  BY <1>5, <1>6, <1>7, <1>8, <1>9, Zenon DEF SettingsInv

LEMMA PatchInv ==
  ASSUME SettingsInv, NEW patch \in Patches, Patch(patch)
  PROVE  SettingsInv'
<1>1. PICK n : n = ApplyDefaults(Merge(config, patch))
  OBVIOUS
<1>2. /\ job.kind = "none" /\ UNCHANGED <<document, creds, config, owed, apart, ahead>>
      /\ \/ job' = [kind |-> "patch", at |-> "resolve", next |-> n, save |-> TRUE]
         \/ job' = job
  BY <1>1, Zenon DEF Patch, Asks
<1>3. /\ creds = [x \in Names |-> creds[x]] /\ owed \subseteq Names /\ Formed(document) /\ Keeps(creds, document)
      /\ Working
  BY DEF SettingsInv
<1>4. /\ Running(config) /\ KeysIn(document) = {} /\ (~apart => Agrees(creds, config))
      /\ (~apart /\ ~ahead => StartsAs(creds, document, config))
  BY <1>2, <1>3 DEF Working, Down
<1>5. CASE job' = job
  <2>1. /\ JobTypes' = JobTypes /\ Resolving' = Resolving /\ Settled' = Settled /\ Saving' = Saving
        /\ Working' = Working /\ Keeps(creds, document)' = Keeps(creds, document)
    BY <1>2, <1>5, Zenon DEF JobTypes, Resolving, Settled, Saving, Working, Keeps, Trusted
  <2> QED  BY <1>2, <2>1, Zenon DEF SettingsInv
<1>6. CASE job' = [kind |-> "patch", at |-> "resolve", next |-> n, save |-> TRUE]
  <2>1. FormedPatch(patch)
    BY SettingsConstants
  <2>2. Uptodate(n)
    BY <1>1, <1>4, <2>1, MergedUptodate
  <2>3. job'.kind = "patch" /\ job'.at = "resolve" /\ job'.next = n /\ job'.save = TRUE /\ JobTypes'
    BY <1>6 DEF JobTypes, Down
  <2>4. Resolving'
    <3>1. Uptodate(job'.next)
      BY <2>2, <2>3, Zenon
    <3>2. job'.kind # "load"
      BY <2>3
    <3> QED  BY <1>2, <1>4, <2>3, <3>1, <3>2, Zenon DEF Resolving
  <2>5. Settled' /\ Saving'
    BY <2>3 DEF Settled, Saving
  <2>6. Working'
    <3>1. job'.kind # "none"
      BY <2>3
    <3> QED  BY <1>2, <1>4, <3>1, Zenon DEF Working
  <2>7. Keeps(creds, document)'
    BY <1>2, <1>3, Zenon DEF Keeps
  <2>8. creds' = [x \in Names |-> creds'[x]] /\ owed' \subseteq Names /\ Formed(document')
    BY <1>2, <1>3
  <2> QED  BY <2>3, <2>4, <2>5, <2>6, <2>7, <2>8, Zenon DEF SettingsInv
<1> QED  BY <1>2, <1>5, <1>6

(* A request that changes no key begins to save: in place, or a copy. *)
Begins(kind, d) ==
  /\ job.kind = "none" /\ SavesAs(kind, d)
  /\ UNCHANGED <<document, creds, owed, apart, ahead>>

LEMMA BeginsInv ==
  ASSUME SettingsInv, NEW d, Running(d), \A store : Agrees(store, config) => Agrees(store, d),
         NEW kind \in {"keep", "copy"}, Begins(kind, d),
         kind = "keep" => config' = d, kind = "copy" => config' = config
  PROVE  SettingsInv'
<1>1. /\ job.kind = "none" /\ UNCHANGED <<document, creds, owed, apart, ahead>>
      /\ job' = [kind |-> kind, at |-> "save", next |-> d, save |-> TRUE]
  BY DEF Begins, SavesAs
<1>2. /\ creds = [x \in Names |-> creds[x]] /\ owed \subseteq Names /\ Formed(document) /\ Keeps(creds, document)
      /\ Working
  BY DEF SettingsInv
<1>3. /\ Running(config) /\ KeysIn(document) = {} /\ (~apart => Agrees(creds, config))
      /\ (~apart /\ ~ahead => StartsAs(creds, document, config))
  BY <1>1, <1>2 DEF Working, Down
<1>4. /\ job'.kind = kind /\ kind \notin {"none", "load", "patch", Down} /\ job'.at = "save" /\ job'.next = d
      /\ JobTypes'
  BY <1>1 DEF JobTypes, Down
<1>5. Resolving'
  BY <1>4 DEF Resolving
<1>6. Trusted' => ~apart
  BY <1>1, <1>4, Zenon DEF Trusted
<1>7. Settled'
  <2>1. Running(job'.next) /\ (Trusted' => Agrees(creds', job'.next)) /\ job'.kind \notin {"load", "patch"}
    BY <1>1, <1>3, <1>4, <1>6, Zenon
  <2> QED  BY <2>1, Zenon DEF Settled
<1>8. Saving'
  <2>1. \A x \in owed' : creds'[x] # ""
    BY <1>1, <1>2, <1>3, Zenon DEF Keeps
  <2>2. job'.at # "write" /\ job'.at # "commit"
    BY <1>4
  <2> QED  BY <1>1, <1>3, <2>1, <2>2, Zenon DEF Saving
<1>9. Working'
  <2>1. Running(config') /\ (~apart' => Agrees(creds', config'))
    BY <1>1, <1>3, Zenon
  <2>2. job'.kind = "copy" => (~apart' /\ ~ahead' => StartsAs(creds', document', config'))
    BY <1>1, <1>3, <1>4, Zenon
  <2>3. job'.kind # "none" /\ job'.kind # "patch"
    BY <1>4
  <2> QED  BY <2>1, <2>2, <2>3, Zenon DEF Working
<1>10. Keeps(creds, document)'
  BY <1>1, <1>2, Zenon DEF Keeps
<1>11. creds' = [x \in Names |-> creds'[x]] /\ owed' \subseteq Names /\ Formed(document')
  BY <1>1, <1>2
<1> QED  BY <1>4, <1>5, <1>7, <1>8, <1>9, <1>10, <1>11, Zenon DEF SettingsInv

LEMMA DeletesInv ==
  ASSUME SettingsInv, NEW k \in DOMAIN config.servers, DeleteServer(k)
  PROVE  SettingsInv'
<1>1. PICK d : d = [config EXCEPT !.servers = WithoutServer(config.servers, k)]
  OBVIOUS
<1>2. job.kind = "none" /\ Len(config.servers) > 1 /\ config' = d /\ Begins("keep", d)
  BY <1>1, Zenon DEF DeleteServer, Asks, InPlace, Begins
<1>3. Running(config)
  BY <1>2 DEF SettingsInv, Working, Down
<1>4. Running(d) /\ \A store : Agrees(store, config) => Agrees(store, d)
  BY <1>1, <1>2, <1>3, ServerDeleted
<1>5. "keep" # "copy"
  OBVIOUS
<1> QED  BY <1>2, <1>4, <1>5, BeginsInv

LEMMA ProbesInv ==
  ASSUME SettingsInv, NEW k, NEW size \in Sizes, ServerProbed(k, size)
  PROVE  SettingsInv'
<1>1. PICK d : d = [config EXCEPT !.servers = [i \in DOMAIN config.servers |->
                      IF i = k THEN Sized(config.servers[i], size) ELSE config.servers[i]]]
  OBVIOUS
<1>2. job.kind = "none" /\ config' = d /\ Begins("keep", d)
  BY <1>1, Zenon DEF ServerProbed, Asks, InPlace, Begins
<1>3. Running(config)
  BY <1>2 DEF SettingsInv, Working, Down
<1>4. size \in Nat
  BY SettingsConstants
<1>5. Running(d) /\ \A store : Agrees(store, config) => Agrees(store, d)
  BY <1>1, <1>3, <1>4, ProfilesSized
<1>6. "keep" # "copy"
  OBVIOUS
<1> QED  BY <1>2, <1>5, <1>6, BeginsInv

\* There are agents where there are profiles only.
LEMMA AgentsServers ==
  ASSUME NEW c, Running(c), NEW k \in DOMAIN c.agents
  PROVE  c.servers # <<>>
<1>1. c.agents # <<>>
  OBVIOUS
<1> QED  BY <1>1 DEF Running, Uptodate, Defaulted

LEMMA ToolsInv ==
  ASSUME SettingsInv, NEW k \in DOMAIN config.agents, ToggleAgentTool(k)
  PROVE  SettingsInv'
<1>1. PICK a, d : /\ a = [i \in DOMAIN config.agents |->
                            IF i = k THEN ToolTurned(config.agents[i]) ELSE config.agents[i]]
                  /\ d = [config EXCEPT !.agents = a]
  OBVIOUS
<1>2. job.kind = "none" /\ InPlace(d)
  BY <1>1, Zenon DEF ToggleAgentTool, Asks
<1>3. config' = d /\ Begins("keep", d)
  BY <1>2, Zenon DEF InPlace, Begins
<1>4. Running(config)
  BY <1>2 DEF SettingsInv, Working, Down
<1>5. Running(d) /\ \A store : Agrees(store, config) => Agrees(store, d)
  BY <1>1, <1>4, AgentsServers, AgentsChange
<1>6. "keep" # "copy"
  OBVIOUS
<1> QED  BY <1>2, <1>3, <1>5, <1>6, BeginsInv

LEMMA BindsInv ==
  ASSUME SettingsInv, NEW k \in DOMAIN config.agents, NEW id, BindAgent(k, id)
  PROVE  SettingsInv'
<1>1. PICK a, d : /\ a = [i \in DOMAIN config.agents |->
                            IF i = k THEN [config.agents[i] EXCEPT !.b = id] ELSE config.agents[i]]
                  /\ d = [config EXCEPT !.agents = a]
  OBVIOUS
<1>2. job.kind = "none" /\ config' = config /\ Begins("copy", d)
  BY <1>1, Zenon DEF BindAgent, Asks, Begins
<1>3. Running(config)
  BY <1>2 DEF SettingsInv, Working, Down
<1>4. Running(d) /\ \A store : Agrees(store, config) => Agrees(store, d)
  BY <1>1, <1>3, AgentsServers, AgentsChange
<1>5. "keep" # "copy"
  OBVIOUS
<1> QED  BY <1>2, <1>4, <1>5, BeginsInv

LEMMA ResolvesInv ==
  ASSUME SettingsInv, Resolves
  PROVE  SettingsInv'
<1>1. PICK n, r, w : n = job.next /\ r = Resolved(creds, n) /\ w = job.save
  OBVIOUS
<1>2. /\ creds = [x \in Names |-> creds[x]] /\ owed \subseteq Names /\ Formed(document) /\ Keeps(creds, document)
      /\ JobTypes /\ Resolving /\ Working
  BY DEF SettingsInv
<1>3. /\ job.at = "resolve" /\ Resolvable(creds, n) /\ creds' = Stored(creds, n) /\ apart' = TRUE
      /\ UNCHANGED <<document, config, owed, ahead>>
  BY <1>1, Zenon DEF Resolves
<1>4. /\ job'.kind = job.kind /\ job'.next = r /\ job'.save = w
      /\ job'.at = (IF w THEN "save" ELSE "commit")
      /\ job' = [kind |-> job'.kind, at |-> job'.at, next |-> job'.next, save |-> job'.save]
  <2>1. job' = [job EXCEPT !.next = r, !.at = IF w THEN "save" ELSE "commit"]
    <3>1. DOMAIN job = {"kind", "at", "next", "save"}
      BY <1>2 DEF JobTypes
    <3> QED  BY <1>1, <3>1 DEF Resolves
  <2> QED  BY <1>1, <1>2, <2>1 DEF JobTypes
<1>5. job.kind \in {"load", "patch"}
  BY <1>2, <1>3 DEF JobTypes
<1>6. Uptodate(n)
  BY <1>1, <1>2, <1>3, Zenon DEF Resolving
<1>7. Running(r) /\ (~SharedCredential(r) => Agrees(creds', r))
  BY <1>1, <1>3, <1>6, ResolvedRuns
<1>8. job.kind = "load" => /\ Readable(document) /\ Validate(Normalized(document))
                           /\ n = Normalized(document) /\ w = NeedsSave(document)
  BY <1>1, <1>2, <1>3, Zenon DEF Resolving
<1>9. job.kind = "patch" => w = TRUE /\ KeysIn(document) = {}
  BY <1>1, <1>2, <1>3, Zenon DEF Resolving
<1>10. IsServers(n.servers)
  BY <1>6, FormedIs DEF Uptodate
<1>11. KeysIn(document) \subseteq KeysIn(n)
  <2>1. CASE job.kind = "load"
    BY <1>2, <1>8, <2>1, NormalizedUptodate
  <2>2. CASE job.kind = "patch"
    BY <1>9, <2>2
  <2> QED  BY <1>5, <2>1, <2>2
<1>12. \A x \in owed : creds'[x] # ""
  <2> TAKE x \in owed
  <2>1. x \in Names /\ (creds[x] # "" \/ x \in KeysIn(document))
    BY <1>2, Zenon DEF Keeps
  <2>2. Stored(creds, n)[x] # ""
    BY <1>10, <1>11, <2>1, StoreKeeps
  <2> QED  BY <1>3, <2>2, Zenon
<1>13. creds' = [x \in Names |-> creds'[x]]
  BY <1>3, StoreShape DEF Stored
<1>14. JobTypes'
  BY <1>4, <1>5 DEF JobTypes, Down
<1>15. Resolving'
  BY <1>4 DEF Resolving
<1>16. Settled'
  <2>1. Trusted' => Agrees(creds', job'.next)
    BY <1>4, <1>5, <1>7, Zenon DEF Trusted
  <2>2. Running(job'.next) /\ apart'
    BY <1>3, <1>4, <1>7, Zenon
  <2> QED  BY <2>1, <2>2, Zenon DEF Settled
<1>17. Working'
  <2>1. job'.kind \in {"load", "patch"} /\ (job'.kind = "patch" => Running(config'))
    BY <1>2, <1>3, <1>4, <1>5 DEF Working, Down
  <2>2. job'.kind # "none" /\ (job'.kind # "load" => job'.kind = "patch")
    BY <2>1
  <2> QED  BY <1>3, <2>1, <2>2, Zenon DEF Working
<1>18. ASSUME job'.at = "commit"
       PROVE  KeysIn(document') = {} /\ StartsAs(creds', document', job'.next)
  <2>1. ~w
    BY <1>4, <1>18
  <2>2. job.kind = "load"
    BY <1>5, <1>9, <2>1
  <2>3. ~NeedsSave(document)
    BY <1>8, <2>1, <2>2
  <2>4. KeysIn(document) = {} /\ Stored(creds, n) = creds /\ StartsAs(creds, document, Resolved(creds, n))
    BY <1>2, <1>3, <1>8, <2>2, <2>3, LoadedStarts
  <2> QED  BY <1>1, <1>3, <1>4, <2>4, Zenon
<1>19. job'.at = "save" /\ job'.kind # "load" => KeysIn(document') = {}
  BY <1>3, <1>4, <1>5, <1>9
<1>20. \A x \in owed' : creds'[x] # ""
  BY <1>3, <1>12
<1>21. Saving'
  <2>1. job'.at # "write"
    BY <1>4
  <2> QED  BY <1>18, <1>19, <1>20, <2>1, Zenon DEF Saving
<1>22. Keeps(creds, document)'
  BY <1>20, Zenon DEF Keeps
<1>23. owed' \subseteq Names /\ Formed(document')
  BY <1>2, <1>3
<1> QED  BY <1>13, <1>14, <1>15, <1>16, <1>17, <1>21, <1>22, <1>23, Zenon DEF SettingsInv

LEMMA TruncatesInv ==
  ASSUME SettingsInv, SaveTruncates
  PROVE  SettingsInv'
<1>1. PICK d : d = [Document EXCEPT !.parses = FALSE]
  OBVIOUS
<1>2. /\ creds = [x \in Names |-> creds[x]] /\ owed \subseteq Names
      /\ JobTypes /\ Settled /\ Saving /\ Working
  BY DEF SettingsInv
<1>3. /\ job.at = "save" /\ Validate(job.next) /\ document' = d /\ job' = [job EXCEPT !.at = "write"]
      /\ UNCHANGED <<creds, config, owed, apart, ahead>>
  BY <1>1, Zenon DEF SaveTruncates, Sound
<1>4. Formed(d) /\ KeysIn(d) = {}
  <2>1. IsDoc(d) /\ d.servers = <<>> /\ d.legacy = FALSE
    BY <1>1 DEF IsDoc, DocF, Document
  <2>2. IsServers(<<>>)
    BY DEF IsServers
  <2>3. Formed(d)
    BY <2>1, <2>2, FormedIs
  <2>4. KeysIn(d) = {}
    BY <2>1 DEF KeysIn
  <2> QED  BY <2>3, <2>4
<1>5. /\ job'.kind = job.kind /\ job'.next = job.next /\ job'.save = job.save /\ job'.at = "write" /\ JobTypes'
  BY <1>2, <1>3 DEF JobTypes, Down
<1>6. job.kind # "none" /\ job'.at # "save" /\ job'.at # "commit"
  BY <1>2, <1>3, <1>5 DEF JobTypes
<1>7. Resolving'
  BY <1>5 DEF Resolving
<1>8. Settled'
  BY <1>2, <1>3, <1>5, Zenon DEF Settled, Trusted
<1>9. \A x \in owed' : creds'[x] # ""
  BY <1>2, <1>3, Zenon DEF Saving
<1>10. Saving'
  BY <1>3, <1>4, <1>5, <1>6, <1>9, Zenon DEF Saving
<1>11. Working'
  <2>1. job'.kind = "patch" => apart'
    <3>1. job.kind = "patch" => apart
      BY <1>2, <1>3 DEF Settled
    <3> QED  BY <1>3, <1>5, <3>1, Zenon
  <2>2. job'.kind \notin {"load", Down} => Running(config') /\ (~apart' => Agrees(creds', config'))
    BY <1>2, <1>3, <1>5, Zenon DEF Working
  <2> QED  BY <1>5, <1>6, <2>1, <2>2, Zenon DEF Working
<1>12. Keeps(creds, document)'
  BY <1>9, Zenon DEF Keeps
<1>13. creds' = [x \in Names |-> creds'[x]] /\ owed' \subseteq Names /\ Formed(document')
  BY <1>2, <1>3, <1>4
<1> QED  BY <1>5, <1>7, <1>8, <1>10, <1>11, <1>12, <1>13, Zenon DEF SettingsInv

LEMMA WritesInv ==
  ASSUME SettingsInv, SaveWrites
  PROVE  SettingsInv'
<1>1. PICK d, n : n = job.next /\ d = Persisted(n)
  OBVIOUS
<1>2. /\ creds = [x \in Names |-> creds[x]] /\ owed \subseteq Names
      /\ JobTypes /\ Settled /\ Saving /\ Working
  BY DEF SettingsInv
<1>3. /\ job.at = "write" /\ document' = d /\ job' = [job EXCEPT !.at = "commit"]
      /\ UNCHANGED <<creds, config, owed, apart, ahead>>
  BY <1>1, Zenon DEF SaveWrites
<1>4. Running(n) /\ Validate(n) /\ (Trusted => Agrees(creds, n))
  BY <1>1, <1>2, <1>3, Zenon DEF Settled, Saving
<1>5. Formed(d) /\ KeysIn(d) = {}
  <2>1. Uptodate(d) /\ Alike(d.servers, n.servers) /\ Blanked(d, n) /\ IsServers(n.servers)
    BY <1>1, <1>4, PersistedIs, FormedIs DEF Running, Uptodate
  <2>2. Formed(d)
    BY <2>1 DEF Uptodate
  <2>3. ASSUME NEW i \in DOMAIN d.servers
        PROVE  d.servers[i].key = ""
    <3>1. i \in DOMAIN n.servers
      BY <2>1 DEF Alike
    <3>2. PICK p, q : p = d.servers[i] /\ q = n.servers[i]
      OBVIOUS
    <3>3. FormedProfile(q) /\ p = [q EXCEPT !.key = ""]
      BY <2>1, <3>1, <3>2, Zenon DEF IsServers, Blanked
    <3>4. p.key = ""
      BY <3>3, SavedProfile
    <3> QED  BY <3>2, <3>4
  <2>4. Blank(d)
    BY <2>3, Zenon DEF Blank
  <2> QED  BY <2>2, <2>4, BlankIs
<1>6. Trusted => StartsAs(creds, d, n)
  BY <1>1, <1>2, <1>4, SavedStarts
<1>7. /\ job'.kind = job.kind /\ job'.next = n /\ job'.save = job.save /\ job'.at = "commit" /\ JobTypes'
  BY <1>1, <1>2, <1>3 DEF JobTypes, Down
<1>8. job.kind # "none" /\ job'.at # "save" /\ job'.at # "write"
  BY <1>2, <1>3, <1>7 DEF JobTypes
<1>9. Resolving'
  BY <1>7 DEF Resolving
<1>10. Trusted' <=> Trusted
  BY <1>1, <1>3, <1>7, Zenon DEF Trusted
<1>11. Settled'
  <2>1. job.kind \in {"load", "patch"} => apart
    BY <1>2, <1>3 DEF Settled
  <2> QED  BY <1>3, <1>4, <1>7, <1>10, <2>1, Zenon DEF Settled
<1>12. \A x \in owed' : creds'[x] # ""
  BY <1>2, <1>3, Zenon DEF Saving
<1>13. Saving'
  BY <1>3, <1>5, <1>6, <1>7, <1>8, <1>10, Zenon DEF Saving
<1>14. Working'
  <2>1. job'.kind = "patch" => apart'
    <3>1. job.kind = "patch" => apart
      BY <1>2, <1>3 DEF Settled
    <3> QED  BY <1>3, <1>7, <3>1, Zenon
  <2>2. job'.kind \notin {"load", Down} => Running(config') /\ (~apart' => Agrees(creds', config'))
    BY <1>2, <1>3, <1>7, Zenon DEF Working
  <2> QED  BY <1>7, <1>8, <2>1, <2>2, Zenon DEF Working
<1>15. Keeps(creds, document)'
  BY <1>12, Zenon DEF Keeps
<1>16. creds' = [x \in Names |-> creds'[x]] /\ owed' \subseteq Names /\ Formed(document')
  BY <1>2, <1>3, <1>5
<1> QED  BY <1>7, <1>9, <1>11, <1>13, <1>14, <1>15, <1>16, Zenon DEF SettingsInv

\* No load and no request is in progress.
Rests(k) == job' = [kind |-> k, at |-> "idle", next |-> Document, save |-> FALSE]

LEMMA RestsInv ==
  ASSUME SettingsInv, UNCHANGED <<document, owed>>, NEW k \in {"none", Down}, Rests(k), Working',
         creds' = [x \in Names |-> creds'[x]], \A x \in Names : creds[x] # "" => creds'[x] # ""
  PROVE  SettingsInv'
<1>1. job'.kind = k /\ job'.at = "idle" /\ JobTypes'
  BY DEF Rests, JobTypes, Down
<1>2. owed' \subseteq Names /\ Formed(document')
  BY Zenon DEF SettingsInv
<1>3. Keeps(creds, document)'
  <2>1. owed \subseteq Names /\ Keeps(creds, document)
    BY DEF SettingsInv
  <2>2. \A x \in owed : x \in Names
    BY <2>1
  <2> QED  BY <2>1, <2>2, Zenon DEF Keeps
<1>4. Resolving' /\ Settled' /\ Saving'
  BY <1>1 DEF Resolving, Settled, Saving
<1> QED  BY <1>1, <1>2, <1>3, <1>4, Zenon DEF SettingsInv

LEMMA CommitsInv ==
  ASSUME SettingsInv, Commits
  PROVE  SettingsInv'
<1>1. PICK n : n = job.next
  OBVIOUS
<1>2. JobTypes /\ Settled /\ Saving /\ creds = [x \in Names |-> creds[x]]
  BY DEF SettingsInv
<1>3. job.at = "commit" /\ config' = n /\ UNCHANGED <<document, creds, owed>>
  BY <1>1 DEF Commits
<1>4. Rests("none") /\ job'.kind = "none"
  BY DEF Commits, Job, Rests
<1>5. ~apart' => Trusted
  BY <1>1, Zenon DEF Commits, Trusted
<1>6. /\ Running(n) /\ KeysIn(document) = {}
      /\ Trusted => Agrees(creds, n) /\ StartsAs(creds, document, n)
  BY <1>1, <1>2, <1>3, Zenon DEF Settled, Saving
<1>7. Working'
  BY <1>3, <1>4, <1>5, <1>6, Zenon DEF Working
<1> QED  BY <1>2, <1>3, <1>4, <1>7, RestsInv

LEMMA ResolveFailsInv ==
  ASSUME SettingsInv, NEW k \in DOMAIN job.next.servers, ResolveFails(k)
  PROVE  SettingsInv'
<1>1. PICK n, s : n = job.next /\ s = StoreAfter(creds, n, k - 1)
  OBVIOUS
<1>2. JobTypes /\ Resolving /\ Working
  BY DEF SettingsInv
<1>3. /\ job.at = "resolve" /\ creds' = s /\ (~apart' => ~apart /\ creds' = creds)
      /\ UNCHANGED <<document, config, owed, ahead>>
  BY <1>1, Zenon DEF ResolveFails
<1>4. job.kind \in {"load", "patch"}
  BY <1>2, <1>3 DEF JobTypes
<1>5. k - 1 \in Nat
  <2>1. Uptodate(n)
    BY <1>1, <1>2, <1>3 DEF Resolving
  <2>2. IsServers(n.servers)
    BY <2>1, FormedIs DEF Uptodate
  <2>3. k \in 1..Len(n.servers) /\ Len(n.servers) \in Nat
    BY <1>1, <2>2, ServersRange
  <2> QED  BY <2>3
<1>6. creds' = [x \in Names |-> creds'[x]] /\ \A x \in Names : creds[x] # "" => creds'[x] # ""
  <2>1. s = [x \in Names |-> s[x]]
    BY <1>1, StoreShape, Zenon
  <2>2. \A x \in Names : creds[x] # "" => s[x] # ""
    BY <1>1, <1>5, StoreGrows, Zenon
  <2> QED  BY <1>3, <2>1, <2>2, Zenon
<1>7. CASE job.kind = "load"
  <2>1. Rests(Down) /\ job'.kind = Down
    BY <1>7 DEF ResolveFails, Gives, Job, Rests
  <2>2. Working'
    BY <2>1 DEF Working, Down
  <2> QED  BY <1>3, <1>6, <2>1, <2>2, RestsInv
<1>8. CASE job.kind = "patch"
  <2>1. Rests("none") /\ job'.kind = "none"
    BY <1>8 DEF ResolveFails, Gives, Job, Rests
  <2>2. /\ Running(config) /\ (~apart => Agrees(creds, config))
        /\ (~apart /\ ~ahead => StartsAs(creds, document, config)) /\ KeysIn(document) = {}
    BY <1>2, <1>3, <1>8 DEF Working, Resolving, Down
  <2>3. Working'
    BY <1>3, <2>2, Zenon DEF Working
  <2> QED  BY <1>3, <1>6, <2>1, <2>3, RestsInv
<1> QED  BY <1>4, <1>7, <1>8

LEMMA SaveFailsInv ==
  ASSUME SettingsInv, SaveFails
  PROVE  SettingsInv'
<1>1. JobTypes /\ Settled /\ Saving /\ Working /\ creds = [x \in Names |-> creds[x]]
  BY DEF SettingsInv
<1>2. /\ job.at \in {"save", "write"} /\ (~ahead' => ~ahead /\ job.kind # "keep" /\ job.at # "write")
      /\ UNCHANGED <<config, document, creds, owed, apart>>
  BY DEF SaveFails
<1>3. job.kind \in {"load", "patch", "keep", "copy"}
  BY <1>1, <1>2 DEF JobTypes, Down
<1>4. CASE job.kind = "load"
  <2>1. Rests(Down) /\ job'.kind = Down
    BY <1>4 DEF SaveFails, Gives, Job, Rests
  <2>2. Working'
    BY <2>1 DEF Working, Down
  <2> QED  BY <1>1, <1>2, <2>1, <2>2, RestsInv
<1>5. CASE job.kind # "load"
  <2>1. Rests("none") /\ job'.kind = "none"
    BY <1>5 DEF SaveFails, Gives, Job, Rests
  <2>2. /\ Running(config) /\ (~apart => Agrees(creds, config)) /\ KeysIn(document) = {}
        /\ job.kind = "patch" => apart
    BY <1>1, <1>2, <1>3, <1>5 DEF Working, Saving, Settled, Down
  <2>3. ~apart' /\ ~ahead' => job.kind = "copy" /\ job.at = "save" /\ ~apart /\ ~ahead
    BY <1>2, <1>3, <1>5, <2>2
  <2>4. ~apart' /\ ~ahead' => StartsAs(creds, document, config)
    BY <1>1, <2>3, Zenon DEF Working
  <2>5. Working'
    BY <1>2, <2>1, <2>2, <2>4, Zenon DEF Working
  <2> QED  BY <1>1, <1>2, <2>1, <2>5, RestsInv
<1> QED  BY <1>4, <1>5

LEMMA StopsInv ==
  ASSUME SettingsInv, Stops
  PROVE  SettingsInv'
<1>1. Rests(Down) /\ job'.kind = Down /\ UNCHANGED <<document, creds, owed>>
  BY DEF Stops, Job, Rests
<1>2. creds = [x \in Names |-> creds[x]]
  BY DEF SettingsInv
<1>3. Working'
  BY <1>1 DEF Working, Down
<1> QED  BY <1>1, <1>2, <1>3, RestsInv

LEMMA TogglesInv ==
  ASSUME SettingsInv, ToggleOperator
  PROVE  SettingsInv'
<1>1. PICK v : v = ~config.operator
  OBVIOUS
<1>2. Working /\ JobTypes
  BY DEF SettingsInv
<1>3. job.kind = "none" /\ UNCHANGED <<document, creds, job, owed, apart, ahead>>
  BY DEF ToggleOperator
<1>4. Running(config)
  BY <1>2, <1>3 DEF Working, Down
<1>5. config' = [config EXCEPT !.operator = v]
  <2>1. DOMAIN config = DocF
    BY <1>4, FormedIs DEF Running, Uptodate, IsDoc
  <2> QED  BY <1>1, <2>1 DEF ToggleOperator, DocF
<1>6. /\ Running(config') /\ (Agrees(creds, config) => Agrees(creds', config'))
      /\ [config' EXCEPT !.operator = FALSE] = [config EXCEPT !.operator = FALSE]
  BY <1>3, <1>4, <1>5, Toggled
<1>7. StartsAs(creds, document, config) => StartsAs(creds', document', config')
  BY <1>3, <1>6, Zenon DEF StartsAs
<1>8. Working'
  <2>1. /\ ~apart => Agrees(creds, config)
        /\ ~apart /\ ~ahead => StartsAs(creds, document, config)
        /\ KeysIn(document) = {}
    BY <1>2, <1>3 DEF Working, Down
  <2> QED  BY <1>3, <1>6, <1>7, <2>1, Zenon DEF Working
<1>9. /\ JobTypes' = JobTypes /\ Resolving' = Resolving /\ Settled' = Settled /\ Saving' = Saving
      /\ Keeps(creds, document)' = Keeps(creds, document)
  BY <1>3, Zenon DEF JobTypes, Resolving, Settled, Saving, Keeps, Trusted
<1> QED  BY <1>3, <1>8, <1>9, Zenon DEF SettingsInv

LEMMA SettingsStep == SettingsInv /\ [SettingsNext]_settingsVars => SettingsInv'
<1> SUFFICES ASSUME SettingsInv, [SettingsNext]_settingsVars
             PROVE  SettingsInv'
  OBVIOUS
<1>1. CASE Loads
  BY <1>1, LoadsInv
<1>2. ASSUME NEW p \in Patches, Patch(p)
      PROVE  SettingsInv'
  BY <1>2, PatchInv
<1>3. ASSUME NEW k \in DOMAIN config.servers, DeleteServer(k)
      PROVE  SettingsInv'
  BY <1>3, DeletesInv
<1>4. ASSUME NEW k \in DOMAIN config.servers, NEW size \in Sizes, ServerProbed(k, size)
      PROVE  SettingsInv'
  BY <1>4, ProbesInv
<1>5. ASSUME NEW k \in DOMAIN config.agents, ToggleAgentTool(k)
      PROVE  SettingsInv'
  BY <1>5, ToolsInv
<1>6. ASSUME NEW k \in DOMAIN config.agents, NEW id \in Names, BindAgent(k, id)
      PROVE  SettingsInv'
  BY <1>6, BindsInv
<1>7. CASE Resolves
  BY <1>7, ResolvesInv
<1>8. ASSUME NEW k \in DOMAIN job.next.servers, ResolveFails(k)
      PROVE  SettingsInv'
  BY <1>8, ResolveFailsInv
<1>9. CASE SaveTruncates
  BY <1>9, TruncatesInv
<1>10. CASE SaveWrites
  BY <1>10, WritesInv
<1>11. CASE Commits
  BY <1>11, CommitsInv
<1>12. CASE SaveFails
  BY <1>12, SaveFailsInv
<1>13. CASE Stops
  BY <1>13, StopsInv
<1>14. CASE ToggleOperator
  BY <1>14, TogglesInv
<1>15. CASE UNCHANGED settingsVars
  <2>1. UNCHANGED <<document, creds, config, job, owed, apart, ahead>>
    BY <1>15 DEF settingsVars
  <2>2. /\ JobTypes' = JobTypes /\ Resolving' = Resolving /\ Settled' = Settled /\ Saving' = Saving
        /\ Working' = Working /\ Keeps(creds, document)' = Keeps(creds, document)
    BY <2>1, Zenon DEF JobTypes, Resolving, Settled, Saving, Working, Keeps, Trusted
  <2> QED  BY <2>1, <2>2, Zenon DEF SettingsInv
<1>16. CASE \/ \E p \in Patches : Patch(p)
            \/ \E k \in DOMAIN config.servers : DeleteServer(k) \/ \E size \in Sizes : ServerProbed(k, size)
            \/ \E k \in DOMAIN config.agents : ToggleAgentTool(k) \/ \E id \in Names : BindAgent(k, id)
            \/ \E k \in DOMAIN job.next.servers : ResolveFails(k)
  BY <1>2, <1>3, <1>4, <1>5, <1>6, <1>8, <1>16, Zenon
<1> QED  BY <1>1, <1>7, <1>9, <1>10, <1>11, <1>12, <1>13, <1>14, <1>15, <1>16, Zenon DEF SettingsNext

LEMMA SettingsInvKeeps == SettingsInv => SettingsKept
<1> SUFFICES ASSUME SettingsInv
             PROVE  SettingsKept
  OBVIOUS
<1>1. Working /\ Keeps(creds, document)
  BY DEF SettingsInv
<1>2. RestartSame
  BY <1>1, Zenon DEF Working, StartsAs, RestartSame
<1>3. KeyKept
  BY <1>1, Zenon DEF Working, Keeps, KeyKept
<1> QED  BY <1>2, <1>3 DEF SettingsKept

(* config.go, migrate.go, server_profiles.go: a process started again after  *)
(* any load or request runs with the configuration it had, and a key is in   *)
(* the file or in the store throughout, whatever profiles, patches and       *)
(* earlier versions of the file there are.  Not after a request that failed  *)
(* once it had stored a key, for profiles with one credential, and after a   *)
(* change made in place, or a file truncated, that was not saved (apart and  *)
(* ahead): RestartSame is then not claimed until a change is saved.          *)
THEOREM SettingsKeptAlways == SettingsSpec => []SettingsKept
<1>1. SettingsSpec => []SettingsInv
  BY InitSettings, SettingsStep, PTL DEF SettingsSpec
<1> QED  BY <1>1, SettingsInvKeeps, PTL
=============================================================================
