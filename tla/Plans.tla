-------------------------------- MODULE Plans --------------------------------
(***************************************************************************)
(* Plans live in directories of their own under <data-root>/plans; a       *)
(* plan.json binds one to a repository (session/plans.go).  A planner      *)
(* session ("d") works in its plan; while the Plan page is open, its model *)
(* may only propose, and the operator's accepting of a proposal opens the  *)
(* session's gate for one edit (web/plan.go, agent/run.go AcceptPlanEdit,  *)
(* session/session.go).  The gate is one flag of the session, read by      *)
(* every file tool call; accepts of two browser tabs and the model's own   *)
(* calls run concurrently.  A builder session ("b") accepts through a      *)
(* transient planner session with a gate of its own.                       *)
(*                                                                         *)
(* A plan's text is the sequence of its lines, its first the title.        *)
(***************************************************************************)
EXTENDS Naturals, Sequences, SequencesExt, FiniteSets

CONSTANTS Ensurers,     \* concurrent callers of EnsurePlan for one repository
          Tabs,         \* concurrent accept requests
          PlanBudgets   \* bounds: plans registered, accepts, model calls, failed listings, restarts

VARIABLES
  planDirs,     \* the plan directories, in the order they were made: what plan.json binds them
                \*   to, their text, and whether they were made without seeing the others (history)
  ensuring,     \* per caller of EnsurePlan: how far it is, and its directory
  planOf,       \* the planner session's plan (0: none yet)
  planPage,     \* Session.planPage of the planner session
  planAccept,   \* Session.planAccept of the planner session
  tray,         \* proposals recorded in the session's messages
  accepting,    \* per tab: the accept request
  modelCall,    \* the planner model's file tool call
  settled,      \* proposals whose source turns were settled
  ungoverned,   \* the model changed the plan with the page open (history)
  planLeft      \* what is left of the chosen budget

planVars == <<planDirs, ensuring, planOf, planPage, planAccept, tray, accepting, modelCall, settled,
              ungoverned, planLeft>>

Proposals == {"add", "reword", "drop"}
NoAccept == [at |-> "none", proposal |-> "add", role |-> "d", base |-> << >>, ok |-> FALSE]
NotEnsuring == [at |-> "none", dir |-> 0, blind |-> FALSE]
NoModelCall == [at |-> "none", excused |-> FALSE]

PlansInit ==
  /\ planDirs = << >>
  /\ ensuring = [c \in Ensurers |-> NotEnsuring]
  /\ planOf = 0 /\ planPage = FALSE /\ planAccept = FALSE
  /\ tray = {}
  /\ accepting = [t \in Tabs |-> NoAccept]
  /\ modelCall = NoModelCall
  /\ settled = {} /\ ungoverned = FALSE
  /\ planLeft \in PlanBudgets

Spends(what) == planLeft[what] > 0 /\ planLeft' = [planLeft EXCEPT ![what] = @ - 1]

-----------------------------------------------------------------------------
(* Registering a plan for a repository                                      *)

\* EnsurePlan holds Registry.mu to its end.
RegistryLocked(c) == \A d \in Ensurers \ {c} : ensuring[d].at = "none"

\* ListPlans finds the repository's plan (nothing more to do) or none; an error
\* of the listing counts as none.
EnsureLists(c, fails) ==
  /\ ensuring[c].at = "none" /\ RegistryLocked(c)
  /\ IF fails THEN Spends("faults") ELSE Spends("ensures")
  /\ fails \/ \A i \in DOMAIN planDirs : planDirs[i].repo # "repo"
  /\ ensuring' = [ensuring EXCEPT ![c] = [at |-> "listed", dir |-> 0, blind |-> fails]]
  /\ UNCHANGED <<planDirs, planOf, planPage, planAccept, tray, accepting, modelCall, settled, ungoverned>>

NewDir(blind, lines) == [repo |-> "none", lines |-> lines, blind |-> blind]

\* allocatePlanDir: a fresh random name.
EnsureAllocates(c) ==
  /\ ensuring[c].at = "listed"
  /\ planDirs' = Append(planDirs, NewDir(ensuring[c].blind, << >>))
  /\ ensuring' = [ensuring EXCEPT ![c] = [@ EXCEPT !.at = "made", !.dir = Len(planDirs) + 1]]
  /\ UNCHANGED <<planOf, planPage, planAccept, tray, accepting, modelCall, settled, ungoverned, planLeft>>

\* plan.md with the title, NOTES.md, and last writePlanRepo: only plan.json binds.
EnsureBinds(c) ==
  /\ ensuring[c].at = "made"
  /\ planDirs' = [planDirs EXCEPT ![ensuring[c].dir] = [@ EXCEPT !.repo = "repo", !.lines = <<"title">>]]
  /\ ensuring' = [ensuring EXCEPT ![c] = NotEnsuring]
  /\ UNCHANGED <<planOf, planPage, planAccept, tray, accepting, modelCall, settled, ungoverned, planLeft>>

\* Any of the writes fails and leaves a directory no repository names.
EnsureFails(c) ==
  /\ ensuring[c].at \in {"listed", "made"}
  /\ ensuring' = [ensuring EXCEPT ![c] = NotEnsuring]
  /\ UNCHANGED <<planDirs, planOf, planPage, planAccept, tray, accepting, modelCall, settled, ungoverned, planLeft>>

-----------------------------------------------------------------------------
(* The page and the model                                                   *)

\* planDirFor: the planner's own plan; a builder's is the one of its repository.
PlanFor(role) ==
  IF role = "d" THEN planOf
  ELSE LET named == {i \in DOMAIN planDirs : planDirs[i].repo = "repo"}
       IN  IF named = {} THEN 0 ELSE CHOOSE i \in named : TRUE

\* GET /api/plan.
PlanSurface ==
  /\ PlanFor("d") # 0 /\ ~planPage
  /\ planPage' = TRUE
  /\ UNCHANGED <<planDirs, ensuring, planOf, planAccept, tray, accepting, modelCall, settled, ungoverned, planLeft>>

\* parsePlanProposals: the model's answer brings a proposal into the tray.
Propose(p) ==
  /\ p \notin tray /\ planLeft.accepts > 0
  /\ tray' = tray \cup {p}
  /\ UNCHANGED <<planDirs, ensuring, planOf, planPage, planAccept, accepting, modelCall, settled, ungoverned, planLeft>>

PlanWriteAllowed == ~planPage \/ planAccept

\* An accept through the planner session is between BeginPlanAccept and EndPlanAccept (history).
AcceptUnderWay ==
  \E t \in Tabs : accepting[t].role = "d" /\ accepting[t].at \in {"open", "read", "closing"}

\* write_file or edit_file of the planner's model passes PlanWriteAllowed; its
\* first write binds the session to a plan of its own (Session.WriteRoot).
ModelCallStarts ==
  /\ modelCall.at = "none" /\ PlanWriteAllowed
  /\ Spends("calls")
  /\ modelCall' = [at |-> "allowed", excused |-> ~planPage \/ AcceptUnderWay]
  /\ IF planOf = 0
     THEN planOf' = Len(planDirs) + 1 /\ planDirs' = Append(planDirs, NewDir(FALSE, <<"title">>))
     ELSE UNCHANGED <<planOf, planDirs>>
  /\ UNCHANGED <<ensuring, planPage, planAccept, tray, accepting, settled, ungoverned>>

\* The file is replaced later, with no second look at the gate.
ModelCallWrites ==
  /\ modelCall.at = "allowed"
  /\ planDirs' = [planDirs EXCEPT ![planOf].lines = Append(@, "model")]
  /\ ungoverned' = (ungoverned \/ (planPage /\ ~modelCall.excused))
  /\ modelCall' = NoModelCall
  /\ UNCHANGED <<ensuring, planOf, planPage, planAccept, tray, accepting, settled, planLeft>>

-----------------------------------------------------------------------------
(* Accepting                                                                *)

\* recordedPlanProposal, planDirFor, and SetPlanPage on the writing session.
AcceptStarts(t, p, role) ==
  /\ accepting[t].at = "none" /\ p \in tray /\ PlanFor(role) # 0
  /\ Spends("accepts")
  /\ accepting' = [accepting EXCEPT ![t] = [NoAccept EXCEPT !.at = "started", !.proposal = p, !.role = role]]
  /\ planPage' = (planPage \/ role = "d")
  /\ UNCHANGED <<planDirs, ensuring, planOf, planAccept, tray, modelCall, settled, ungoverned>>

\* BeginPlanAccept.
AcceptBegins(t) ==
  /\ accepting[t].at = "started"
  /\ accepting' = [accepting EXCEPT ![t].at = "open"]
  /\ planAccept' = (planAccept \/ accepting[t].role = "d")
  /\ UNCHANGED <<planDirs, ensuring, planOf, planPage, tray, modelCall, settled, ungoverned, planLeft>>

\* old_text must occur exactly once.
OldText(p) == IF p = "add" THEN "title" ELSE "item"
Occurs(lines, x) == Cardinality({i \in DOMAIN lines : lines[i] = x})

\* The text with the span replaced: "add" keeps it and adds a line after it.
Edited(lines, p) ==
  LET i == CHOOSE j \in DOMAIN lines : lines[j] = OldText(p) IN
  SubSeq(lines, 1, i - 1)
    \o (CASE p = "add" -> <<"title", "item">> [] p = "reword" -> <<"done">> [] p = "drop" -> << >>)
    \o SubSeq(lines, i + 1, Len(lines))

\* edit_file: the gate, which another tab may have closed meanwhile, and the match.
AcceptReads(t) ==
  LET a == accepting[t]
      lines == planDirs[PlanFor(a.role)].lines
      fits == (a.role = "b" \/ PlanWriteAllowed) /\ Occurs(lines, OldText(a.proposal)) = 1
  IN  /\ a.at = "open"
      /\ accepting' = [accepting EXCEPT ![t] = [@ EXCEPT !.at = IF fits THEN "read" ELSE "closing", !.base = lines]]
      /\ UNCHANGED <<planDirs, ensuring, planOf, planPage, planAccept, tray, modelCall, settled, ungoverned, planLeft>>

AcceptReplaces(t) ==
  LET a == accepting[t] IN
  /\ a.at = "read"
  /\ planDirs' = [planDirs EXCEPT ![PlanFor(a.role)].lines = Edited(a.base, a.proposal)]
  /\ accepting' = [accepting EXCEPT ![t] = [@ EXCEPT !.at = "closing", !.ok = TRUE]]
  /\ UNCHANGED <<ensuring, planOf, planPage, planAccept, tray, modelCall, settled, ungoverned, planLeft>>

\* Mutant of GateAfter: a failed edit returns before the gate is closed.
GateAfterSuccess(a) == IF a.role = "d" /\ a.ok THEN FALSE ELSE planAccept

\* EndPlanAccept is deferred: the gate closes whatever became of the edit.
GateAfter(a) == IF a.role = "d" THEN FALSE ELSE planAccept

\* After a successful edit SettlePlanTurns marks the turns the proposal came from.
AcceptEnds(t) ==
  LET a == accepting[t] IN
  /\ a.at = "closing"
  /\ planAccept' = GateAfter(a)
  /\ settled' = IF a.ok THEN settled \cup {a.proposal} ELSE settled
  /\ accepting' = [accepting EXCEPT ![t] = NoAccept]
  /\ UNCHANGED <<planDirs, ensuring, planOf, planPage, tray, modelCall, ungoverned, planLeft>>

\* A restart: neither flag is stored, requests and calls are lost.
RebootPlans ==
  /\ Spends("boots")
  /\ planPage' = FALSE /\ planAccept' = FALSE
  /\ ensuring' = [c \in Ensurers |-> NotEnsuring]
  /\ accepting' = [t \in Tabs |-> NoAccept]
  /\ modelCall' = NoModelCall
  /\ UNCHANGED <<planDirs, planOf, tray, settled, ungoverned>>

PlansNext ==
  \/ \E c \in Ensurers :
       \/ \E fails \in BOOLEAN : EnsureLists(c, fails)
       \/ EnsureAllocates(c) \/ EnsureBinds(c) \/ EnsureFails(c)
  \/ PlanSurface \/ ModelCallStarts \/ ModelCallWrites \/ RebootPlans
  \/ \E p \in Proposals : Propose(p)
  \/ \E t \in Tabs :
       \/ \E p \in Proposals, role \in {"d", "b"} : AcceptStarts(t, p, role)
       \/ AcceptBegins(t) \/ AcceptReads(t) \/ AcceptReplaces(t) \/ AcceptEnds(t)

PlansSpec == PlansInit /\ [][PlansNext]_planVars

-----------------------------------------------------------------------------
(* Properties                                                               *)

\* A repository has at most one plan, whoever registers it and wherever a
\* registration stops, as long as the directory of plans could be listed.
OnePlan == Cardinality({i \in DOMAIN planDirs : planDirs[i].repo = "repo" /\ ~planDirs[i].blind}) <= 1

\* While the Plan page is open the planner's model changes the plan in two
\* windows only: a call that was let in before the page opened, and a call that
\* arrives while the operator's accept is under way.
PlanGoverned == ~ungoverned

\* Plans are unique and changed by the operator's leave.
PlansKept == OnePlan /\ PlanGoverned

=============================================================================
