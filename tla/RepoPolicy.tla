----------------------------- MODULE RepoPolicy -----------------------------
(***************************************************************************)
(* A folder may carry .agentb/policy.json, which loosens or tightens what  *)
(* its sessions may do, and which counts only after the operator has       *)
(* decided for exactly that content (workspace/manager.go, the             *)
(* /api/workspaces/policy-* handlers, session/registry.go).  The file may  *)
(* change at any time.  Approvals are stored per folder by content hash    *)
(* (here: the content itself); a decision is read, checked, stored and     *)
(* applied in separate steps, and so is a revocation.                      *)
(***************************************************************************)
EXTENDS Naturals, FiniteSets

CONSTANTS Sharers,          \* sessions of the folder
          MaxPolicyEdits,   \* changes of policy.json
          MaxDecisions,     \* operator decisions and revocations
          MaxPolicyBoots    \* restarts

\* 0 stands for "no create call under way".
ASSUME SharersAssumption == 0 \notin Sharers

Contents == {"one", "two", "bad"}

VARIABLES
  policyFile,   \* policy.json: "none" or its content
  approvedHash, \* persistedWorkspace.ApprovedHash
  making,       \* the create call that holds Registry.mu: what Inspect told it
  made,         \* sessions in the registry
  card,         \* per session: PendingRepoPolicy, the policy the operator is asked about
  shownActive,  \* per session: RepoPolicy as every browser sees it
  enforced,     \* per session: RepoPolicy.Policy, what Session.Policy returns
  deciding,     \* per session: the decision request under way
  revoking,     \* the revoke request: "none" or "stored"
  folderGiven,  \* contents the operator approved for the folder (history)
  chatGiven,    \* per session: contents the operator allowed for it (history)
  polSteps      \* edits, decisions and restarts so far

policyVars == <<policyFile, approvedHash, making, made, card, shownActive, enforced, deciding,
                revoking, folderGiven, chatGiven, polSteps>>

NoDecision == [kind |-> "none", hash |-> "none", at |-> "none"]
NotMaking == [s |-> 0, policy |-> "none", approved |-> FALSE]

RepoPolicyInit ==
  /\ policyFile = "one"
  /\ approvedHash = "none"
  /\ making = NotMaking /\ made = {}
  /\ card = [s \in Sharers |-> "none"]
  /\ shownActive = [s \in Sharers |-> "none"] /\ enforced = [s \in Sharers |-> "none"]
  /\ deciding = [s \in Sharers |-> NoDecision]
  /\ revoking = "none"
  /\ folderGiven = {} /\ chatGiven = [s \in Sharers |-> {}]
  /\ polSteps = [edits |-> 0, decisions |-> 0, boots |-> 0]

-----------------------------------------------------------------------------
(* The file and its inspection                                              *)

\* Anybody with access to the folder changes or removes policy.json.
EditPolicy(c) ==
  /\ polSteps.edits < MaxPolicyEdits /\ policyFile # c
  /\ policyFile' = c
  /\ polSteps' = [polSteps EXCEPT !.edits = @ + 1]
  /\ UNCHANGED <<approvedHash, making, made, card, shownActive, enforced, deciding, revoking,
                 folderGiven, chatGiven>>

\* ParsePolicy: unknown and forbidden keys, a wrong version, mode or tool make it an error.
Parses(c) == c \in {"one", "two"}

\* inspectPolicy: approved when the stored hash is the hash of what was read.
InspectedApproved(c) == Parses(c) /\ approvedHash = c

-----------------------------------------------------------------------------
(* Creating a session                                                       *)

RegistryFree == making.s = 0

\* Registry.create calls Inspect with the registry locked; Inspect also stores
\* the time of use, which leaves the approval alone or fails the call.
CreateInspects(s) ==
  /\ RegistryFree /\ s \notin made
  /\ making' = [s |-> s, policy |-> policyFile, approved |-> InspectedApproved(policyFile)]
  /\ UNCHANGED <<policyFile, approvedHash, made, card, shownActive, enforced, deciding, revoking,
                 folderGiven, chatGiven, polSteps>>

\* The policy becomes the session's own when it was approved, else its question.
CreateSets ==
  LET s == making.s IN
  /\ s # 0
  /\ made' = made \cup {s}
  /\ card' = [card EXCEPT ![s] = IF making.approved THEN "none" ELSE making.policy]
  /\ shownActive' = [shownActive EXCEPT ![s] = IF making.approved THEN making.policy ELSE "none"]
  /\ enforced' = [enforced EXCEPT ![s] = IF making.approved THEN making.policy ELSE "none"]
  /\ making' = NotMaking
  /\ UNCHANGED <<policyFile, approvedHash, deciding, revoking, folderGiven, chatGiven, polSteps>>

CreateFails ==
  /\ ~RegistryFree
  /\ making' = NotMaking
  /\ UNCHANGED <<policyFile, approvedHash, made, card, shownActive, enforced, deciding, revoking,
                 folderGiven, chatGiven, polSteps>>

-----------------------------------------------------------------------------
(* Decisions                                                                *)

\* The operator answers the card of a session with the hash it shows.
Decide(s, kind) ==
  /\ s \in made /\ card[s] # "none" /\ deciding[s].kind = "none"
  /\ polSteps.decisions < MaxDecisions
  /\ polSteps' = [polSteps EXCEPT !.decisions = @ + 1]
  /\ deciding' = [deciding EXCEPT ![s] = [kind |-> kind, hash |-> card[s], at |-> "asked"]]
  /\ folderGiven' = IF kind = "approve" THEN folderGiven \cup {card[s]} ELSE folderGiven
  /\ chatGiven' = [chatGiven EXCEPT ![s] = @ \cup {card[s]}]
  /\ UNCHANGED <<policyFile, approvedHash, making, made, card, shownActive, enforced, revoking>>

\* policy-deny.
DenyPolicy(s) ==
  /\ s \in made /\ card[s] # "none" /\ RegistryFree
  /\ card' = [card EXCEPT ![s] = "none"]
  /\ UNCHANGED <<policyFile, approvedHash, making, made, shownActive, enforced, deciding, revoking,
                 folderGiven, chatGiven, polSteps>>

\* Mutant of SameHash: whatever the file holds now is what was decided.
SameHashAnyway(c, hash) == c # "none"

\* "repo policy changed before approval".
SameHash(c, hash) == c # "none" /\ c = hash

\* Approve and PolicyForDecision inspect the file again and refuse any other
\* content than the decided one; what they read is what will be applied.
DecisionChecks(s) ==
  /\ deciding[s].at = "asked"
  /\ deciding' = [deciding EXCEPT ![s] =
       IF Parses(policyFile) /\ SameHash(policyFile, deciding[s].hash)
       THEN [@ EXCEPT !.hash = policyFile, !.at = IF deciding[s].kind = "approve" THEN "checked"
                                                                                      ELSE "stored"]
       ELSE NoDecision]
  /\ UNCHANGED <<policyFile, approvedHash, making, made, card, shownActive, enforced, revoking,
                 folderGiven, chatGiven, polSteps>>

\* Approve stores the hash with the state file reread under Manager.mu ...
ApproveStores(s) ==
  /\ deciding[s].at = "checked"
  /\ approvedHash' = deciding[s].hash
  /\ deciding' = [deciding EXCEPT ![s].at = "stored"]
  /\ UNCHANGED <<policyFile, making, made, card, shownActive, enforced, revoking, folderGiven,
                 chatGiven, polSteps>>

\* ... and a failed save ends the request before anything is applied.
ApproveFails(s) ==
  /\ deciding[s].at = "checked"
  /\ deciding' = [deciding EXCEPT ![s] = NoDecision]
  /\ UNCHANGED <<policyFile, approvedHash, making, made, card, shownActive, enforced, revoking,
                 folderGiven, chatGiven, polSteps>>

\* ApplyRepoPolicySession: the session takes the policy, its card closes.
ApplyRepoPolicy(s) ==
  /\ deciding[s].at = "stored" /\ RegistryFree
  /\ shownActive' = [shownActive EXCEPT ![s] = deciding[s].hash]
  /\ enforced' = [enforced EXCEPT ![s] = deciding[s].hash]
  /\ card' = [card EXCEPT ![s] = "none"]
  /\ deciding' = [deciding EXCEPT ![s] = NoDecision]
  /\ UNCHANGED <<policyFile, approvedHash, making, made, revoking, folderGiven, chatGiven, polSteps>>

-----------------------------------------------------------------------------
(* Revoking and restarting                                                  *)

\* policy-revoke: Manager.Revoke forgets the stored approval ...
RevokeStores ==
  /\ revoking = "none" /\ polSteps.decisions < MaxDecisions
  /\ approvedHash' = "none"
  /\ revoking' = "stored"
  /\ polSteps' = [polSteps EXCEPT !.decisions = @ + 1]
  /\ UNCHANGED <<policyFile, making, made, card, shownActive, enforced, deciding, folderGiven, chatGiven>>

\* ... then Registry.RevokeRepoPolicy, which waits for a create under way, takes
\* the policy from every session of the folder.  Decisions still under way, or
\* stored in between, were given before and land after.
RevokeClears ==
  LET waiting == {s \in Sharers : deciding[s].kind # "none"} IN
  /\ revoking = "stored" /\ RegistryFree
  /\ shownActive' = [s \in Sharers |-> "none"]
  /\ enforced' = [s \in Sharers |-> "none"]
  /\ card' = [s \in Sharers |-> "none"]
  /\ revoking' = "none"
  /\ folderGiven' = {approvedHash} \cup {deciding[s].hash : s \in {t \in waiting : deciding[t].kind = "approve"}}
  /\ chatGiven' = [s \in Sharers |-> IF s \in waiting THEN {deciding[s].hash} ELSE {}]
  /\ UNCHANGED <<policyFile, approvedHash, making, made, deciding, polSteps>>

\* Registry.Restore brings back what the journal holds of RepoPolicy; the parsed
\* policy is not part of it (json:"-"), so nothing of it is enforced any more.
RebootPolicies ==
  /\ polSteps.boots < MaxPolicyBoots
  /\ polSteps' = [polSteps EXCEPT !.boots = @ + 1]
  /\ enforced' = [s \in Sharers |-> "none"]
  /\ making' = NotMaking
  /\ deciding' = [s \in Sharers |-> NoDecision]
  /\ revoking' = "none"
  /\ UNCHANGED <<policyFile, approvedHash, made, card, shownActive, folderGiven, chatGiven>>

RepoPolicyNext ==
  \/ \E c \in Contents \cup {"none"} : EditPolicy(c)
  \/ \E s \in Sharers :
       \/ CreateInspects(s) \/ DenyPolicy(s) \/ DecisionChecks(s) \/ ApproveStores(s)
       \/ ApproveFails(s) \/ ApplyRepoPolicy(s)
       \/ \E kind \in {"approve", "once"} : Decide(s, kind)
  \/ CreateSets \/ CreateFails \/ RevokeStores \/ RevokeClears \/ RebootPolicies

RepoPolicySpec == RepoPolicyInit /\ [][RepoPolicyNext]_policyVars

-----------------------------------------------------------------------------
(* Properties                                                               *)

\* What a session enforces is a policy whose exact content the operator decided
\* for, for the folder or for this session, and has not revoked since: not one
\* that replaced it between card and answer, and not one that a session being
\* created read before the revocation.  Decisions under way while a revocation
\* was finishing count as given after it.
PolicyDecided ==
  \A s \in Sharers : enforced[s] # "none" => enforced[s] \in folderGiven \cup chatGiven[s]

=============================================================================
