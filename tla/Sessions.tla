------------------------------ MODULE Sessions ------------------------------
(***************************************************************************)
(* The session registry (internal/session/registry.go, session.go), the    *)
(* handlers of the web server that work on it (web/server_sessions.go,     *)
(* web/server_actions.go) and the server change of an agent                *)
(* (web/agent_server.go).                                                  *)
(*                                                                         *)
(* A handler that checks a session, lets go of its lock and writes it      *)
(* later is two actions; `hand' keeps what it read.  Of the scheduler only *)
(* the lock, the slots and the queue are here (Scheduler has the rest).    *)
(* There is one agent: session 1 is "main", the others are numbered.       *)
(***************************************************************************)
EXTENDS Integers, Sequences, FiniteSets, SequencesExt

CONSTANTS
  SessionIds,  \* 1..n: bound on the sessions created
  Slots,       \* run.max_concurrent
  QueueMax,    \* bound: length of the queue
  Servers,     \* profiles the agent may be bound to
  BServer,     \* the agent's B profile at the start
  DServer,     \* its D profile
  Menus        \* bounds: which requests the operator makes, one set per scenario

ASSUME SessionsAssumption ==
  "none" \notin Servers /\ IsFiniteSet(SessionIds) /\ SessionIds = 1 .. Cardinality(SessionIds)

VARIABLES
  ses,      \* id -> Session
  nextId,   \* Registry.next
  lock,     \* who holds Scheduler.mu: <<>>, a submission <<id>>, or <<0>> for a server change
  act,      \* keys of Scheduler.active
  que,      \* Scheduler.queue
  agentB,   \* cfg.Agents[0].B
  toolset,  \* cfg.Agents[0].Toolset
  ready,    \* profiles that are runnable
  change,   \* Server.agentServers: the pending change, "none" if there is none
  hand,     \* handler -> what it read
  menu,     \* the scenario
  wanted,   \* the server the operator was last told the agent will have
  stale     \* sessions whose status was overwritten by a handler that read it before

sesVars == <<ses, nextId, lock, act, que, agentB, toolset, ready, change, hand, menu, wanted, stale>>

Tools == {"shell", "edit"}
Absent == [live |-> FALSE, closed |-> FALSE, status |-> "idle", ran |-> FALSE, role |-> "b",
           server |-> BServer, tools |-> {}, policy |-> "none", pinned |-> FALSE,
           label |-> "auto", text |-> FALSE]
Free == [id |-> 0, to |-> "none", saved |-> FALSE, rest |-> <<>>, tools |-> {}]
Handlers == {"label", "agent", "reset", "delete", "apply"}

Live == {i \in SessionIds : ses[i].live}
IsRunning(i) == ses[i].status \in {"running", "queued", "stopping"}
Idle(h) == hand[h] = Free
Took(h, i) == hand' = [hand EXCEPT ![h] = [Free EXCEPT !.id = i]]
Done(h) == hand' = [hand EXCEPT ![h] = Free]
Put(i, rec) == ses' = [ses EXCEPT ![i] = rec]
Quietly == UNCHANGED <<nextId, lock, act, que, agentB, toolset, ready, change, menu, wanted>>
Unread == UNCHANGED <<hand, stale>>

----------------------------------------------------------------------------
(* Creation, retention, deletion.                                          *)

DTools(role, ts) == IF role = "d" THEN ts \ {"shell"} ELSE ts
PolicyTools == {"shell"}

\* Registry.create: the first session is "main", later ones are numbered.  A D session may
\* work in the repository of its plan, whose policy, once approved, replaces the toolset.
Create ==
  \E role \in {"b", "d"}, policy \in {"none", "pending", "active"} :
    LET id == IF Live = {} THEN 1 ELSE nextId
        server == IF role = "d" THEN DServer ELSE agentB
        tools == IF policy = "active" THEN PolicyTools ELSE DTools(role, toolset)
    IN
    /\ "create" \in menu /\ id \in SessionIds
    /\ policy # "none" => role = "d" /\ "policy" \in menu
    /\ role = "d" => "design" \in menu
    /\ server \in ready
    /\ Put(id, [Absent EXCEPT !.live = TRUE, !.role = role, !.server = server,
                              !.tools = tools, !.policy = policy])
    /\ nextId' = IF id = 1 THEN nextId ELSE nextId + 1
    /\ UNCHANGED <<lock, act, que, agentB, toolset, ready, change, hand, menu, wanted, stale>>

\* createLike: a B session with the tools of its source.
CreateLike(i) ==
  /\ "like" \in menu /\ i \in Live /\ nextId \in SessionIds
  /\ Put(nextId, [Absent EXCEPT !.live = TRUE, !.server = agentB, !.tools = ses[i].tools])
  /\ nextId' = nextId + 1
  /\ UNCHANGED <<lock, act, que, agentB, toolset, ready, change, hand, menu, wanted, stale>>

\* The process restarts and Restore reads the retained chats: no run, no pending change, and
\* the counter starts after the highest session.
Reboot ==
  /\ "restart" \in menu
  /\ ses' = [i \in SessionIds |-> IF IsRunning(i) THEN [ses[i] EXCEPT !.status = "idle", !.ran = TRUE]
                                  ELSE ses[i]]
  /\ nextId' = Max({2} \cup {i + 1 : i \in Live})
  /\ lock' = <<>> /\ act' = {} /\ que' = <<>>
  /\ change' = "none" /\ wanted' = "none" /\ stale' = {}
  /\ hand' = [h \in Handlers |-> Free]
  /\ UNCHANGED <<agentB, toolset, ready, menu>>

\* Session.Close: not with a run, not during a submission.
CloseAnyway(i) ==
  /\ "close" \in menu /\ i \in Live /\ ~ses[i].closed /\ ~IsRunning(i)
  /\ Put(i, [ses[i] EXCEPT !.closed = TRUE])
  /\ Quietly /\ Unread
Close(i) ==
  /\ "close" \in menu /\ i \in Live /\ ~ses[i].closed /\ ~IsRunning(i)
  /\ lock # <<i>>
  /\ Put(i, [ses[i] EXCEPT !.closed = TRUE])
  /\ Quietly /\ Unread

Reopen(i) ==
  /\ "close" \in menu /\ i \in Live /\ ses[i].closed
  /\ Put(i, [ses[i] EXCEPT !.closed = FALSE])
  /\ Quietly
  /\ UNCHANGED hand
  /\ stale' = IF hand["delete"].id = i THEN stale \cup {i} ELSE stale

\* Registry.Delete lets go of the lock while the files are removed; it may fail there.
DeleteChecks(i) ==
  /\ "delete" \in menu /\ Idle("delete")
  /\ i \in Live /\ ses[i].closed /\ ~IsRunning(i)
  /\ Took("delete", i)
  /\ Quietly /\ UNCHANGED <<ses, stale>>
DeleteEnds ==
  /\ ~Idle("delete")
  /\ Done("delete")
  /\ \/ ses' = [ses EXCEPT ![hand["delete"].id] = Absent]
     \/ UNCHANGED ses
  /\ Quietly /\ UNCHANGED stale

----------------------------------------------------------------------------
(* Requests that change a session.                                         *)

\* RenameBy: the model's own title does not replace the operator's.
Rename(i) ==
  /\ "rename" \in menu /\ i \in Live
  /\ \/ Put(i, [ses[i] EXCEPT !.label = "user", !.pinned = TRUE])
     \/ ~ses[i].pinned /\ Put(i, [ses[i] EXCEPT !.label = "model"])
  /\ Quietly /\ Unread

DropLast(i) ==
  /\ "reset" \in menu /\ i \in Live /\ ~ses[i].closed /\ ~IsRunning(i) /\ ses[i].text
  /\ Put(i, [ses[i] EXCEPT !.text = FALSE])
  /\ Quietly /\ Unread

\* The stale write of a run state marks its session.
Overwritten(i) == stale' = IF i \in act \cup Range(que) THEN stale \cup {i} ELSE stale

\* Reset checks the status, rotates the journal, then starts the session anew, whatever it is.
ResetChecks(i) ==
  /\ "reset" \in menu /\ Idle("reset")
  /\ i \in Live /\ ~IsRunning(i) /\ ~ses[i].closed
  /\ Took("reset", i)
  /\ Quietly /\ UNCHANGED <<ses, stale>>
ResetEnds ==
  LET i == hand["reset"].id
  IN
  /\ ~Idle("reset")
  /\ Done("reset")
  /\ IF i \in Live THEN Put(i, [ses[i] EXCEPT !.status = "idle", !.ran = FALSE, !.text = FALSE])
     ELSE UNCHANGED ses
  /\ Overwritten(i)
  /\ Quietly

\* The result label: the run state is read, checked, and written back with the label.
LabelReads(i) ==
  /\ "label" \in menu /\ Idle("label")
  /\ i \in Live /\ ~IsRunning(i) /\ ses[i].ran
  /\ Took("label", i)
  /\ Quietly /\ UNCHANGED <<ses, stale>>
LabelWrites ==
  LET i == hand["label"].id
  IN
  /\ ~Idle("label")
  /\ Done("label")
  /\ IF i \in Live THEN Put(i, [ses[i] EXCEPT !.status = "idle", !.ran = TRUE]) ELSE UNCHANGED ses
  /\ Overwritten(i)
  /\ Quietly

\* SetAgent checks the session, loads the memory, then binds it without a second look.
SetAgentChecks(i) ==
  LET server == IF ses[i].role = "d" THEN DServer ELSE agentB
  IN
  /\ "agent" \in menu /\ Idle("agent")
  /\ i \in Live /\ ~ses[i].closed /\ ses[i].status = "idle" /\ server \in ready
  /\ hand' = [hand EXCEPT !["agent"] = [Free EXCEPT !.id = i, !.to = server, !.tools = toolset]]
  /\ Quietly /\ UNCHANGED <<ses, stale>>
SetAgentBinds ==
  LET h == hand["agent"]
  IN
  /\ ~Idle("agent")
  /\ Done("agent")
  /\ IF h.id \in Live
     THEN Put(h.id, [ses[h.id] EXCEPT !.server = h.to,
                                      !.tools = DTools(ses[h.id].role, h.tools)])
     ELSE UNCHANGED ses
  /\ Quietly /\ UNCHANGED stale

\* The tool switch changes the agent and, with ToggleTool, its open sessions.
ToggleTool ==
  /\ "tools" \in menu
  /\ \E on \in BOOLEAN :
       /\ toolset' = IF on THEN toolset \cup {"shell"} ELSE toolset \ {"shell"}
       /\ ses' = [i \in SessionIds |->
                    IF ~ses[i].live \/ ses[i].closed THEN ses[i]
                    ELSE [ses[i] EXCEPT !.tools =
                            IF ses[i].role = "d" THEN (toolset' \ {"shell"}) \cup (toolset' \cap @)
                            ELSE toolset']]
  /\ UNCHANGED <<nextId, lock, act, que, agentB, ready, change, menu, wanted>> /\ Unread

\* The repository policy is approved for the session, denied, or revoked for the folder.
Policy(i) ==
  /\ "policy" \in menu /\ i \in Live /\ ses[i].policy # "none"
  /\ \/ Put(i, [ses[i] EXCEPT !.policy = "active",
                              !.tools = IF ses[i].closed THEN @ ELSE DTools(ses[i].role, PolicyTools)])
     \/ ses[i].policy = "pending" /\ Put(i, [ses[i] EXCEPT !.policy = "none"])
     \/ ses' = [j \in SessionIds |-> [ses[j] EXCEPT !.policy = "none"]]
  /\ Quietly /\ Unread

----------------------------------------------------------------------------
(* Runs.                                                                   *)

\* SubmitAttachments holds the scheduler's lock throughout.
SubmitBegins(i) ==
  /\ "submit" \in menu /\ i \in Live /\ ~ses[i].closed /\ lock = <<>>
  /\ lock' = <<i>>
  /\ UNCHANGED <<ses, nextId, act, que, agentB, toolset, ready, change, menu, wanted>> /\ Unread
SubmitEnds(i) ==
  /\ lock = <<i>>
  /\ lock' = <<>>
  /\ \/ /\ i \notin act /\ ~IsRunning(i) /\ Cardinality(act) < Slots
        /\ act' = act \cup {i} /\ UNCHANGED que
        /\ Put(i, [ses[i] EXCEPT !.status = "running", !.text = TRUE])
     \/ /\ i \notin act /\ ~IsRunning(i) /\ Cardinality(act) >= Slots /\ Len(que) < QueueMax
        /\ que' = Append(que, i) /\ UNCHANGED act
        /\ Put(i, [ses[i] EXCEPT !.status = "queued", !.text = TRUE])
     \/ /\ i \in act \/ IsRunning(i)  \* the message waits for the next run
        /\ UNCHANGED <<ses, act, que>>
  /\ UNCHANGED <<nextId, agentB, toolset, ready, change, menu, wanted>> /\ Unread

StopRun(i) ==
  /\ "stop" \in menu /\ i \in act /\ lock = <<>> /\ ses[i].status # "stopping"
  /\ Put(i, [ses[i] EXCEPT !.status = "stopping"])
  /\ Quietly /\ Unread

\* A turn begins: the configuration of the agent is applied, cut down by the policy.
TurnApplies(i) ==
  LET tools == DTools(ses[i].role, toolset)
  IN
  /\ i \in act
  /\ Put(i, [ses[i] EXCEPT !.server = IF ses[i].role = "d" THEN DServer ELSE agentB,
                           !.tools = IF ses[i].policy = "active" THEN tools \cap PolicyTools
                                     ELSE tools])
  /\ Quietly /\ Unread

\* finish: the run ends and the head of the queue starts; if the agent is idle then, the
\* pending server change is taken, still under the lock.
FinishRun(i) ==
  LET rest == act \ {i}
      next == IF que = <<>> THEN {} ELSE {que[1]}
      ended == [ses EXCEPT ![i].status = "idle", ![i].ran = TRUE]
  IN
  /\ i \in act /\ lock = <<>>
  /\ act' = rest \cup next
  /\ que' = IF que = <<>> THEN que ELSE Tail(que)
  /\ ses' = [j \in SessionIds |-> IF j \in next THEN [ended[j] EXCEPT !.status = "running"] ELSE ended[j]]
  /\ IF act' = {} /\ change # "none"
     THEN /\ lock' = <<0>> /\ change' = "none"
          /\ hand' = [hand EXCEPT !["apply"] = [Free EXCEPT !.to = change]]
     ELSE UNCHANGED <<lock, change, hand>>
  /\ UNCHANGED <<nextId, agentB, toolset, ready, menu, wanted, stale>>

----------------------------------------------------------------------------
(* The server of the agent.                                                *)

\* A change is asked for: it is pending, and is tried at once unless the agent has a run.
\* Asking for the server in use says "applied", or that another change is pending.
AskServer(p) ==
  /\ "server" \in menu /\ p \in ready
  /\ \/ /\ p # agentB
        /\ change' = p /\ wanted' = p
     \/ /\ p = agentB /\ change = "none"
        /\ wanted' = IF Idle("apply") THEN p ELSE "none"
        /\ UNCHANGED change
  /\ UNCHANGED <<ses, nextId, lock, act, que, agentB, toolset, ready, menu>> /\ Unread

TryAgentIdle ==
  /\ change # "none" /\ act = {} /\ lock = <<>>
  /\ lock' = <<0>> /\ change' = "none"
  /\ hand' = [hand EXCEPT !["apply"] = [Free EXCEPT !.to = change]]
  /\ UNCHANGED <<ses, nextId, act, que, agentB, toolset, ready, menu, wanted, stale>>

CancelServer ==
  /\ "server" \in menu /\ change # "none"
  /\ change' = "none" /\ wanted' = "none"
  /\ UNCHANGED <<ses, nextId, lock, act, que, agentB, toolset, ready, menu>> /\ Unread

\* restorePendingAgentServer: a newer request is not replaced.
RestoreChange(p) == change' = IF change = "none" THEN p ELSE change

\* The configuration is saved; if that fails the change is pending again.
ApplySaves ==
  LET h == hand["apply"]
  IN
  /\ ~Idle("apply") /\ ~h.saved
  /\ \/ /\ agentB' = h.to
        /\ hand' = [hand EXCEPT !["apply"].saved = TRUE,
                             !["apply"].rest = SetToSortSeq({i \in Live : ~ses[i].closed}, <) \o <<0>>]
        /\ UNCHANGED <<change, lock>>
     \/ /\ "fault" \in menu
        /\ RestoreChange(h.to) /\ Done("apply") /\ lock' = <<>>
        /\ UNCHANGED agentB
  /\ UNCHANGED <<ses, nextId, act, que, toolset, ready, menu, wanted, stale>>

\* ApplyAgentBinding binds one session after the other; the first failure ends it.
ApplyBinds ==
  LET h == hand["apply"]
      i == Head(h.rest)
  IN
  /\ ~Idle("apply") /\ h.saved
  /\ IF i = 0 \/ i \notin Live \/ ses[i].closed
     THEN UNCHANGED ses
     ELSE Put(i, [ses[i] EXCEPT !.server = IF ses[i].role = "d" THEN DServer ELSE agentB,
                                !.tools = IF ses[i].policy = "active"
                                          THEN DTools(ses[i].role, toolset) \cap PolicyTools
                                          ELSE DTools(ses[i].role, toolset)])
  /\ IF i = 0 \/ ("fault" \in menu /\ i \in Live /\ agentB \notin ready)
     THEN Done("apply") /\ lock' = <<>>
     ELSE hand' = [hand EXCEPT !["apply"].rest = Tail(@)] /\ UNCHANGED lock
  /\ UNCHANGED <<nextId, act, que, agentB, toolset, ready, change, menu, wanted, stale>>

\* A probe finds the other server usable or not.
Probed(p) ==
  /\ "fault" \in menu /\ p # BServer
  /\ ready' = IF p \in ready THEN ready \ {p} ELSE ready \cup {p}
  /\ UNCHANGED <<ses, nextId, lock, act, que, agentB, toolset, change, menu, wanted>> /\ Unread

SessionsInit ==
  /\ ses = [i \in SessionIds |-> Absent] /\ nextId = 2
  /\ lock = <<>> /\ act = {} /\ que = <<>>
  /\ agentB = BServer /\ toolset = {"shell", "edit"} /\ ready = Servers \cup {DServer}
  /\ change = "none" /\ hand = [h \in Handlers |-> Free]
  /\ menu \in Menus /\ wanted = "none" /\ stale = {}

SessionsNext ==
  \/ \E i \in SessionIds :
       CreateLike(i) \/ Close(i) \/ Reopen(i) \/ DeleteChecks(i) \/ Rename(i) \/ DropLast(i)
       \/ ResetChecks(i) \/ LabelReads(i) \/ SetAgentChecks(i) \/ Policy(i) \/ SubmitBegins(i)
       \/ SubmitEnds(i) \/ StopRun(i) \/ TurnApplies(i) \/ FinishRun(i)
  \/ \E p \in Servers : AskServer(p) \/ Probed(p)
  \/ Create \/ Reboot \/ DeleteEnds \/ ResetEnds \/ LabelWrites \/ SetAgentBinds \/ ToggleTool
  \/ TryAgentIdle \/ CancelServer \/ ApplySaves \/ ApplyBinds

SessionsSpec == SessionsInit /\ [][SessionsNext]_sesVars

----------------------------------------------------------------------------
(* Properties.                                                             *)

\* A closed or deleted session has no run, no queued run and no submission under way
\* (session.go Close and BeginSubmission against scheduler.go SubmitAttachments), unless a
\* handler that had read the session before wrote over its status or deleted it reopened.
ClosedIsQuiet ==
  \A i \in SessionIds \ stale :
    (ses[i].closed \/ ~ses[i].live) => i \notin act /\ i \notin Range(que) /\ lock # <<i>>

\* The operator's server change is not lost: the last server asked for and not cancelled is
\* the agent's, or pending, or being applied (agent_server.go).  A request for the server in
\* use that meets a change being applied is answered wrongly, and says nothing.
ChangeKept == wanted # "none" => wanted \in {agentB, change, hand["apply"].to}

\* session.go, registry.go, agent_server.go: however the handlers of one session interleave,
\* closing and deleting leave no work behind, and a server change is applied, kept or cancelled.
SessionsKept == ClosedIsQuiet /\ ChangeKept

=============================================================================
