------------------------------- MODULE Memory -------------------------------
(***************************************************************************)
(* Notes that outlive a session (memory/memory.go, tools/remember.go):     *)
(* one file for the folder and one for the agent, appended to by the       *)
(* sessions' remember tool, loaded into a session's prompt when it is      *)
(* created, reset or moved to another agent, cleared by the operator, and  *)
(* pruned of a session's own notes when that session is deleted.  The      *)
(* manager locks writes of its files; loading takes no lock, and only      *)
(* Registry.create loads under Registry.mu.                                *)
(*                                                                         *)
(* A note is a text with a number of its own, so that a text noted again   *)
(* after it was cleared is told from the first.  The numbers count down:   *)
(* lines are appended and taken out, never moved, so the order of a file's *)
(* lines is that of their numbers and a file is the set of its notes.      *)
(* Texts that differ in case only are one note to the duplicate check and  *)
(* two to the pruning.                                                     *)
(***************************************************************************)
EXTENDS Naturals, Sequences, FiniteSets

CONSTANTS Rememberers,     \* the sessions, all of one folder and one agent
          BlockNotes,      \* notes that fit memory.max_tokens
          MemoryBudgets    \* bounds: notes appended, operator requests (flush, clear, delete,
                           \*   move, reset), restarts, and the stores and texts noted

Stores == {"folder", "agent"}
Texts == {"a", "A", "b"}
Fold(t) == IF t = "A" THEN "a" ELSE t

ASSUME MemoryAssumption ==
  MemoryBudgets \subseteq [notes : Nat, asks : Nat, boots : Nat, stores : SUBSET Stores, texts : SUBSET Texts]

VARIABLES
  noteFile,     \* per store: the lines of its file
  prompt,       \* per session and store: the notes in MemoryBlock / AgentMemoryBlock
  journaled,    \* per session and store: the block a restart will restore
  alive,        \* sessions in the registry
  loading,      \* per session: the load under way
  noting,       \* per session: the appended note whose memory.noted is still to come
  wrote,        \* per session: stores and texts of its memory.noted events
  flushing,     \* the flush or clear request: what it has still to do
  accepted,     \* numbers of the notes that were published (history)
  removedNotes, \* numbers of the notes the operator had removed (history)
  taken,        \* numbers removed by the flush or clear under way (history)
  forgotten,    \* numbers removed by a flush or clear that has answered (history)
  excused,      \* sessions that loaded without a lock, or were restored, around a flush (history)
  memSteps      \* what is left of the chosen budget

memoryVars == <<noteFile, prompt, journaled, alive, loading, noting, wrote, flushing, accepted,
                removedNotes, taken, forgotten, excused, memSteps>>

Empty == [p \in Stores |-> {}]
NotLoading == [kind |-> "none", blocks |-> Empty]
NotNoting == [store |-> "none", text |-> "a", n |-> 0]

MemoryInit ==
  /\ noteFile = Empty
  /\ prompt = [s \in Rememberers |-> Empty] /\ journaled = [s \in Rememberers |-> Empty]
  /\ alive = {}
  /\ loading = [s \in Rememberers |-> NotLoading]
  /\ noting = [s \in Rememberers |-> NotNoting]
  /\ wrote = [s \in Rememberers |-> {}]
  /\ flushing = << >>
  /\ accepted = {} /\ removedNotes = {} /\ taken = {} /\ forgotten = {} /\ excused = {}
  /\ memSteps \in MemoryBudgets

AskedOf == memSteps.asks > 0 /\ memSteps' = [memSteps EXCEPT !.asks = @ - 1]
Numbers(p) == {x.n : x \in noteFile[p]}

-----------------------------------------------------------------------------
(* Remembering                                                              *)

\* The duplicate check ignores case.
Noted(p, t) == \E x \in noteFile[p] : Fold(x.text) = Fold(t)

\* notePath under Manager.mu: a note that is there already is left alone
\* ("already noted"), a new one is appended; the event follows outside the lock.
NotePath(s, p, t) ==
  /\ s \in alive /\ noting[s] = NotNoting /\ memSteps.notes > 0
  /\ ~Noted(p, t)
  /\ memSteps' = [memSteps EXCEPT !.notes = @ - 1]
  /\ LET x == [text |-> t, n |-> memSteps.notes] IN
       /\ noteFile' = [noteFile EXCEPT ![p] = @ \cup {x}]
       /\ noting' = [noting EXCEPT ![s] = [store |-> p, text |-> t, n |-> x.n]]
  /\ UNCHANGED <<taken, prompt, journaled, alive, loading, wrote, flushing, accepted, removedNotes, forgotten, excused>>

\* Remember.Call publishes memory.noted and answers ok.
RememberAnswers(s) ==
  LET x == noting[s] IN
  /\ x # NotNoting
  /\ wrote' = [wrote EXCEPT ![s] = @ \cup {<<x.store, x.text>>}]
  /\ accepted' = accepted \cup {x.n}
  /\ noting' = [noting EXCEPT ![s] = NotNoting]
  /\ UNCHANGED <<taken, noteFile, prompt, journaled, alive, loading, flushing, removedNotes, forgotten, excused, memSteps>>

-----------------------------------------------------------------------------
(* Loading                                                                  *)

\* load: the newest notes that fit the budget.
Block(p) == {x \in noteFile[p] : Cardinality({y \in noteFile[p] : y.n < x.n}) < BlockNotes}

\* Mutant of RegistryIdle: the registry is listed without its lock.
RegistryIdleAlways == TRUE

\* Registry.List and Registry.create take Registry.mu.
RegistryIdle == \A s \in Rememberers : loading[s].kind # "create"

Starts(s, kind) ==
  /\ loading[s].kind = "none"
  /\ loading' = [loading EXCEPT ![s] = [kind |-> kind, blocks |-> [Empty EXCEPT !["folder"] = Block("folder")]]]
  /\ UNCHANGED <<taken, noteFile, prompt, journaled, alive, noting, wrote, flushing, accepted, removedNotes,
                 forgotten, excused>>

\* create, with Registry.mu held to the end; SetAgent and ApplyAgentBinding,
\* with nothing held; each loads the folder's notes first.
CreateLoads(s) == s \notin alive /\ RegistryIdle /\ Starts(s, "create") /\ UNCHANGED memSteps

MoveLoads(s) == s \in alive /\ AskedOf /\ Starts(s, "move")

\* The agent's notes are loaded next and both blocks are set; the journal gets
\* both from session.created, and only the folder's from SetAgent's session.updated.
LoadEnds(s) ==
  LET blocks == [loading[s].blocks EXCEPT !["agent"] = Block("agent")] IN
  /\ loading[s].kind # "none"
  /\ prompt' = [prompt EXCEPT ![s] = blocks]
  /\ journaled' = [journaled EXCEPT ![s] = IF loading[s].kind = "create" THEN blocks
                                           ELSE [@ EXCEPT !["folder"] = blocks["folder"]]]
  /\ alive' = alive \cup {s}
  /\ loading' = [loading EXCEPT ![s] = NotLoading]
  /\ UNCHANGED <<taken, noteFile, noting, wrote, flushing, accepted, removedNotes, forgotten, excused, memSteps>>

\* Registry.Reset loads both while it holds the session's lock, which the
\* clearing of blocks waits for: one step.  The journal keeps the old blocks.
ResetLoads(s) ==
  /\ s \in alive /\ loading[s].kind = "none" /\ AskedOf
  /\ prompt' = [prompt EXCEPT ![s] = [p \in Stores |-> Block(p)]]
  /\ excused' = excused \ {s}
  /\ UNCHANGED <<taken, noteFile, journaled, alive, loading, noting, wrote, flushing, accepted, removedNotes, forgotten>>

-----------------------------------------------------------------------------
(* Clearing                                                                 *)

\* A flush removes both files and then empties the blocks of the agent's and of
\* the folder's sessions; memory-clear does the folder's half and journals it.
FlushSteps == << <<"file", "agent">>, <<"file", "folder">>, <<"blocks", "agent">>, <<"blocks", "folder">> >>
ClearSteps == << <<"file", "folder">>, <<"blocks", "folder">>, <<"journal", "folder">> >>

FlushAsked ==
  /\ flushing = << >> /\ AskedOf
  /\ flushing' \in {FlushSteps, ClearSteps} /\ taken' = {}
  /\ UNCHANGED <<noteFile, prompt, journaled, alive, loading, noting, wrote, accepted, removedNotes, forgotten, excused>>

\* clearPath under Manager.mu.
ClearPath ==
  LET p == Head(flushing)[2] IN
  /\ flushing # << >> /\ Head(flushing)[1] = "file"
  /\ noteFile' = [noteFile EXCEPT ![p] = {}]
  /\ removedNotes' = removedNotes \cup Numbers(p) /\ taken' = taken \cup Numbers(p)
  /\ flushing' = Tail(flushing)
  /\ excused' = excused \cup {s \in Rememberers : loading[s].kind = "move"}
  /\ UNCHANGED <<prompt, journaled, alive, loading, noting, wrote, accepted, forgotten, memSteps>>

\* A file that cannot be removed ends the request.
ClearPathFails ==
  /\ flushing # << >> /\ Head(flushing)[1] = "file"
  /\ flushing' = << >>
  /\ UNCHANGED <<taken, noteFile, prompt, journaled, alive, loading, noting, wrote, accepted, removedNotes,
                 forgotten, excused, memSteps>>

\* ClearAgentMemory and ClearWorkspaceMemory over Registry.List; after the last
\* of them the operator is answered.
ClearBlocks ==
  LET p == Head(flushing)[2] IN
  /\ flushing # << >> /\ Head(flushing)[1] = "blocks"
  /\ RegistryIdle
  /\ prompt' = [s \in Rememberers |-> IF s \in alive THEN [prompt[s] EXCEPT ![p] = {}] ELSE prompt[s]]
  /\ flushing' = Tail(flushing)
  /\ forgotten' = IF Len(flushing) = 1 THEN forgotten \cup taken ELSE forgotten
  /\ excused' = excused \cup {s \in Rememberers : loading[s].kind = "move"}
  /\ UNCHANGED <<taken, noteFile, journaled, alive, loading, noting, wrote, accepted, removedNotes, memSteps>>

\* memory.cleared, one per session of the folder.
ClearJournaled ==
  /\ flushing # << >> /\ Head(flushing)[1] = "journal"
  /\ RegistryIdle
  /\ journaled' = [s \in Rememberers |-> IF s \in alive THEN [journaled[s] EXCEPT !["folder"] = {}] ELSE journaled[s]]
  /\ flushing' = << >> /\ forgotten' = forgotten \cup taken
  /\ UNCHANGED <<taken, noteFile, prompt, alive, loading, noting, wrote, accepted, removedNotes, excused, memSteps>>

\* DropSessionWrites compares the exact text, whoever wrote the line.
Pruned(s, p, x) == <<p, x.text>> \in wrote[s]

\* DELETE with drop_memory: the session's journal is read for its notes and gone,
\* the lines with the text of one of them are taken out under Manager.mu.
DropSessionWrites(s) ==
  LET theirs(p) == {x \in noteFile[p] : Pruned(s, p, x)} IN
  /\ s \in alive /\ loading[s].kind = "none" /\ noting[s] = NotNoting /\ AskedOf
  /\ alive' = alive \ {s}
  /\ noteFile' = [p \in Stores |-> noteFile[p] \ theirs(p)]
  /\ removedNotes' = removedNotes \cup {x.n : x \in UNION {theirs(p) : p \in Stores}}
  /\ wrote' = [wrote EXCEPT ![s] = {}]
  /\ prompt' = [prompt EXCEPT ![s] = Empty] /\ journaled' = [journaled EXCEPT ![s] = Empty]
  /\ excused' = excused \ {s}
  /\ UNCHANGED <<taken, loading, noting, flushing, accepted, forgotten>>

\* A restart restores the journaled blocks and loses requests under way.
RebootMemory ==
  /\ memSteps.boots > 0
  /\ memSteps' = [memSteps EXCEPT !.boots = @ - 1]
  /\ prompt' = journaled
  /\ loading' = [s \in Rememberers |-> NotLoading]
  /\ noting' = [s \in Rememberers |-> NotNoting]
  /\ flushing' = << >>
  /\ excused' = alive
  /\ UNCHANGED <<taken, noteFile, journaled, alive, wrote, accepted, removedNotes, forgotten>>

MemoryNext ==
  \/ \E s \in Rememberers :
       \/ \E p \in memSteps.stores, t \in memSteps.texts : NotePath(s, p, t)
       \/ RememberAnswers(s) \/ CreateLoads(s) \/ MoveLoads(s) \/ LoadEnds(s) \/ ResetLoads(s)
       \/ DropSessionWrites(s)
  \/ FlushAsked \/ ClearPath \/ ClearPathFails \/ ClearBlocks \/ ClearJournaled \/ RebootMemory

MemorySpec == MemoryInit /\ [][MemoryNext]_memoryVars

-----------------------------------------------------------------------------
(* Properties                                                               *)

\* Once a flush or clear has answered, no session's prompt carries a note it
\* removed, also not a session that was being created meanwhile.  Outside this:
\* a session moving to another agent loads without a lock, and a restart brings
\* a flushed block back, because no event of a session records the flush.
FlushedForgotten ==
  \A s \in alive \ excused, p \in Stores : \A x \in prompt[s][p] : x.n \notin forgotten

\* A note that remember acknowledged stays in its file until the operator clears
\* the file or deletes, with its notes, a session that noted the same text.
NotesKept == accepted \subseteq removedNotes \cup UNION {Numbers(p) : p \in Stores}

\* Memory keeps what was noted and forgets what was flushed.
MemoryKept == FlushedForgotten /\ NotesKept

=============================================================================
