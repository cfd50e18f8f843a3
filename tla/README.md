# A TLA+ model of Agent_b

Agent_b is a local web application that runs language-model agents: it keeps
chats ("sessions"), runs a tool-calling loop for each of them, asks the operator
for approvals, and projects its event log to the browser. This project models
the parts of it whose correctness depends on interleavings, and checks and
proves what can be said about them. The **run scheduler**, the **approval
gate**, the **turn loop** with transcript and projector, and the **event path**
from bus to browser have a module and a run each; fourteen smaller parts have
modules of their own and share a run. The scheduler, the gate, the event path and
nine of the smaller parts are proved about for every value of their constants. The
section *Not modelled* says what is left
out and why.

## Inventory

All paths are under `src/internal/` unless they say otherwise.

| Part | State | Operations | What is hard |
| --- | --- | --- | --- |
| Run scheduler (`agent/scheduler.go`) | `active`, `queue`, `pending`, `held`, `unreachable`, run-id counter; one mutex | Submit, Stop, finish, forceFinish, HoldModel, ReleaseModel, TryAgentIdle | runs return late or never; the 2 s bound of Stop races the run; messages move between three places |
| Session (`session/session.go`, `registry.go`) | run state, closed flag, submission count, messages, tools, counters | Close, Reopen, Reset, Delete, SetAgent, SetRun | checks and effects under different locks; the run state is read, changed and written back by several goroutines |
| Turn loop (`agent/run.go`) | turn, tool budget, wall clock | one turn: model request, tool calls, gate, guards, compaction | cancellation at every point; eighteen stop reasons |
| Approval gate and grants (`agent/gate.go`, `shell_grant.go`, `file_grant.go`) | waits by call, one per session; run and session grants | Wait, Decide, supersede, dismiss, grant, lapse | a decision races a cancellation or a newer wait |
| Abort records (`agent/abort.go`) | flight book | begin, stage, end, record | the run and the forced stop both record |
| Guards, detectors (`agent/guards.go`, `progress/`) | tool-call history | cycle, error and stall detection | pure, boundary values |
| Event bus, log, projection (`events/`, `projection/`) | sequence, subscribers, tape and journal files, cursors, snapshots | Publish, Subscribe, WriteRecord, Rotate, Delete, Apply, Snapshot | order is taken under one lock and used outside it; partial writes; slow subscribers |
| Reachability (`web/reachability.go`, `server_profiles.go`) | retry timer and attempt per profile, probe in progress | schedule, fire, complete, clear, release | the release of held sessions depends on a chain of steps that may fail |
| Agent binding (`web/agent_server.go`) | pending server change per agent | set, cancel, apply when idle, restore | two-step check, partial failure |
| Operator context (`web/operator_context.go`) | epoch, timer, enabled | set, touch, expire | a late timer |
| Operator files (`operatorfiles/manager.go`) | INBOX, OUTBOX, STATE, PLAN and instruction files | CheckInbox, adopt, export, retention | act, then clear: a failure in between repeats the action; the operator edits the same files |
| Transcript and compaction (`context/compact.go`, `agent/truncation.go`) | messages with ids, sizes, calls | append, elide, summarise, drop, repair, settle | copy, publish, put back; several writers; ids start again after a restart |
| Plans (`session/plans.go`, `web/plan.go`) | plan folders, proposals, one write flag per session | register, propose, accept | two tabs and the model use one flag |
| Notifications (`notifications/manager.go`) | subscription, job queue, webhook | forward, deliver, retry, reconfigure | a full buffer ends the subscription |
| Memory (`memory/memory.go`) | note files, blocks in prompts | remember, load, flush, prune | loads without a lock race a flush |
| Workspace policy and coordination (`workspace/manager.go`, `session/workspace.go`, `tools/*_file.go`) | approved hashes; last writer and last seen times | approve, revoke; read, write, edit | check and use are apart; the files change under them |
| Configuration (`config/`, `web/server_profiles.go`) | harness.json, credential store | load, migrate, save, patch; delete, probe, bind, toggle | two stores written one after the other, in place; keys stored before a later profile fails; changes in memory that are not saved |
| Statistics, detectors (`stats/`, `progress/`) | counts and run states fed by the bus | record, save, load, clear; observe, judge | identity and state read later than the event; a file that cannot be read counts as none |
| Tools, model client, attachments, host set-up, web plumbing, user interface | see `components` in PROJECT.json | | I/O |

How they interact: the web handlers call the scheduler; the scheduler starts one
goroutine per run, which calls the model client, the tools and the gate and ends
in `finish`; everybody publishes to the bus, whose sink writes the log and whose
log feeds the projection. A failed model request calls `HoldModel` and schedules
a reachability probe; a successful probe calls `ReleaseModel`. When an agent's
last run ends the scheduler calls back into the binding code.

What can go wrong in each part is the `hazards` list of PROJECT.json: each entry
names the line where it bites, the property that covers it and, where the code
keeps a promise with an exception, the exception.

## Modules

| Module | Role |
| --- | --- |
| `Scheduler` | the scheduler, the session status, and the status writes of a run; its properties |
| `MCScheduler` | the functions TLC's configurations give to `ServerOf` and `MaxSent` |
| `SchedulerProofs` | types, run ledger, message ledger, slots and holds, for every value of the constants |
| `Gate` | the approval gate, the HTTP answer, the inbox, and the scheduler as far as the gate sees it; its properties |
| `MCGate` | two runs of one session for TLC |
| `GateProofs` | types, one decision per approval, log order, registrations and operator mode, for every value of the constants |
| `EventLog`, `MCEventLog` | bus, log files, projection store, browsers; crash and restart |
| `Feed` | what the event path promises; `EventLog` is checked, and proved, to implement it |
| `EventLogProofs` | the journal follows the tape, what was shown is durable and survives, the next start reads the journal, `Feed` is implemented; projection and browser show the log |
| `Projector` | the projector and its chat diff as operators on a snapshot |
| `Turn`, `MCTurn` | runs of one session, transcript, compaction, abort records, composed with `Projector` |
| `TurnProofs` | ceilings, abort records, settled chats and answered calls of `Turn`, for every value of the constants |
| `Sessions` | registry, session handlers, server change of an agent |
| `Reach` | held sessions, retry timers, probes, release |
| `OperatorFiles` | the mailbox, and the adoption of instruction files |
| `Notices` | notifications |
| `Settings` | configuration, migrations, credentials |
| `Transcript` | one chat by message id: session, projection, history index, export |
| `Grants` | identity of tool calls: grants, operator context, configuration of the tools |
| `Files` | the file tools of several sessions on one folder |
| `RepoPolicy` | approval of a folder's policy.json |
| `Memory` | notes across sessions |
| `Plans` | plan folders, proposals, the accept gate |
| `Stats`, `Progress` | the two bookkeepers of the bus: token ledger and detectors |
| `PermissionProofs` | `RepoPolicy`, `Grants` and `Settings`, for every value of the constants |
| `DeliveryProofs` | `Notices`, `OperatorFiles` and `Reach`, the same |
| `StoreProofs` | `Files`, `Plans` and `Memory`, the same |
| `SessionProofs` | `Sessions` and `Transcript`, the same |
| `MCParts` | the thirteen modules from `Sessions` to `Progress` for TLC: a behaviour picks one part and takes its steps only |

### Scheduler

State and code. `active`, `queue`, `pending`, `held`, `unreachable`, `ids` are the
fields of `Scheduler`; `status` and `closed` are `Session.Run.Status` and
`Session.Closed`. `live` is the set of run goroutines that have not returned from
`finish`; `stopReason` and `stopWaits` are `activeRun.stopReason` and the waits of
`Stop` calls that have not ended. `views` and `gate` are runs in the middle of a
call that writes the status without the scheduler's lock. `deleting` and `gone` are
the sessions whose deletion has passed its checks and those that left the registry,
`blind` and `lost` the waits of a `Stop` that did not find a session. `unfilled` counts
the slots freed since the queue was last dispatched. Four variables record
history for the properties: `sent` (messages accepted), `delivered` (appended to
the chat), `dropped` (cut from the queue before dispatch), `stopped` and
`stoppedAgain` (published `run.stopped`).

Actions and code.

| Action | Code |
| --- | --- |
| `SubmitUnreachable`, `SubmitHeld`, `SubmitBusy`, `SubmitIdle` | the four branches of `SubmitAttachments`, in their order of precedence |
| `Finish`, `FinishLate` | `finish` of the run that owns the slot, and of one that does not |
| `Stop`, `StopReturns`, `ForceFinish` | the locked part of `Stop`, and the two ends of its wait |
| `HoldModel`, `ReleaseModel` | the same |
| `Close`, `Reopen` | the same, of the session |
| `DeleteChecks`, `DeleteEnds` | `Registry.Delete`: the checks, and the removal after the files |
| `BlindReturns`, `StopDies` | the wait of a `Stop` for a run whose session is gone, and its panic |
| `TurnReads`, `TurnWrites` | the read-modify-write of the run state at the top of a turn |
| `GatePauses`, `Decide`, `GateReturns` | `beginWait`, `DecideWith`, the end of `awaitDecision` |

Abstractions, each with its reason.

- The queue is a set of entries. Every append takes the next run id under the
  lock, so the order of the queue is the order of the ids, and the refill loop
  starts a prefix: the shortest one after which the queue is empty or no slot is
  free (`Dispatches`).
- A message is the number of its acceptance within its session; its text matters
  only to the duplicate check.
- Refused submissions (unknown or closed session, duplicate, full queue, failed
  attachment preparation) change nothing and are not steps.
- Waits of two `Stop` calls for the same run are one element of `stopWaits`: the
  second forced stop of a run finds another slot owner and does nothing.
- A wait at the gate may be dismissed at any time: Stop cancels the context, and so
  does the wall clock of the run.
- A run is in one of its status-writing calls at a time and does not call `finish`
  from inside one (`Free`).
- `ServerOf` and `MaxConcurrent` are constants: re-binding a session, the idle
  callback, Reset and the result label are in `Sessions`, which has the
  scheduler's lock, slots and queue and nothing else of it. Queue positions, stop
  details and counters are display data.
- A deletion looks at the closed flag and the status of the session, which a run may
  have written over, and lets go of the lock while the files are removed. So a run can
  lose its session. `forceFinish` then frees its slot and nothing else
  (`scheduler.go:375`); a `Stop` that does not find the session leaves its status alone,
  and dereferences it when the two seconds are over (`abort.go`, `recordAbort`). In a
  request handler that panic ends the call and the waits it had not reached (`lost`); in
  the mailbox's `Stop` it would end the process, which is left out. A request that found
  the session before may still submit, close or reopen. A new "main" session under the id
  of a deleted one is left out.

### Gate

State and code. A wait is `<<run, n>>`, the n-th approval of a run, and stands for
one `approvalWait`: `callOf`, `kindOf`, `decided` and `signal` are its call id, its
scope kind, its `decided` flag and what was sent on its channel. `waiting` holds the
waits that are values of `Gate.waiting` (their keys are their session and call id),
`pending` is `Gate.pendingBySession`. `sequence` is the holder of `sequenceMu`;
`telling` is the local variable `superseded` of that holder. `operatorContext` is
the process-global operator mode, `inbox` the content of `INBOX.md`. `asked`,
`answer` and `answeredAgain` record the published `approval.required` and
`approval.decided` events, `notes` the inbox notes that reached a chat. `pc` says
where a run is: outside the gate (`free`), in a begin (`begun`), in `awaitDecision`
(`await`), between setting `decided` and publishing "dismissed" (`dismiss`), at the
deferred cleanup (`cleanup`), inside its own call of `Stop` (`stopping`).

| Action | Code |
| --- | --- |
| `BeginWait`, `TellSuperseded`, `PublishRequired` | the three parts of the section under `sequenceMu` in the `Wait…Decision` functions: `beginWait` under `mu`; the event and signal of the superseded wait; status and `approval.required` |
| `Receive`, `GiveUp`, `Dismiss`, `Cleanup` | `awaitDecision`: the decision (also on the cancelled branch), the cancelled branch under `mu`, its event, the deferred cleanup |
| `Approve` | the HTTP handler and `DecideWith` |
| `MailboxNote`, `MailboxAnswer`, `MailboxStop`, `MailboxStopped` | the 500 ms tick of `awaitDecision`, `CheckInbox` and the callback of `cmd/harness/main.go` |
| `Boundary` | `applyMailboxBoundary` at the start of a run and of a turn |
| `Start`, `Finish`, `Stop`, `StopReturns`, `ForceFinish`, `WallClock` | what the gate sees of the scheduler and of the run's wall clock; `Scheduler` has the whole of it |
| `WriteInbox` | the operator (external) |

Abstractions, each with its reason.

- `mu` is held for the length of one action; no action holds it across a publish,
  as in the code.
- The three `Wait…Decision` functions differ in the scope kind and in the text of
  the event only. `approvalNoScopes` is never passed to `beginWait`.
- The scheduler is reduced to one slot per session and no queue: a session's next
  run starts when its slot is free and its status is idle. A stopped run that does
  not yield loses its slot and stays alive, which is how two runs of one session
  come to be at the gate.
- The read-modify-write of the session status is one step here; `Scheduler` splits
  the one of the turn and checks what it does to the status.
- `STOP`, answers and notes are the kinds of inbox text; a revision is a note. TASK
  and DELAY, failing file operations and the size limit are in `OperatorFiles`.
- A refused decision changes nothing. `Approve` takes any registered wait, decided
  or not; an unknown key is refused and not a step.
- `DistinctIds`: two runs of a session do not use the same call id. Ids are chosen
  by the model server and nothing in the gate enforces this; without it a wait that
  reuses the pending id replaces it and wakes nobody. A run may reuse its own id,
  and `Gate_safety` has it do so.

### EventLog and Feed

State and code. `seq` and `subs` are the fields of `Bus`; `pub` is where each
publishing goroutine is in `publish`; `tape`, `journal`, `chat` and `gone` are the
session's log generations, its retained journal and what retention deleted; `size` is
what the writers believe of the last file, `torn` where half a line is on a tape, and
`partial` says that an append failed after its record was in a file; `store` and `source` are the projection
store's state and last durable cursor. A browser has a bus channel, a patch channel
and a copy. A record is its sequence number; records have different lengths
(`RecordLen`), so an offset that is not advanced shows.

| Action | Code |
| --- | --- |
| `Publish`, `Appended`, `Notify`, `Send` | `Bus.publish`: number and list under the lock; `WriteRecord`; `Store.Apply`; one send per subscriber, closing a full one |
| `AppendTapeFails`, `AppendJournalFails`, `AppendSyncFails`, `NotifyFailed`, `PublishError` | the error paths of `WriteRecord`: nothing or half a line of the tape or of the journal written, or both written and not synced; the stale mark and the error event |
| `Rotate`, `PublishReset` | `RotateSession` and the later `session.reset` |
| `Connect`, `SubscribeSnapshot`, `TakePatch`, `ServeState`, `TakeState`, `TakeRaw`, `Hangup` | the projection stream of `server_state.go` and `bus.js` |
| `ApplyRetention`, `Crash`, `Restart` | retention of old logs; the process, with an append cut short, and its restore |

A send on a channel that another publisher has just closed panics in the code and ends
the process; here it ends the behaviour (`panicked`).

A write that fails or is short may leave half a line on the tape (`jsonl.go:327`). The next
append continues that line, so it becomes one line that is no JSON, and no reader of the tape
gets past it (`read` in `projection/file.go`; `Torn`, `Behind`, `Boundary`). Whatever is
appended behind it is then in the journal only. A line that lacks nothing but its newline is
treated as half a line too, which is the same to the next append.

`ReadFile` up to an offset is `Prefix`: the records of a generation as far as the
last one that ends within it. `Carried` folds every generation after its predecessor;
it is a recursive function over the generations, because an operator declared
RECURSIVE cannot be reasoned about here. `Logged` and `Before` say which records the
tapes have and in which order; `JournalIsTape` is stated with them. The record of a
publisher or a browser is updated as `[pub[p] EXCEPT ...]` where a field depends on
its old value: the prover expands an `@` inside `[@ EXCEPT ...]` wrongly.

`Feed` is the abstract specification: a log of generations that grows at its end by
records it does not have, or by an empty generation, and browsers that show records of
the log. The refinement maps each generation of the tape to its record numbers and a
browser's copy to the set of its records. It needs none of the exceptions of `LiveIsReplay`: whatever is
reordered or fails, nothing is shown that was not written whole to the tape. Behind half a line
that is not enough to read it again; there `JournalIsTape` says that the journal has it.

### Projector and Turn

`Projector` has `Next` of `projector.go` as `NextSnapshot`, one operator per group of
events, and `diffChat` with the browser's counterpart (`DiffChat`, `ApplyChat`).

`Turn` has the runs of one session. `msgs` is `Session.Messages`, `proj` the projected
snapshot, `w` what each writer still has to publish and put back: a goroutine
publishes one event per step, and compaction replaces the transcript at the end.
`run` is the local state of `Runner.Run`. The rest is the slot, the queue, the flight
book and Stop with its timer.

| Action | Code |
| --- | --- |
| `Boundary`, `Assemble`, `FitElides`, `FitSummarizes` | the top of a turn and the fitting of a request |
| `Answer`, `Truncated`, `Calls`, `Text`, `Fails`, `Unreachable` | the outcomes of a request |
| `ToolStarts`, `ToolReturns`, `AppendNext`, `Observe`, `CycleDecided` | a tool batch, its append, the guards |
| `Compact`, `ElideOld`, `Summarize`, `Repair`, `Settle` | `Compactor`, `truncation.go`, an accepted plan |
| `Start`, `Begin`, `Finish`, `Stop`, `StopReturns`, `StopTimeout`, `ForceFinish`, `EndFlight`, `Wall` | scheduler, abort records and wall clock as far as the transcript sees them |
| `Publish`, `Install` | one event of a writer; `ReplaceMessages` |
| `Restart` | a new process that restores the projected chat |

A message has a size, 1 once elided; a call is the kind of its tool; the thresholds of
the budget are numbers of the same unit. Texts are left out.

### The parts

Each of these modules has its own state and shares none with the others. A check that
lets go of its lock before it acts is two actions, a request that writes two files is
two or more, each file operation may fail, and where the code restores something the
process may stop.

- `Sessions`. `hand` keeps what a handler read before it writes: `DeleteChecks` and
  `DeleteEnds`, `ResetChecks` and `ResetEnds`, `LabelReads` and `LabelWrites`,
  `SetAgentChecks` and `SetAgentBinds`, `ApplySaves` and `ApplyBinds`. `lock` is the
  scheduler's mutex, held across a submission and across the applying of a change.
- `Reach`. A timer has the retry object it was armed for and may have fired already;
  a probe goes through its questions, the saving of what it found, and the release.
  `lost` has the sessions nobody will release, and why is in *Findings and exceptions*.
- `OperatorFiles`. `CheckReads`, `CheckClears`, `ClearFails` against `WriteMail`; per
  adopting request read, create, write, remove, with `EditSource` and `AdoptCrash`.
- `Notices`. The forwarding and the delivering goroutine, the webhook and its
  cancellation, the retry, an eviction.
- `Settings`. The migrations are operators on a document (`MigrateAgentObjects` and
  four more), then `ApplyDefaults`, `Validate`, `Resolved`; saving is a truncation and
  a write. The credentials are resolved profile by profile: one that is not stored, or a
  store that fails, ends the request when the keys of the profiles before it are stored
  already (`ResolveFails`). `DeleteServer`, `ServerProbed` and `ToggleAgentTool` change the
  running configuration and then save it, and leave the change when Save fails; `BindAgent`
  takes it back. These four stand also for the saves of the same two shapes whose fields are
  not in the document (signing, service account, local network). `apart` and `ahead` say that
  the store, or the file, is no longer what the process runs with. `Persisted`
  is what reaches the file: keys are replaced by references. `Formed` says which values a
  document can have (the fields of the JSON structure); documents and patches are constants of
  that form.
- `Transcript`. `uid` tells two messages of one id apart; `orphaned` keeps, for a
  property, what a summary stood for when the operator removed it. `RepairToolCall` removes
  any messages but the first and the summaries, by id: the roles by which the code picks an
  answer and its results are not in this module (`Repair` of `Turn` has them).
  `ExportMessages` and `Manifest` are the export and the lineage of summaries.
- `Grants`. One tool call at a time goes through `executeTool`; the four tables of chat
  grants lapse one after the other; the switch, its timer and another handler's
  configuration write interleave with it.
- `Files`. Check, read, rename and record of each tool are steps; times are a clock,
  contents version numbers.
- `RepoPolicy`. Card, answer, hash check, store and apply are steps, and so are
  inspection and creation of a session under the registry's lock.
- `Memory`. A file is the set of its notes: lines are only appended and filtered, so
  their order is that of their numbers. Load and install of the notes are steps for a move and under a lock for a
  creation; a flush goes file by file and session by session.
- `Plans`. Listing, allocation and binding of a plan folder are steps; so are begin,
  read, replace and end of an accept, with the model's call beside them.
- `Stats`, `Progress`. A bus buffer that can overflow, and the consumer behind it.
  A ledger file that a start cannot read counts as an empty one, and the next save replaces it;
  `behind` is then `"lost"`. A start hears of every chat it restores as of a new one
  (`StatRestore`) and counts it once more; no property is about the number of chats.
  `Progress` compares every verdict with `Deserved`, a definition over the whole tape
  of the run that keeps no state.

Four smaller simplifications. A `Turn` answer without calls that says it has some
(`run.go:398`) is not among the answers. `AskServer` of `Sessions` checks the agent and
records the request in one step (`agent_server.go:59` and `:72`), and `StartProbe` of `Reach`
cancels the timer and registers the probe in one step (`server_profiles.go:173`); the code has
two lock sections each, and what another request does between them is left out. In `Plans` a
listing fails as a whole; one plan.json that cannot be read, which makes that plan count as
without a repository (`plans.go:46`), is left out.

## Runs

Six runs pass; between them they take every action and every disjunct. The other six
show what INTERFACES.md or docs/OPERATOR-FILES.md says and the code does not do; each
is a `finding` of PROJECT.json.

| Run | Question | Instance |
| --- | --- | --- |
| `Scheduler_safety` | types, run ledger, message ledger, slots, holds | two sessions, one of them deletable, two texts, one slot, queue depth 1, three messages, one run inside a status-writing call; 948,096 states |
| `Scheduler_fair` | liveness, also when a session is deleted under its run | two sessions, the second deletable, one text, one slot, unbounded queue, four messages; 124,411 states |
| `Scheduler_order` | do messages start in order? | no: the status of a queued follow-up is lost, and a newer message overtakes it |
| `Scheduler_stranded` | has a waiting message something to wait for? | no: not after a forced stop |
| `Scheduler_overlap` | does a run start only after the last one ended? | no: a send to a held session overwrites the slot |
| `Scheduler_back` | is a session that no run owns usable again? | no: a detached run at the gate leaves it paused |
| `Gate_safety` | one decision per approval, logged after its request; one answerable approval per session; registrations; operator mode; does a woken run return? | one session, two runs with a shell and a cycle approval, two asks of the first and one of the second, one inbox write; 164,227 states |
| `Gate_note` | is a note that was read from the inbox in a chat? | no: not if it was read while an approval was waiting |
| `EventLog_safety` | do projection and browser show the log, does what was shown survive, does the journal follow the tape, does the next start read it, is `Feed` implemented? | two publishers, one browser with two connections, two events and a reset, buffers of one, one failing append, with or without half a line, or crash; 674,953 states up to symmetry of the publishers |
| `Turn_safety` | do transcript and projection agree, have calls results, one abort record, ceilings, a settled chat, faithful patches, does every run end? | eight scenarios (`Scenarios` of `MCTurn`): a stopped run, a failing server, long runs, an overlap of two runs, an accepted plan, a restart; three turns, three calls, a request limit of 12; 405,410 states |
| `Parts_safety` | twelve questions, below | fourteen parts, one per behaviour; 587,176 states |
| `Parts_drop` | does dropping the latest message remove exactly that one? | no: not after a restart |

The questions of `Parts_safety`:

| Property | Question |
| --- | --- |
| `SessionsKept` | is a closed or deleted session quiet (`ClosedIsQuiet`), and the operator's last server change in force, pending or being applied (`ChangeKept`)? |
| `RetryPending` | will somebody try the server of a held session again? |
| `OperatorFilesKept` | what became of a mail (`MailConserved`), and are the operator's latest instructions somewhere (`InstructionsKept`)? |
| `NoticeAccounted` | is every notable event delivered, reported as failed, on its way or given up for a reason, in order? |
| `SettingsKept` | would a restart load what the process runs with (`RestartSame`), and is every key in one of the two stores (`KeyKept`)? |
| `NothingForgotten` | is everything said, and not removed, in the export (`ExportComplete`), and found through summaries of summaries (`LineageWhole`) or through "latest" (`LatestWhole`)? |
| `GrantsHonoured` | was every call that is forced to the operator's identity allowed (`RunsAsTold`), and does the operator context end (`OperatorContextKept`)? |
| `NothingOverwrittenUnseen` | does a file tool replace what its session never saw? |
| `PolicyDecided` | is the enforced policy the one the operator decided for? |
| `MemoryKept` | is what was flushed out of every prompt (`FlushedForgotten`), and what was noted in its file (`NotesKept`)? |
| `PlansKept` | has a repository one plan (`OnePlan`), changed by the operator's leave only (`PlanGoverned`)? |
| `BookkeepersRight` | do ledgers add up and agree with their files (`StatsKept`), and is each verdict deserved (`VerdictsDeserved`)? |

Bounds. `MaxSent` bounds the messages of each session and with them the runs, as
every run is started for one message. Three messages of one session are enough
for one run that is stopped, one message under its hold and one that releases it
while the first run is still alive; a second session is enough to compete for the
slot. `MaxInCall` bounds how many runs are in the middle of a status-writing call;
those calls only change the status, and one at a time reaches each of the races of
a run with the scheduler. Two detached runs in such calls at once are beyond the
instance, not beyond the proofs. `CHECK_DEADLOCK` is off in every run: when all
messages are sent, all budgets are spent and all runs have returned the system is at
rest.

For the gate, `MaxAsks` bounds the approvals of each run and `MaxMail` the writes of
the inbox. Two asks of one run and one of another are enough for a wait that is
superseded by the other run, whose cleanup then runs beside a third wait. One shell
and one cycle approval reach every rule of `DecideWith` that tells two kinds apart
but the one for "run", which no property depends on. `AllowMail` is true; when it is
off, a mailbox answer is cleared like a note.

For the event path, two publishers reach every order of append, update and send;
`MaxConn` 2 lets a browser be evicted and come back; buffers of one are full at the
second event, as the buffers of 128 are at the 129th. In `Turn` the budgets are
spread over scenarios, because the product of all of them is out of reach: a scenario
has the events of one hazard and leaves the others out. The same holds for the budgets
of the parts (`MCMenus`, `MCGrantBudgets`, `MCMemoryBudgets` and so on); `ChatBudgets` has
long chats without a restart or repair, and shorter ones with them. Two sessions,
two writers, two tabs or two probes are what each race needs; windows and thresholds
of the detectors are two or three, so that one more and one less are reached.

Symmetry is used for the publishers of `EventLog_safety`, which no action and no
property tells apart; that run checks no liveness.

Fairness. `FairSpec` of the scheduler asks weak fairness of one thing, the wait of
`Stop`: it is a `select` on the run's end and on a two-second timer, so it ends.
Nothing is assumed of a run: it may hang in a model request or a tool for ever.
`QueuedRunStarts` says what follows if runs do return, and states that as its premise;
`StopFreesSlot` needs no such premise. The fairness of `Gate` adds the goroutine of a
run while it is inside the gate: there it only takes short locks, publishes, and reads
a buffered channel that is ready. Nothing is assumed of the operator, of the inbox or
of a run outside the gate, and the mailbox tick may come at any time or never. `Turn`
assumes that a goroutine whose next step needs nobody else takes it, that the wall
clock of a run fires, and that a cancelled request or tool returns; the model server
may stay silent for ever. `RunEnds` rests on exactly that.

## Findings and exceptions

Six findings are violations of a documented line (`findings`). Other properties hold
with an exception that their comment names, because the code has a window that no
document line speaks about:

- `LiveIsReplay`: updates of the projection in another order than the log, an event
  between a rotation and its `session.reset`, an append that failed half way or left half a
  line on the tape, a deleted predecessor file;
- `TranscriptAgrees`, `CallsAnswered`: two writers of one transcript; ids used again, which
  makes a repair after a restart remove the wrong message; a stop of the process between
  an answer and its results;
- `AbortOnce`: a run whose flight ended, or whose place in the flight book another run
  took, before Stop gave up on it (`abort.go:50`, `abort.go:194`);
- `NothingForgotten`: messages that the operator or the repair of a tool call
  (`truncation.go:67`) removed, and a chat whose ids are ambiguous after a restart;
- `LineageWhole`: a summary that the operator removed with "drop latest" is in no later
  summary's manifest (`registry.go:815`, `history.go:148`); its messages are `orphaned` and
  still found through the ref "latest" (`LatestWhole`);
- `Anchored` of `EventLog`, a premise of `LiveIsReplay`: two resets, the first of which
  never wrote its `session.reset`, make the second name a predecessor without records,
  and so none (`registry.go:774`, `file.go:59`);
- `ClosedIsQuiet`: a handler that had read the session earlier; `ChangeKept`: a request
  for the server in use while a change is being applied;
- `SlotsFull`, `QueuedRunStarts`: a slot taken from a run of a deleted session is not
  refilled before the next run ends (`scheduler.go:375`); `StopFreesSlot`: the waits of a
  `Stop` call that panics on a deleted session (`scheduler.go:360`). The one slot of
  `Scheduler_fair` does not bring two runs under one call, so that run shows
  `StopFreesSlot` without its exception;
- `RetryPending`: a session marked after its release, a release cut off by a failed
  save, a rebound session;
- `MailConserved`: a task is repeated once per failed clear; a clear races the editor;
- `RestartSame`: a request that stored a key and then failed at a later profile
  (`config.go:571`) or in Save; profiles that share a credential; a profile deleted or probed,
  or a tool toggled, in the running configuration when Save refuses or fails
  (`server_profiles.go:139`, `server_profiles.go:202`, `server_actions.go:168`); a file that
  was truncated and not written. Each lasts until a change is saved;
- `StatsKept`: a ledger file that a start could not read (`ledger.go:91`), whose counts the
  next save replaces; a save that failed;
- `RunsAsTold`, `OperatorContextKept`: a chat answer written down after a revocation; a
  configuration snapshot older than the last change;
- `NothingOverwrittenUnseen`: overlapping calls, a read stamped late, a namesake in a
  plan's repository;
- `FlushedForgotten`: a move loads without a lock, a restart brings a block back;
- `PlanGoverned`: a call let in before the page opened, or during an accept.

Hazards the list leaves to this section, as no property is about them: the pending list
of an unreachable session has no bound (`scheduler.go:96`); INBOX.md is shared by all
sessions (`manager.go:144`); call ids come from the model server (`gate.go:141`, see
`DistinctIds`); two concurrent saves of the webhook may store one and use the other
(`web/notifications.go:56`); a session of a removed agent makes the next start fail
(`registry.go:86`); nested folders do not share a last-writer table
(`session/workspace.go:21`); the novelty detector counts the turn that has just begun
(`progress.go:331`).

## Proofs

Proved with TLAPS for every finite set of sessions, every number of slots and every
queue depth, from `ConstantsAssumption` alone:

- `TypeCorrect`. The type invariant is not inductive: `startLocked` leaves a slot
  with the largest id started for it, and a maximum exists only because no id
  exceeds the counter. `TypeInv` adds that bound (`Fits`).
- `RunLedgerCorrect`. The ledger is inductive over `TypeInv`: new runs get an id
  above every known one, the refill loop moves entries from the queue to slots
  (`DispatchLedger`), and the fences of `finish` and `forceFinish` make the owner of
  the slot the only one to end a run (`FreeLedger`).
- `SlotsCorrect`. The refill loop stops only when the queue is empty or the slots
  are full; a shorter prefix always left a slot free, so one more start cannot exceed
  the limit (`DispatchSlots`). The exception of `SlotsFull`, `unfilled`, grows by the
  one slot that `forceFinish` frees for a session that is gone, and a submission may take
  that slot past the queue. For `ReleaseModel` the started sessions are counted
  through the bijection from the ready sessions to their places (`ReleaseSlots`).
- `HeldCorrect` and `HoldKeptCorrect`. One look at each action that changes the
  holds or takes a pending message.
- `MessageLedgerCorrect`. `MessageInv` keeps one set of books per session (`Books`)
  and strengthens the ledger by one fact: a queued run that is not to append its
  message has it in the history already. A message then moves by one of six moves,
  each a lemma: it joins the pending ones (`BooksAppend`), becomes a queued run
  (`BooksTake`), is delivered at submission (`BooksIdle`), starts (`BooksStart`), is
  cut (`BooksCut`), or belongs to another session (`BooksOther`).

For the gate, `GateProofs` proves six results from `ConstantsAssumption` and
`DistinctIds`, for every set of sessions, runs, calls, offered decisions and inbox
texts. None of the properties is inductive. `GateInv` adds to `TypeOK`:

- `Numbered`, `Fresh`: a run inside the gate has a current wait, and a wait not yet
  begun is in none of the books;
- `Registered`: a registered wait is the current one of a run inside the gate, and
  `pendingBySession` has its key;
- `Undecided`: an undecided wait is registered, and its session's pending one;
- `Locked`, `Telling`: a run in a begin holds `sequenceMu`, and a superseded wait
  that is still to be told is decided, unsignalled, unanswered and has not left;
- `AskedInv`: a wait that is not asked is the current one of a run in its begin;
- `Ledgers`: per wait, how `decided`, `signal` and `answer` follow each other along
  the stages of its run.

Of the actions, `BeginWait` is the long case (`BeginStep`): the new wait displaces
at most one registered wait of its session, and `DistinctIds` is what makes an equal
call id belong to the same run, which has no other live wait. Every action that
leaves the books alone is one lemma (`QuietStep`), and every answer is one lemma
(`DecideStep`). `OperatorModeAccepted` rests on one more fact, that a sent decision
is never replaced (`SignalKept`).

For the event path, `EventLogProofs` proves five properties and the refinement, for
every set of publishers and browsers and all bounds and buffer sizes, from
`LogConstants`. `EventInv` has, beside the types of tape, patches, copies and the
stages of `publish`:

- `PredsBackward`: a generation names an earlier one, or none. This is what makes the
  recursion of `Carried` well defined: a solution up to one generation extends to the
  next, so there is no least number of generations without one (`CarriedUnfolds`, by
  `WFMin`);
- `NumbersNew`: a number not yet written is in no file and belongs to one publisher;
- `ShownDurable`: what is to be applied, is in the store, in a patch, in an answer on
  its way or in a copy, is on the tape. A replay of files holds logged records only
  (`CarriedLogged`, `ServedLogged`);
- `JournalFollows`, `JournalComplete`: the journal is ordered as the tapes are, and
  complete while the process lives and no append failed half way;
- `TornJournaled`, for `JournalFollowsTape`: what is on a tape behind half a line is in the
  journal;
- `ShownKept`: what a browser shows is in the journal and in the restored chat.

`ShownSurvivesAlways`, `JournalFollowsTape` and `StartsAgainAlways` follow from it, and
`EventLogImplementsFeed` shows step by step that the write of a record is `Record`, a
rotation is `Rotate`, a browser's step is `Show`, and everything else stutters.

`LiveIsReplayAlways` and `BrowserIsReplayAlways` need more than what is where: that every
copy is the fold of the log up to its cursor. `CopiesInv` says so while `Orderly` (no
update has been reordered, no append failed or left half a line, the log is `Anchored`), which is the exception
the properties name:

- `Exact`: the writers know the size of the last file, ends grow, and each generation
  continues the end of the one before it or nothing (`Chain`), so that reaching a cursor
  fixes what has been read (`Folded`);
- `HoldersRight`: at most one publisher holds a `session.reset` still to be written, and
  then the last generation has no record;
- `Applying`, `StoreRight`: whatever is after a cursor is still to be applied, by the
  publisher of that record, so that the store is one record behind the log per waiting
  publisher and never skips one;
- `ClientsRight`: a copy, an answer on its way and each patch in a queue lead from the fold
  through one cursor to the fold through another (`Follows`).

What remains is that a record appended behind a cursor changes no fold up to it
(`NextInPlace`, `NextFirst`), and that with no publisher waiting the cursor is the end.

For the turn loop, `TurnProofs` proves four properties for every set of scenarios, batches
and limits, from `TurnConstants`: numbers are numbers, `MaxTurns` is not 0 (as
`config.Validate` demands) and a batch has at least one call. The invariants, each over
the ones before it:

- `LoopInv`: at every place of the loop, the turn against the ceiling (`TurnOf`, one more
  for a retry), and the batch against its results (`BatchOf`). `RunBounded` follows.
- `FlightInv`: the flight book names the run whose tool may be writing (`Known`) and the
  file (`Writing`), and a run with a record is in `recorded` until its flight ends
  (`Recorded`), so that its goroutine and Stop do not both write one. `AbortOnce` follows.
- `ChatInv`: what a writer has still to publish is its own (`BoxInv`), a run that is at
  work has the slot or lost it (`SlotInv`), and the chat of a run that is over has no open
  answer (`OverInv`). Every event is shown to keep the snapshot well formed and the chats of
  other runs as they are. `ChatSettled` follows.
- `PairInv`: one writer is at work at a time, and in the transcript, and in what this
  writer is going to put back (`Installed`), each call has its result or is one the run
  still owes (`Good`), and ids and calls are apart (`Apart`). Compaction, repair, summaries
  and the cutting of a cancelled turn are lemmas about sequences (`GoodAppend` and those
  after it). `CallsAnswered` follows.

The parts. Each theorem is about the part's own specification (`GrantsSpec`,
`ReachSpec` and so on), which is what a behaviour of `MCParts` follows once it has
picked the part. The assumptions say that the bounds are numbers and that the values
that stand for "none" (0, `"none"`) are no member of the sets; `SessionsAssumption`
adds that session numbers are 1 to some n, as the registry counts them, and
`SettingsConstants` that documents and patches have the fields of the JSON structure,
probe sizes are numbers and no credential is named by the empty text. `Files` and `Plans` need
none. None of the properties is inductive as it stands.

| Theorem | Inductive invariant, beside the types |
| --- | --- |
| `PolicyCorrect` | the stored hash was given for the folder (`StoredGiven`); what the create call under way was told stands, as a revocation waits for the registry's lock (`MakingGiven`); a decision under way was given (`DecisionGiven`) |
| `GrantsCorrect` | where a call can be while the switch is being changed (`CallShape`); an answer, the grants still to be written and the ones written down are the operator's (`AnswerTold`, `GrantsTold`); a revocation that met no answer still has before it every table with a grant (`RevocationComplete`) |
| `NoticesCorrect` | the pipeline is ordered from the post in progress to the events not yet published (`NoticesOrdered`) |
| `OperatorFilesCorrect` | a mail in the inbox or being looked at has not ended, and an open one is there (`MailOpen`, `MailPlaces`); a task has one effect per look (`TaskEffects`); O_EXCL gives AGENT_B.md one owner, which holds the latest text of all it may remove (`OneOwner`, `HoldsLatest`) |
| `ReachCorrect` | the retry state names its own timer, or a probe that completes it (`TimerPending`, `WayOn`); without one, only sessions that are about to make one or to be released wait (`NoneWaits`); the probe that may be cancelled is still asking (`ProbeAlive`) |
| `FilesCorrect` | calls past the check of a file know that they overlap (`OverlapKnown`); who recorded an uncontested version wrote it (`RecorderWrote`); a look later than a record knows that version (`LookKnows`); a call alone with its file builds on what is on disk (`BaseCurrent`) |
| `PlansCorrect` | one caller of `EnsurePlan` at a time, which found no plan unless its listing failed (`OneRegistrar`); the gate is open only during an accept (`GateOwned`); a call let in is excused (`CallExcused`) |
| `MemoryCorrect` | numbers are used once (`NumbersFresh`, `NumbersOwn`); prompts and loads are clean of what the files and blocks a flush has passed held (`PromptsClean`, `LoadsClean`); what was noted is filed or removed (`NotedKept`) |
| `SessionsCorrect` | a session that works is open, says so, and has one place (`WorkersRun`, `OnePlace`); a session being deleted is still closed, or its reopening was seen (`DeleteSeen`); the change being applied holds the scheduler's lock, and what was told last is pending, being applied or in force (`ChangeHeld`, `ChangeTold`) |
| `NothingForgottenAlways` | while the process has not restarted: ids are the message numbers (`Numbers`); the index has a body for every message said and not removed (`IndexOk`); a summary is the second message and stands for everything the session no longer has but the orphaned and the removed (`StandsFor`), which a repair keeps as it leaves the first message and the summaries (`RepairKeeps`) |
| `SettingsKeptAlways` | what the process runs with is of the current version and names a credential for each key (`Working`); what a load or a request is about to use is normalized (`Resolving`), and agrees with the store once its credentials are resolved, or when it changes no key (`Settled`, `Trusted`); a change made in place carries every key and credential over (`ServersChange`, `AgentsChange`); between truncation and write every key that is owed is in the store already (`Saving`); a saved document is its own normal form and starts as the same configuration (`StartsAs`), unless the store is `apart` or the file behind (`ahead`) |

The exceptions the properties name (`stale`, `lost`, `late`, `racing`, `overlap`,
`contested`, `excused`, `blind`, `apart`, `ahead`) are part of the statements that are proved, and are
explained in *Findings and exceptions*.

Only model-checked, and why:

- the liveness properties: fairness is out of the prover's reach; and of course the six
  violations;
- `TranscriptAgrees`: the mirror of transcript and snapshot through everything a writer has
  still to publish is an invariant of its own, message by message, and as long as `PairInv`;
  not tried yet;
- `PatchFaithful`: `DiffChat` and `ApplyChat` are recursive functions over two chats, and
  what they compute for every chat needs an induction over the chat;
- `BookkeepersRight`: `Stats` and `Progress` sum and count with folds, and what a fold
  computes for every input needs an induction that is out of the prover's reach.

## Not modelled

Attachments and OCR, delivery, host hardening, signing, the reliability probes and the
user interface are input and output around these parts and keep no state that two
actors share. Streaming and parsing in the model client, path checks, processes and
HTTP in the tools, formatting of texts, telemetry counters of the projector, the tool
window, the replay cache and automatic chat titles are data that no property tells
apart. PROJECT.json gives the reason for each component.
