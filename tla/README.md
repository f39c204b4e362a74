# Comando in TLA+

Comando is an Electron application for working with AI coding agents in the
worktrees of local projects. A renderer shows workspaces; the *main process*
(TypeScript, `src/src/main`) keeps sessions, queues, workspace surfaces and
workers; a *sidecar* (Rust, `src/apps/native-backend` over `src/crates`) runs the
agents, git, terminals, the file system and the SQLite store. Main process and
sidecar exchange JSON lines over one pipe.

This directory holds TLA+ models of the parts of the program whose correctness
depends on the order in which things happen, the TLC configurations that check
small instances of them, and proofs of the theorems that should hold of every
instance. Source paths below are relative to the repository root (`src/`).

## Contents

| Module | Models |
| --- | --- |
| `SequenceFilters` | filtering, finding and splicing of sequences, without recursion |
| `PromptQueue` | the prompt queue of one session, its wiring in `AiService`, its snapshots, restarts |
| `PromptTurns` | `PromptQueue` closed with the sidecar that runs the turns (EXTENDS `PromptQueue`) |
| `WorkspaceDeletion` | deleting a worktree, clearing a project's data, the journal and its resumption |
| `RequestLedger` | what a caller of the sidecar may rely on (abstract specification) |
| `NativeClient` | the main process's end of the pipe; implements `RequestLedger` (INSTANCE ... WITH) |
| `SidecarLoop` | the sidecar's main loop, its bounded channels and the threads behind them |
| `TerminalSessions` | one terminal: the renderer's store, the native registry, a session's threads |
| `WorkspaceSurfaces` | activation and closing of workspaces, their renderers, the record of what is shown |
| `TranscriptTail` | the live transcript tail, the coordinator that writes it, the store, recovery |
| `MCPromptQueue`, `MCPromptTurns`, `MCWorkspaceDeletion`, `MCNativeClient`, `MCSidecarLoop`, `MCTerminalSessions`, `MCWorkspaceSurfaces`, `MCTranscriptTail` | the instances TLC checks (symmetry sets) |
| `PromptQueueProofs` | lemmas about `SequenceFilters`, theorems about `PromptQueue` |
| `PromptTurnsProofs` | theorems about `PromptTurns`, its refinement of `PromptQueue` among them |
| `WorkspaceDeletionProofs` | theorems about `WorkspaceDeletion` |
| `NativeClientProofs` | theorems about `NativeClient`, the refinement among them |
| `SidecarLoopProofs` | theorems about `SidecarLoop` |
| `TerminalSessionsProofs` | theorems about `TerminalSessions` |
| `WorkspaceSurfacesProofs` | theorems about `WorkspaceSurfaces` |
| `TranscriptTailProofs` | theorems about `TranscriptTail` |

`PROJECT.json` ties it together: the components, the runs, for every definition
the lines it translates (`map`), the mutants each property must catch, the
hazards, the findings and the theorems.

## Inventory

What each part keeps, what it does, how it meets the others, what is hard about
it, and what would make it correct.

**AI prompt queue** (`main/ai/prompt-queue.ts`). State: per session a record of
the active prompt, the prompt open for editing with the neighbours it had, the
waiting items, `paused`, `resumeAfterActiveSettles`, `terminal`. Operations:
enqueue, begin/cancel/submit an edit, remove, clear, steer ("send now"), pause
(Stop), delete. It calls `AiService.sendPrompt` and `cancelSession` and is called
back by their promises, by turn and status events, by prepared-session snapshots
and by the closing of the session; every commit is saved as a snapshot. Hard: the
four ways an answer comes back are not ordered; every continuation resumes after
an await in a queue that changed; restarts. Correct: no prompt lost, doubled, or
sent without the user's consent; none left waiting for ever.

**Sidecar turn engine** (`crates/comando-ai/src/engine.rs`, `session.rs`,
`acp.rs`, the main loop of `apps/native-backend/src/lib.rs`,
`main/native-backend/ai.ts`). State: the session's status, the one active prompt
per session, requests the agent has not answered; two streams to the main process
(answers of commands; events of the agent's threads). Hard: cancel and re-send
while the agent still answers the cancelled request; events that overtake
answers. Correct: main process and engine agree on the turn that runs; every
turn ends.

**Sidecar main loop** (`apps/native-backend/src/lib.rs`, the bridge of
`commands.rs`). State: a bounded channel of the engine's events, a bounded channel
of background outputs, the command being served. One thread reads stdin, serves a
command, answers it and drains the background channel up to a limit; a bridge
moves the engine's events from the one channel to the other. Hard: everyone may
wait on everyone; a drain that stops half-way. Correct: every command is served,
events keep their order and come after the answer of what caused them.

**AI session core and event stream** (`session-core.ts`, `session-stream.ts`,
`preload/ai-session-stream.ts`). Frames with a sequence number per window,
snapshots, replays. Correct: a window's view is a prefix of the session's history.

**Transcript persistence** (`main/ai/live-transcript.ts`,
`main/ai/transcript-persistence.ts`, `crates/comando-ai/src/transcript_store.rs`).
State: per session the live tail (entries of the running turn, what of them is not
written, ended turns put aside), the coordinator's queue (what is due, two timers,
a wanted seal, a recovered tail that must go first), the open tail, entries and
sealed blocks of the store. Operations: events and snapshots of the session,
checkpoints, seals, recovery of a tail of an earlier process, Stop. Hard: every
write answers into a tail that changed; a turn begins while its predecessor is
being written, into a store with room for one open tail; restarts and lost
answers; a turn has several names. Correct: nothing shown is lost between memory
and disk, each turn is sealed, once, in blocks of its own.

**AI runtimes and authentication**. Detection and set-up of installed agents;
process I/O with little state.

**Review action log** (`shared/ai-review-action-log.ts`, `crates/comando-diff`).
Keep/reject of hunks, rebased over later edits of agent and user. Correct:
keeping all or rejecting all gives the current or the base text.

**Workspace deletion and its journal** (`main/workspace/destructive-coordinator.ts`,
`crates/comando-persistence/src/workspace_lifecycle.rs`). State: git's checkout,
the registry's row, session files, rows of the store, a journal entry per
operation. Operations: `deleteWorktree`, `clearProjectAppData`,
`resumePendingOperations`. Hard: four stores that share no transaction; crashes,
lost answers, two windows, a resumption nobody waits for. Correct: data goes only
when the checkout has gone, and then all of it does, eventually.

**Workspace surface pool and activation** (`surface-pool.ts`,
`activation-coordinator.ts`, `surface-manager.ts`). State: a pool entry per
workspace (cold to active, suspended, in error), its renderer, the committed
workspace, the one on the screen, an operation counter, a write-behind of what is
shown with a retry timer. Hard: activations and closings overlap, each with several
awaits; renderers reload, fail and crash. Correct: pool, coordinator, window and
store agree at rest; no renderer is lost; only its own closing hides a workspace.

**Native backend client** (`main/native-backend/client.ts`). State: pending
requests by id with their timers, the child process, the stage of the disposal.
Hard: an answer, a timeout, a failed write, a broken line, the exit and the
disposal compete for each promise. Correct: each request is settled exactly once,
honestly, and none is left pending.

**RPC worker supervisor** (`main/workers/supervisor.ts`). Heartbeats, restarts with
back-off, requests that outlive a worker. Nothing in production code creates one.

**Terminals** (`renderer/.../terminalRuntimeStore.ts`, `crates/comando-terminal`).
State: per tab the session, a version, retired ids, early events; in the service a
registry with at most one session per terminal id, and per session a reader, a
monitor of the exit and a coalescer. Hard: events of a session arrive before the
answer that names it; restart and close overtake a creation; a hidden surface
hears nothing. Correct: output in order, ends not forgotten, no session left
running that no tab holds.

**Durable workspaces** (`durable_workspace.rs`, `main/workspace/service.ts`).
Layouts with revisions checked by compare-and-set, orphans, reassociation.

**Application data store** (`sqlite.rs`, `store.rs`, `native-backend/app-data.ts`).
Key-value storage with write-behind of queue snapshots.

**File system service and watcher**, **Git service**, **Project index**,
**Projects and worktrees**, **Settings**. Services behind the sidecar's pipe; the
coalescing of watcher events is the stateful part.

**GitHub integration**, **IPC and windows**, **Updater**, **Renderer stores and
components**, **Pane tree**, **Scripts**. Views, wrappers and routing; the pane
tree is a pure algorithm over layouts.

The same list with sources and status is in `PROJECT.json`.

## How the models correspond to the code

### PromptQueue

One session. `queue` is its `PromptQueueRecord`; `known` tells whether it is in
`#records`. Each public method is an action; each handler of a runtime event is
an action; `#drain`, `#commit`, `#terminalize`, `#getRecord` are operators on
records (`Drained`, `Commit`, `Terminalized`, `Opened`), so that an action does
all that the method does, in its order, `CommitAndDrain` included.

- A dispatched prompt adds one to `flight[p]`: the continuation of `#dispatch`
  that waits for `sendPrompt`. `DispatchSettles` is that continuation; what it
  does depends on the queue it finds. Likewise `steers` and `SteerSettles`.
- `disk` and `lag` are the snapshot in the store and how far it is behind;
  `Restart` restores from either the newest or an older snapshot.
- `live` is what `#liveSnapshots` says of the session (none, idle, busy, closed).
- `hold` is a history variable: whether the user stopped the queue, or a restart
  restored it, and has not let it go on since.
- In `PromptQueue` the runtime is free: any event may arrive at any time. What is
  proved of it therefore does not depend on how the sidecar behaves.

Abstracted: texts and mentions (an id stands for a prompt), revisions, windows'
names. `StaleEdits` lets a window submit an edit the queue does not hold open.

### PromptTurns

The same queue, with the sidecar that really answers. Commands go through `cmds`
in order; the sidecar's main loop (`Engine`) executes one at a time and writes
its answer and events to `pipe`; the agent's threads put events in `bg`, and the
main loop moves them to `pipe` when it comes to them (`Drain`). The main process
reads `pipe` (`Deliver`), and the continuations of promises run before the next
message is read (`Settle`, `Prepared` before others: `Quiet`). `turn` is the
engine's active prompt, `agent` the requests the agent has not answered: after a
cancellation both a cancelled and a new request may be under way.

Every command may fail at each point where its handler may return early
(`SendsFail`, `CancelsFail`):

- preparing, before the engine has the session or after (`EnginePrepare`);
- sending, before the prompt reaches the engine (`SendFails`), because it is busy
  (`EngineRefuses`), because the input is not valid or the agent does not take it
  (`EngineRejects`), or, with the turn left running, after the agent has it, when the
  history cannot be written (`EngineStarts`; `engine.rs`, lines 409 to 420);
- cancelling, because there is no session, or after `cancel_prompt` has removed the turn
  and before its end is reported (`EngineCancel`; lines 450 and 465).

In the last of each the command is answered as failed although the engine has acted.
`misled` is history: the prompts about which the main process was told so. Nothing in
the model reads it but the properties and the bounds: `MaxMisled` bounds it (a
prompt is misled once), and a misled prompt counts as a command and as an event for
`MaxCommands` and `MaxEvents`, so that what a lost turn leaves behind does not multiply.
The late event of a misled turn could let the user take a prompt up again while an
earlier sendPrompt of it is under way; `TakesUp` leaves that out, since `stage` holds one
sendPrompt of each prompt.

Left to `PromptQueue`: closings, deletions, restarts, request timeouts. Left out: a
session the runtime evicted, which sendPrompt recreates before it sends once more.
When a sendPrompt that had prepared the session itself fails, the next one prepares it
again; that is one of the repeated preparations of `Reprepare`.

### WorkspaceDeletion

One worktree of one project. `checkout`, `known`, `files`, `rows`, `journal` are
git's checkout, the row of the registry, the session histories, the rows of the
store, and the deletion journal. Every worker (a call of `deleteWorktree`, a call
of `clearProjectAppData`, the resumption at startup) is at a place in its code,
one per await, and every request has one of three outcomes: answered, failed, or
carried out with its answer lost. `Crash` stops all workers anywhere; `Restart`
is an orderly stop and start. `late` is a removal git carries out after its
caller gave up. `Stopped` starts the resumption again; calls cut off are gone.
The first run of an operation and its resumption share the cleanup actions
(`CleanupStep`): `again` tells which one it is, where their order differs
(`AfterPurge`). An operation is named by its call.

Abstracted: what the preflight asks (it may refuse), surfaces, live sessions and
terminals, which the user may open again (`OpenWorkspace`, `NewSession`), error
texts except the prefix `pre_checkout:`, the order of the resumed entries. A
directory removed by git while its administrative files remain counts as removed.

### RequestLedger and NativeClient

`RequestLedger` is the promise made to callers: a request is asked while the
ledger accepts any, is performed by the sidecar perhaps after its caller gave up,
and is settled once, with success only if it was performed. `NativeClient` is the
code: ids, `pendingRequests`, timers, `handleLine`, `handleProcessEnd`, the three
stages of `disposeOnce`. An action is one callback of the event loop; what
continues a promise is done in it or in the next (`DisposeAsked`). The sidecar may
read, carry out, answer or forget each request in any order, write a line that is
no JSON and end at any time; `signalled` is `child.kill()`. Refinement mapping:
`accepting` is `~exited /\ disposal = "none"`, the other variables are the same.
Left out: the splitting of chunks into lines, and event lines.

### SidecarLoop

`main` is the place in `run_stdio` (receive, work, respond, drain, flush), `ai`,
`bridge` and `background` the channels and the event the bridge forwards. `Work`
begins a turn, cancels one, starts a search or does something else; a turn's
status the engine sends itself is a blocking send (`SendStatus`) of the loop.
Agents go on for as long as they like. `answered` and `heard` are what the main
process has read. The module has the drain as it is written, with the batch it
loses at its limit.

### TerminalSessions

The renderer's store, the calls on their way (answered in the order in which they
were made), the service's registry and the three threads of each session; events
of a session keep their order and overtake answers. `version` is the store's guard
against answers of overtaken calls, `retired`, `early` and `unclaimed` what it
remembers of sessions that are given up, listed, or not yet known (`early`: the
sessions a list gave to a tab that still waits for its creation, since its surface
was built).

### WorkspaceSurfaces

An action per await of `#activate`, `#performHibernate` and the window's close;
whatever an answered promise lets go on goes on before the next event (`Calm`).
`#operation` is only ever compared with the last call's, so `latest` names that
call. `loop`, `next`, `retry` are the write-behind of the shown workspace, with its
epochs (`fresh`). Two switches keep known disagreements apart (see *Behaviour worth
knowing*): `LateRefusals`, a renderer may refuse to be suspended after a newer call
began; `Overlaps`, the user may activate while a clearing is being recorded.

### TranscriptTail

One session. `mem` is the live tail (`AiLiveTranscriptTailStore`), `queue` and
`flight` the coordinator's record and the request its pump waits for, `native` the
store's open tail, entries and seals, `recovery` a `recover()` under way. An entry
is a turn's status or text; its version stands for its contents. `Pass` is one
`#persistAvailableWork` up to its first request; `Answered` is the answer with all
that follows it in the same pass, `Resumed` the next pass. Events (`TurnBegins`,
`Streams`, `TurnSettles`, `TurnEnds`, `LateDelta`) come in the order in which the
sidecar emits them; each does what `handleNativeSessionEvent` does, recovery and
scheduling included (`Handled`). `Names` are the three names a turn may bear:
time of its beginning, prompt's message, time of a late entry. `Spin` is a pump
that begins pass after pass without waiting for anything, which no timer or event
interrupts. `seen` is history: what the user has been shown, less what a crash
may lose. Left out: a message that is started again with an earlier time renames a
turn that still bears the time of its beginning to that time (`createEntryFromEvent`).
Where that matters, the tail is on disk under its earlier name, and
`OrderlyEndedIsSealed` excuses it as it does the other renamings.

## What is checked

Every property is checked in the run named here, and each has a mutant (a
plausible bug of the code it would catch).

| Run | Instance | Shows |
| --- | --- | --- |
| `prompt_queue` | 2 prompts, 2 unsettled dispatches of each, crashes lose up to 1 step | `TypeOK`, `TerminalIsInert`, `NoPromptTwice`, `SendingHasDispatch`, `PromptsAreKept`, `RestoredWorkWaits`, `StopHolds` |
| `prompt_turns` | 2 prompts, 2 commands, 1 late status, 1 misled prompt, failing preparations, sends and cancellations, repeated preparation | `TurnIsActive`, `EngineNeverRefuses` |
| `prompt_turns_live` | the same, of the switches with failing cancellations alone, fair | `NoStall`, `ActiveSettles`, `SteerResumes` |
| `workspace_deletion` | 2 deletions, the resumption, 1 session, 2 faults | `TypeOK`, `CleanupIsJournaled`, `CompletedMeansPurged`, `CheckoutGoesFirst` |
| `workspace_cleanup` | 1 deletion, 1 clearing, the resumption, 1 session, 1 fault, recreation, fair | `CleanupCompletes`, `ClearCompletes` |
| `native_client` | 3 requests, 2 lines on the wire, fair | `TypeOK`, `NobodyWaits`, `ImplementsLedger`, `KeepsPromises`, `DisposeEnds` |
| `sidecar_loop` | 2 commands, 3 events, channels of 1 and 2, drain limit 1, fair | `TypeOK`, `HeardInOrder`, `CommandsServed` |
| `terminal_sessions` | 1 tab, 2 sessions, 2 chunks each, 4 acts, 1 rebuilt surface, fair | `TypeOK`, `OneSessionPerTerminal`, `OutputInOrder`, `EndIsNotForgotten`, `LittleFollowsTheExit`, `NoSessionIsForgotten` |
| `workspace_surfaces` | 2 workspaces, 3 renderer ids, without the two switches | `TypeOK`, `RenderersAreTracked`, `Agreement`, `OnlyItsOwnClosing` |
| `transcript_tail` | 2 turns, 2 versions, 1 fault or crash, late deltas, a past session, fair | `TypeOK`, `NothingIsDropped`, `SealedInTurn`, `OrderlyEndedIsSealed` |

Runs that are expected to find a violation are under *Findings*.

Bounds. Two prompts are enough for every interaction of the queue: one active or
edited, one behind it, neighbours lost and found; `MaxFlight = 2` lets a prompt be
put back and sent again while its first answer is still to come; `MaxLag = 1`
separates the snapshot from the queue by one step. In `PromptTurns`, `MaxCommands`
bounds only the cancellations the user can repeat, `MaxEvents` only the waiting
statuses, `MaxMisled` the false failures (one is enough for a turn that runs unknown to
the queue beside one that the queue sends, and for a Steer after a Stop that failed so);
all else is bounded by the prompts. In `WorkspaceDeletion`, `MaxFaults`
counts failed and lost requests and crashes: with two, an operation can fail, fail
to record it, and still be resumed; two deletions give the overlap of two windows,
and the resumption is a third actor. Restarts are unbounded. Symmetry (prompts,
calls, sessions, workspaces) is used only in runs without liveness.

In `NativeClient` three requests are two that compete and the farewell; two lines
on the wire let answers overtake. In `SidecarLoop` channels of one and two are full
after three events, so that every send of the loop and the bridge comes to wait,
and a drain limit of one is reached while a batch waits; an agent's events are not
bounded, only their numbers stop growing. In `TerminalSessions` two sessions are
one and its successor under the same id; `MaxActivity` bounds `steps`, the user's
acts, hiding, showing and listing, and the chunks together. In `WorkspaceSurfaces` nothing is counted: renderer
ids are used again, three for two workspaces. In `TranscriptTail` two turns are one
and its successor (and with a past session one of an earlier process and one of
this); two versions let an entry change while it is written; `MaxFaults` counts
failed requests, lost answers and crashes (it is one: from two on, `NothingIsDropped`
does not hold, see *Behaviour worth knowing*); `MaxRevision` is where the store's count
of a tail's writes saturates, above what any run of two turns tells apart.

Fairness. In `PromptTurns` it is weak and on what runs without the user: the main
process reads its pipe and resumes its continuations, the sidecar's loop takes
commands and drains events in turn, the agent answers each request. Nothing is
assumed of the user, of failures or of waiting statuses. `prompt_turns_live`
switches off failing sends and late statuses because with them the properties do
not hold (see below and the hazards); cancellations may fail. In `WorkspaceDeletion` every request is
answered or times out, so each worker goes on, and the user starts the
application again some day: weak fairness of each worker's steps and of
`Restart`. In `NativeClient` the event loop's own callbacks are fair (timers, the
next line, the exit, the stages of the disposal), and a process that was signalled
ends; the sidecar owes no answer. In `SidecarLoop` the two threads and searches are
scheduled, agents owe nothing and may emit for ever. In `TerminalSessions` the
service serves, monitor and coalescer run and the renderer receives; no process
need print or end. In `TranscriptTail` something that is due is done (weak fairness
of the disjunction: a timer fires, a request is answered, or a recovery goes on):
the pump rests while a recovery runs, so no finer fairness is needed. Nothing is
assumed of the session's events or of failures.

`CHECK_DEADLOCK FALSE` is in the runs of systems that may rightly come to rest:
when all bounded inputs are used up and nothing is due.

## What is proved

`PromptQueueProofs`, for every set of prompts and every bound, assuming only what
`PromptQueue` assumes of its constants (`None` is no prompt, item or position;
`MaxFlight >= 1`; `MaxLag` a natural number). For both values of `StaleEdits`:

- `Invariant`, and from it `TypeCorrect` (`TypeOK`), `ClosedQueueIsInert`
  (`TerminalIsInert`) and `SendingIsAwaited` (`SendingHasDispatch`);
- `HeldQueueIsQuiet`, and from it `StoppedQueueSendsNothing` (`StopHolds`) and
  `RestoredQueueSendsNothing` (`RestoredWorkWaits`);

and for `~StaleEdits` (an edit submitted after it was closed does double a prompt):

- `QueueStaysWhole`, and from it `QueuedOnce` (`NoPromptTwice`) and
  `QueuedPromptsStay` (`PromptsAreKept`).

The inductive invariant `IInv` is the conjunction of `TypeOK`, `TerminalIsInert`,
`SendingHasDispatch` and "a terminal queue holds only items its closing failed".
None of the middle two is inductive alone: whether a late answer may touch the
active prompt depends on the record it finds (a dispatch settles only what is
still being sent), a prompt is only sent from a record that is not terminal, and
preparing a closed session again drops exactly the items marked as closed, which
must then be all of them. The proofs are layered: what each method makes of one
record (`...Record`), what committing a record does to the state (`...Step`), one
lemma per action, `NextIInv`. The theorems about Stop and restarts add, to that
invariant, that a held queue is paused and not waiting to resume, or empty
(`HoldsQuiet`); only the user's own steps may leave that condition, and they clear
`hold`. `QueueStaysWhole` is a second invariant over the first: the ids of active,
edited and waiting prompts are at one place each and were all handed out by
enqueue, in the queue and in every snapshot a restart may find. That an action loses
nothing and doubles nothing is then a statement about the ids of one record before
and after each method.

`PromptTurnsProofs`, for every set of prompts, every bound and all settings of the
switches (edits no longer open, repeated preparation, late statuses, failing sends and
cancellations):

- `TurnsAreQueueSteps`: `TurnSpec` implements `Spec` of `PromptQueue`, so that all of
  the above holds of the queue with its sidecar too;
- `OneTurnAtATime`, and from it `RunningIsActive` (`TurnIsActive`) and `NoneIsRefused`
  (`EngineNeverRefuses`);
- `NothingStalls` (`NoStall`), for `~Reprepare` and `~LateStatus`, of behaviours in
  which no prompt is misled so far. Both are needed: the status of a repeated preparation, and a waiting status, may be taken up after those of
  the turn's end, and leave an idle session taken for busy (see *Behaviour worth
  knowing*). Failing sends and stale edits, which the run leaves out, do no harm.

The invariant (`TurnInv`) accounts for the turn wherever it is: with sendPrompt (being
prepared, or refused and not yet told to the queue), in a command, in the engine, in an
event of the agent's threads or in a message on the pipe. `OneTurn` says that it is in
one of these hands only, and `OfActive` that whoever has it has it for the queue's
active prompt. Both are said of all prompts but a set M, and `TurnInv` holds of M =
`misled`: a false failure breaks them for the prompt it is about, and the proof shows
that it breaks them for no other. A larger M asks less (`Fewer`), so a step is seen with
the prompts set aside that are misled after it. Either of the two properties alone says
nothing of a turn that is on its way, and so is not inductive. The proof has three
layers: what a step of the queue does to its active prompt (`GoesOn`: it stays, or there
was none and what is sent becomes active), then how each step of the sidecar passes the
turn on (one `...Handed` lemma per action), then the specification; `Lively`, below, is
about M = {}. A cancelled request that the agent answers late is in no hand, and
`AgentFinishes` does not find it in the engine.

`NothingStalls` needs a second invariant over the first, `Lively`. `Eager` says that the
queue itself never leaves a prompt it could send, and `BusyHasTurn` that the session is
seen as busy, now or in a status still to be read, only while the sidecar has the active
prompt. The latter is not inductive: the turn ends with two messages, and only when the
later one is read is nothing active any more. `Line` therefore says of each message that
ends a turn, on the pipe or among the events, that whoever reads up to it takes the session
for something else than busy (`Lined`, `Quieted`); `PreparedOnce` that an answer of a
preparation cannot come between, and `Steady` that the engine's turn is one the agent still
owes an answer for. At rest nobody has a turn, so nothing is active, the session is not
seen as busy, and what waits would have been sent.

The first part of `PromptQueueProofs` proves what the filters do (type, elements,
order of indices) for every sequence; the definitions use a rank function and `CHOOSE` of
the least index in place of recursion, so that they can be reasoned about.

`WorkspaceDeletionProofs`, for all sets of calls and sessions and any number of
faults, assuming what `WorkspaceDeletion` assumes of its constants (calls of the
two kinds, the resumption and `None` are distinct):

- `TypeCorrect` (`TypeOK`): with it, whoever is at a place that writes the journal
  knows the operation it writes;
- `CheckoutFirst` (`CheckoutGoesFirst`), for `~Recreate`: a worktree created again at the
  path may be purged instead;
- `CleanupJournaledAlways` (`CleanupIsJournaled`), for `~LateSessions`, and
  `CompletedPurgedAlways` (`CompletedMeansPurged`), for `~LateSessions` and
  `~Recreate`: a session that starts during a deletion does keep its history.

The invariant behind the second is `NothingPast`: as long as the checkout exists,
no deletion is past it in the journal, in an entry some worker has read, or at a
worker's place in the code. Workers trust the journal, workers write the journal,
and a resumption trusts what it read earlier, so none of the three is inductive
without the others; all of them need the types. There is one lemma per caller and
in it one step per action; `DataKept` then says that only three actions take data
away, and `PastBefore` that who takes one of them for a deletion finds the checkout
gone. The invariant behind the last two is `Journaled`: every list of sessions, in the
journal, in an entry a worker has read and in a worker's hands, names all histories
still on disk; a worker past their purge has left none; and before a deletion has its
entry the checkout is not touched.

`NativeClientProofs`, for every number of requests and any sidecar:

- `TypeCorrect` (`TypeOK`) and `NobodyIsLeftWaiting` (`NobodyWaits`);
- `Implementation`: `Spec` implements `RequestLedger` (`ImplementsLedger`).

The inductive invariant says that the table of pending requests is exactly the set
of open ones, each with its timer; that ids not yet handed out are unused and one
is kept for the farewell; that the sidecar knows only requests that were sent; that
an answer of success on the wire is of a request that was done; and that the table
is empty when the process has ended or the client is disposed of. The refinement
needs all of it: an answer must find an open request or none, a success must be
honest, and the rejection of everything pending must be a rejection of what is open.

`TerminalSessionsProofs`, for any number of sessions, chunks, acts and reloads:

- `TypeCorrect` (`TypeOK`) and `OneSession` (`OneSessionPerTerminal`);
- `LittleFollows` (`LittleFollowsTheExit`): the invariant adds that an exit in the
  stream means the monitor is done and the session closed, and that what was sent
  after it, what the coalescer holds and what the reader has in hand are together
  at most one chunk;
- `EndIsKept` (`EndIsNotForgotten`);
- `OutputIsInOrder` (`OutputInOrder`).

The last two are about the store. `EndInv` says that the store waits for the answer
of one creation at most; that every closing which asks for another session comes
before it; that a tab which is not busy waits for none of them; and that the store
still knows of the end of a session that ended before its creation was answered.
`NamesInv` adds that a session which a list names and the store has not heard of is
announced by the answer of its creation, ahead of that list, and that nothing between
settles the tab on another. With these, a session's output is one line (`DataInv`): what the viewport shows, what the store holds back for
an answer (`Claimed`), what is in the stream, what the coalescer and the reader hold;
each act cuts that line at a place or throws away its front, and only for a surface
that was hidden or torn down.

`SidecarLoopProofs`, for channels of any size, any drain limit, any number of commands
and events:

- `TypeCorrect` (`TypeOK`): neither channel holds more than it was made for;
- `HeardInOrderAlways` (`HeardInOrder`).

The invariant (`LineInv`) has two parts. `Caused`: whatever an agent still has to say,
and each event in a channel, in the bridge's hand or on stdout, belongs to a command
that is answered or that the loop is at. `Ordered`: numbers never fall from stdout over
the background channel and the bridge to the engine's channel and the engine, whatever
a drain drops on the way.

`WorkspaceSurfacesProofs`, for any number of workspaces and any ids of surfaces (at
least one):

- `TypeCorrect` (`TypeOK`), whatever overlaps or refuses late;
- for `~Overlaps` and `~LateRefusals`: `Tracked` (`RenderersAreTracked`),
  `HiddenByItself` (`OnlyItsOwnClosing`) and `AgreesAtRest` (`Agreement`).

The invariant has two layers. `Inv` is about the calls: a closing that waits for its
record is the one of the committed workspace and nothing has begun since
(`ClearingHolds`); a preparation no call overtook has its entry to itself, and was
of the committed workspace if the entry was active (`PreparingHolds`). Only so does
what a closing puts back fit what was shown meanwhile, and what it throws away
belong to it; the first is where `LateRefusals` enters, the second `Overlaps`.
`RecordHolds` is about the write-behind: a flush has the record to itself, and what
the loop, its successor and the retry timer are going to leave in the store
(`Destined`) is what is shown, unless a flush failed. At rest the two together are
`Agreement`.

`TranscriptTailProofs`, for any number of turns, versions, faults, crashes and any
bound on revisions:

- `TypeCorrect` (`TypeOK`), without a premise;
- `DropsNothing` (`NothingIsDropped`), as long as `RecoversAlone`: no recovery runs
  while the pump waits for an answer. The code does not ensure that: a recovery whose
  load failed is begun anew by the next event, whatever the pump is doing by then. Without
  the premise the property is false (see *Behaviour worth knowing*);
- `SealsInTurn` (`SealedInTurn`), under the same premise: the tail on disk gives way to
  another only when all it held is sealed, and nothing of the turn that runs is sealed.

`NothingIsDropped` is not inductive. An acknowledgement is right only if the request
carried what the tail still holds, so the invariant (`IInv`) says of every copy of an
entry how old it is: what is stored is never newer than what waits, what waits is in the
order of its turns, and the live tail has the newest (`Lined`); the tail of the request
under way lies between the store and all that comes after it (`Waits`); a tail that was
loaded is as it is on disk until it is sealed (`LoadedFirst`), and one that bears the live
tail's name and revision has its versions (`Known`). Names need a part of their own: a tail
can be taken for the live one only by its name, so no name is in use before the event that
gives it (`Spent`). TLC checked the parts one by one (1,087,888 states with two turns, two
versions and three faults; 309,244 with three turns and two crashes) before they were proved.

The first half of `SealedInTurn` needs two more parts in that invariant: no status is on
disk or in memory without its text, nor newer than it (`OnDisk`, `Whole`), so that what a
seal of the texts closes is all of the tail; and a tail that is sent under the name of the
one on disk brings every text that one has (`Sent`), so that a seal leaves none of it open.

The second half (`RunningIsOpen`) has an invariant of its own (`OpenInv`), proved from the
first. A seal closes whole blocks, so a turn that runs would be sealed by a request for
another tail whose block its text is in. The invariant follows the text of the turn that
runs: it is in the live tail, in none that waits or was loaded, on disk only when no turn
waits, and under another name not before the session was recovered (`Running`, `Before`).
Names can mislead the pump, as a turn may begin in the tail of its predecessor or be
renamed while its seal is wanted: such a seal may be sent with the running text in it, and
is refused by the store, because that tail holds an entry sealed under another name
(`Foreign`, `Named`). The rest says which seals may be wanted at all (`Wanted`,
`EndsOver`), when a recovery may seal (`Loads`, `Quiet`), what the request under way may
carry (`Asked`), and that the store seals nothing under a name not given yet (`Closes`).
TLC checked `OpenInv`, on the states the premise leaves, before it was proved: 870,803
states with two turns, two versions and four faults, 1,993,001 with a crash among them,
644,446 with three turns, one version and three faults.

Only model-checked: the liveness of `PromptTurns`, `WorkspaceDeletion`, `NativeClient`,
`SidecarLoop`, `TerminalSessions` and `TranscriptTail`; and, for the switches named above,
what the runs check of it. Every invariant and action property of the runs has a theorem.
Liveness under fairness, and anything that rests on ENABLED or on induction over
data, is beyond the proof system used here and stays with TLC.

## Findings

Disagreements between the code and what the repository says of it, each shown by
a run in which TLC finds the counterexample.

1. `sidecar_lost_output` (`NoEventIsLost`): the drain of the background channel
   takes a batch and only then looks at its limit; the batch is dropped.
2. `transcript_renamed` (`EndedIsSealed`): the status that ends a turn renames the
   live tail, and the store refuses every further write of the session, because its
   open tail has the other name. It needs no failure, only a turn that was
   checkpointed while it ran, as any is that outlasts the checkpoint delay.

## Behaviour worth knowing

The modules have these behaviours too; the runs exclude them by a switch, a bound or
a premise named here, because they contradict a property and not (or not clearly) a
sentence of the repository, or were shown once and are described instead.

- Prompt queue. Stop pressed while a steered prompt waits does not hold: `pause()`
  returns early on a paused queue and leaves `resumeAfterActiveSettles` set.
  Preparing the session again sends the prompt behind a failed one. Submitting a
  stale edit drops the prompt that is open for editing (`StaleEdits`). A waiting
  status reported after a cancellation leaves the session busy and the queue stuck
  (`LateStatus`); so does a second preparation answered while a turn runs and taken up
  by its continuation after the status that ends the turn (`Reprepare`). With failing
  sends, a steer taken back by an edit can leave `resumeAfterActiveSettles` set on a
  queue that is empty and not paused, which holds nothing up but contradicts
  `SteerResumes`: `prompt_turns_live` has no failing sends.
- Turns. When `send_prompt` fails after the agent has the prompt (the history could
  not be written), nothing takes the turn back: it runs while the queue shows its
  prompt as failed, what the user sends next is refused as busy until it ends, and its
  end settles nothing, or the same prompt sent again. When `cancel_session` fails
  after it has removed the turn, no end of the turn is ever reported: the prompt stays
  the active one, the queue sends nothing, and a later "send now" waits for it in
  vain. The properties of `PromptTurns` except the prompts concerned (`misled`), and
  `NoStall` every state after the first of them.
- Deletion. A session started while its worktree is being deleted keeps its history
  file although the operation is completed (`LateSessions`). When the registry sync
  failed, or the answer of the removal was lost, a worktree created again at the
  path inherits the pending purge (`Recreate`).
- Sidecar loop. Cancelling, or the status that begins a turn, is a blocking send of
  the main loop into the engine's channel; with both channels full the bridge waits
  for the loop and the loop for the bridge. The premise of `CommandsServed` excludes
  it.
- Terminals. A terminal restarted before its creation is answered ends up on the
  session the store has just closed, since the service answers both calls with the
  same session. A terminal whose process ended while its surface was hidden stays
  shown as running: the list it resynchronises with holds only living sessions.
  Output not read when the monitor marks a session closed is lost, output of a
  hidden surface is not shown, and a list applied while a creation is pending can
  hide an exit: `resyncSessions` gives the tab the session but not what the store holds
  back for it, so that output which comes next is shown at once, and the earlier one
  behind it when the creation is answered. `EndIsNotForgotten` and `OutputInOrder` are
  stated for sessions a list did not bring in this way (`early`).
- Surfaces. A closing whose record cannot be cleared leaves the workspace active
  and nothing shown. An activation committed while a closing waits for its record is
  overwritten when the closing goes on (`Overlaps`). A preparation refused after
  another workspace was activated restores "active": two entries are (`LateRefusals`).
  Closing any workspace makes another's pending activation stale; an entry in error
  is closed without a flush; a failed flush of the window's close drops the pending
  retry; activating a workspace that is being suspended marks it as failed.
- Transcript. `Orderly` names what sealing rests on, and each part can fail. The
  renaming above. A Stop seals the turn under the name it bears; the status that
  follows checkpoints the same entries under another, and that tail can never be
  reconciled. A delta that arrives after its turn was sealed opens a turn of its own
  with an entry another turn was sealed with; the next turn joins it and its seal is
  refused. An ended tail without entries cannot be sealed and blocks later turns. A
  recovery whose load failed is tried again only at the next event, and until then
  the new turn's checkpoint is refused. A seal asked for a turn whose tail another
  turn then replaces makes the pump begin pass after pass in microtasks (`Spin`):
  timers, the pipe and the windows are never served again.
  A recovery whose load failed is begun anew by the next event, now beside a
  request of the pump. If that turn is renamed before the load is answered, the tail on
  disk is taken for a displaced one and sealed with the version it was read with, over
  the newer one the pump has written meanwhile and counts as saved; the live tail still
  has it, the disk does not. It takes two failed loads (`MaxFaults = 2`); without
  failed loads, two faults of other kinds do no such harm.
  Outside the model: `close()` clears the live store right after it starts the
  bounded flush, so entries newer than a checkpoint under way are lost; and the
  flush of a closed session clears it even if it was opened again meanwhile.

## Plan

Done: `PromptQueue`, `PromptTurns`, `WorkspaceDeletion`, `NativeClient` over
`RequestLedger`, `SidecarLoop`, `TerminalSessions`, `WorkspaceSurfaces`,
`TranscriptTail`.

Left, most important first:

1. `SessionStream` (`session-stream.ts`, `preload/ai-session-stream.ts`,
   `main/ai/service.ts`): frames with sequence numbers per window, snapshots,
   replays. Abstract: a window's view is a prefix of the session's history.
2. `DurableWorkspaces` (`durable_workspace.rs`): revisions checked by
   compare-and-set, orphans and reassociation.
3. Closing, freezing and deleting sessions in `TranscriptTail`; the coalescing of
   watcher events; as pure operators the rebasing of the action log and the pane
   tree.

Composition: `PromptTurns` composes queue and engine; `SidecarLoop` and
`NativeClient` are the two ends of the pipe it abstracts, and could replace its
`pipe`, `bg` and `Drain`.

## Not modelled

Components with status `not_modelled` in `PROJECT.json` carry the reason: pure
I/O or presentation, third-party wrappers, long pure text algorithms, code nothing
uses, or planned above. By far the most lines of the repository are the renderer's
views. Within the modelled parts: contents of transcripts and permissions,
subagents (except as an event that reaches the queue), reassociation of orphaned
workspaces, and the text of errors.

## Running

    tlc -workers 2 -config prompt_queue.cfg MCPromptQueue
    tlapm PromptQueueProofs.tla

Times with two workers: `prompt_queue` about 45 s (197,093 states), `prompt_turns`
2 min (1,679,094), `prompt_turns_live` 30 s (81,787), `workspace_deletion` 10 s
(107,868), `workspace_cleanup` 2 min (228,084), `native_client` 10 s (29,616),
`sidecar_loop` 15 s (68,444), `terminal_sessions` 40 s (147,421),
`workspace_surfaces` 2 min (2,284,576), `transcript_tail` 2 min (244,372); the
others are violated within seconds. The proofs of
`TranscriptTailProofs` take about 15 min from nothing, those of `TerminalSessionsProofs`
5 min, those of the other modules less.
