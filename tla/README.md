# evo-king: a TLA+ model of the agent king

evo-king is the process that runs an evolution system of AI agents: it spawns
the agents, keeps a database of tasks, drives every task through a pipeline of
five stages by talking to the agents over Socket.IO, and watches over time-outs,
crashes and configuration. This directory holds TLA+ models of it, the TLC
configurations that check them, and proofs checked by TLAPS.

## 1. Inventory

| Component | Source | State it keeps | Operations | Model |
|---|---|---|---|---|
| Pipeline coordinator | `src/src/pipeline_coordinator.rs` | `pending_requests` (in memory), rooms of sockets | `start_run`, `on_stage_result`, `create_subtasks`, `on_recovery_response`, `request_decomposition`, `on_decompose_result`, `abort_pipeline`, `timeout_monitor` | `PipelineCoordinator` |
| Task and pipeline tables | `src/src/task_db.rs` | `tasks`, `pipeline_runs`, `task_logs`, `agent_status`, `agent_history`, cron and config tables | one or a few SQL statements per function, no transactions | with the component that calls them |
| Task handlers | `src/src/socket_server.rs`, `src/src/main.rs` | none | `task:create/update/delete/list`, `pipeline:stage_result`, `error:recovery_response`, `task:decompose_result`, HTTP mirrors | the ones that drive the coordinator |
| Agent supervision | `src/src/agent_manager.rs` | `AgentRegistry` (folder name -> process) | `spawn_all_kernel_agents`, `monitor_processes`, `heartbeat_watch_loop` | `AgentSupervision` |
| Memory store | `src/src/memory_db.rs`, handlers in `socket_server.rs` and `main.rs` | `memories`, `memory_tiers`, `task_memories` | create, update, delete, upsert a tier, bind, search, without transactions | `MemoryStore`, `MemoryMap` |
| Trace store | `src/src/trace_db.rs`, `trace_receiver.rs`, `trace_api.rs` | `traces`, `spans` | OTLP ingestion, queries | `TraceStore` |
| Debug tasks | `src/src/main.rs`, `socket_server.rs` | a row of `tasks`, `task_logs`, a child on a terminal, a channel | `POST /debug/bash`, `POST /debug/prompt`, `debug:response`, `task:summary` | `DebugTask` |
| Gateway config lifecycle | `src/src/gateway_manager.rs`, `config_watcher.rs`, `main.rs` | `gateway.json`, `backups/`, `config_history` | PUT, watch, validate, back up, record, announce | `ConfigLifecycle` |
| Agent records | `socket_server.rs`, `task_db.rs` | `agent_status`, `agent_history` | `on_register`, `on_status`, `on_disconnect`, crash marking | not modelled |
| Cron manager | `src/src/cron_manager.rs` | `cron_jobs` | seeding, tick loop, manual run | not modelled |
| Self update | `src/update.sh` | release directory, backup | download, doctor, swap, rollback | not modelled |
| System discovery, doctor, HTTP server, scripts | `system_discovery.rs`, `doctor.rs`, `main.rs`, `state.rs`, `error.rs`, `*.sh` | none that others change | one-shot commands, routing, read-only queries | not modelled |

### How they interact

Agents are separate processes that connect over Socket.IO, register under a role
and receive `pipeline:next` in the room of their role. Each incoming event and
each HTTP request is handled by a tokio task of its own. All of them share the
SQLite database (through `Arc<Database>`, one connection per call) and, in the
coordinator, `pending_requests` behind a mutex that is held for a single
insertion or removal. Nothing groups several database calls: between any two
calls of one handler another handler, the timeout monitor (one task, every 60 s)
or a deletion may run. The database survives a restart; the map of pending
requests, the handlers under way and the agent registry do not.

### What is hard

- Concurrency: every `await` between a lookup and the update based on it
  (matching a result with its row, the retry count, the query of the monitor, a
  deletion in the middle of a result).
- Delivery: results and answers come late, twice, from several agents of the
  same room, or never; an emission may fail after reaching some of them.
- Recovery: a failed stage is retried, skipped, decomposed or aborted by an agent;
  the task waits meanwhile in `recovering`.
- Time-outs against late answers, and retries that reuse the old row.
- Crashes between two statements of one operation.
- Aliasing: subtasks carry the `run_id` of their parent; folder names and roles of
  agents are matched by containment.
- Three tasks start runners and enter them in one registry, and none asks the others.
- A tier of a memory is looked up in one statement and written in the next, with no
  unique index behind it; deletions take three statements.
- Exports of traces are answered before they are stored, and repeated by exporters.
- The output of a command passes through four activities that end at different times.
- The config file is written in place, and a notification does not say what changed.

`PROJECT.json` lists each of these with its line, and the properties that cover it, or says why none
does.

### What makes each component correct

- Coordinator: stages in order, a completed run is a full run, one stage at a
  time, an answer acted on once, retries bounded, no task forgotten in recovery,
  no stage running for ever, deleted runs stay deleted, and (one event at a time)
  the whole is the simple state machine `PipelineRun`.
- Supervision: at most one runner per agent the watcher leaves alone, an agent that dies is restarted or
  reported as failed, the registry names the process that runs.
- Memory: readers see a map from memories and tiers to contents (`MemoryMap`); what was
  written is what is read, what was deleted stays away, nothing outlives its memory
  unless requests overlap.
- Traces: the row of a trace covers and adds up its spans; an accepted span is stored.
- Debug tasks: no output is lost on its way to the log, the evaluation comes last and
  has it all, a command that ended is settled and counts as completed only if it was.
- Config: the config that stays in the file is announced and recorded, the backup a row
  names is the config of that row.

## 2. Modules

| Module | What it is |
|---|---|
| `PipelineStages` | The five stages, their order (`next_stage`), the skippable ones. |
| `PipelineRun` | Abstract specification: the status and stage of the task of each run, as a reader of the task list sees it. |
| `PipelineCoordinator` | The coordinator with its tables, handlers, monitor, faults; its properties; the refinement mapping; the inductive invariant. |
| `MCPipelineCoordinator` | Symmetry of handlers for TLC. |
| `PipelineProofs` | Theorems about `PipelineCoordinator`, whatever overlaps or under weak hypotheses, checked by TLAPS. |
| `PipelineSerialProofs` | Theorems about `PipelineCoordinator` handling one event at a time, with the refinement of `PipelineRun`, checked by TLAPS. |
| `AgentSupervision` | The registry of runners, the start-up, the process monitor and the heartbeat watcher, with the rows of `agent_status` they read and mark. |
| `SupervisionProofs` | Theorems about `AgentSupervision`, checked by TLAPS. |
| `MemoryMap` | Abstract specification: a map from memories and tiers to contents, and the effects clients have asked for. |
| `MemoryStore` | The three tables, the handlers that read and write them call by call, failures and crashes; the refinement mapping to `MemoryMap`. |
| `MCMemoryStore` | Symmetry of handlers, tiers and contents for TLC. |
| `MemoryProofs` | Theorems about `MemoryStore`, checked by TLAPS. |
| `MemoryMapProofs` | That `MemoryStore` implements `MemoryMap`, checked by TLAPS. |
| `TraceStore` | The receiver of exports and the two tables it fills. |
| `MCTraceStore` | The three spans of the run. |
| `TraceProofs` | Theorems about `TraceStore`, checked by TLAPS. |
| `DebugTask` | A debug task from the request to its evaluation, and its deletion meanwhile. |
| `DebugProofs` | Theorems about `DebugTask`, checked by TLAPS. |
| `ConfigLifecycle` | `gateway.json`, its writers and its watcher. |
| `ConfigProofs` | Theorems about `ConfigLifecycle`, checked by TLAPS. |

### PipelineCoordinator and the code

| Variable | Code |
|---|---|
| `rows`, `nrows` | table `pipeline_runs`; the row number is the order of `created_at`. `stale` stands for `updated_at` older than the stage time-out, cleared by every update |
| `tasks`, `ntasks` | table `tasks`: `run_id`, `current_stage`, `status`, `parent_id` |
| `asked`, `nreqs`, `pending` | what the agents were told with each request id, the number of ids made, and the map `pending_requests` (an id is in the map iff it is in `pending`; the coordinator reads nothing else of it) |
| `sent` | the stages announced with `pipeline:next`; the agents answer any of them, any number of times |
| `job` | one slot per handler under way: where it is, and its local variables |
| `monitor` | the local variables of `timeout_monitor` |
| `faults` | number of crashes and database errors so far |

An action is one database call or one access to the map, with the computation and
the emissions up to the next one. `ReceiveResult` is the exception: the lookup of
the running row is part of the reception, because nothing precedes it. A handler
takes these paths (names are program points, arrows actions):

- `start_run`: `StartRun` -> `start_task` -`StartTask`-> end. The row comes first.
- `on_stage_result`: `ReceiveResult` -> `result_record` -`RecordResult`->
  `result_task` -`LookUpTask`-> by the reported status
  - failed: `recover_task` -`SetRecovering`-> `recover_ask` -`AskRecovery`-> end, or,
    if the emission fails, `emit_failed` -`WithdrawRequest`-> `abort_task` -> end
  - completed: (`subtasks`: `CreateSubtask`*, `SubtasksCreated`, after evaluation)
    then `advance_row` -`AdvanceRow`-> `advance_task` -`AdvanceTask`-> end, or
    `finish_task` -`FinishTask`-> end
  - anything else: end.
- `on_recovery_response`: `ReceiveRecovery` takes the request out of the map ->
  `recovery_task` -`LookUpStage`-> retry (`CheckRetries`, `FindRetryRow`,
  `RetryRow`, `RetryTask`), skip (the same `advance_row`/`finish_task`), decompose
  (`subtasks`, `DecomposeTask`) or abort.
- `on_decompose_result`: `ReceiveDecomposition`, `LookUpDecomposed`, `subtasks`,
  `DecomposeTask`.
- deletion: `BeginDelete`, `DeleteAbort` if the task is at work, `DeleteCollect`,
  `DeleteOneTask` for the task and each of its direct subtasks, `DeleteRows`.
- `timeout_monitor`: `MonitorScan` (the query), then per row `MonitorMark`,
  `MonitorLookup`, `MonitorFail`.
- `DbError` ends a handler at a call whose error is propagated with `?`;
  `Crash` empties the memory.

The constant `World` says which events of the environment an instance has, so that
a run can ask what holds with and without, say, overlapping handlers. Without
`"overlap"` a handler or the monitor starts only when none is under way.

### Abstractions and assumptions

- Names, artifacts, payloads, logs and scores are left out: no decision of the
  coordinator depends on them. A proposed list of subtasks is any number of them.
- Agents repeat what they were told: an answer carries the `run_id` and `task_id` of its
  request, and comes as `error:recovery_response` to a recovery request and as
  `task:decompose_result` to a decompose request. The definition `Replies` states this
  assumption on the environment. The code relies on it: it takes both ids from the agent's
  message (`socket_server.rs:341-342` and `382`), only asks `pending_requests` whether the
  request id is there (`pipeline_coordinator.rs:602` and `883`), and neither reads the
  fields of the stored `PendingRequest` nor compares its kind with the event.
- Results that name a run or a stage that was never sent are ignored, since no
  running row matches. They are not enumerated.
- `created_at` orders the rows, so two insertions never tie.
- Errors that the code swallows (`let _ =`, `.ok()`, `unwrap_or`) in `update_task`
  and the deletion are not modelled: `DbError` covers only the propagated ones.
- `task:create` and `task:update` write whatever status a client sends. They are
  left out; with them no property of `tasks` can hold.
- `extract_stage_memory` (a `Store` of `MemoryStore`) and `trigger_update` (starts a
  script) change nothing the coordinator reads.

### AgentSupervision and the code

| Variable | Code |
|---|---|
| `runner`, `nrunners` | the processes started by `spawn_runner` so far |
| `registry` | `AgentRegistry.processes`: the runner of each folder name |
| `record` | `agent_status`: status, and whether `last_heartbeat` is further back than the silence threshold |
| `starter` | `spawn_all_kernel_agents`, run once after the server listens |
| `monitor` | the local variables of `monitor_processes` |
| `watcher` | the local variables of `heartbeat_watch_loop` |

Each of the three tasks has a program point `pc`, the agents it still has to do
(`left`), the one it is at, the number of attempts and, between `spawn_runner` and
`register`, the runner in its hand. The delays of the code are the steps between the
actions: any task may run while another sleeps. `MonitorScan` is one action because
the code collects and removes the exited entries under one lock. The watcher has no
lock across its steps.

Names matter only for what they contain. `Alike` is the set of agents whose folder
name contains the role they register under: in the repository `learning`,
`building`, `evaluation` and `update`. The folders `evo-kernel-agent-pre-load` and
`evo-kernel-agent-skill-manage` are spelt with hyphens and the roles `pre_load` and
`skill_manage` with underscores, so the watcher finds neither their process nor
their folder. No role contains the name of a folder, hence `RecordsByFolder` is empty.

Assumptions: an agent keeps one row of `agent_status` across restarts and
registers before it reports a status; the path of an agent folder contains the name
of no role but its own; `spawn_runner` may fail at any time and for any agent.
Left out: pids, `agent_history`, the crash counter, failures of `list_agents` (the
watcher goes back to sleep), and a restart of king, whose runners go on without being
in the new registry.

### MemoryStore and the code

| Variable | Code |
|---|---|
| `memories`, `nmemories` | table `memories`, and the ids ever made (uuids, never used twice) |
| `access` | column `access_count` |
| `tiers`, `nrows` | table `memory_tiers`; rows are numbered as inserted, and a query without `ORDER BY` returns the first |
| `bindings` | table `task_memories`, a set because of its unique index and `INSERT OR IGNORE` |
| `tasks` | the ids in table `tasks` |
| `job` | the handlers under way: the next call, and their local variables |
| `crossed`, `listed`, `calm` | history variables that the properties read |

An action is one statement. `Store` stands for `memory:store`, `POST /memories`, the
memory of `task:summary` and `extract_stage_memory`: a new row, then its tiers one
after the other (`FindTier`, `WriteTier`: the two calls of `upsert_tier`), then the
binding (`Bind`). `UpdateRequest` is `memory:update` and `PUT /memories/:id`
(`UpdateRow`, `GetUpdated`, then the tiers); `DeleteRequest` is `memory:delete` and
`DELETE /memories/:id` (`DropTiers`, `Unbind`, `DropMemory`); `PutTierRequest`,
`DropTierRequest` and `BindRequest` are the HTTP handlers of tiers and bindings, which
look no id up. `Query` is `memory:query`, with `Touch` per hit. `DeleteTaskRequest` is
the part of `delete_task_cascade` that concerns memories. `FailedCall` follows each
error to where the code takes it: dropped by `let _ =` inside the loops, passed over in
`delete_task_cascade`, ending the handler elsewhere.

Abstractions: keys, tags, metadata and scores are left out, and what a search finds is
any set of memories. The tiers of a request are written in any order.

### TraceStore and the code

`traces` and `spans` are the tables, `writer` the tasks `otlp_traces_receiver` spawns,
each with what is left of its export; `received`, `repeated` and `exports` are history.
`StoreTrace` is the upsert of the row of the trace (`Opened` the `INSERT`, `Extended` the
`ON CONFLICT` clause), `StoreSpan` the `INSERT OR REPLACE` of the span. An exporter sends a
span that ended, so a span is one record however often it comes. Names, attributes and
resources are left out, and so are the casts of the times to 64 bits.
`cleanup_old_traces` is never called and not modelled.

### DebugTask and the code

| Variable | Code |
|---|---|
| `status`, `logs` | the row of `tasks` and its rows in `task_logs` with level `output` |
| `child`, `reader` | the processes on the terminal, and `pty_run_blocking` on its thread |
| `channel`, `sent` | the unbounded channel, and all that went through it |
| `emitter` | the task with `accumulated`, `log_buffer` and the last flush |
| `runner` | `run_bash_pty_with_task` once it waits for both |
| `answer` | the `debug:response` handlers of a prompt |
| `evaluations` | the `output_preview` of each `task:evaluate` |
| `deleter` | `on_task_delete` or `DELETE /tasks/:id` |

Output is counted in characters. A read may end inside a character, which
`from_utf8_lossy` turns into one replacement at the end of a chunk and one at the start of
the next (`Garbled`). The limit of the preview is counted in bytes by the code, so a
chunk that goes beyond it may be cut at a character (`First`) or inside one, which panics.
The child is bash. `ChildExits` is its end, which `child.wait()` waits for, and `LetGo` the
moment the last process, bash or one it left behind, lets the terminal go, which is what the
reader sees as the end of the file; either may come first. The streams to the dashboard are left out, and the logs that are not
output.

### ConfigLifecycle and the code

`file` is `gateway.json`: a valid config, `Empty` between the two system calls of
`std::fs::write`, or `Broken`. `put` are the handlers of `PUT /gateway/config`; `Edit` is any
other writer. `Modify` queues a notification, which the file system may merge with one
that is queued. `watcher` is `watch_config` with the local variables of
`on_config_change`, whose steps are `ReadConfig`, `Backup`, `LogEvent` and `Announce`.
`backups` is the directory by the second in the name. `Over` is what a shorter content written
over a longer one leaves. The hash of a config is the config.

## 3. Runs

All bounds of the pipeline are constants of the module: `MaxRuns`, `MaxRows` (rows ever inserted),
`MaxSubtasks`, `MaxRequests`, `MaxFaults`. Every run has `MaxRuns = 1`: no action
relates two runs, and ids are fresh; the proofs hold for any number. When a bound is
reached a handler stays where it is, which is why deadlock is not checked; a finished
pipeline stops as well.

| Run | Instance | Checks |
|---|---|---|
| `PipelineSerial` | 1 handler, no overlap, retry limit 3 as in the code, 5 rows needed and 6 given, 10 requests | `StagesInOrder`, `CompletedRanAllStages`, `OneRunningStage`, `EachStageOnce`, `RetriesWithinLimit`, `NoStuckRun`, `ImplementsRun`, `RunSettles` |
| `PipelineRetryRaces` | 2 handlers and the monitor, overlap, failed emissions, decompositions, 2 rows, 3 requests | `AnsweredOnce`, `RetriesBounded`, `RecoveryNotForgotten` |
| `PipelineDeletion` | 1 handler, subtasks of subtasks, deletions | `DeletionLeavesNoRow` |
| `PipelineEverything` | every event, crash and error, 1 handler and the monitor | `StageInv`, `StageEnds` |
| `SupervisionRaces` | 2 agents, one alike and one not, 3 runners, 3 attempts as in the code | `SupervisionInv`, `SoleRunner`, `CrashAnswered`, `SilenceAnswered` |
| `MemoryRaces` | 2 handlers, 1 memory, 2 tiers, 2 contents, 1 task, 3 tier rows, 2 queries, 1 fault | `TypeOK`, `CopiesBounded`, `CalmStore`, `AccessCounted`, `WritesSeen`, `DeletionComplete`, `ImplementsMap` |
| `TraceIngest` | 2 writers, 3 exports of up to 2 of 3 spans, 1 fault | `TypeOK`, `EnvelopeCovers`, `CountCovers`, `QuietSummary`, `SpansStored` |
| `DebugTasks` | 3 characters of output, reads and preview of 2, 2 responders, 1 fault | `TypeOK`, `OutputConserved`, `EvaluationComplete`, `CompletedIsTrue`, `BashSettles` |
| `ConfigChanges` | 2 handlers of PUT, 2 configs of different length, 3 changes, 2 seconds, 1 fault, 1 restart | `TypeOK`, `SettledAnnounced`, `BackupTrue`, `PutTakesEffect`, `ChangeAnnounced` |

`PipelineSerial` walks all five stages with up to three retries each within ten
requests, so every transition of `PipelineRun` is taken. `StagesInOrder` and
`CompletedRanAllStages` are checked there through all five stages; that they survive overlap
is what the proofs show, from `StageInv`, which `PipelineEverything` checks with every event.
`PipelineRetryRaces` has three requests, one more than the retries the bound allows
with a limit of 1 and two handlers, so the bound is tight there. Two stages are enough
because the recovery of one stage does not look at another. `SupervisionRaces` has one
agent of each kind, since nothing distinguishes agents of one kind, and a third
runner (`MaxSpawns`), so that one agent is respawned by the monitor or the watcher
or both at once; when no runner is left to start an attempt fails, as it may at any time.
Its deadlock check is off because the system rests when all agents are given up.
The type invariants of coordinator and supervision are conjuncts of `StageInv` and
`SupervisionInv`.

`MemoryRaces` has two handlers, the smallest number that race, and one memory, since no
call looks at two; three rows are one more than two racing insertions make, and two tiers
let an insertion be confused with one of another tier. Two queries are the fewest that can
list one memory at once and lose an update of its count; that a query with several hits
counts each is left to the proof. A request names one tier
(`MaxPuts`): several are written one after the other, and the proofs hold for any number.
With two writers and three exports of two spans `TraceIngest` has a new, a repeated and a
later export under way together, and its spans are chosen so that the row of a trace must be
extended on either side and two traces share a span id. `DebugTasks` needs an output
that fills the preview, one whose chunk passes its limit, and chunks that come when it is
full: three characters with a preview of two and reads of one or two give them all. `ConfigChanges` has a third
change to fall between the two calls of another and after them, and two seconds so that
backups share a name and do not. In these runs deadlock is not checked because the system
rests when the bounded requests are done.

What each property means is written above it in the module. Some deserve a word:

- `RetriesBounded` is what is left of the retry limit when decisions overlap: the
  limit plus the number of other handlers. `RetriesWithinLimit`, the documented
  limit, holds one event at a time (`PipelineSerial`).
- `RecoveryNotForgotten` holds across races but not across a crash or a database
  error, and `PipelineRetryRaces` therefore has neither: see section 5.
- `StageEnds` holds because a running row always goes stale and the monitor always
  comes back, even with a handler that never gets on.
- `SoleRunner` speaks of the agents the watcher leaves alone, those outside `Alike`.
  For the others it fails: the watcher starts a runner while the monitor waits to
  start its own, and the later registration hides the earlier runner.
- `CrashAnswered` allows giving up as an answer, and several agents may exit while the
  monitor is busy with one. `SilenceAnswered` counts a failed attempt as an answer.
- `ImplementsMap` lets the effects a client asked for happen in any order, or not at all
  after a failure, but each at most once, and nothing else: duplicate rows of a tier never
  bring an old content back, because readers, updates and deletions agree on them.
- `CalmStore` says what the order of the statements achieves: with one request at a time,
  failures and crashes leave no dangling row, except a binding whose task was deleted after
  the deletion of the binding had failed.
- `WritesSeen` and `DeletionComplete` exempt a call another handler has crossed; without the
  exemption both fail, as section 5 tells.
- `QuietSummary` speaks of moments with no task at work and no failure so far.
- `SpansStored` starts with a span in the hands of a writer, whatever has failed before: only
  an error or a stop from then on excuses its loss.
- `OutputConserved` compares with what went through the channel: characters that the
  terminal split are garbled before that. `BashSettles` starts when the command is over
  for the code (`CommandOver`), a failed start, read or wait included: a command that leaves
  a process behind on its terminal keeps its task running, as it does in the code. It exempts
  only a stop of king and the failure of the update that would settle the task.
- `PutTakesEffect` exempts a PUT whose file another writer touched between its calls.
- `ChangeAnnounced` and `SettledAnnounced` speak of changes made while the directory is
  watched.

### Runs that show a divergence

Each checks one property that a document or a comment states, and TLC finds it violated.

| Run | Statement | What happens |
|---|---|---|
| `SubtaskShadowsRun` | "Find the running task associated with a pipeline run_id" | the newest task with the id is a pending subtask |
| `RecoveryUnanswered` | recovery times out after 30 s | nothing reads the constant; the task waits for ever |
| `BashPreviewLost` | the output is accumulated (max 8KB) for the evaluation | the chunk that passes the limit is cut inside a character, the emitter panics, the preview is empty and the log stops |

### Mutants

Next to a definition stands the form a plausible mistake would give it (comment
`Mutant`): a dropped arm, an off-by-one, a read instead of a removal, a missing
insertion. No run uses them; `PROJECT.json` pairs each property with the mutant that
violates it.

## 4. Fairness

`FairSpec` assumes weak fairness of `HandlerStep(h)` (tokio polls a task that is
ready; a database call returns), of `MonitorStep` (the interval of 60 s ticks for ever)
and of `GrowStale(i)` (a row that nobody updates grows old). Nothing is assumed of
agents, users, crashes or errors. `CreateSubtask` is bounded, so a handler leaves its
loop.

For `AgentSupervision` weak fairness of `StarterStep`, `MonitorStep` and
`WatcherStep` says that the three loops go on: their sleeps end and `spawn_runner`
returns. Nothing is assumed of runners: one that is up may exit, report, or do neither.

`TraceStore` assumes it of each writer (a spawned task runs, a call returns), `DebugTask` of
the reader, the emitter and the runner (a read returns when there is something to read or the
terminal is closed, `wait` returns when bash has ended, a task that can go on does), and
`ConfigLifecycle` of the watcher (the loop takes the next notification, its calls return).
Nothing is assumed of children, agents, users, exporters, writers of the file, faults and
crashes. `MemoryStore` states no fairness and no liveness: its handlers only end.

## 5. What the model shows to fail, without a run of its own

- A result with a status that is neither `completed` nor `failed` ends the stage and
  nothing else: the run is stuck (`NoStuckRun` fails with `"unknown"` in `World`).
- A crash or a database error between the update of a row and the creation of the next
  leaves a run nobody resumes.
- After a restart the answers to earlier recovery requests are ignored and the tasks
  stay in `recovering`.
- An answer that names another run or task than its request is carried out for the one it
  names, and an answer of the other kind takes the request out all the same, so that a
  recovering task may wait for ever: the coordinator checks neither (section 2). The model
  excludes both (`Replies`), and what is checked and proved holds only for agents that
  repeat what they were told.
- Two copies of one result, overlapping, both advance the run, so a stage is entered
  twice (`EachStageOnce` fails with `"overlap"`).
- A task marked `decomposed` by hand keeps its running stage, and the result of that
  stage advances or completes it as if nothing had happened.
- The watcher respawns an agent the monitor has given up, and two runners of one agent
  may be up, one of them in no registry (`SoleRunner` fails without the restriction to
  agents outside `Alike`).
- After all retries an agent should be marked `"failed"` (`agent_manager.rs:295`), but the
  statement is given the folder name and looks for rows whose role contains it, which no
  role does. `"crashed"` is never written for the same reason.
- A silent agent whose process hangs is not respawned although the comment on the threshold
  says it "is considered missing and a respawn is attempted" (`agent_manager.rs:24`): its
  process is in the registry, and the watcher waits for its next cycle.
- Overlapping retry decisions pass the limit of 3 (`README.md:356`): the count is read in one
  call and incremented in another. `RetriesBounded` is what is left.
- The monitor marks the rows of a query by id without a second look, so a stage answered or
  retried in between is marked `timed_out`, where `README.md:357` speaks of stale stages.
- Deleting a subtask deletes the rows of the run of its parent.
- A deletion overlapping a result leaves a row of a run that is gone
  (`DeletionLeavesNoRow` fails with `"overlap"`). Subtasks of subtasks survive the
  deletion of their grandparent.

Memories:

- A memory without tiers is never found by a search with words, although the comment says
  that each word must appear in "tier content OR memory key" (`memory_db.rs:536`): the join
  with `memory_tiers` is an inner one.
- `POST /memories/:id/tiers`, `POST /task/:id/memories` and `task:summary` look no id up: they
  leave tiers and bindings of memories and tasks that are not there. `task:summary` also sets
  a task of any status to `evaluated`.
- Two racing writers leave two rows of one tier, and `get_tiers` returns both; a write that
  found a row deleted meanwhile is lost; a tier or binding written during `delete_memory`
  outlives the memory.

Traces: `root_span_name` is the name of the span received first, not of the root; the times
are cast to signed 64 bits, and the difference in the `INSERT` saturates where that in the
`UPDATE` does not.

Debug tasks:

- A prompt answered by two agents sets an evaluated task back to `completed`; a prompt nobody
  answers, and a command whose king stops, stay `running`.
- Logs written after the deletion of the task stay in the table; a failed insertion loses
  what was in the buffer.
- The cut of `log_socket_event` (`task_db.rs:1723`) panics inside a character as the preview
  does; it only loses the log row.

Config:

- Two overlapping PUTs can leave the end of the longer content behind the shorter, and a stop
  between the two calls leaves an empty file. Nothing restores a backup.
- Changes made while king is down are not announced at the next start.
- Backups of one second overwrite each other.
- The lifecycle of `README.md:68-74` (test instance, health check, revert) is not in
  `gateway_manager.rs`, which announces whatever validates. `POST /admin/config-sync` only
  broadcasts.

Agents and cron jobs (not modelled): `registration_count` grows with every heartbeat;
seeding overwrites `enabled` and the schedule, which the comments (`cron_manager.rs:52-53`)
say are preserved, though nothing in the code disables a job; `dispatch_update_check` emits
`pipeline:next` before it creates the row.

## 6. Proofs

Every theorem is checked by TLAPS from the assumption the module states about its constants
(`ConstantsOK` and its likes), for every value of them: any number of handlers, rows, tasks,
requests, spans, faults. Where a theorem has a hypothesis of its own, it is said below and
why. Each inductive invariant was checked by TLC on the bounds of a run before it was proved.

### PipelineProofs

| Theorem | States | Hypothesis |
|---|---|---|
| `StageInvariant` | `Spec => []StageInv` | |
| `TypeCorrect` | `Spec => []TypeOK` | |
| `StagesAreInOrder` | `Spec => []StagesInOrder` | |
| `CompletedIsComplete` | `Spec => []CompletedRanAllStages` | |
| `AnswersAreTakenOnce` | `Spec => []AnsweredOnce` | |
| `RetriesAreBounded` | `Spec => []RetriesBounded` | `Handlers` is finite |
| `RetriesAreLimited` | `Spec => []RetriesWithinLimit` | no `"overlap"` |
| `RecoveriesAreRemembered` | `Spec => []RecoveryNotForgotten` | `Undisturbed` |

`StagesInOrder` is not inductive: that `AdvanceRow` inserts a row whose predecessor
exists depends on what its handler saw several calls earlier, and others have run
since. The strengthening `StageInv` says what a handler knows at its program point
(`JobOK`, `PointOK`): the stage it works on has a row of its run, its task belongs to
its run, it is at a stage that has a successor, and so on. This knowledge is stable
because nothing takes it away: rows are only added, a row never changes its run or its
stage, a deletion leaves the history of the row, and a task never changes its run. The
lemmas `RowsKept`, `TasksKept` and `HasRowKept` state that once; each action then has a
lemma of its own and needs only to treat what its own handler learns. `TasksOK` carries
the same fact for tasks, which gives `CompletedRanAllStages` by walking back from the
last stage.

`AnswerInv` adds to `AnsweredOnce` that the request a handler acts on was made: a new
request then has a number nobody holds.

`RetryInv` counts: the retries written to a live row plus the handlers that `Aims` at it
(they have passed the check of the limit and not written yet) exceed the limit by no more
than `Width - 1`, where `Width` is the number of handlers that can be at work, one without
`"overlap"` (`Alone`). A handler passes the check only if the count is below the limit, so
the others aiming are all there is to add. The same invariant gives both theorems.

`RecoveryInv` says of every recovering task that an answer is awaited or that a handler is
at a point from which it will set the status (`Deciding`). What makes it inductive is that
a retry finds its row and a decision finds its task. `Undisturbed` excludes the four events
that break that: a crash or a database error ends the handler in between, a deletion takes
the row it looks for, and a subtask shadows the task of the run, so that the task set to
recovering is another one than the stage's. Overlapping handlers, time-outs, failing
emissions, unknown statuses and manual decompositions are all allowed.

### PipelineSerialProofs

| Theorem | States | Hypothesis |
|---|---|---|
| `OneStageRuns` | `Spec => []OneRunningStage` | `Serial` |
| `StagesAreEnteredOnce` | `Spec => []EachStageOnce` | `Serial` |
| `NoRunIsStuck` | `Spec => []NoStuckRun` | `Serial` |
| `CoordinatorImplementsRun` | `Spec => ImplementsRun` | `Serial` |
| `DeletionsLeaveNothing` | `Spec => []DeletionLeavesNoRow` | `OneByOne` |

`Serial` says that nothing happens but time-outs, deletions and failing emissions, the
world of the run `PipelineSerial`: events are handled one after the other, and there are no
subtasks, unknown statuses, database errors or crashes. Section 5 says which of them breaks
which property. Within it the number of runs, rows, requests, retries and handlers is
arbitrary.

None of the four properties is inductive, and what they need is about whole runs. A handler
leaves the run it works on in states that no reader should meet at rest: a row that is
recorded while its task still reads running, a task that is recovering while no request has
been made. `SerialInv` therefore says of each run that it is settled or in hand. A settled
run shows itself truly: a running task is at the last stage of its run and the row of that
stage is running, a recovering task has exactly one request, and no stage runs for any other
task. Otherwise one handler, or the monitor, has the run in hand, and for each of their
program points the invariant says what is true there: which row is the last one, that none
is running, that none is awaited, what the task still reads. Since events do not overlap at
most one run is in hand (`Alone`). The tables add that a run has one task, a stage one row,
and that only the last row of a run is at work (`LastRuns`): `EachStageOnce` and
`OneRunningStage` follow at once, `NoStuckRun` because nothing is in hand when all is quiet.

The refinement maps the tables to the status and stage of the task of each run (`RunView`).
Each action changes the view of one run by one step of
`PipelineRun` or of none (`ViewOK`, `Moves`). What the proof needs of the state is again
`SerialInv`: `AdvanceTask` moves the stage by one only because the task is still where the
handler found the row, `MonitorFail` ends a run only because the task it fails reads
running, and a decision finds its task recovering because no other event came in between.

`DeletionLeavesNoRow` holds in a larger world: `OneByOne` excludes overlapping events and
crashes only. `SweepInv` says that a run whose tasks are all deleted (`Dead`) has no row
left, or the handler that deleted them is about to remove the rows (`Sweeps`). A new row must
then be of a run that is not dead (`SweepPoint`): a result is taken for a running row, which
a dead run does not have when nothing else is under way, and a skip looks its task up first.
That the ids collected by a deletion are of the run it has read rests on `FamilyOK`: a
subtask is of the run of its parent.

### SupervisionProofs

- `SupervisionInvariant`: `Spec => []SupervisionInv`
- `OneRunnerEach`: `Spec => []SoleRunner`

`SoleRunner` alone is not inductive: a step that starts a runner must know that
none is up. `SupervisionInv` adds that an agent outside `Alike` is in one place at a
time: still to be started, with the monitor, or in the registry (`PlacesOK`), and that
its live runner is tracked there (`LiveOK`). The monitor gets an agent only by
taking its exited runner out of the registry, so the one that was tracked is gone
when the next is started. The rest says that a runner in hand or in the registry
belongs to the agent it stands for.

### TraceProofs

- `TypeCorrect`: `Spec => []TypeOK`
- `TracesCoverSpans`: `Spec => []EnvelopeCovers`
- `CountsCoverSpans`: `Spec => []CountCovers`
- `QuietTracesAddUp`: `Spec => []QuietSummary`, if `OwnIds`

`EnvelopeCovers` needs to know that a writer between its two calls has already extended the
row of its trace, and that this is never undone: rows only widen (`Extended`), and no row is
removed. `CountCovers` is inductive because it counts the spans about to be inserted for
the first time with those that are there: `StoreTrace` raises the count before the span can
appear, and another writer inserting the same span takes it from one set to the other.

`QuietSummary` asks for equality, so `SummaryInv` adds the other direction. Each number in
the row of a trace is one some span says (`Attained`), a span that is stored or that the
writer just extending the row has in hand; the count is exact as long as no span came
twice (`Exact`), because then what waits in the exports is all different and not yet stored
(`Fresh`). `OwnIds` says that two spans with one trace and span id are one span: an
exporter repeats a span, it does not reuse its ids for another. Without it the row Without it the row would
cover a span that `INSERT OR REPLACE` has replaced.

### ConfigProofs

- `TypeCorrect`: `Spec => []TypeOK`
- `BackupsAreTrue`: `Spec => []BackupTrue`
- `SettledIsAnnounced`: `Spec => []SettledAnnounced`
- `PutsTakeEffect`: `Spec => PutTakesEffect`

The invariant is `ConfigInv`: `BackupTrue` also holds for the row the watcher is about to
write (`CarriesBackup`), and as long as no call has failed a valid file is announced and
recorded, or about to be, or a notification that came after the last read is still queued
(`Informed`). The last clause is what makes stale reads harmless: whatever the watcher
carries, the change that outdated it has left a notification behind it.

`PutTakesEffect` is about one step but needs what happened before it: `Truncated` says that
the file is empty between the two calls of a write nobody has crossed, so that no tail of an
older content is left behind. Any other write marks the ones under way as crossed, which is
what keeps `Truncated` while PUTs and edits interleave.

### MemoryProofs and MemoryMapProofs

- `TypeCorrect`: `Spec => []TypeOK`
- `CopiesAreBounded`: `Spec => []CopiesBounded`
- `WritesAreSeen`: `Spec => WritesSeen`
- `DeletionsAreComplete`: `Spec => DeletionComplete`
- `AccessIsCounted`: `Spec => []AccessCounted`
- `CalmIsTidy`: `Spec => []CalmStore`
- `StoreImplementsMap`: `Spec => ImplementsMap`

`TypeOK` is strengthened by `JobsGood`, the ids a handler carries at each of its calls.
`CopiesBounded` follows from `CopiesInv`: rows of a tier and handlers that found none are
together no more than the handlers, since a row appears only when such a handler goes on,
and a handler joins them only when there is no row. `WritesSeen` and
`DeletionComplete` are action properties; behind them are invariants that say of a handler
nobody has crossed that what it saw still holds (`WritingInv`: the row it found is still
the first of its tier, or there is still none; `DeletionInv`: the tiers, and later the
bindings, of the memory it deletes are gone). The steps are grouped by what they do to the
tables (`Steps`), so that each invariant is shown for five kinds of step and not
for twenty actions.

`AccessInv` extends the count to memories that do not exist yet (nothing counted, nobody
about to touch them), so that a new memory starts even. `CalmInv` says, while the store is
calm, that at most one handler is at work, that it refers to what is there, and what its
earlier calls have achieved (`Apt`); each prefix of its statements then leaves the tables
tidy, which is what a failure or a crash needs.

`StoreImplementsMap` proves the refinement step by step. Of a state it needs `MapInv`: an
upsert's row, if still there, is a row of its tier, and the tier is off the list of those
still to be written. A call then either changes one view, by one effect on the list of its
handler (`MapHappen`), or none (`MapStutter`, `MapForget`); the second row two racing
writers leave is behind the first, so inserting it shows nobody anything, and the effect of
the later writer counts as dropped.

### DebugProofs

- `DebugTypes`: `Spec => []TypeOK`
- `DebugOutput`: `Spec => []OutputConserved`
- `DebugEvaluation`: `Spec => []EvaluationComplete`
- `DebugCompleted`: `Spec => []CompletedIsTrue`

from `DebugInv`, which has `Control` and `Conserved` besides the types. `Control` is the
order in which the activities end: the runner settles after the reader and the emitter,
the emitter ends with an empty channel and an empty buffer, a success means that bash
ended so, and what it wrote was read unless a call failed. `Conserved` states that log, buffer and channel, in this
order, are what was sent, and that what is kept for the evaluation is the beginning of log
and buffer; a panic leaves a prefix in the log.

The output is a sequence of chunks put together by `FlattenSeq`, a recursive definition. The
library's induction takes the predicate as an operator, which the provers cannot
instantiate; the first part of `DebugProofs` states induction with the set of the numbers
the predicate holds of, from the well-foundedness of `<`, and derives with it what
`FlattenSeq` does to a sequence that grows at its end or loses its head.

### Only model-checked

- `RunSettles`, `StageEnds`, `CrashAnswered`, `SilenceAnswered`, `SpansStored`,
  `BashSettles` and `ChangeAnnounced`: liveness under fairness and `ENABLED` are out of the
  prover's reach.
- The three divergences of section 3, which are counterexamples.

## 7. Not modelled, and what is left

Not modelled, with the reason:

- Agent records: registration, rooms, disconnect and history rows. King decides nothing
  from them but what `AgentSupervision` has, and each handler is one or two statements about
  one row.
- Cron manager: the loop emits an event per due job and writes one row; no other part
  writes that table.
- Self update: a shell script that king starts and forgets; its steps are commands of the
  system.
- System discovery and doctor run once and print or write a file; `task:create`,
  `task:update` and the read-only handlers write what the client says or nothing.

Every invariant, action property and refinement the passing runs check is stated by a
theorem of section 6. Left: the serial properties in a larger world than `Serial`. With
subtasks the task a result finds may be another one than the stage's (`SubtaskShadowsRun`),
so `NoStuckRun` and `ImplementsRun` would have to say something else; `OneRunningStage` and
`EachStageOnce` hold under `OneByOne` on small instances and need an invariant that speaks of
rows and requests but not of the status of tasks.
