------------------------- MODULE PipelineCoordinator -------------------------
(***************************************************************************)
(* The coordinator of evolution pipeline runs (pipeline_coordinator.rs),   *)
(* with the part of the database it drives: the stage rows of              *)
(* `pipeline_runs` and the `tasks` table.                                  *)
(*                                                                         *)
(* Every Socket.IO event and HTTP request runs as a tokio task of its own, *)
(* and every database call is a point where another task may run.  So a    *)
(* handler is a slot of `job` with a program point, and an action is one   *)
(* database access (with the emissions that follow it).  The timeout       *)
(* monitor is one more process.  The database outlives a crash; the map    *)
(* of pending requests and the handlers do not.                            *)
(*                                                                         *)
(* Agents are the environment: they answer a stage they were sent, or a    *)
(* request they were asked, at any time, any number of times or never.     *)
(* What an answer says of its request is what the agent was told (Replies).*)
(***************************************************************************)
EXTENDS Integers, FiniteSets, PipelineStages

CONSTANTS
  Handlers,         \* slots for concurrent event handlers
  MaxStageRetries,  \* MAX_STAGE_RETRIES
  World,            \* what may happen in this instance, see WorldEvents
  MaxRuns,          \* bound: runs started
  MaxRows,          \* bound: rows ever inserted in pipeline_runs
  MaxSubtasks,      \* bound: subtasks ever inserted in tasks
  MaxRequests,      \* bound: recovery and decompose requests ever made
  MaxFaults         \* bound: crashes and database errors

WorldEvents ==
  { "overlap",     \* a handler may start while another one runs
    "timeout",     \* an agent takes longer than the stage timeout
    "unknown",     \* an agent reports a status that is neither of the two
    "subtasks",    \* agents propose subtasks
    "decompose",   \* POST /tasks/:id/decompose
    "delete",      \* task:delete and DELETE /tasks/:id
    "emit_error",  \* an emission returns Err
    "db_error",    \* a database call propagated with `?` returns Err
    "crash" }      \* king stops and starts again

ASSUME ConstantsOK ==
  /\ Handlers # {}
  /\ World \subseteq WorldEvents
  /\ MaxStageRetries \in Nat
  /\ MaxRuns \in Nat
  /\ MaxRows \in Nat
  /\ MaxSubtasks \in Nat
  /\ MaxRequests \in Nat
  /\ MaxFaults \in Nat

-----------------------------------------------------------------------------
\* Ids are given in the order of creation, which is the order of created_at;
\* None stands for an absent run, row, task or request.
None     == 0
MaxTasks == MaxRuns + MaxSubtasks
RunId    == 1 .. MaxRuns
RowId    == 1 .. MaxRows
TaskId   == 1 .. MaxTasks
ReqId    == 1 .. MaxRequests

\* "absent" is a row not inserted yet and "deleted" one deleted since.
Gone      == {"absent", "deleted"}
RowStatus == Gone \cup {"running", "completed", "failed", "timed_out", "other"}
TaskStatus ==
  Gone \cup {"pending", "running", "recovering", "completed", "failed",
             "decomposed"}

Row     == [run : RunId \cup {None}, stage : Stages \cup {NoStage},
            status : RowStatus, retry : Nat, stale : BOOLEAN]
Task    == [run : RunId \cup {None}, stage : Stages \cup {NoStage},
            status : TaskStatus, parent : TaskId \cup {None}]
Request == [kind : {"recovery", "decompose"}, run : RunId \cup {None},
            task : TaskId \cup {None}]

Results == {"completed", "failed"} \cup
           (IF "unknown" \in World THEN {"other"} ELSE {})
Actions == {"retry", "decompose", "skip", "abort"}

Point == { "idle", "start_task", "result_record", "result_task",
           "recover_task", "recover_ask", "emit_failed", "abort_task",
           "subtasks", "advance_row", "advance_task", "finish_task",
           "recovery_task", "retry_count", "retry_find", "retry_row",
           "retry_task", "decompose_lookup", "decompose_task",
           "delete_abort", "delete_collect", "delete_tasks", "delete_rows" }

\* What a handler holds between two database calls.
Job == [pc : Point, kind : {"none", "start", "result", "recovery", "decompose",
                            "delete"},
        run : RunId \cup {None}, stage : Stages \cup {NoStage},
        said : Results \cup Actions \cup {"none"},
        row : RowId \cup {None}, task : TaskId \cup {None},
        req : ReqId \cup {None}, doomed : SUBSET TaskId]

Idle == [pc |-> "idle", kind |-> "none", run |-> None, stage |-> NoStage,
         said |-> "none", row |-> None, task |-> None, req |-> None,
         doomed |-> {}]

\* The monitor: the rows of its query still to do, and the one in hand.
Monitor == [pc : {"idle", "mark", "lookup", "fail"}, left : SUBSET RowId,
            row : RowId \cup {None}, task : TaskId \cup {None}]
Resting == [pc |-> "idle", left |-> {}, row |-> None, task |-> None]

VARIABLES
  rows, nrows,    \* pipeline_runs, and the number of rows inserted
  tasks, ntasks,  \* tasks, and the number of tasks inserted
  asked, nreqs,   \* what the agents were told with each id, and their number
  pending,        \* pending_requests: the request ids not answered yet
  sent,           \* the stages announced with pipeline:next
  job,            \* the handlers
  monitor,        \* timeout_monitor
  faults          \* crashes and errors so far

database == <<rows, nrows, tasks, ntasks>>
requests == <<asked, nreqs, pending>>
vars     == <<rows, nrows, tasks, ntasks, asked, nreqs, pending, sent, job,
              monitor, faults>>

Init ==
  /\ rows = [i \in RowId |-> [run |-> None, stage |-> NoStage,
                              status |-> "absent", retry |-> 0,
                              stale |-> FALSE]]
  /\ nrows = 0
  /\ tasks = [t \in TaskId |-> [run |-> None, stage |-> NoStage,
                                status |-> "absent", parent |-> None]]
  /\ ntasks = 0
  /\ asked = [q \in ReqId |-> [kind |-> "recovery", run |-> None,
                               task |-> None]]
  /\ nreqs = 0
  /\ pending = {}
  /\ sent = {}
  /\ job = [h \in Handlers |-> Idle]
  /\ monitor = Resting
  /\ faults = 0

-----------------------------------------------------------------------------
(* The queries.  Newest and Oldest are empty when S is, else a singleton.  *)

Newest(S) == {i \in S : \A j \in S : j <= i}
Oldest(S) == {i \in S : \A j \in S : i <= j}
OrNone(S) == IF S = {} THEN {None} ELSE S

LiveRow(i)  == i \in RowId /\ rows[i].status \notin Gone
LiveTask(t) == t \in TaskId /\ tasks[t].status \notin Gone

RowsOf(run, s) == {i \in RowId : LiveRow(i) /\ rows[i].run = run
                                            /\ rows[i].stage = s}
TaskOfRun(run) ==
  OrNone(Newest({t \in TaskId : LiveTask(t) /\ tasks[t].run = run}))
RunningRows    == {i \in RowId : rows[i].status = "running"}

(* The statements. An UPDATE of a row that is gone changes nothing.        *)

InsertRow(run, s) ==
  /\ nrows < MaxRows
  /\ nrows' = nrows + 1
  /\ rows' = [rows EXCEPT ![nrows + 1] =
                [run |-> run, stage |-> s, status |-> "running", retry |-> 0,
                 stale |-> FALSE]]

SetRow(i, status) ==
  rows' = IF LiveRow(i)
          THEN [rows EXCEPT ![i].status = status, ![i].stale = FALSE]
          ELSE rows

InsertTask(run, status, s, parent) ==
  /\ ntasks < MaxTasks
  /\ ntasks' = ntasks + 1
  /\ tasks' = [tasks EXCEPT ![ntasks + 1] =
                 [run |-> run, stage |-> s, status |-> status,
                  parent |-> parent]]

SetTask(t, status) ==
  tasks' = IF LiveTask(t) THEN [tasks EXCEPT ![t].status = status] ELSE tasks

(* The program point of a handler.                                         *)

At(h, point)   == job[h].pc = point
Goto(h, point) == job' = [job EXCEPT ![h].pc = point]
Return(h)      == job' = [job EXCEPT ![h] = Idle]

Quiet    == monitor = Resting /\ \A h \in Handlers : job[h] = Idle
Begin(h) == job[h] = Idle /\ ("overlap" \in World \/ Quiet)

-----------------------------------------------------------------------------
(* start_run                                                               *)

\* The run id is fresh; the row of the first stage comes before the task.
StartRun(h) ==
  /\ Begin(h)
  /\ \E run \in RunId :
       /\ \A i \in RowId : rows[i].run # run
       /\ InsertRow(run, Learning)
       /\ job' = [job EXCEPT ![h] = [Idle EXCEPT !.pc = "start_task",
                                                 !.kind = "start",
                                                 !.run = run,
                                                 !.stage = Learning]]
  /\ UNCHANGED <<tasks, ntasks, requests, sent, monitor, faults>>

StartTask(h) ==
  /\ At(h, "start_task")
  /\ InsertTask(job[h].run, "running", Learning, None)
  /\ sent' = sent \cup {<<job[h].run, Learning>>}
  /\ Return(h)
  /\ UNCHANGED <<rows, nrows, requests, monitor, faults>>

-----------------------------------------------------------------------------
(* on_stage_result                                                         *)

\* An agent answers a stage it was sent: the first row of that stage that
\* is running is the one reported on.  Without one the result is ignored.
ReceiveResult(h) ==
  /\ Begin(h)
  /\ \E work \in sent, said \in Results :
       \E i \in Oldest(RowsOf(work[1], work[2]) \cap RunningRows) :
         job' = [job EXCEPT ![h] = [Idle EXCEPT !.pc = "result_record",
                                                !.kind = "result",
                                                !.run = work[1],
                                                !.stage = work[2],
                                                !.said = said,
                                                !.row = i]]
  /\ UNCHANGED <<database, requests, sent, monitor, faults>>

\* Mutant: a successful result is not written to the row.
RecordFailuresOnly(h) ==
  /\ At(h, "result_record")
  /\ SetRow(IF job[h].said = "failed" THEN job[h].row ELSE None, job[h].said)
  /\ Goto(h, "result_task")
  /\ UNCHANGED <<nrows, tasks, ntasks, requests, sent, monitor, faults>>

\* The row is written by its id, whatever has happened to it meanwhile.
RecordResult(h) ==
  /\ At(h, "result_record")
  /\ SetRow(job[h].row, job[h].said)
  /\ Goto(h, "result_task")
  /\ UNCHANGED <<nrows, tasks, ntasks, requests, sent, monitor, faults>>

\* Mutant: the row of the next stage is not created.
OnwardUnrecorded(s) == IF HasNext(s) THEN "advance_task" ELSE "finish_task"

Onward(s) == IF HasNext(s) THEN "advance_row" ELSE "finish_task"

\* The task of the run is the newest one with its run_id.
AfterResult(said, s, t) ==
  CASE said = "failed"    -> {"recover_task"}
    [] said = "completed" -> {Onward(s)} \cup
         (IF s = Evaluation /\ t # None /\ "subtasks" \in World
          THEN {"subtasks"} ELSE {})
    [] OTHER              -> {"idle"}

LookUpTask(h) ==
  /\ At(h, "result_task")
  /\ \E t \in TaskOfRun(job[h].run) :
       \E point \in AfterResult(job[h].said, job[h].stage, t) :
         IF point = "idle" THEN Return(h)
         ELSE job' = [job EXCEPT ![h] = [@ EXCEPT !.pc = point, !.task = t]]
  /\ UNCHANGED <<database, requests, sent, monitor, faults>>

SetRecovering(h) ==
  /\ At(h, "recover_task")
  /\ SetTask(job[h].task, "recovering")
  /\ Goto(h, "recover_ask")
  /\ UNCHANGED <<rows, nrows, ntasks, requests, sent, monitor, faults>>

NewRequest(kind, run, t) ==
  /\ nreqs < MaxRequests
  /\ nreqs' = nreqs + 1
  /\ asked' = [asked EXCEPT ![nreqs + 1] = [kind |-> kind, run |-> run,
                                            task |-> t]]
  /\ pending' = pending \cup {nreqs + 1}

\* The request is in the map before it is emitted; an emission that fails
\* may have reached some of the sockets of the room.
AskRecovery(h) ==
  /\ At(h, "recover_ask")
  /\ NewRequest("recovery", job[h].run, job[h].task)
  /\ \/ Return(h)
     \/ /\ "emit_error" \in World
        /\ job' = [job EXCEPT ![h] = [@ EXCEPT !.pc = "emit_failed",
                                                 !.req = nreqs + 1]]
  /\ UNCHANGED <<database, sent, monitor, faults>>

\* Mutant: the run is not aborted when nobody could be asked.
WithdrawAndReturn(h) ==
  /\ At(h, "emit_failed")
  /\ pending' = pending \ {job[h].req}
  /\ Return(h)
  /\ UNCHANGED <<database, asked, nreqs, sent, monitor, faults>>

WithdrawRequest(h) ==
  /\ At(h, "emit_failed")
  /\ pending' = pending \ {job[h].req}
  /\ Goto(h, "abort_task")
  /\ UNCHANGED <<database, asked, nreqs, sent, monitor, faults>>

\* abort_pipeline: only the task is written, the rows stay as they are.
AbortTask(h) ==
  /\ At(h, "abort_task")
  /\ SetTask(job[h].task, "failed")
  /\ Return(h)
  /\ UNCHANGED <<rows, nrows, ntasks, requests, sent, monitor, faults>>

\* create_subtasks: a failing insert is logged and the loop goes on, so any
\* number of the proposed subtasks is inserted.
Subtasks == {t \in TaskId : tasks[t].parent # None}

CreateSubtask(h) ==
  /\ At(h, "subtasks")
  /\ "subtasks" \in World
  /\ Cardinality(Subtasks) < MaxSubtasks
  /\ InsertTask(job[h].run, "pending", NoStage, job[h].task)
  /\ UNCHANGED <<rows, nrows, requests, sent, job, monitor, faults>>

SubtasksCreated(h) ==
  /\ At(h, "subtasks")
  /\ Goto(h, IF job[h].kind = "result" THEN Onward(job[h].stage)
                                       ELSE "decompose_task")
  /\ UNCHANGED <<database, requests, sent, monitor, faults>>

AdvanceRow(h) ==
  /\ At(h, "advance_row")
  /\ InsertRow(job[h].run, NextStage(job[h].stage))
  /\ Goto(h, "advance_task")
  /\ UNCHANGED <<tasks, ntasks, requests, sent, monitor, faults>>

\* A result leaves the status of the task alone, a skip sets it to running.
AdvanceTask(h) ==
  LET j      == job[h]
      next   == NextStage(j.stage)
      status == IF j.kind = "recovery" THEN "running" ELSE tasks[j.task].status
  IN
  /\ At(h, "advance_task")
  /\ tasks' = IF ~LiveTask(j.task) THEN tasks
              ELSE [tasks EXCEPT ![j.task] = [@ EXCEPT !.stage = next,
                                                       !.status = status]]
  /\ sent' = sent \cup {<<j.run, next>>}
  /\ Return(h)
  /\ UNCHANGED <<rows, nrows, ntasks, requests, monitor, faults>>

FinishTask(h) ==
  /\ At(h, "finish_task")
  /\ SetTask(job[h].task, "completed")
  /\ Return(h)
  /\ UNCHANGED <<rows, nrows, ntasks, requests, sent, monitor, faults>>

-----------------------------------------------------------------------------
(* on_recovery_response                                                    *)

\* Mutant: the map is read, not written.
Peek(q) == UNCHANGED pending

Claim(q) == pending' = pending \ {q}

\* What agents send: an agent answers a request with the event of its kind
\* and repeats the run and the task it was told.  The coordinator believes it:
\* it takes both from the answer and asks its map for nothing but the id.
Replies(kind) ==
  {[req |-> q, run |-> asked[q].run, task |-> asked[q].task] :
     q \in {p \in 1 .. nreqs : asked[p].kind = kind}}

\* The first answer takes the request out of the map; later ones find
\* nothing and are ignored.
ReceiveRecovery(h) ==
  /\ Begin(h)
  /\ \E reply \in Replies("recovery"), said \in Actions :
       /\ reply.req \in pending
       /\ Claim(reply.req)
       /\ job' = [job EXCEPT ![h] = [Idle EXCEPT !.pc = "recovery_task",
                                                 !.kind = "recovery",
                                                 !.run = reply.run,
                                                 !.said = said,
                                                 !.task = reply.task,
                                                 !.req = reply.req]]
  /\ UNCHANGED <<database, asked, nreqs, sent, monitor, faults>>

\* Mutants: any stage may be skipped; a skip ends the run.
AfterDecisionSkipAny(said, s, t) ==
  CASE said = "retry"                 -> "retry_count"
    [] said = "decompose" /\ t # None -> "subtasks"
    [] said = "decompose" /\ t = None -> "idle"
    [] said = "skip" /\ s # NoStage   -> Onward(s)
    [] OTHER                          -> "abort_task"

AfterDecisionSkipEnds(said, s, t) ==
  CASE said = "retry"                 -> "retry_count"
    [] said = "decompose" /\ t # None -> "subtasks"
    [] said = "decompose" /\ t = None -> "idle"
    [] said = "skip"                  -> "finish_task"
    [] OTHER                          -> "abort_task"

\* Where a decision leads, given the task (None if it is gone) and its stage.
AfterDecision(said, s, t) ==
  CASE said = "retry"                                   -> "retry_count"
    [] said = "decompose" /\ t # None                   -> "subtasks"
    [] said = "decompose" /\ t = None                   -> "idle"
    [] said = "skip" /\ s \in Skippable                 -> Onward(s)
    [] OTHER                                            -> "abort_task"

\* Mutant: the task is taken as it was when the request was made.
CachedTask(t) == t

GetTask(t) == IF LiveTask(t) THEN t ELSE None

LookUpStage(h) ==
  LET t == GetTask(job[h].task)
      s == IF t = None THEN NoStage ELSE tasks[t].stage
      point == AfterDecision(job[h].said, s, t)
  IN
  /\ At(h, "recovery_task")
  /\ IF point = "idle" THEN Return(h)
     ELSE job' = [job EXCEPT ![h] = [@ EXCEPT !.pc = point, !.task = t,
                                               !.stage = s]]
  /\ UNCHANGED <<database, requests, sent, monitor, faults>>

\* Mutant: off by one.
CheckRetriesOver(h) ==
  /\ At(h, "retry_count")
  /\ Goto(h, IF \E i \in Newest(RowsOf(job[h].run, job[h].stage)) :
                  rows[i].retry > MaxStageRetries
             THEN "abort_task" ELSE "retry_find")
  /\ UNCHANGED <<database, requests, sent, monitor, faults>>

\* get_stage_retry_count reads the newest row of the stage; 0 without one.
CheckRetries(h) ==
  /\ At(h, "retry_count")
  /\ Goto(h, IF \E i \in Newest(RowsOf(job[h].run, job[h].stage)) :
                  rows[i].retry >= MaxStageRetries
             THEN "abort_task" ELSE "retry_find")
  /\ UNCHANGED <<database, requests, sent, monitor, faults>>

FindRetryRow(h) ==
  /\ At(h, "retry_find")
  /\ LET found == Newest(RowsOf(job[h].run, job[h].stage)) IN
     \/ /\ found = {}
        /\ Return(h)
     \/ \E i \in found :
          job' = [job EXCEPT ![h] = [@ EXCEPT !.pc = "retry_row",
                                                 !.row = i]]
  /\ UNCHANGED <<database, requests, sent, monitor, faults>>

\* Mutant: a retry is a new row.
RetryByNewRow(h) ==
  /\ At(h, "retry_row")
  /\ InsertRow(job[h].run, job[h].stage)
  /\ Goto(h, "retry_task")
  /\ UNCHANGED <<tasks, ntasks, requests, sent, monitor, faults>>

RetryRow(h) ==
  LET i == job[h].row IN
  /\ At(h, "retry_row")
  /\ rows' = IF ~LiveRow(i) THEN rows
             ELSE [rows EXCEPT ![i].status = "running", ![i].retry = @ + 1,
                               ![i].stale = FALSE]
  /\ Goto(h, "retry_task")
  /\ UNCHANGED <<nrows, tasks, ntasks, requests, sent, monitor, faults>>

RetryTask(h) ==
  /\ At(h, "retry_task")
  /\ SetTask(job[h].task, "running")
  /\ sent' = sent \cup {<<job[h].run, job[h].stage>>}
  /\ Return(h)
  /\ UNCHANGED <<rows, nrows, ntasks, requests, monitor, faults>>

DecomposeTask(h) ==
  /\ At(h, "decompose_task")
  /\ SetTask(job[h].task, "decomposed")
  /\ Return(h)
  /\ UNCHANGED <<rows, nrows, ntasks, requests, sent, monitor, faults>>

-----------------------------------------------------------------------------
(* request_decomposition and on_decompose_result                           *)

RequestDecomposition ==
  /\ "decompose" \in World
  /\ "overlap" \in World \/ Quiet
  /\ \E t \in TaskId : LiveTask(t) /\ NewRequest("decompose", tasks[t].run, t)
  /\ UNCHANGED <<database, sent, job, monitor, faults>>

\* An answer that declines, or proposes nothing, only clears the request.
ReceiveDecomposition(h) ==
  /\ Begin(h)
  /\ \E reply \in Replies("decompose") :
       /\ reply.req \in pending
       /\ Claim(reply.req)
       /\ \/ UNCHANGED job
          \/ job' = [job EXCEPT ![h] = [Idle EXCEPT !.pc = "decompose_lookup",
                                                    !.kind = "decompose",
                                                    !.task = reply.task,
                                                    !.req = reply.req]]
  /\ UNCHANGED <<database, asked, nreqs, sent, monitor, faults>>

LookUpDecomposed(h) ==
  /\ At(h, "decompose_lookup")
  /\ IF LiveTask(job[h].task)
     THEN job' = [job EXCEPT ![h] = [@ EXCEPT !.pc = "subtasks",
                                               !.run = tasks[job[h].task].run]]
     ELSE Return(h)
  /\ UNCHANGED <<database, requests, sent, monitor, faults>>

-----------------------------------------------------------------------------
(* task:delete and DELETE /tasks/:id, with delete_task_cascade             *)

BeginDelete(h) ==
  /\ "delete" \in World
  /\ Begin(h)
  /\ \E t \in TaskId :
       /\ LiveTask(t)
       /\ job' = [job EXCEPT ![h] =
            [Idle EXCEPT !.kind = "delete", !.task = t,
                         !.pc = IF tasks[t].status \in {"running", "recovering"}
                                THEN "delete_abort" ELSE "delete_collect"]]
  /\ UNCHANGED <<database, requests, sent, monitor, faults>>

DeleteAbort(h) ==
  /\ At(h, "delete_abort")
  /\ SetTask(job[h].task, "failed")
  /\ Goto(h, "delete_collect")
  /\ UNCHANGED <<rows, nrows, ntasks, requests, sent, monitor, faults>>

\* The run_id of the task, and the ids of the task and of its subtasks.
DeleteCollect(h) ==
  LET t == job[h].task
      subs == {u \in TaskId : LiveTask(u) /\ tasks[u].parent = t}
  IN
  /\ At(h, "delete_collect")
  /\ job' = [job EXCEPT ![h] =
                [@ EXCEPT !.pc = "delete_tasks",
                          !.run = IF LiveTask(t) THEN tasks[t].run ELSE None,
                          !.doomed = {t} \cup subs]]
  /\ UNCHANGED <<database, requests, sent, monitor, faults>>

DeleteOneTask(h) ==
  LET j == job[h] IN
  /\ At(h, "delete_tasks")
  /\ \E u \in Oldest(j.doomed) :
       /\ SetTask(u, "deleted")
       /\ job' = [job EXCEPT ![h] =
                     [@ EXCEPT !.doomed = j.doomed \ {u},
                               !.pc = IF j.doomed = {u} THEN "delete_rows"
                                                        ELSE "delete_tasks"]]
  /\ UNCHANGED <<rows, nrows, ntasks, requests, sent, monitor, faults>>

DeleteRows(h) ==
  /\ At(h, "delete_rows")
  /\ rows' = [i \in RowId |->
                IF LiveRow(i) /\ rows[i].run = job[h].run
                THEN [rows[i] EXCEPT !.status = "deleted", !.stale = FALSE]
                ELSE rows[i]]
  /\ Return(h)
  /\ UNCHANGED <<nrows, tasks, ntasks, requests, sent, monitor, faults>>

-----------------------------------------------------------------------------
(* timeout_monitor                                                         *)

\* DEFAULT_STAGE_TIMEOUT_SECS pass since the last update of a running row.
GrowStale(i) ==
  /\ "timeout" \in World
  /\ rows[i].status = "running"
  /\ ~rows[i].stale
  /\ rows' = [rows EXCEPT ![i].stale = TRUE]
  /\ UNCHANGED <<nrows, tasks, ntasks, requests, sent, job, monitor, faults>>

\* Mutant: a stage that is tried again is not watched.
StaleFirstTries == {i \in RunningRows : rows[i].stale /\ rows[i].retry = 0}

StaleRows == {i \in RunningRows : rows[i].stale}

MonitorScan ==
  /\ monitor = Resting
  /\ "overlap" \in World \/ Quiet
  /\ StaleRows # {}
  /\ monitor' = [Resting EXCEPT !.pc = "mark", !.left = StaleRows]
  /\ UNCHANGED <<database, requests, sent, job, faults>>

\* The rows of the query are written one by one, without a second look.
MonitorMark ==
  /\ monitor.pc = "mark"
  /\ \E i \in Oldest(monitor.left) :
       /\ SetRow(i, "timed_out")
       /\ monitor' = [monitor EXCEPT !.pc = "lookup", !.row = i,
                                     !.left = @ \ {i}]
  /\ UNCHANGED <<nrows, tasks, ntasks, requests, sent, job, faults>>

MonitorNext == IF monitor.left = {} THEN Resting
               ELSE [monitor EXCEPT !.pc = "mark", !.row = None, !.task = None]

\* The query returned the row with its run_id, so a deletion in between
\* does not matter here.
MonitorLookup ==
  /\ monitor.pc = "lookup"
  /\ \E t \in TaskOfRun(rows[monitor.row].run) :
       monitor' = IF t = None THEN MonitorNext
                  ELSE [monitor EXCEPT !.pc = "fail", !.task = t]
  /\ UNCHANGED <<database, requests, sent, job, faults>>

MonitorFail ==
  /\ monitor.pc = "fail"
  /\ SetTask(monitor.task, "failed")
  /\ monitor' = MonitorNext
  /\ UNCHANGED <<rows, nrows, ntasks, requests, sent, job, faults>>

-----------------------------------------------------------------------------
(* Faults                                                                  *)

\* A database error the handler propagates: it ends where it is.
DbError(h) ==
  /\ "db_error" \in World
  /\ faults < MaxFaults
  /\ job[h].pc \in {"start_task", "result_record", "advance_row",
                    "retry_find", "retry_row"}
  /\ Return(h)
  /\ faults' = faults + 1
  /\ UNCHANGED <<database, requests, sent, monitor>>

\* King stops and starts again: only the database is left, and the agents,
\* which go on with what they were sent.
Crash ==
  /\ "crash" \in World
  /\ faults < MaxFaults
  /\ faults' = faults + 1
  /\ pending' = {}
  /\ job' = [h \in Handlers |-> Idle]
  /\ monitor' = Resting
  /\ UNCHANGED <<database, asked, nreqs, sent>>

-----------------------------------------------------------------------------
\* The steps a handler takes by itself once it has begun.
HandlerStep(h) ==
  \/ StartTask(h)
  \/ RecordResult(h) \/ LookUpTask(h)
  \/ SetRecovering(h) \/ AskRecovery(h) \/ WithdrawRequest(h) \/ AbortTask(h)
  \/ CreateSubtask(h) \/ SubtasksCreated(h)
  \/ AdvanceRow(h) \/ AdvanceTask(h) \/ FinishTask(h)
  \/ LookUpStage(h) \/ CheckRetries(h) \/ FindRetryRow(h)
  \/ RetryRow(h) \/ RetryTask(h)
  \/ LookUpDecomposed(h) \/ DecomposeTask(h)
  \/ DeleteAbort(h) \/ DeleteCollect(h) \/ DeleteOneTask(h) \/ DeleteRows(h)

MonitorStep == MonitorScan \/ MonitorMark \/ MonitorLookup \/ MonitorFail

Next ==
  \/ \E h \in Handlers :
       \/ StartRun(h) \/ ReceiveResult(h) \/ ReceiveRecovery(h)
       \/ ReceiveDecomposition(h) \/ BeginDelete(h)
       \/ HandlerStep(h)
       \/ DbError(h)
  \/ RequestDecomposition
  \/ \E i \in RowId : GrowStale(i)
  \/ MonitorStep
  \/ Crash

Spec == Init /\ [][Next]_vars

\* Tokio keeps polling a task that is ready and the 60s interval keeps
\* ticking; nothing is assumed of the agents or of the users.
Fairness ==
  /\ \A h \in Handlers : WF_vars(HandlerStep(h))
  /\ \A i \in RowId : WF_vars(GrowStale(i))
  /\ WF_vars(MonitorStep)

FairSpec == Spec /\ Fairness

-----------------------------------------------------------------------------
(* Properties.  Those about rows also count the rows a deletion removed:   *)
(* a handler that was running then may still add the stage after them.     *)

TypeOK ==
  /\ rows \in [RowId -> Row] /\ nrows \in 0 .. MaxRows
  /\ tasks \in [TaskId -> Task] /\ ntasks \in 0 .. MaxTasks
  /\ asked \in [ReqId -> Request] /\ nreqs \in 0 .. MaxRequests
  /\ pending \subseteq 1 .. nreqs
  /\ sent \subseteq RunId \X Stages
  /\ job \in [Handlers -> Job]
  /\ monitor \in Monitor
  /\ faults \in 0 .. MaxFaults

HasRow(run, s) == \E i \in 1 .. nrows : rows[i].run = run /\ rows[i].stage = s

\* No run enters a stage before it has been in every earlier one, however
\* results, recoveries, deletions and crashes fall between the lookup of the
\* row and the insertion of the next (on_stage_result, on_recovery_response).
StagesInOrder ==
  \A i \in 1 .. nrows :
    rows[i].stage # Learning => HasRow(rows[i].run, rows[i].stage - 1)

\* A task that reads "completed" belongs to a run that went through all five
\* stages: no mix of late results, skips and retries completes a run early.
CompletedRanAllStages ==
  \A t \in TaskId :
    tasks[t].status = "completed" => \A s \in Stages : HasRow(tasks[t].run, s)

\* pending_requests lets one answer through: no two handlers act on the same
\* request, and none acts on one that could still be answered.
AnsweredOnce ==
  \A h \in Handlers : job[h].kind \in {"recovery", "decompose"} =>
    /\ job[h].req \notin pending
    /\ \A g \in Handlers \ {h} : job[g].kind \in {"recovery", "decompose"}
                                 => job[g].req # job[h].req

\* The retry limit is read before the retry is written, in two calls; what
\* holds whatever overlaps is that each handler adds at most one retry more.
RetriesBounded ==
  \A i \in RowId :
    rows[i].retry <= MaxStageRetries + Cardinality(Handlers) - 1

\* The limit the documentation gives.
RetriesWithinLimit == \A i \in RowId : rows[i].retry <= MaxStageRetries

Owned(t) == \E h \in Handlers : job[h].task = t /\ job[h].pc # "idle"

\* A task in recovery is not forgotten: an answer is still awaited for it, or
\* a handler holds it that will set its status.
RecoveryNotForgotten ==
  \A t \in TaskId :
    tasks[t].status = "recovering" =>
      \/ \E q \in pending : asked[q].kind = "recovery" /\ asked[q].task = t
      \/ Owned(t)

\* The coordinator works on one stage of a run at a time.
OneRunningStage ==
  \A i, k \in RunningRows : rows[i].run = rows[k].run => i = k

\* A run enters each stage once: a stage that is tried again keeps its row.
EachStageOnce ==
  \A i, k \in 1 .. nrows :
    rows[i].run = rows[k].run /\ rows[i].stage = rows[k].stage => i = k

\* Every task that says it is running or recovering has something that will
\* move it: a stage at work, an answer awaited, or a handler under way.
NoStuckRun ==
  \A t \in TaskId :
    tasks[t].status \in {"running", "recovering"} =>
      \/ ~Quiet
      \/ \E i \in RunningRows : rows[i].run = tasks[t].run
      \/ \E q \in pending : asked[q].run = tasks[t].run

\* get_task_by_run_id finds the task of the run that is running.
FindsRunningTask ==
  \A t \in TaskId :
    tasks[t].status = "running" =>
      \A u \in TaskOfRun(tasks[t].run) : tasks[u].status = "running"

\* Once the tasks of a run have been deleted nothing brings a row of it back:
\* not a result, a decision or a proposal that was on its way when it began.
DeletionLeavesNoRow ==
  Quiet => \A t \in TaskId :
             /\ tasks[t].status = "deleted"
             /\ \A u \in TaskId : LiveTask(u) => tasks[u].run # tasks[t].run
             => \A i \in RowId : LiveRow(i) => rows[i].run # tasks[t].run

\* A stage does not run for ever: it is reported on, or it times out.
StageEnds ==
  \A i \in RowId : rows[i].status = "running" ~> rows[i].status # "running"

\* A run moves on to an end or to a decision awaited from the agent.
RunSettles ==
  \A t \in TaskId : tasks[t].status = "running" ~> tasks[t].status # "running"

\* A recovery comes to an end, whether the agent answers or not.
RecoveryEnds ==
  \A t \in TaskId :
    tasks[t].status = "recovering" ~> tasks[t].status # "recovering"

-----------------------------------------------------------------------------
(* The run as its task shows it. The main task is the one without parent.  *)

MainTask(r) == {t \in TaskId : tasks[t].status # "absent"
                                 /\ tasks[t].run = r /\ tasks[t].parent = None}
RunView ==
  [r \in RunId |->
     IF MainTask(r) = {} THEN [status |-> "none", stage |-> NoStage]
     ELSE LET t == CHOOSE t \in MainTask(r) : TRUE IN
          [status |-> tasks[t].status, stage |-> tasks[t].stage]]

\* Handled one event at a time, the coordinator implements PipelineRun.
Abstract == INSTANCE PipelineRun WITH Runs <- RunId, run <- RunView
ImplementsRun == Abstract!Spec

-----------------------------------------------------------------------------
(* The inductive invariant behind StagesInOrder and CompletedRanAllStages: *)
(* what each handler knows at its program point stays true while others    *)
(* run, because no row ever changes its run or its stage.                  *)

RowOK(i) ==
  IF i <= nrows
  THEN /\ rows[i].status # "absent"
       /\ rows[i].run \in RunId
       /\ rows[i].stage \in Stages
       /\ rows[i].stage # Learning => HasRow(rows[i].run, rows[i].stage - 1)
  ELSE rows[i].status = "absent"

TaskOK(t) ==
  IF t <= ntasks
  THEN /\ tasks[t].status # "absent"
       /\ tasks[t].run \in RunId
       /\ tasks[t].stage # NoStage => HasRow(tasks[t].run, tasks[t].stage)
       /\ tasks[t].status = "completed" => HasRow(tasks[t].run, SkillManage)
  ELSE tasks[t].status = "absent"

RowsOK  == \A i \in RowId : RowOK(i)
TasksOK == \A t \in TaskId : TaskOK(t)

TaskIsOf(t, run) == t # None => t <= ntasks /\ tasks[t].run = run

AskedOK ==
  \A q \in 1 .. nreqs :
    asked[q].run \in RunId /\ TaskIsOf(asked[q].task, asked[q].run)

\* The points of a handler that works on a run, and what it knows there.
PointOK(j) ==
  /\ j.kind \in {"decompose", "delete"} => j.stage = NoStage
  /\ j.pc = "decompose_lookup" => j.kind = "decompose"
  /\ j.pc \in {"delete_abort", "delete_collect", "delete_tasks", "delete_rows"}
       => j.kind = "delete" /\ j.task # None
  /\ j.pc = "start_task" => j.kind = "start" /\ j.stage = Learning
  /\ j.pc \in {"result_record", "result_task", "recover_task", "recover_ask"}
       => j.kind = "result" /\ j.stage \in Stages
  /\ j.pc = "result_record" => j.said \in Results
  /\ j.pc \in {"recovery_task", "retry_count", "retry_find"}
       => j.kind = "recovery"
  /\ j.pc \in {"retry_row", "retry_task"}
       => j.kind = "recovery" /\ j.stage \in Stages
  /\ j.pc \in {"advance_row", "advance_task"}
       => j.kind \in {"result", "recovery"} /\ HasNext(j.stage)
  /\ j.pc = "advance_task" => HasRow(j.run, NextStage(j.stage))
  /\ j.pc = "finish_task"
       => j.kind \in {"result", "recovery"} /\ j.stage = SkillManage
  /\ j.pc = "subtasks"
       => /\ j.kind \in {"result", "recovery", "decompose"}
          /\ j.run \in RunId
          /\ j.task # None
          /\ j.kind = "result" => j.stage = Evaluation

JobOK(j) ==
  /\ j.kind \in {"start", "result", "recovery"} => j.run \in RunId
  /\ j.stage # NoStage => HasRow(j.run, j.stage)
  /\ j.kind \in {"result", "recovery"} \/ j.pc = "subtasks"
       => TaskIsOf(j.task, j.run)
  /\ PointOK(j)

JobsOK == \A h \in Handlers : JobOK(job[h])

StageInv == TypeOK /\ RowsOK /\ TasksOK /\ AskedOK /\ JobsOK

=============================================================================
