------------------------ MODULE PipelineSerialProofs ------------------------
(***************************************************************************)
(* Proofs about PipelineCoordinator handling one event at a time: each run *)
(* has one task and one row per stage, only its last stage is at work, and *)
(* what the task shows follows PipelineRun, for any number of runs, rows   *)
(* and requests.  At the end: a deletion leaves nothing of a run behind.   *)
(***************************************************************************)
EXTENDS PipelineProofs

\* What may happen: stages time out, tasks are deleted, emissions fail.
Serial == World \subseteq {"timeout", "delete", "emit_error"}

-----------------------------------------------------------------------------
(* The tables.                                                             *)

OneTask ==
  /\ \A t, u \in 1 .. ntasks : tasks[t].run = tasks[u].run => t = u
  /\ \A t \in 1 .. ntasks : tasks[t].parent = None /\ tasks[t].stage \in Stages

\* Only the last stage of a run is at work.
LastRuns ==
  \A i, k \in 1 .. nrows :
    rows[i].run = rows[k].run /\ rows[i].stage < rows[k].stage
      => rows[i].status # "running"

\* Rows are deleted after the task of their run.
DeletedAfter ==
  \A i \in 1 .. nrows : rows[i].status = "deleted" =>
    \E t \in 1 .. ntasks : /\ tasks[t].run = rows[i].run
                           /\ tasks[t].status = "deleted"

\* One answer at most is awaited for a run, and it is about its recovery.
OneAwaited ==
  /\ \A q \in pending : asked[q].task # None /\ asked[q].kind = "recovery"
  /\ \A p, q \in pending : asked[p].run = asked[q].run => p = q

TableInv == OneTask /\ EachStageOnce /\ LastRuns /\ DeletedAfter /\ OneAwaited

-----------------------------------------------------------------------------
(* One run.                                                                *)

NoneRuns(r)    == \A i \in 1 .. nrows : rows[i].run = r
                                          => rows[i].status # "running"
NoneAwaited(r) == \A q \in pending : asked[q].run # r
Below(r, s)    == \A i \in 1 .. nrows : rows[i].run = r => rows[i].stage <= s
Works(r, s)    == \E i \in 1 .. nrows : /\ rows[i].run = r /\ rows[i].stage = s
                                        /\ rows[i].status = "running"
IsRow(i, r, s) == i \in 1 .. nrows /\ rows[i].run = r /\ rows[i].stage = s

TaskIs(t, r, s, status) ==
  /\ t \in 1 .. ntasks /\ tasks[t].run = r
  /\ tasks[t].stage = s /\ tasks[t].status = status

\* A handler has the run in its hand: no stage works, no answer is awaited.
Held(r, t, s, status) ==
  TaskIs(t, r, s, status) /\ NoneRuns(r) /\ NoneAwaited(r) /\ Below(r, s)

\* The stage after a decision or a result works already.
Moving(r, t, s, status, next) ==
  /\ TaskIs(t, r, s, status) /\ NoneAwaited(r)
  /\ Works(r, next) /\ Below(r, next)

GoneRun(r) ==
  /\ \E t \in 1 .. ntasks : tasks[t].run = r /\ tasks[t].status = "deleted"
  /\ \A i \in 1 .. nrows : rows[i].run = r => rows[i].status = "deleted"

EndStatus == {"completed", "failed", "decomposed"}

\* The run r of task t when nobody is at work on it.
Shown(r, t) ==
  /\ tasks[t].status \in EndStatus \cup {"running", "recovering", "deleted"}
  /\ tasks[t].status = "running"
       => Below(r, tasks[t].stage) /\ Works(r, tasks[t].stage) /\ NoneAwaited(r)
  /\ tasks[t].status = "recovering"
       => Below(r, tasks[t].stage) /\ NoneRuns(r) /\ ~NoneAwaited(r)
  /\ tasks[t].status \in EndStatus => NoneRuns(r) /\ NoneAwaited(r)
  /\ tasks[t].status = "deleted" => GoneRun(r)

Settled(r) ==
  /\ \A t \in 1 .. ntasks : tasks[t].run = r => Shown(r, t)
  /\ (\A t \in 1 .. ntasks : tasks[t].run # r)
       => \A i \in 1 .. nrows : rows[i].run # r

-----------------------------------------------------------------------------
(* What the handler at work knows of its run, at each program point.       *)

StatusFor(kind) == IF kind = "result" THEN "running" ELSE "recovering"

HeldFor(j) == Held(j.run, j.task, j.stage, StatusFor(j.kind))

\* The task was deleted before the answer came.
Late(j) == j.task = None /\ j.stage = NoStage /\ GoneRun(j.run)

WorkOK(j) ==
  /\ j.pc = "start_task" =>
       /\ \A t \in 1 .. ntasks : tasks[t].run # j.run
       /\ Works(j.run, Learning) /\ Below(j.run, Learning)
       /\ NoneAwaited(j.run)
  /\ j.pc = "result_record" =>
       /\ Settled(j.run) /\ IsRow(j.row, j.run, j.stage)
       /\ rows[j.row].status = "running"
       /\ j.said \in {"completed", "failed"}
  /\ j.pc = "result_task" =>
       /\ \E t \in 1 .. ntasks : Held(j.run, t, j.stage, "running")
       /\ j.said \in {"completed", "failed"}
  /\ j.pc \in {"recover_task", "finish_task"} => HeldFor(j)
  /\ j.pc = "recover_ask" => Held(j.run, j.task, j.stage, "recovering")
  /\ j.pc = "emit_failed" =>
       /\ TaskIs(j.task, j.run, j.stage, "recovering")
       /\ NoneRuns(j.run) /\ Below(j.run, j.stage)
       /\ \A q \in pending : asked[q].run = j.run <=> q = j.req
  /\ j.pc = "abort_task" =>
       Held(j.run, j.task, j.stage, "recovering") \/ Late(j)
  /\ j.pc \in {"emit_failed", "abort_task"}
       => j.kind \in {"result", "recovery"}
  /\ j.pc = "recovery_task" =>
       /\ j.task # None /\ NoneAwaited(j.run)
       /\ \/ Held(j.run, j.task, tasks[j.task].stage, "recovering")
          \/ GoneRun(j.run) /\ tasks[j.task].status = "deleted"
  /\ j.pc \in {"retry_count", "retry_find"} => HeldFor(j) \/ Late(j)
  /\ j.pc = "retry_row" => HeldFor(j) /\ IsRow(j.row, j.run, j.stage)
  /\ j.pc = "retry_task" =>
       Moving(j.run, j.task, j.stage, "recovering", j.stage)
  /\ j.pc = "advance_row" => HeldFor(j)
  /\ j.pc = "advance_task" =>
       Moving(j.run, j.task, j.stage, StatusFor(j.kind), NextStage(j.stage))
  /\ j.pc \in {"advance_row", "advance_task", "finish_task"}
       => j.kind = "result" \/ j.stage \in Skippable
  /\ j.pc \in {"subtasks", "decompose_task"} =>
       j.kind = "recovery" /\ HeldFor(j)
  /\ j.pc # "decompose_lookup"
  /\ j.pc = "delete_abort" =>
       /\ Settled(tasks[j.task].run)
       /\ tasks[j.task].status \in {"running", "recovering"}
  /\ j.pc \in {"delete_collect", "delete_tasks"} =>
       tasks[j.task].status \in EndStatus
  /\ j.pc = "delete_tasks" => j.doomed = {j.task}
  /\ j.pc \in {"delete_tasks", "delete_rows"} => j.run = tasks[j.task].run
  /\ j.pc = "delete_rows" => tasks[j.task].status = "deleted"

WorksOn(j) == IF j.kind = "delete" THEN tasks[j.task].run ELSE j.run

\* What the monitor knows.
MonitorOK ==
  /\ \A i \in monitor.left : rows[i].status = "running"
  /\ monitor.pc \in {"lookup", "fail"} =>
       /\ monitor.row \in 1 .. nrows
       /\ \E t \in 1 .. ntasks :
            /\ Held(rows[monitor.row].run, t, tasks[t].stage, "running")
            /\ monitor.pc = "fail" => monitor.task = t

Busy(r) ==
  \/ \E h \in Handlers : job[h] # Idle /\ WorksOn(job[h]) = r
  \/ monitor.pc \in {"lookup", "fail"} /\ rows[monitor.row].run = r

SerialInv ==
  /\ Alone
  /\ TableInv
  /\ \A r \in RunId : Busy(r) \/ Settled(r)
  /\ \A h \in Handlers : WorkOK(job[h])
  /\ MonitorOK

-----------------------------------------------------------------------------
(* What a step leaves alone.                                               *)

\* The rows, the tasks and the awaited answers of run x.
RowsSame(x) ==
  /\ \A i \in 1 .. nrows : rows[i].run = x =>
       /\ i \in 1 .. nrows' /\ rows'[i].run = x
       /\ rows'[i].stage = rows[i].stage /\ rows'[i].status = rows[i].status
  /\ \A i \in 1 .. nrows' : rows'[i].run = x =>
       i \in 1 .. nrows /\ rows[i].run = x

TasksSame(x) ==
  /\ \A t \in 1 .. ntasks : tasks[t].run = x =>
       /\ t \in 1 .. ntasks' /\ tasks'[t].run = x
       /\ tasks'[t].stage = tasks[t].stage /\ tasks'[t].status = tasks[t].status
  /\ \A t \in 1 .. ntasks' : tasks'[t].run = x =>
       t \in 1 .. ntasks /\ tasks[t].run = x

AwaitedSame(x) == NoneAwaited(x)' <=> NoneAwaited(x)

Same(x) == RowsSame(x) /\ TasksSame(x) /\ AwaitedSame(x)

LEMMA RowFactsSame ==
  ASSUME NEW x, RowsSame(x)
  PROVE  /\ NoneRuns(x)' <=> NoneRuns(x)
         /\ \A s : Below(x, s)' <=> Below(x, s)
         /\ \A s : Works(x, s)' <=> Works(x, s)
<1>1. NoneRuns(x)' <=> NoneRuns(x)
  BY DEF RowsSame, NoneRuns
<1>2. ASSUME NEW s
      PROVE  Below(x, s)' <=> Below(x, s)
  BY DEF RowsSame, Below
<1>3. ASSUME NEW s
      PROVE  Works(x, s)' <=> Works(x, s)
  BY DEF RowsSame, Works
<1>. QED BY <1>1, <1>2, <1>3

LEMMA TaskFactsSame ==
  ASSUME NEW x, TasksSame(x)
  PROVE  /\ \A t, s, status : TaskIs(t, x, s, status)' <=> TaskIs(t, x, s, status)
         /\ RowsSame(x) => (GoneRun(x)' <=> GoneRun(x))
<1>1. ASSUME NEW t, NEW s, NEW status
      PROVE  TaskIs(t, x, s, status)' <=> TaskIs(t, x, s, status)
  BY DEF TasksSame, TaskIs
<1>2. ASSUME RowsSame(x)
      PROVE  GoneRun(x)' <=> GoneRun(x)
  <2>1. (\E t \in 1 .. ntasks : tasks[t].run = x /\ tasks[t].status = "deleted")'
          <=> (\E t \in 1 .. ntasks : tasks[t].run = x /\ tasks[t].status = "deleted")
    BY DEF TasksSame
  <2>2. (\A i \in 1 .. nrows : rows[i].run = x => rows[i].status = "deleted")'
          <=> (\A i \in 1 .. nrows : rows[i].run = x => rows[i].status = "deleted")
    BY <1>2 DEF RowsSame
  <2>. QED BY <2>1, <2>2 DEF GoneRun
<1>. QED BY <1>1, <1>2

\* A run at rest that a step leaves alone is at rest after it.
LEMMA SettledSame ==
  ASSUME NEW x, Same(x), Settled(x)
  PROVE  Settled(x)'
<1>0. RowsSame(x) /\ TasksSame(x) /\ AwaitedSame(x)
  BY DEF Same
<1>1. ASSUME NEW t \in 1 .. ntasks', tasks'[t].run = x
      PROVE  Shown(x, t)'
  <2>1. /\ t \in 1 .. ntasks /\ tasks[t].run = x
        /\ tasks'[t].stage = tasks[t].stage /\ tasks'[t].status = tasks[t].status
    BY <1>0, <1>1 DEF TasksSame
  <2>2. Shown(x, t)
    BY <2>1 DEF Settled
  <2>3. GoneRun(x)' <=> GoneRun(x)
    BY <1>0, TaskFactsSame
  <2>4. Below(x, tasks[t].stage)' <=> (Below(x, tasks[t].stage))
    BY <1>0, <2>1, RowFactsSame DEF Below
  <2>5. Works(x, tasks[t].stage)' <=> (Works(x, tasks[t].stage))
    BY <1>0, <2>1, RowFactsSame DEF Works
  <2>. QED BY <1>0, <2>1, <2>2, <2>3, <2>4, <2>5, RowFactsSame
           DEF Shown, AwaitedSame
<1>2. (\A t \in 1 .. ntasks' : tasks'[t].run # x)
        => \A i \in 1 .. nrows' : rows'[i].run # x
  BY <1>0 DEF Settled, TasksSame, RowsSame
<1>. QED BY <1>1, <1>2 DEF Settled

\* The statements about run r leave the other runs alone.
LEMMA SetRowSame ==
  ASSUME TypeOK, NEW i \in 1 .. nrows, NEW status, SetRow(i, status),
         nrows' = nrows, NEW x, rows[i].run # x
  PROVE  RowsSame(x)
<1>1. rows \in [RowId -> Row] /\ \A k \in 1 .. nrows : k \in RowId
  BY ConstantsOK DEF TypeOK, RowId
<1>2. \A k \in 1 .. nrows :
        /\ rows'[k].run = rows[k].run
        /\ k # i => rows'[k] = rows[k]
  BY <1>1 DEF SetRow, Row
<1>. QED BY <1>2 DEF RowsSame

LEMMA InsertRowSame ==
  ASSUME TypeOK, NEW r, NEW s, InsertRow(r, s), NEW x, x # r
  PROVE  RowsSame(x)
<1>1. /\ rows \in [RowId -> Row] /\ nrows \in Nat /\ nrows + 1 \in RowId
      /\ nrows' = nrows + 1
  BY ConstantsOK DEF TypeOK, RowId, InsertRow
<1>2. \A k \in 1 .. nrows : k \in RowId /\ rows'[k] = rows[k]
  BY <1>1, ConstantsOK DEF InsertRow, RowId, TypeOK
<1>3. rows'[nrows + 1].run = r
  BY <1>1 DEF InsertRow
<1>. QED BY <1>1, <1>2, <1>3 DEF RowsSame

LEMMA SetTaskSame ==
  ASSUME TypeOK, NEW t \in 1 .. ntasks, NEW status, SetTask(t, status),
         ntasks' = ntasks, NEW x, tasks[t].run # x
  PROVE  TasksSame(x)
<1>1. tasks \in [TaskId -> Task] /\ \A k \in 1 .. ntasks : k \in TaskId
  BY ConstantsOK DEF TypeOK, TaskId, MaxTasks
<1>2. \A k \in 1 .. ntasks :
        /\ tasks'[k].run = tasks[k].run
        /\ k # t => tasks'[k] = tasks[k]
  BY <1>1 DEF SetTask, Task
<1>. QED BY <1>2 DEF TasksSame

LEMMA InsertTaskSame ==
  ASSUME TypeOK, NEW r, NEW s, NEW status, NEW p, InsertTask(r, status, s, p),
         NEW x, x # r
  PROVE  TasksSame(x)
<1>1. /\ tasks \in [TaskId -> Task] /\ ntasks \in Nat /\ ntasks + 1 \in TaskId
      /\ ntasks' = ntasks + 1
  BY ConstantsOK DEF TypeOK, TaskId, MaxTasks, InsertTask
<1>2. \A k \in 1 .. ntasks : k \in TaskId /\ tasks'[k] = tasks[k]
  BY <1>1, ConstantsOK DEF InsertTask, TaskId, TypeOK, MaxTasks
<1>3. tasks'[ntasks + 1].run = r
  BY <1>1 DEF InsertTask
<1>. QED BY <1>1, <1>2, <1>3 DEF TasksSame

LEMMA ClaimSame ==
  ASSUME NEW q, pending' = pending \ {q},
         asked' = asked, NEW x, asked[q].run # x
  PROVE  AwaitedSame(x)
BY DEF AwaitedSame, NoneAwaited

LEMMA NewRequestSame ==
  ASSUME TypeOK, NEW kind, NEW r, NEW t, NewRequest(kind, r, t), NEW x, x # r
  PROVE  AwaitedSame(x)
<1>1. /\ asked \in [ReqId -> Request] /\ nreqs + 1 \in ReqId
      /\ \A q \in pending : q \in ReqId /\ q # nreqs + 1
  BY ConstantsOK DEF TypeOK, ReqId, NewRequest
<1>2. /\ asked'[nreqs + 1].run = r /\ \A q \in pending : asked'[q] = asked[q]
      /\ pending' = pending \cup {nreqs + 1}
  BY <1>1 DEF NewRequest
<1>. QED BY <1>2 DEF AwaitedSame, NoneAwaited

LEMMA UnchangedSame ==
  ASSUME NEW x
  PROVE  /\ UNCHANGED <<rows, nrows>> => RowsSame(x)
         /\ UNCHANGED <<tasks, ntasks>> => TasksSame(x)
         /\ UNCHANGED requests => AwaitedSame(x)
         /\ UNCHANGED <<database, requests>> => Same(x)
BY DEF RowsSame, TasksSame, AwaitedSame, NoneAwaited, requests, database, Same

-----------------------------------------------------------------------------
(* The tables after a step.                                                *)

\* Each part of TableInv, for the steps that do not insert what it is about.
LEMMA OneTaskKept ==
  ASSUME OneTask, ntasks' = ntasks,
         \A t \in 1 .. ntasks : /\ tasks'[t].run = tasks[t].run
                                /\ tasks'[t].parent = tasks[t].parent
                                /\ tasks'[t].stage \in Stages
  PROVE  OneTask'
BY DEF OneTask

\* Rows keep their run and their stage, and none starts to work.
RowsCalm ==
  /\ nrows' = nrows
  /\ \A i \in 1 .. nrows :
       /\ rows'[i].run = rows[i].run /\ rows'[i].stage = rows[i].stage
       /\ rows'[i].status = "running" => rows[i].status = "running"

LEMMA RowsCalmKept ==
  ASSUME EachStageOnce, LastRuns, RowsCalm
  PROVE  EachStageOnce' /\ LastRuns'
<1>1. EachStageOnce'
  BY DEF EachStageOnce, RowsCalm
<1>2. LastRuns'
  BY DEF LastRuns, RowsCalm
<1>. QED BY <1>1, <1>2

LEMMA OneAwaitedKept ==
  ASSUME OneAwaited, asked' = asked, pending' \subseteq pending
  PROVE  OneAwaited'
BY DEF OneAwaited

\* A step that inserts nothing.
CalmTables ==
  /\ RowsCalm
  /\ \A i \in 1 .. nrows : rows'[i].status = "deleted"
                             => rows[i].status = "deleted"
  /\ ntasks' = ntasks
  /\ \A t \in 1 .. ntasks :
       /\ tasks'[t].run = tasks[t].run /\ tasks'[t].parent = tasks[t].parent
       /\ tasks'[t].stage \in Stages
       /\ tasks[t].status = "deleted" => tasks'[t].status = "deleted"
  /\ asked' = asked /\ pending' \subseteq pending

LEMMA CalmTablesKept ==
  ASSUME TypeOK, TableInv, CalmTables
  PROVE  TableInv'
<1>1. OneTask'
  BY OneTaskKept DEF TableInv, CalmTables
<1>2. EachStageOnce' /\ LastRuns'
  BY RowsCalmKept DEF TableInv, CalmTables
<1>3. DeletedAfter'
  BY DEF TableInv, CalmTables, RowsCalm, DeletedAfter
<1>4. OneAwaited'
  BY OneAwaitedKept DEF TableInv, CalmTables
<1>. QED BY <1>1, <1>2, <1>3, <1>4 DEF TableInv

\* The tasks of a step that only sets the status of one that is not deleted.
LEMMA SetTaskCalm ==
  ASSUME TypeOK, OneTask, NEW t, NEW status, SetTask(t, status),
         UNCHANGED <<rows, nrows, ntasks, asked>>, pending' \subseteq pending
  PROVE  CalmTables
<1>1. tasks \in [TaskId -> Task] /\ \A k \in 1 .. ntasks : k \in TaskId
  BY ConstantsOK DEF TypeOK, TaskId, MaxTasks
<1>2. \A k \in 1 .. ntasks :
        /\ tasks'[k].run = tasks[k].run /\ tasks'[k].parent = tasks[k].parent
        /\ tasks'[k].stage = tasks[k].stage
        /\ tasks[k].status = "deleted" => tasks'[k].status = "deleted"
  BY <1>1 DEF SetTask, LiveTask, Gone, Task
<1>. QED BY <1>2 DEF CalmTables, RowsCalm, OneTask

LEMMA SetRowCalm ==
  ASSUME TypeOK, OneTask, NEW i, NEW status \in RowStatus \ {"running", "deleted"},
         SetRow(i, status), UNCHANGED <<nrows, tasks, ntasks, asked, pending>>
  PROVE  CalmTables
<1>1. rows \in [RowId -> Row] /\ \A k \in 1 .. nrows : k \in RowId
  BY ConstantsOK DEF TypeOK, RowId
<1>2. \A k \in 1 .. nrows :
        /\ rows'[k].run = rows[k].run /\ rows'[k].stage = rows[k].stage
        /\ rows'[k].status \in {"running", "deleted"}
             => rows'[k].status = rows[k].status
  BY <1>1 DEF SetRow, Row
<1>. QED BY <1>2 DEF CalmTables, RowsCalm, OneTask

LEMMA ReadCalm ==
  ASSUME OneTask, UNCHANGED <<database, asked>>, pending' \subseteq pending
  PROVE  CalmTables
BY DEF CalmTables, RowsCalm, OneTask, database

-----------------------------------------------------------------------------
(* Runs at rest, and steps of handlers.                                    *)

\* The run of task t is at rest after a step if t shows it truly.
LEMMA SettlesAs ==
  ASSUME OneTask', NEW r, NEW t \in (1 .. ntasks)', tasks'[t].run = r,
         Shown(r, t)'
  PROVE  Settled(r)'
BY DEF OneTask, Settled

LEMMA SettlesEnded ==
  ASSUME TableInv', NEW t, NEW r, NEW s, NEW status \in EndStatus,
         TaskIs(t, r, s, status)', NoneRuns(r)', NoneAwaited(r)'
  PROVE  Settled(r)'
BY SettlesAs DEF TableInv, TaskIs, Shown, EndStatus

LEMMA SettlesRunning ==
  ASSUME TableInv', NEW t, NEW r, NEW s, TaskIs(t, r, s, "running")',
         Below(r, s)', Works(r, s)', NoneAwaited(r)'
  PROVE  Settled(r)'
<1>1. Shown(r, t)'
  BY DEF TaskIs, Shown, EndStatus
<1>. QED BY <1>1, SettlesAs DEF TableInv, TaskIs

LEMMA SettlesRecovering ==
  ASSUME TableInv', NEW t, NEW r, NEW s, TaskIs(t, r, s, "recovering")',
         Below(r, s)', NoneRuns(r)', ~NoneAwaited(r)'
  PROVE  Settled(r)'
<1>1. Shown(r, t)'
  BY DEF TaskIs, Shown, EndStatus
<1>. QED BY <1>1, SettlesAs DEF TableInv, TaskIs

LEMMA SettlesGone ==
  ASSUME TableInv', NEW r, GoneRun(r)'
  PROVE  Settled(r)'
<1>1. PICK t \in (1 .. ntasks)' : tasks'[t].run = r /\ tasks'[t].status = "deleted"
  BY DEF GoneRun
<1>2. Shown(r, t)'
  BY <1>1 DEF Shown, EndStatus
<1>. QED BY <1>1, <1>2, SettlesAs DEF TableInv

\* The status of the task of a run is set.
LEMMA SetTaskIs ==
  ASSUME TypeOK, NEW t, NEW r, NEW s, NEW old \in TaskStatus \ Gone, NEW status,
         TaskIs(t, r, s, old), SetTask(t, status), ntasks' = ntasks
  PROVE  TaskIs(t, r, s, status)'
<1>1. tasks \in [TaskId -> Task] /\ t \in TaskId
  BY ConstantsOK DEF TypeOK, TaskIs, TaskId, MaxTasks
<1>2. LiveTask(t) /\ tasks' = [tasks EXCEPT ![t].status = status]
  BY <1>1 DEF LiveTask, TaskIs, SetTask
<1>. QED BY <1>1, <1>2 DEF TaskIs, Task

\* The handler at work is alone, and knows its run.
LEMMA AtWork ==
  ASSUME StageInv, SerialInv, Serial, NEW h \in Handlers, job[h] # Idle
  PROVE  /\ monitor = Resting /\ \A g \in Handlers \ {h} : job[g] = Idle
         /\ WorkOK(job[h]) /\ JobOK(job[h]) /\ PointOK(job[h])
         /\ job[h] \in Job
BY DEF SerialInv, Alone, Serial, StageInv, TypeOK, JobsOK, JobOK

LEMMA StateFacts ==
  ASSUME StageInv, SerialInv
  PROVE  /\ TypeOK /\ RowsOK /\ TasksOK /\ AskedOK /\ TableInv
         /\ OneTask /\ EachStageOnce /\ LastRuns /\ DeletedAfter /\ OneAwaited
         /\ \A i \in 1 .. nrows : i \in RowId
         /\ \A t \in 1 .. ntasks : t \in TaskId
         /\ \A i \in RowId : rows[i].status # "absent" => i \in 1 .. nrows
         /\ \A t \in TaskId : tasks[t].status # "absent" => t \in 1 .. ntasks
         /\ \A q \in pending : q \in 1 .. nreqs /\ q \in ReqId
<1>1. TypeOK /\ RowsOK /\ TasksOK /\ AskedOK /\ TableInv
  BY DEF StageInv, SerialInv
<1>2. \A i \in RowId : rows[i].status # "absent" => i \in 1 .. nrows
  BY <1>1, ConstantsOK DEF RowsOK, RowOK, RowId, TypeOK
<1>3. \A t \in TaskId : tasks[t].status # "absent" => t \in 1 .. ntasks
  BY <1>1, ConstantsOK DEF TasksOK, TaskOK, TaskId, MaxTasks, TypeOK
<1>. QED BY <1>1, <1>2, <1>3, ConstantsOK
   DEF TableInv, TypeOK, RowId, TaskId, MaxTasks, ReqId

\* Nobody is at work: every run is at rest.
LEMMA AtRest ==
  ASSUME SerialInv, NEW h \in Handlers, Begin(h), Serial
  PROVE  /\ monitor = Resting /\ \A g \in Handlers : job[g] = Idle
         /\ \A r \in RunId : Settled(r)
<1>1. monitor = Resting /\ \A g \in Handlers : job[g] = Idle
  BY DEF Begin, Quiet, Serial
<1>2. \A r \in RunId : ~Busy(r)
  BY <1>1 DEF Busy, Resting
<1>. QED BY <1>1, <1>2 DEF SerialInv

\* A step of the only handler at work, about run r.
LEMMA SerialHandler ==
  ASSUME StageInv, SerialInv, Alone', TableInv', monitor' = monitor,
         monitor = Resting, NEW h \in Handlers,
         \A g \in Handlers \ {h} : job[g] = Idle,
         NEW r, job[h] # Idle => WorksOn(job[h]) = r,
         NEW j, job' = [job EXCEPT ![h] = j],
         \A x \in RunId : x # r => Same(x),
         WorkOK(j)',
         (j # Idle /\ WorksOn(j)' = r) \/ Settled(r)'
  PROVE  SerialInv'
<1>1. /\ job'[h] = j
      /\ \A g \in Handlers \ {h} : job'[g] = Idle
  BY DEF StageInv, TypeOK
<1>2. \A g \in Handlers : WorkOK(job[g])'
  <2>1. WorkOK(Idle)'
    BY DEF WorkOK, Idle
  <2>2. ASSUME NEW g \in Handlers
        PROVE  WorkOK(job[g])'
    <3>1. CASE g = h
      BY <1>1, <3>1
    <3>2. CASE g # h
      BY <1>1, <2>1, <3>2
    <3>. QED BY <3>1, <3>2
  <2>. QED BY <2>2
<1>3. MonitorOK'
  BY DEF MonitorOK, Resting
<1>4. ASSUME NEW x \in RunId
      PROVE  Busy(x)' \/ Settled(x)'
  <2>1. CASE x = r
    BY <1>1, <2>1 DEF Busy
  <2>2. CASE x # r
    <3>1. ~Busy(x)
      BY <2>2 DEF Busy, Resting
    <3>2. Settled(x)
      BY <3>1 DEF SerialInv
    <3>. QED BY <2>2, <3>2, SettledSame
  <2>. QED BY <2>1, <2>2
<1>. QED BY <1>2, <1>3, <1>4 DEF SerialInv

\* A step that changes nothing but, perhaps, how old a row is.
Still ==
  /\ UNCHANGED <<nrows, tasks, ntasks, requests>>
  /\ \A i \in 1 .. nrows :
       /\ rows'[i].run = rows[i].run /\ rows'[i].stage = rows[i].stage
       /\ rows'[i].status = rows[i].status

LEMMA StillSame ==
  ASSUME Still
  PROVE  /\ \A x : Same(x)
         /\ TypeOK /\ TableInv => TableInv'
<1>1. ASSUME NEW x
      PROVE  Same(x)
  <2>1. RowsSame(x)
    BY DEF Still, RowsSame
  <2>. QED BY <2>1, UnchangedSame DEF Same, Still
<1>2. ASSUME TypeOK, TableInv
      PROVE  TableInv'
  <2>1. CalmTables
    BY <1>2 DEF Still, CalmTables, RowsCalm, TableInv, OneTask, requests
  <2>. QED BY <1>2, <2>1, CalmTablesKept
<1>. QED BY <1>1, <1>2

LEMMA ReadStill == UNCHANGED <<database, requests>> => Still
BY DEF database, Still

LEMMA StillFacts ==
  ASSUME Still
  PROVE  /\ \A r : Settled(r) => Settled(r)'
         /\ \A r : GoneRun(r) => GoneRun(r)'
         /\ \A r : NoneAwaited(r) => NoneAwaited(r)'
         /\ \A r : NoneRuns(r) => NoneRuns(r)'
         /\ \A r, s : Below(r, s) => Below(r, s)'
         /\ \A r, s : Works(r, s) => Works(r, s)'
         /\ \A i, r, s : IsRow(i, r, s) => IsRow(i, r, s)'
         /\ \A t, r, s, st : TaskIs(t, r, s, st) => TaskIs(t, r, s, st)'
         /\ \A t, r, s, st : Held(r, t, s, st) => Held(r, t, s, st)'
         /\ \A t, r, s, st, n : Moving(r, t, s, st, n) => Moving(r, t, s, st, n)'
<1>1. \A x : RowsSame(x) /\ TasksSame(x) /\ AwaitedSame(x)
  BY StillSame DEF Same
<1>2. \A r : Settled(r) => Settled(r)'
  BY StillSame, SettledSame
<1>3. \A r : NoneAwaited(r) => NoneAwaited(r)'
  BY <1>1 DEF AwaitedSame
<1>4. \A r : /\ GoneRun(r) => GoneRun(r)'
             /\ \A t, s, st : TaskIs(t, r, s, st) => TaskIs(t, r, s, st)'
  BY <1>1, TaskFactsSame
<1>5. \A r : /\ NoneRuns(r) => NoneRuns(r)'
             /\ \A s : Below(r, s) => Below(r, s)'
             /\ \A s : Works(r, s) => Works(r, s)'
  BY <1>1, RowFactsSame
<1>6. \A i, r, s : IsRow(i, r, s) => IsRow(i, r, s)'
  BY DEF IsRow, Still
<1>7. \A t, r, s, st : Held(r, t, s, st) => Held(r, t, s, st)'
  BY <1>3, <1>4, <1>5 DEF Held
<1>8. \A t, r, s, st, n : Moving(r, t, s, st, n) => Moving(r, t, s, st, n)'
  BY <1>3, <1>4, <1>5 DEF Moving
<1>. QED BY <1>2, <1>3, <1>4, <1>5, <1>6, <1>7, <1>8

\* What a handler knows is not disturbed by such a step.
LEMMA WorkKept ==
  ASSUME Still, NEW j, WorkOK(j)
  PROVE  WorkOK(j)'
<1>0. UNCHANGED <<tasks, ntasks, asked, pending>>
  BY DEF Still, requests
<1>1. HeldFor(j) => HeldFor(j)'
  BY StillFacts DEF HeldFor
<1>2. Late(j) => Late(j)'
  BY StillFacts DEF Late
<1>3. j.pc = "start_task" =>
        /\ \A t \in 1 .. ntasks' : tasks'[t].run # j.run
        /\ Works(j.run, Learning)' /\ Below(j.run, Learning)'
        /\ NoneAwaited(j.run)'
  BY <1>0, StillFacts DEF WorkOK, Learning
<1>4. j.pc = "result_record" =>
        /\ Settled(j.run)' /\ IsRow(j.row, j.run, j.stage)'
        /\ rows'[j.row].status = "running"
        /\ j.said \in {"completed", "failed"}
  BY StillFacts DEF WorkOK, IsRow, Still
<1>5. j.pc = "result_task" =>
        /\ \E t \in 1 .. ntasks' : Held(j.run, t, j.stage, "running")'
        /\ j.said \in {"completed", "failed"}
  BY <1>0, StillFacts DEF WorkOK
<1>6. j.pc = "emit_failed" =>
        /\ TaskIs(j.task, j.run, j.stage, "recovering")'
        /\ NoneRuns(j.run)' /\ Below(j.run, j.stage)'
        /\ \A q \in pending' : asked'[q].run = j.run <=> q = j.req
  BY <1>0, StillFacts DEF WorkOK
<1>7. j.pc = "recovery_task" =>
        /\ j.task # None /\ NoneAwaited(j.run)'
        /\ \/ Held(j.run, j.task, tasks[j.task].stage, "recovering")'
           \/ GoneRun(j.run)' /\ tasks'[j.task].status = "deleted"
  <2>1. PICK s : s = tasks[j.task].stage
    OBVIOUS
  <2>2. tasks'[j.task].stage = s
    BY <1>0, <2>1
  <2>3. Held(j.run, j.task, s, "recovering")
          => Held(j.run, j.task, s, "recovering")'
    BY StillFacts
  <2>. QED BY <1>0, <2>1, <2>2, <2>3, StillFacts DEF WorkOK
<1>8. j.pc = "delete_abort" =>
        /\ Settled(tasks[j.task].run)'
        /\ tasks'[j.task].status \in {"running", "recovering"}
  <2>1. PICK r : r = tasks[j.task].run
    OBVIOUS
  <2>2. tasks'[j.task].run = r
    BY <1>0, <2>1
  <2>. QED BY <1>0, <2>1, <2>2, StillFacts DEF WorkOK
<1>9. Held(j.run, j.task, j.stage, "recovering")
        => Held(j.run, j.task, j.stage, "recovering")'
  BY StillFacts
<1>10. Moving(j.run, j.task, j.stage, "recovering", j.stage)
         => Moving(j.run, j.task, j.stage, "recovering", j.stage)'
  BY StillFacts
<1>11. Moving(j.run, j.task, j.stage, StatusFor(j.kind), NextStage(j.stage))
         => Moving(j.run, j.task, j.stage, StatusFor(j.kind), NextStage(j.stage))'
  BY StillFacts
<1>12. IsRow(j.row, j.run, j.stage) => IsRow(j.row, j.run, j.stage)'
  BY StillFacts
<1>. QED BY <1>0, <1>1, <1>2, <1>3, <1>4, <1>5, <1>6, <1>7, <1>8, <1>9, <1>10,
            <1>11, <1>12 DEF WorkOK

-----------------------------------------------------------------------------
(* The events.                                                             *)

\* A new row, in the table and for its run.
LEMMA InsertedRow ==
  ASSUME TypeOK, NEW r, NEW s, InsertRow(r, s)
  PROVE  /\ nrows + 1 \in RowId /\ nrows' = nrows + 1 /\ nrows \in Nat
         /\ rows'[nrows + 1].run = r /\ rows'[nrows + 1].stage = s
         /\ rows'[nrows + 1].status = "running"
         /\ \A i \in 1 .. nrows : i \in RowId /\ rows'[i] = rows[i]
BY ConstantsOK DEF TypeOK, RowId, InsertRow

\* A row is inserted for a stage after all those of the run, none of which
\* is at work.
LEMMA InsertedTables ==
  ASSUME StageInv, SerialInv, NEW r, NEW s \in Nat, InsertRow(r, s),
         NoneRuns(r), \A i \in 1 .. nrows : rows[i].run = r => rows[i].stage < s,
         UNCHANGED <<tasks, ntasks, asked, pending>>
  PROVE  TableInv' /\ Works(r, s)' /\ Below(r, s)'
<1>0. /\ nrows' = nrows + 1 /\ nrows \in Nat
      /\ rows'[nrows + 1].run = r /\ rows'[nrows + 1].stage = s
      /\ rows'[nrows + 1].status = "running"
      /\ \A i \in 1 .. nrows : rows'[i] = rows[i]
  BY InsertedRow DEF StageInv
<1>1. Works(r, s)'
  BY <1>0 DEF Works
<1>2. Below(r, s)'
  <2>1. SUFFICES ASSUME NEW i \in 1 .. nrows + 1, rows'[i].run = r
        PROVE  rows'[i].stage <= s
    BY <1>0 DEF Below
  <2>2. CASE i = nrows + 1
    BY <1>0, <2>2
  <2>3. CASE i # nrows + 1
    <3>1. rows[i].stage < s /\ rows[i].stage \in Nat /\ rows'[i] = rows[i]
      BY <1>0, <2>1, <2>3, StateFacts DEF TypeOK, Row, Stages, NoStage, Learning,
                                     SkillManage
    <3>. QED BY <3>1
  <2>. QED BY <2>2, <2>3
<1>3. OneTask'
  BY StateFacts, OneTaskKept DEF OneTask
<1>4. EachStageOnce'
  <2>1. SUFFICES ASSUME NEW i \in 1 .. nrows + 1, NEW k \in 1 .. nrows + 1,
                        rows'[i].run = rows'[k].run,
                        rows'[i].stage = rows'[k].stage
        PROVE  i = k
    BY <1>0 DEF EachStageOnce
  <2>2. ASSUME NEW n \in 1 .. nrows
        PROVE  ~(rows'[n].run = r /\ rows'[n].stage = s)
    BY <1>0, <2>2
  <2>3. i \in 1 .. nrows \/ i = nrows + 1
    BY <1>0
  <2>4. k \in 1 .. nrows \/ k = nrows + 1
    BY <1>0
  <2>5. i \in 1 .. nrows /\ k \in 1 .. nrows => i = k
    BY <1>0, <2>1, StateFacts DEF EachStageOnce
  <2>. QED BY <1>0, <2>1, <2>2, <2>3, <2>4, <2>5
<1>5. LastRuns'
  <2>1. SUFFICES ASSUME NEW i \in 1 .. nrows + 1, NEW k \in 1 .. nrows + 1,
                        rows'[i].run = rows'[k].run,
                        rows'[i].stage < rows'[k].stage
        PROVE  rows'[i].status # "running"
    BY <1>0 DEF LastRuns
  <2>2. CASE i = nrows + 1
    <3>1. k \in 1 .. nrows /\ rows[k].stage < s /\ s < rows[k].stage
      BY <1>0, <2>1, <2>2
    <3>2. rows[k].stage \in Nat
      BY <3>1, StateFacts DEF TypeOK, Row, Stages, NoStage, Learning,
                                     SkillManage
    <3>. QED BY <3>1, <3>2
  <2>3. CASE i # nrows + 1
    <3>1. i \in 1 .. nrows /\ rows'[i] = rows[i]
      BY <1>0, <2>3
    <3>2. CASE k = nrows + 1
      BY <1>0, <2>1, <3>1, <3>2 DEF NoneRuns
    <3>3. CASE k # nrows + 1
      BY <1>0, <2>1, <3>1, <3>3, StateFacts DEF LastRuns
    <3>. QED BY <3>2, <3>3
  <2>. QED BY <2>2, <2>3
<1>6. DeletedAfter'
  <2>1. ASSUME NEW i \in 1 .. nrows', rows'[i].status = "deleted"
        PROVE  i \in 1 .. nrows /\ rows'[i] = rows[i]
    BY <1>0, <2>1
  <2>. QED BY <2>1, StateFacts DEF DeletedAfter
<1>7. OneAwaited'
  BY StateFacts, OneAwaitedKept
<1>. QED BY <1>1, <1>2, <1>3, <1>4, <1>5, <1>6, <1>7 DEF TableInv

\* start_run: the run has no task, so nobody has been asked about it.
LEMMA SerialStartRun ==
  ASSUME StageInv, SerialInv, Serial, Alone', NEW h \in Handlers, StartRun(h)
  PROVE  SerialInv'
<1>0. /\ TypeOK /\ monitor = Resting /\ \A g \in Handlers : job[g] = Idle
      /\ monitor' = monitor /\ UNCHANGED <<tasks, ntasks, asked, pending>>
  BY AtRest, StateFacts DEF StartRun, requests
<1>1. PICK r \in RunId :
        /\ \A i \in RowId : rows[i].run # r
        /\ InsertRow(r, Learning)
        /\ job' = [job EXCEPT ![h] = [Idle EXCEPT !.pc = "start_task",
                                                  !.kind = "start",
                                                  !.run = r,
                                                  !.stage = Learning]]
  BY DEF StartRun
<1>2. PICK j : j = [Idle EXCEPT !.pc = "start_task", !.kind = "start",
                                !.run = r, !.stage = Learning]
  OBVIOUS
<1>3. /\ j.pc = "start_task" /\ j.kind = "start" /\ j.run = r
      /\ job' = [job EXCEPT ![h] = j] /\ j # Idle
  BY <1>1, <1>2 DEF Idle
<1>4. \A i \in 1 .. nrows : rows[i].run # r
  BY <1>1, StateFacts
<1>5. TableInv' /\ Works(r, Learning)' /\ Below(r, Learning)'
  <2>1. NoneRuns(r) /\ Learning \in Nat
    BY <1>4 DEF NoneRuns, Learning
  <2>. QED BY <1>0, <1>1, <1>4, <2>1, InsertedTables
<1>6. \A t \in 1 .. ntasks : tasks[t].run # r
  <2>1. SUFFICES ASSUME NEW t \in 1 .. ntasks, tasks[t].run = r
        PROVE  FALSE
    OBVIOUS
  <2>2. tasks[t].stage # NoStage /\ t \in TaskId /\ t <= ntasks
    BY StateFacts DEF OneTask, Stages, Learning, NoStage, TypeOK
  <2>3. HasRow(r, tasks[t].stage)
    BY <2>1, <2>2, StateFacts DEF TasksOK, TaskOK
  <2>. QED BY <1>4, <2>3 DEF HasRow
<1>7. NoneAwaited(r)'
  <2>1. ASSUME NEW q \in pending, asked[q].run = r
        PROVE  FALSE
    <3>1. q \in 1 .. nreqs /\ q \in ReqId /\ asked[q].task # None
      BY StateFacts DEF OneAwaited
    <3>2. asked[q].task <= ntasks /\ tasks[asked[q].task].run = r
      BY <2>1, <3>1, StateFacts DEF AskedOK, TaskIsOf
    <3>3. asked[q].task \in TaskId
      BY <3>1, StateFacts DEF TypeOK, Request
    <3>. QED BY <1>6, <3>2, <3>3, ConstantsOK DEF TaskId, MaxTasks
  <2>. QED BY <1>0, <2>1 DEF NoneAwaited
<1>8. WorkOK(j)'
  <2>1. \A t \in 1 .. ntasks' : tasks'[t].run # j.run
    BY <1>0, <1>3, <1>6
  <2>. QED BY <1>3, <1>5, <1>7, <2>1 DEF WorkOK, Idle
<1>9. \A x \in RunId : x # r => Same(x)
  BY <1>0, <1>1, InsertRowSame, UnchangedSame DEF Same, StartRun
<1>10. WorksOn(j)' = r
  BY <1>3 DEF WorksOn
<1>. QED BY <1>0, <1>3, <1>5, <1>8, <1>9, <1>10, SerialHandler

\* A step that only moves a handler.
LEMMA SerialRead ==
  ASSUME StageInv, SerialInv, Alone', Still, monitor' = monitor,
         monitor = Resting, NEW h \in Handlers,
         \A g \in Handlers \ {h} : job[g] = Idle,
         NEW r, job[h] # Idle => WorksOn(job[h]) = r,
         NEW j, job' = [job EXCEPT ![h] = j],
         WorkOK(j), (j # Idle /\ WorksOn(j) = r) \/ Settled(r)
  PROVE  SerialInv'
<1>1. TableInv' /\ \A x : Same(x)
  BY StillSame, StateFacts
<1>2. WorkOK(j)'
  BY WorkKept
<1>3. (j # Idle /\ WorksOn(j)' = r) \/ Settled(r)'
  BY <1>1, SettledSame DEF WorksOn, Still
<1>. QED BY <1>1, <1>2, <1>3, SerialHandler

\* A row that is at work is the stage of the run's task.
LEMMA AtStage ==
  ASSUME StageInv, SerialInv, NEW i \in 1 .. nrows, rows[i].status = "running",
         NEW r, rows[i].run = r, Settled(r)
  PROVE  /\ \E t \in 1 .. ntasks : /\ TaskIs(t, r, rows[i].stage, "running")
                                   /\ Below(r, rows[i].stage)
         /\ NoneAwaited(r)
         /\ \A k \in 1 .. nrows : rows[k].run = r /\ rows[k].status = "running"
                                    => k = i
<1>1. PICK t \in 1 .. ntasks : tasks[t].run = r
  BY DEF Settled
<1>2. Shown(r, t)
  BY <1>1 DEF Settled
<1>3. tasks[t].status = "running"
  BY <1>2 DEF Shown, NoneRuns, GoneRun
<1>4. \A k \in 1 .. nrows : rows[k].stage \in Nat
  BY StateFacts DEF TypeOK, Row, Stages, NoStage, Learning, SkillManage
<1>5. ASSUME NEW k \in 1 .. nrows, rows[k].run = r, rows[k].status = "running"
      PROVE  k = i
  <2>1. ~(rows[i].stage < rows[k].stage) /\ ~(rows[k].stage < rows[i].stage)
    BY <1>5, StateFacts DEF LastRuns
  <2>2. rows[i].stage = rows[k].stage
    BY <1>4, <2>1
  <2>. QED BY <1>5, <2>2, StateFacts DEF EachStageOnce
<1>6. Works(r, tasks[t].stage) /\ Below(r, tasks[t].stage) /\ NoneAwaited(r)
  BY <1>2, <1>3 DEF Shown
<1>7. tasks[t].stage = rows[i].stage
  BY <1>5, <1>6 DEF Works
<1>. QED BY <1>1, <1>3, <1>5, <1>6, <1>7 DEF TaskIs

\* on_stage_result begins: the row it found is at work.
LEMMA SerialReceiveResult ==
  ASSUME StageInv, SerialInv, Serial, Alone', NEW h \in Handlers,
         ReceiveResult(h)
  PROVE  SerialInv'
<1>0. /\ monitor = Resting /\ \A g \in Handlers : job[g] = Idle
      /\ monitor' = monitor /\ Still /\ \A r \in RunId : Settled(r)
  BY AtRest, ReadStill DEF ReceiveResult
<1>1. PICK work \in sent, said \in Results :
        \E i \in Oldest(RowsOf(work[1], work[2]) \cap RunningRows) :
          job' = [job EXCEPT ![h] = [Idle EXCEPT !.pc = "result_record",
                                                 !.kind = "result",
                                                 !.run = work[1],
                                                 !.stage = work[2],
                                                 !.said = said,
                                                 !.row = i]]
  BY DEF ReceiveResult
<1>2. PICK i \in Oldest(RowsOf(work[1], work[2]) \cap RunningRows) :
        job' = [job EXCEPT ![h] = [Idle EXCEPT !.pc = "result_record",
                                               !.kind = "result",
                                               !.run = work[1],
                                               !.stage = work[2],
                                               !.said = said,
                                               !.row = i]]
  BY <1>1
<1>3. PICK j : j = [Idle EXCEPT !.pc = "result_record", !.kind = "result",
                                !.run = work[1], !.stage = work[2],
                                !.said = said, !.row = i]
  OBVIOUS
<1>4. /\ j.pc = "result_record" /\ j.kind = "result" /\ j.run = work[1]
      /\ j.stage = work[2] /\ j.said = said /\ j.row = i
      /\ job' = [job EXCEPT ![h] = j] /\ j # Idle
  BY <1>2, <1>3 DEF Idle
<1>5. /\ i \in RowId /\ rows[i].run = work[1] /\ rows[i].stage = work[2]
      /\ rows[i].status = "running"
  BY <1>2 DEF Oldest, RowsOf, RunningRows
<1>6. i \in 1 .. nrows /\ work[1] \in RunId
  BY <1>5, StateFacts DEF TypeOK
<1>7. said \in {"completed", "failed"}
  BY DEF Serial, Results
<1>8. WorkOK(j)
  BY <1>0, <1>4, <1>5, <1>6, <1>7 DEF WorkOK, IsRow
<1>9. WorksOn(j) = work[1]
  BY <1>4 DEF WorksOn
<1>. QED BY <1>0, <1>4, <1>8, <1>9, SerialRead

\* on_recovery_response begins: the task is in recovery, or deleted.
LEMMA SerialReceiveRecovery ==
  ASSUME StageInv, SerialInv, Serial, Alone', NEW h \in Handlers,
         ReceiveRecovery(h)
  PROVE  SerialInv'
<1>0. /\ monitor = Resting /\ \A g \in Handlers : job[g] = Idle
      /\ monitor' = monitor /\ UNCHANGED <<database, asked>>
      /\ \A r \in RunId : Settled(r)
  BY AtRest DEF ReceiveRecovery
<1>1. PICK q \in pending, said \in Actions :
        /\ Claim(q)
        /\ job' = [job EXCEPT ![h] = [Idle EXCEPT !.pc = "recovery_task",
                                                  !.kind = "recovery",
                                                  !.run = asked[q].run,
                                                  !.said = said,
                                                  !.task = asked[q].task,
                                                  !.req = q]]
  BY RecoveryReply
<1>2. PICK r, t : r = asked[q].run /\ t = asked[q].task
  OBVIOUS
<1>3. PICK j : j = [Idle EXCEPT !.pc = "recovery_task", !.kind = "recovery",
                                !.run = r, !.said = said, !.task = t,
                                !.req = q]
  OBVIOUS
<1>4. /\ j.pc = "recovery_task" /\ j.kind = "recovery" /\ j.run = r
      /\ j.task = t /\ job' = [job EXCEPT ![h] = j] /\ j # Idle
  BY <1>1, <1>2, <1>3 DEF Idle
<1>5. t # None /\ t \in 1 .. ntasks /\ tasks[t].run = r /\ r \in RunId
  <2>1. q \in 1 .. nreqs /\ q \in ReqId /\ t # None
    BY <1>2, StateFacts DEF OneAwaited
  <2>2. r \in RunId /\ t <= ntasks /\ tasks[t].run = r
    BY <1>2, <2>1, StateFacts DEF AskedOK, TaskIsOf
  <2>3. t \in TaskId /\ ntasks \in Nat
    BY <1>2, <2>1, StateFacts DEF TypeOK, Request
  <2>. QED BY <2>1, <2>2, <2>3, ConstantsOK DEF TaskId, MaxTasks
<1>6. NoneAwaited(r)'
  <2>1. \A p \in pending : asked[p].run = r => p = q
    BY <1>2, StateFacts DEF OneAwaited
  <2>. QED BY <1>0, <1>1, <2>1 DEF Claim, NoneAwaited
<1>7. /\ \A x : RowsSame(x) /\ TasksSame(x)
      /\ \A x : x # r => AwaitedSame(x)
  <2>1. UNCHANGED <<rows, nrows, tasks, ntasks>>
    BY <1>0 DEF database
  <2>. QED BY <1>0, <1>1, <1>2, <2>1, UnchangedSame, ClaimSame DEF Claim
<1>8. TableInv'
  BY <1>0, <1>1, StateFacts, ReadCalm, CalmTablesKept DEF Claim
<1>9. PICK s : s = tasks[t].stage
  OBVIOUS
<1>10. Held(r, t, s, "recovering")' \/ (GoneRun(r)' /\ tasks'[t].status = "deleted")
  <2>1. Shown(r, t) /\ ~NoneAwaited(r)
    BY <1>0, <1>2, <1>5 DEF Settled, NoneAwaited
  <2>2. tasks[t].status \in {"recovering", "deleted"}
    BY <2>1 DEF Shown
  <2>3. CASE tasks[t].status = "recovering"
    <3>1. TaskIs(t, r, s, "recovering") /\ NoneRuns(r) /\ Below(r, s)
      BY <1>5, <1>9, <2>1, <2>3 DEF Shown, TaskIs
    <3>2. TaskIs(t, r, s, "recovering")' /\ NoneRuns(r)' /\ Below(r, s)'
      BY <1>7, <3>1, RowFactsSame, TaskFactsSame
    <3>. QED BY <1>6, <3>2 DEF Held
  <2>4. CASE tasks[t].status = "deleted"
    <3>1. GoneRun(r)
      BY <2>1, <2>4 DEF Shown
    <3>2. GoneRun(r)'
      BY <1>7, <3>1, TaskFactsSame
    <3>. QED BY <1>0, <2>4, <3>2 DEF database
  <2>. QED BY <2>2, <2>3, <2>4
<1>11. tasks'[t].stage = s
  BY <1>0, <1>9 DEF database
<1>12. WorkOK(j)'
  BY <1>4, <1>5, <1>6, <1>10, <1>11 DEF WorkOK
<1>13. WorksOn(j)' = r
  BY <1>4 DEF WorksOn
<1>14. \A x \in RunId : x # r => Same(x)
  BY <1>7 DEF Same
<1>. QED BY <1>0, <1>4, <1>8, <1>12, <1>13, <1>14, SerialHandler

\* A deletion begins: the run of the task is at rest.
LEMMA SerialBeginDelete ==
  ASSUME StageInv, SerialInv, Serial, Alone', NEW h \in Handlers,
         BeginDelete(h)
  PROVE  SerialInv'
<1>0. /\ monitor = Resting /\ \A g \in Handlers : job[g] = Idle
      /\ monitor' = monitor /\ Still /\ \A r \in RunId : Settled(r)
  BY AtRest, ReadStill DEF BeginDelete
<1>1. PICK t \in TaskId :
        /\ LiveTask(t)
        /\ job' = [job EXCEPT ![h] =
             [Idle EXCEPT !.kind = "delete", !.task = t,
                          !.pc = IF tasks[t].status \in {"running", "recovering"}
                                 THEN "delete_abort" ELSE "delete_collect"]]
  BY DEF BeginDelete
<1>2. PICK p : p = IF tasks[t].status \in {"running", "recovering"}
                   THEN "delete_abort" ELSE "delete_collect"
  OBVIOUS
<1>3. PICK j : j = [Idle EXCEPT !.kind = "delete", !.task = t, !.pc = p]
  OBVIOUS
<1>4. /\ j.pc = p /\ j.kind = "delete" /\ j.task = t
      /\ job' = [job EXCEPT ![h] = j] /\ j # Idle
  BY <1>1, <1>2, <1>3 DEF Idle
<1>5. t \in 1 .. ntasks /\ tasks[t].run \in RunId /\ tasks[t].status # "deleted"
  BY <1>1, StateFacts DEF LiveTask, Gone, TasksOK, TaskOK
<1>6. Settled(tasks[t].run) /\ Shown(tasks[t].run, t)
  BY <1>0, <1>5 DEF Settled
<1>7. tasks[t].status \in EndStatus \cup {"running", "recovering"}
  BY <1>5, <1>6 DEF Shown
<1>8. WorkOK(j)
  <2>1. CASE tasks[t].status \in {"running", "recovering"}
    BY <1>2, <1>4, <1>6, <2>1 DEF WorkOK
  <2>2. CASE tasks[t].status \notin {"running", "recovering"}
    BY <1>2, <1>4, <1>7, <2>2 DEF WorkOK
  <2>. QED BY <2>1, <2>2
<1>9. WorksOn(j) = tasks[t].run
  BY <1>4 DEF WorksOn
<1>. QED BY <1>0, <1>4, <1>8, <1>9, SerialRead

\* Nobody is asked to decompose a task by hand, so no such answer comes.
LEMMA SerialNoDecomposition ==
  ASSUME StageInv, SerialInv, Serial
  PROVE  ~RequestDecomposition /\ \A h \in Handlers : ~ReceiveDecomposition(h)
BY StateFacts, DecompositionReply DEF Serial, RequestDecomposition, OneAwaited

-----------------------------------------------------------------------------
(* The calls of a handler.                                                 *)

\* The status of the task of run r is set: the rest of the run is as it was.
LEMMA TaskSet ==
  ASSUME StageInv, SerialInv, NEW t, NEW r, NEW s,
         NEW old \in {"running", "recovering"} \cup EndStatus, NEW status,
         TaskIs(t, r, s, old), SetTask(t, status),
         UNCHANGED <<rows, nrows, ntasks, requests>>
  PROVE  /\ TableInv' /\ TaskIs(t, r, s, status)'
         /\ \A x : x # r => Same(x)
         /\ NoneRuns(r) => NoneRuns(r)'
         /\ NoneAwaited(r) => NoneAwaited(r)'
         /\ \A n : Below(r, n) => Below(r, n)'
         /\ \A n : Works(r, n) => Works(r, n)'
<1>1. \A x : RowsSame(x) /\ AwaitedSame(x)
  BY UnchangedSame
<1>2. TableInv'
  <2>1. UNCHANGED <<asked, pending>>
    BY DEF requests
  <2>. QED BY <2>1, StateFacts, SetTaskCalm, CalmTablesKept
<1>3. TaskIs(t, r, s, status)'
  <2>1. old \in TaskStatus \ Gone
    BY DEF EndStatus, TaskStatus, Gone
  <2>. QED BY <2>1, StateFacts, SetTaskIs
<1>4. ASSUME NEW x, x # r
      PROVE  Same(x)
  <2>1. t \in 1 .. ntasks /\ tasks[t].run # x
    BY <1>4 DEF TaskIs
  <2>. QED BY <1>1, <2>1, StateFacts, SetTaskSame DEF Same
<1>. QED BY <1>1, <1>2, <1>3, <1>4, RowFactsSame DEF AwaitedSame

\* The run ends with this status.
LEMMA SerialEnds ==
  ASSUME StageInv, SerialInv, Serial, Alone', NEW h \in Handlers,
         job[h] # Idle, job[h].kind # "delete", NEW old \in {"running", "recovering"},
         Held(job[h].run, job[h].task, job[h].stage, old),
         NEW status \in EndStatus, SetTask(job[h].task, status), Return(h),
         UNCHANGED <<rows, nrows, ntasks, requests, monitor>>
  PROVE  SerialInv'
<1>0. /\ monitor = Resting /\ \A g \in Handlers \ {h} : job[g] = Idle
      /\ monitor' = monitor
  BY AtWork
<1>1. PICK r, t, s : r = job[h].run /\ t = job[h].task /\ s = job[h].stage
  OBVIOUS
<1>2. TaskIs(t, r, s, old) /\ NoneRuns(r) /\ NoneAwaited(r)
  BY <1>1 DEF Held
<1>3. /\ TableInv' /\ TaskIs(t, r, s, status)' /\ \A x : x # r => Same(x)
      /\ NoneRuns(r)' /\ NoneAwaited(r)'
  BY <1>1, <1>2, TaskSet
<1>4. Settled(r)'
  BY <1>3, SettlesEnded
<1>5. WorkOK(Idle)' /\ job' = [job EXCEPT ![h] = Idle]
  BY DEF WorkOK, Idle, Return
<1>6. WorksOn(job[h]) = r
  BY <1>1 DEF WorksOn
<1>. QED BY <1>0, <1>3, <1>4, <1>5, <1>6, SerialHandler

\* start_run ends: the task shows the first stage at work.
LEMMA SerialStartTask ==
  ASSUME StageInv, SerialInv, Serial, Alone', NEW h \in Handlers, StartTask(h)
  PROVE  SerialInv'
<1>0. /\ job[h] # Idle /\ job[h].pc = "start_task"
      /\ monitor' = monitor /\ UNCHANGED <<rows, nrows, requests>>
  BY DEF StartTask, At, Idle
<1>1. /\ monitor = Resting /\ \A g \in Handlers \ {h} : job[g] = Idle
      /\ WorkOK(job[h]) /\ PointOK(job[h])
  BY <1>0, AtWork
<1>2. PICK r : r = job[h].run
  OBVIOUS
<1>3. /\ \A t \in 1 .. ntasks : tasks[t].run # r
      /\ Works(r, Learning) /\ Below(r, Learning) /\ NoneAwaited(r)
  BY <1>0, <1>1, <1>2 DEF WorkOK
<1>4. InsertTask(r, "running", Learning, None)
  BY <1>2 DEF StartTask
<1>5. /\ tasks \in [TaskId -> Task] /\ ntasks \in Nat /\ ntasks + 1 \in TaskId
      /\ ntasks' = ntasks + 1
      /\ tasks'[ntasks + 1] = [run |-> r, stage |-> Learning,
                               status |-> "running", parent |-> None]
      /\ \A t \in 1 .. ntasks : tasks'[t] = tasks[t]
  BY <1>4, StateFacts, ConstantsOK DEF TypeOK, TaskId, MaxTasks, InsertTask
<1>6. \A x : /\ RowsSame(x) /\ AwaitedSame(x)
             /\ x # r => TasksSame(x)
  BY <1>0, <1>4, StateFacts, UnchangedSame, InsertTaskSame
<1>7. TableInv'
  <2>1. OneTask'
    <3>1. \A t \in 1 .. ntasks + 1 : t \in 1 .. ntasks \/ t = ntasks + 1
      BY <1>5
    <3>2. Learning \in Stages
      BY DEF Learning, Stages, SkillManage
    <3>3. \A t \in 1 .. ntasks + 1 : tasks'[t].parent = None
                                       /\ tasks'[t].stage \in Stages
      BY <1>5, <3>1, <3>2, StateFacts DEF OneTask
    <3>4. ASSUME NEW t \in 1 .. ntasks + 1, NEW u \in 1 .. ntasks + 1,
                 tasks'[t].run = tasks'[u].run
          PROVE  t = u
      <4>1. CASE t \in 1 .. ntasks /\ u \in 1 .. ntasks
        BY <1>5, <3>4, <4>1, StateFacts DEF OneTask
      <4>2. CASE t = ntasks + 1 \/ u = ntasks + 1
        BY <1>3, <1>5, <3>1, <3>4, <4>2
      <4>. QED BY <3>1, <4>1, <4>2
    <3>. QED BY <1>5, <3>3, <3>4 DEF OneTask
  <2>2. RowsCalm
    BY <1>0 DEF RowsCalm
  <2>3. EachStageOnce' /\ LastRuns'
    BY <2>2, StateFacts, RowsCalmKept
  <2>4. DeletedAfter'
    BY <1>0, <1>5, StateFacts DEF DeletedAfter
  <2>5. OneAwaited'
    BY <1>0, StateFacts, OneAwaitedKept DEF requests
  <2>. QED BY <2>1, <2>3, <2>4, <2>5 DEF TableInv
<1>8. PICK t : t = ntasks + 1
  OBVIOUS
<1>9. TaskIs(t, r, Learning, "running")'
  BY <1>5, <1>8 DEF TaskIs
<1>10. Settled(r)'
  <2>1. Below(r, Learning)' /\ Works(r, Learning)' /\ NoneAwaited(r)'
    BY <1>3, <1>6, RowFactsSame DEF AwaitedSame
  <2>. QED BY <1>7, <1>9, <2>1, SettlesRunning
<1>11. WorkOK(Idle)' /\ job' = [job EXCEPT ![h] = Idle]
  BY DEF WorkOK, Idle, Return, StartTask
<1>12. WorksOn(job[h]) = r
  BY <1>0, <1>1, <1>2 DEF WorksOn, PointOK
<1>13. \A x \in RunId : x # r => Same(x)
  BY <1>6 DEF Same
<1>. QED BY <1>0, <1>1, <1>7, <1>10, <1>11, <1>12, <1>13, SerialHandler

\* The row of a stage of run r stops working: none of the run works then.
LEMMA RowStops ==
  ASSUME StageInv, SerialInv, NEW i \in 1 .. nrows, rows[i].status = "running",
         NEW r, rows[i].run = r, Settled(r), NEW s, rows[i].stage = s,
         NEW status \in RowStatus \ (Gone \cup {"running"}), SetRow(i, status),
         UNCHANGED <<nrows, tasks, ntasks, requests>>
  PROVE  /\ TableInv' /\ \A x : x # r => Same(x)
         /\ \E t \in 1 .. ntasks : Held(r, t, s, "running")'
<1>1. PICK t \in 1 .. ntasks : /\ TaskIs(t, r, s, "running")
                               /\ Below(r, s)
  BY AtStage
<1>2. /\ NoneAwaited(r)
      /\ \A k \in 1 .. nrows : rows[k].run = r /\ rows[k].status = "running"
                                 => k = i
  BY AtStage
<1>3. TableInv'
  <2>1. UNCHANGED <<asked, pending>>
    BY DEF requests
  <2>2. status \in RowStatus \ {"running", "deleted"}
    BY DEF Gone
  <2>. QED BY <2>1, <2>2, StateFacts, SetRowCalm, CalmTablesKept
<1>4. ASSUME NEW x, x # r
      PROVE  Same(x)
  BY <1>4, StateFacts, SetRowSame, UnchangedSame DEF Same
<1>5. /\ rows \in [RowId -> Row] /\ i \in RowId
      /\ \A k \in 1 .. nrows : k \in RowId
  BY StateFacts DEF TypeOK
<1>6. /\ rows'[i].status = status
      /\ \A k \in 1 .. nrows : /\ rows'[k].run = rows[k].run
                               /\ rows'[k].stage = rows[k].stage
                               /\ k # i => rows'[k] = rows[k]
  BY <1>5 DEF SetRow, LiveRow, Gone, Row
<1>7. NoneRuns(r)' /\ Below(r, s)'
  BY <1>1, <1>2, <1>6 DEF NoneRuns, Below
<1>8. TaskIs(t, r, s, "running")' /\ NoneAwaited(r)'
  BY <1>1, <1>2 DEF TaskIs, NoneAwaited, requests
<1>. QED BY <1>3, <1>4, <1>7, <1>8 DEF Held

\* The result is written to the row.
LEMMA SerialRecordResult ==
  ASSUME StageInv, SerialInv, Serial, Alone', NEW h \in Handlers,
         RecordResult(h)
  PROVE  SerialInv'
<1>0. /\ job[h] # Idle /\ job[h].pc = "result_record"
      /\ monitor' = monitor /\ UNCHANGED <<nrows, tasks, ntasks, requests>>
  BY DEF RecordResult, At, Idle
<1>1. /\ monitor = Resting /\ \A g \in Handlers \ {h} : job[g] = Idle
      /\ WorkOK(job[h]) /\ PointOK(job[h]) /\ job[h] \in Job
  BY <1>0, AtWork
<1>2. PICK r, s, i, said : /\ r = job[h].run /\ s = job[h].stage
                           /\ i = job[h].row /\ said = job[h].said
  OBVIOUS
<1>3. /\ Settled(r) /\ i \in 1 .. nrows /\ rows[i].run = r
      /\ rows[i].stage = s /\ rows[i].status = "running"
      /\ said \in {"completed", "failed"}
  BY <1>0, <1>1, <1>2 DEF WorkOK, IsRow
<1>4. said \in RowStatus \ (Gone \cup {"running"}) /\ SetRow(i, said)
  BY <1>2, <1>3 DEF RowStatus, Gone, RecordResult
<1>5. /\ TableInv' /\ \A x : x # r => Same(x)
      /\ \E t \in 1 .. ntasks : Held(r, t, s, "running")'
  BY <1>0, <1>3, <1>4, RowStops
<1>6. PICK j : j = [job[h] EXCEPT !.pc = "result_task"]
  OBVIOUS
<1>7. /\ j.pc = "result_task" /\ j.run = r /\ j.stage = s /\ j.said = said
      /\ j.kind = job[h].kind
  BY <1>1, <1>2, <1>6 DEF Job
<1>8. job' = [job EXCEPT ![h] = j]
  BY <1>1, <1>6, StateFacts DEF RecordResult, Goto, TypeOK
<1>9. WorkOK(j)'
  BY <1>0, <1>3, <1>5, <1>7 DEF WorkOK
<1>10. j.kind = "result" /\ j # Idle
  BY <1>0, <1>1, <1>7 DEF PointOK, Idle
<1>11. WorksOn(j)' = r /\ WorksOn(job[h]) = r
  BY <1>2, <1>7, <1>10 DEF WorksOn
<1>. QED BY <1>0, <1>1, <1>5, <1>8, <1>9, <1>10, <1>11, SerialHandler

\* A handler that goes on keeps what it holds.
Onto(h, p, j) ==
  /\ job' = [job EXCEPT ![h] = j] /\ j.pc = p
  /\ j.kind = job[h].kind /\ j.run = job[h].run /\ j.stage = job[h].stage
  /\ j.said = job[h].said /\ j.row = job[h].row /\ j.task = job[h].task
  /\ j.req = job[h].req /\ j.doomed = job[h].doomed

LEMMA GoesOn ==
  ASSUME TypeOK, NEW h \in Handlers, NEW p, Goto(h, p)
  PROVE  \E j : Onto(h, p, j)
<1>1. job[h] \in Job /\ job \in [Handlers -> Job]
  BY DEF TypeOK
<1>2. PICK j : j = [job[h] EXCEPT !.pc = p]
  OBVIOUS
<1>3. job' = [job EXCEPT ![h] = j]
  BY <1>1, <1>2 DEF Goto
<1>4. /\ j.pc = p /\ j.kind = job[h].kind /\ j.run = job[h].run
      /\ j.stage = job[h].stage /\ j.said = job[h].said /\ j.row = job[h].row
      /\ j.task = job[h].task /\ j.req = job[h].req
      /\ j.doomed = job[h].doomed
  BY <1>1, <1>2 DEF Job
<1>. QED BY <1>3, <1>4 DEF Onto

\* Setting the status of the task on the way.
LEMMA SerialSets ==
  ASSUME StageInv, SerialInv, Serial, Alone', NEW h \in Handlers,
         job[h] # Idle, NEW r, r = WorksOn(job[h]), NEW t, NEW s,
         NEW old \in {"running", "recovering"} \cup EndStatus, NEW status,
         TaskIs(t, r, s, old), SetTask(t, status),
         UNCHANGED <<rows, nrows, ntasks, requests, monitor>>,
         NEW j, job' = [job EXCEPT ![h] = j], j # Idle, WorksOn(j)' = r,
         WorkOK(j)'
  PROVE  SerialInv'
<1>1. monitor = Resting /\ \A g \in Handlers \ {h} : job[g] = Idle
  BY AtWork
<1>2. TableInv' /\ \A x : x # r => Same(x)
  BY TaskSet
<1>. QED BY <1>1, <1>2, SerialHandler

LEMMA SerialSetRecovering ==
  ASSUME StageInv, SerialInv, Serial, Alone', NEW h \in Handlers,
         SetRecovering(h)
  PROVE  SerialInv'
<1>0. /\ job[h] # Idle /\ job[h].pc = "recover_task"
      /\ UNCHANGED <<rows, nrows, ntasks, requests, monitor>>
  BY DEF SetRecovering, At, Idle
<1>1. WorkOK(job[h]) /\ PointOK(job[h]) /\ TypeOK
  BY <1>0, AtWork, StateFacts
<1>2. PICK r, t, s : r = job[h].run /\ t = job[h].task /\ s = job[h].stage
  OBVIOUS
<1>3. job[h].kind = "result"
  BY <1>0, <1>1 DEF PointOK
<1>4. /\ TaskIs(t, r, s, "running") /\ NoneRuns(r) /\ NoneAwaited(r)
      /\ Below(r, s)
  BY <1>0, <1>1, <1>2, <1>3 DEF WorkOK, HeldFor, Held, StatusFor
<1>5. SetTask(t, "recovering") /\ Goto(h, "recover_ask")
  BY <1>2 DEF SetRecovering
<1>6. PICK j : Onto(h, "recover_ask", j)
  BY <1>1, <1>5, GoesOn
<1>7. Held(r, t, s, "recovering")'
  BY <1>0, <1>4, <1>5, TaskSet DEF Held
<1>8. WorkOK(j)'
  BY <1>2, <1>6, <1>7 DEF WorkOK, Onto
<1>9. r = WorksOn(job[h]) /\ WorksOn(j)' = r /\ j # Idle
  BY <1>2, <1>3, <1>6 DEF WorksOn, Onto, Idle
<1>. QED BY <1>0, <1>4, <1>5, <1>6, <1>8, <1>9, SerialSets DEF Onto

\* The row of the stage of a run in hand is advanced past, after the last.
LEMMA SerialFinishTask ==
  ASSUME StageInv, SerialInv, Serial, Alone', NEW h \in Handlers,
         FinishTask(h)
  PROVE  SerialInv'
<1>0. /\ job[h] # Idle /\ job[h].pc = "finish_task"
      /\ UNCHANGED <<rows, nrows, ntasks, requests, monitor>>
  BY DEF FinishTask, At, Idle
<1>1. HeldFor(job[h]) /\ job[h].kind # "delete"
  BY <1>0, AtWork DEF WorkOK, PointOK
<1>2. PICK old : old = StatusFor(job[h].kind)
  OBVIOUS
<1>3. /\ old \in {"running", "recovering"}
      /\ Held(job[h].run, job[h].task, job[h].stage, old)
  BY <1>1, <1>2 DEF HeldFor, StatusFor
<1>4. SetTask(job[h].task, "completed") /\ Return(h) /\ "completed" \in EndStatus
  BY DEF FinishTask, EndStatus
<1>. QED BY <1>0, <1>1, <1>3, <1>4, SerialEnds

LEMMA SerialDecomposeTask ==
  ASSUME StageInv, SerialInv, Serial, Alone', NEW h \in Handlers,
         DecomposeTask(h)
  PROVE  SerialInv'
<1>0. /\ job[h] # Idle /\ job[h].pc = "decompose_task"
      /\ UNCHANGED <<rows, nrows, ntasks, requests, monitor>>
  BY DEF DecomposeTask, At, Idle
<1>1. job[h].kind = "recovery" /\ HeldFor(job[h])
  BY <1>0, AtWork DEF WorkOK
<1>2. Held(job[h].run, job[h].task, job[h].stage, "recovering")
  BY <1>1 DEF HeldFor, StatusFor
<1>3. /\ SetTask(job[h].task, "decomposed") /\ Return(h)
      /\ "decomposed" \in EndStatus
  BY DEF DecomposeTask, EndStatus
<1>. QED BY <1>0, <1>1, <1>2, <1>3, SerialEnds

\* abort_pipeline, of the task or of one that was deleted.
LEMMA SerialAbortTask ==
  ASSUME StageInv, SerialInv, Serial, Alone', NEW h \in Handlers,
         AbortTask(h)
  PROVE  SerialInv'
<1>0. /\ job[h] # Idle /\ job[h].pc = "abort_task"
      /\ UNCHANGED <<rows, nrows, ntasks, requests, monitor>>
      /\ SetTask(job[h].task, "failed") /\ Return(h)
  BY DEF AbortTask, At, Idle
<1>1. /\ monitor = Resting /\ \A g \in Handlers \ {h} : job[g] = Idle
      /\ WorkOK(job[h]) /\ job[h].kind # "delete"
  BY <1>0, AtWork DEF WorkOK
<1>2. CASE Held(job[h].run, job[h].task, job[h].stage, "recovering")
  BY <1>0, <1>1, <1>2, SerialEnds DEF EndStatus
<1>3. CASE Late(job[h])
  <2>1. UNCHANGED tasks
    BY <1>0, <1>3, ConstantsOK DEF Late, SetTask, LiveTask, TaskId, None, MaxTasks
  <2>2. Still
    BY <1>0, <2>1 DEF Still
  <2>3. PICK r : r = job[h].run
    OBVIOUS
  <2>4. GoneRun(r)
    BY <1>3, <2>3 DEF Late
  <2>5. TableInv' /\ \A x : Same(x)
    BY <2>2, StillSame, StateFacts
  <2>6. Settled(r)'
    BY <2>2, <2>4, <2>5, StillFacts, SettlesGone
  <2>7. WorkOK(Idle)' /\ job' = [job EXCEPT ![h] = Idle]
    BY <1>0 DEF WorkOK, Idle, Return
  <2>8. WorksOn(job[h]) = r
    BY <1>1, <2>3 DEF WorksOn
  <2>. QED BY <1>0, <1>1, <2>5, <2>6, <2>7, <2>8, SerialHandler
<1>. QED BY <1>0, <1>1, <1>2, <1>3 DEF WorkOK

\* get_task_by_run_id finds the task.
LEMMA FindsTask ==
  ASSUME StageInv, SerialInv, NEW t, NEW r, NEW s,
         NEW status \in TaskStatus \ Gone, TaskIs(t, r, s, status)
  PROVE  TaskOfRun(r) = {t}
<1>1. t \in TaskId /\ LiveTask(t) /\ tasks[t].run = r
  BY StateFacts DEF TaskIs, LiveTask
<1>2. \A u \in TaskId : LiveTask(u) /\ tasks[u].run = r => u = t
  BY <1>1, StateFacts DEF LiveTask, Gone, OneTask, TaskIs
<1>3. {u \in TaskId : LiveTask(u) /\ tasks[u].run = r} = {t}
  BY <1>1, <1>2
<1>4. Newest({t}) = {t}
  BY <1>1, ConstantsOK DEF Newest, TaskId, MaxTasks
<1>. QED BY <1>3, <1>4 DEF TaskOfRun, OrNone

LEMMA SerialLookUpTask ==
  ASSUME StageInv, SerialInv, Serial, Alone', NEW h \in Handlers,
         LookUpTask(h)
  PROVE  SerialInv'
<1>0. /\ job[h] # Idle /\ job[h].pc = "result_task"
      /\ monitor' = monitor /\ Still
  BY ReadStill DEF LookUpTask, At, Idle
<1>1. /\ monitor = Resting /\ \A g \in Handlers \ {h} : job[g] = Idle
      /\ WorkOK(job[h]) /\ PointOK(job[h]) /\ job[h] \in Job
  BY <1>0, AtWork
<1>2. PICK r, s, said : r = job[h].run /\ s = job[h].stage /\ said = job[h].said
  OBVIOUS
<1>3. PICK t \in 1 .. ntasks : Held(r, t, s, "running")
  BY <1>0, <1>1, <1>2 DEF WorkOK
<1>4. said \in {"completed", "failed"} /\ job[h].kind = "result"
  BY <1>0, <1>1, <1>2 DEF WorkOK, PointOK
<1>5. TaskOfRun(r) = {t}
  <2>1. TaskIs(t, r, s, "running") /\ "running" \in TaskStatus \ Gone
    BY <1>3 DEF Held, TaskStatus, Gone
  <2>. QED BY <2>1, FindsTask
<1>6. PICK p \in AfterResult(said, s, t) :
        IF p = "idle" THEN Return(h)
        ELSE job' = [job EXCEPT ![h] = [@ EXCEPT !.pc = p, !.task = t]]
  BY <1>2, <1>5 DEF LookUpTask
<1>7. p \in {"recover_task", "advance_row", "finish_task"}
  BY <1>4, <1>6 DEF AfterResult, Onward, Serial
<1>8. PICK j : j = [job[h] EXCEPT !.pc = p, !.task = t]
  OBVIOUS
<1>9. job' = [job EXCEPT ![h] = j]
  BY <1>1, <1>6, <1>7, <1>8, StateFacts DEF TypeOK
<1>10. /\ j.pc = p /\ j.run = r /\ j.stage = s /\ j.task = t
       /\ j.kind = "result"
  BY <1>1, <1>2, <1>4, <1>8 DEF Job
<1>11. HeldFor(j)
  BY <1>3, <1>10 DEF HeldFor, StatusFor
<1>12. WorkOK(j)
  BY <1>7, <1>10, <1>11 DEF WorkOK
<1>13. WorksOn(j) = r /\ WorksOn(job[h]) = r /\ j # Idle
  BY <1>2, <1>4, <1>10 DEF WorksOn, Idle
<1>. QED BY <1>0, <1>1, <1>9, <1>12, <1>13, SerialRead

\* The answer is awaited, or could not be asked for.
LEMMA SerialAskRecovery ==
  ASSUME StageInv, SerialInv, Serial, Alone', NEW h \in Handlers,
         AskRecovery(h)
  PROVE  SerialInv'
<1>0. /\ job[h] # Idle /\ job[h].pc = "recover_ask"
      /\ monitor' = monitor /\ UNCHANGED <<rows, nrows, tasks, ntasks>>
  BY DEF AskRecovery, At, Idle, database
<1>1. /\ monitor = Resting /\ \A g \in Handlers \ {h} : job[g] = Idle
      /\ WorkOK(job[h]) /\ PointOK(job[h]) /\ job[h] \in Job
  BY <1>0, AtWork
<1>2. PICK r, t, s : r = job[h].run /\ t = job[h].task /\ s = job[h].stage
  OBVIOUS
<1>3. /\ TaskIs(t, r, s, "recovering") /\ NoneRuns(r) /\ NoneAwaited(r)
      /\ Below(r, s) /\ job[h].kind = "result"
  BY <1>0, <1>1, <1>2 DEF WorkOK, Held, PointOK
<1>4. NewRequest("recovery", r, t)
  BY <1>2 DEF AskRecovery
<1>5. PICK n : n = nreqs + 1
  OBVIOUS
<1>6. /\ pending' = pending \cup {n} /\ n \notin pending
      /\ asked'[n].run = r /\ asked'[n].task = t /\ asked'[n].kind = "recovery"
      /\ \A q \in pending : asked'[q] = asked[q]
  <2>1. asked \in [ReqId -> Request] /\ n \in ReqId
    BY <1>4, <1>5, StateFacts, ConstantsOK DEF TypeOK, ReqId, NewRequest
  <2>2. \A q \in pending : q \in 1 .. nreqs
    BY StateFacts
  <2>. QED BY <1>4, <1>5, <2>1, <2>2, StateFacts DEF NewRequest, TypeOK
<1>7. \A x : /\ RowsSame(x) /\ TasksSame(x)
             /\ x # r => AwaitedSame(x)
  BY <1>0, <1>4, StateFacts, UnchangedSame, NewRequestSame
<1>8. t # None
  BY <1>3 DEF TaskIs, None
<1>9. TableInv'
  <2>1. OneTask'
    BY <1>0, StateFacts DEF OneTask
  <2>2. EachStageOnce' /\ LastRuns' /\ DeletedAfter'
    BY <1>0, StateFacts DEF EachStageOnce, LastRuns, DeletedAfter
  <2>3. OneAwaited'
    BY <1>3, <1>6, <1>8, StateFacts DEF OneAwaited, NoneAwaited
  <2>. QED BY <2>1, <2>2, <2>3 DEF TableInv
<1>10. /\ TaskIs(t, r, s, "recovering")' /\ NoneRuns(r)' /\ Below(r, s)'
       /\ ~NoneAwaited(r)'
  <2>1. ~NoneAwaited(r)'
    BY <1>6 DEF NoneAwaited
  <2>. QED BY <1>3, <1>7, <2>1, RowFactsSame, TaskFactsSame
<1>11. \A x \in RunId : x # r => Same(x)
  BY <1>7 DEF Same
<1>12. WorksOn(job[h]) = r
  BY <1>2, <1>3 DEF WorksOn
<1>13. CASE Return(h)
  <2>1. Settled(r)'
    BY <1>9, <1>10, SettlesRecovering
  <2>2. WorkOK(Idle)' /\ job' = [job EXCEPT ![h] = Idle]
    BY <1>13 DEF WorkOK, Idle, Return
  <2>. QED BY <1>0, <1>1, <1>9, <1>11, <1>12, <2>1, <2>2, SerialHandler
<1>14. CASE job' = [job EXCEPT ![h] = [@ EXCEPT !.pc = "emit_failed",
                                                !.req = nreqs + 1]]
  <2>1. PICK j : j = [job[h] EXCEPT !.pc = "emit_failed", !.req = n]
    OBVIOUS
  <2>2. /\ j.pc = "emit_failed" /\ j.run = r /\ j.task = t /\ j.stage = s
        /\ j.kind = "result" /\ j.req = n
    BY <1>1, <1>2, <1>3, <2>1 DEF Job
  <2>3. job' = [job EXCEPT ![h] = j]
    BY <1>1, <1>5, <1>14, <2>1, StateFacts DEF TypeOK
  <2>4. \A q \in pending' : asked'[q].run = r <=> q = n
    BY <1>3, <1>6 DEF NoneAwaited
  <2>5. WorkOK(j)'
    BY <1>10, <2>2, <2>4 DEF WorkOK
  <2>6. j # Idle /\ WorksOn(j)' = r
    BY <2>2 DEF WorksOn, Idle
  <2>. QED BY <1>0, <1>1, <1>9, <1>11, <1>12, <2>3, <2>5, <2>6, SerialHandler
<1>. QED BY <1>13, <1>14 DEF AskRecovery

\* The request is taken back.
LEMMA SerialWithdrawRequest ==
  ASSUME StageInv, SerialInv, Serial, Alone', NEW h \in Handlers,
         WithdrawRequest(h)
  PROVE  SerialInv'
<1>0. /\ job[h] # Idle /\ job[h].pc = "emit_failed" /\ asked' = asked
      /\ monitor' = monitor /\ UNCHANGED <<rows, nrows, tasks, ntasks>>
      /\ pending' = pending \ {job[h].req} /\ Goto(h, "abort_task")
  BY DEF WithdrawRequest, At, Idle, database
<1>1. /\ monitor = Resting /\ \A g \in Handlers \ {h} : job[g] = Idle
      /\ WorkOK(job[h]) /\ job[h] \in Job
  BY <1>0, AtWork
<1>2. PICK r, t, s, n : /\ r = job[h].run /\ t = job[h].task
                        /\ s = job[h].stage /\ n = job[h].req
  OBVIOUS
<1>3. /\ TaskIs(t, r, s, "recovering") /\ NoneRuns(r) /\ Below(r, s)
      /\ \A q \in pending : asked[q].run = r <=> q = n
      /\ job[h].kind \in {"result", "recovery"}
  BY <1>0, <1>1, <1>2 DEF WorkOK
<1>4. \A x : RowsSame(x) /\ TasksSame(x)
  BY <1>0, UnchangedSame
<1>5. TableInv'
  BY <1>0, StateFacts, ReadCalm, CalmTablesKept DEF database
<1>6. NoneAwaited(r)'
  BY <1>0, <1>2, <1>3 DEF NoneAwaited
<1>7. \A x \in RunId : x # r => Same(x)
  <2>1. SUFFICES ASSUME NEW x \in RunId, x # r
        PROVE  NoneAwaited(x)' <=> NoneAwaited(x)
    BY <1>4 DEF Same, AwaitedSame
  <2>. QED BY <1>0, <1>2, <1>3, <2>1 DEF NoneAwaited
<1>8. Held(r, t, s, "recovering")'
  BY <1>3, <1>4, <1>6, RowFactsSame, TaskFactsSame DEF Held
<1>9. PICK j : Onto(h, "abort_task", j)
  BY <1>0, StateFacts, GoesOn
<1>10. WorkOK(j)'
  BY <1>2, <1>3, <1>8, <1>9 DEF WorkOK, Onto
<1>11. WorksOn(job[h]) = r /\ WorksOn(j)' = r /\ j # Idle
  BY <1>2, <1>3, <1>9 DEF WorksOn, Onto, Idle
<1>. QED BY <1>0, <1>1, <1>5, <1>7, <1>9, <1>10, <1>11, SerialHandler DEF Onto

\* A decomposition decided on by the agent, which proposed nothing.
LEMMA SerialSubtasksCreated ==
  ASSUME StageInv, SerialInv, Serial, Alone', NEW h \in Handlers,
         SubtasksCreated(h)
  PROVE  SerialInv'
<1>0. /\ job[h] # Idle /\ job[h].pc = "subtasks"
      /\ monitor' = monitor /\ Still
  BY ReadStill DEF SubtasksCreated, At, Idle
<1>1. /\ monitor = Resting /\ \A g \in Handlers \ {h} : job[g] = Idle
      /\ WorkOK(job[h])
  BY <1>0, AtWork
<1>2. job[h].kind = "recovery" /\ HeldFor(job[h])
  BY <1>0, <1>1 DEF WorkOK
<1>3. Goto(h, "decompose_task")
  BY <1>2 DEF SubtasksCreated
<1>4. PICK j : Onto(h, "decompose_task", j)
  BY <1>3, StateFacts, GoesOn
<1>5. WorkOK(j)
  BY <1>2, <1>4 DEF WorkOK, Onto, HeldFor
<1>6. PICK r : r = job[h].run
  OBVIOUS
<1>7. WorksOn(job[h]) = r /\ WorksOn(j) = r /\ j # Idle
  BY <1>2, <1>4, <1>6 DEF WorksOn, Onto, Idle
<1>. QED BY <1>0, <1>1, <1>4, <1>5, <1>7, SerialRead DEF Onto

\* The row of the next stage is inserted: the run has none after its own.
LEMMA SerialAdvanceRow ==
  ASSUME StageInv, SerialInv, Serial, Alone', NEW h \in Handlers,
         AdvanceRow(h)
  PROVE  SerialInv'
<1>0. /\ job[h] # Idle /\ job[h].pc = "advance_row"
      /\ monitor' = monitor /\ UNCHANGED <<tasks, ntasks, requests>>
  BY DEF AdvanceRow, At, Idle
<1>1. /\ monitor = Resting /\ \A g \in Handlers \ {h} : job[g] = Idle
      /\ WorkOK(job[h]) /\ PointOK(job[h])
  BY <1>0, AtWork
<1>2. PICK r, t, s, k : /\ r = job[h].run /\ t = job[h].task
                        /\ s = job[h].stage /\ k = job[h].kind
  OBVIOUS
<1>3. /\ TaskIs(t, r, s, StatusFor(k)) /\ NoneRuns(r) /\ NoneAwaited(r)
      /\ Below(r, s)
      /\ k \in {"result", "recovery"} /\ HasNext(s)
      /\ k = "result" \/ s \in Skippable
  BY <1>0, <1>1, <1>2 DEF WorkOK, HeldFor, Held, PointOK
<1>4. PICK n : n = NextStage(s)
  OBVIOUS
<1>5. InsertRow(r, n) /\ Goto(h, "advance_task")
  BY <1>2, <1>4 DEF AdvanceRow
<1>6. n \in Nat /\ s \in Nat /\ n = s + 1
  BY <1>3, <1>4 DEF HasNext, NextStage, Stages, Learning, SkillManage
<1>7. \A i \in 1 .. nrows : rows[i].run = r => rows[i].stage < n
  <2>1. \A i \in 1 .. nrows : rows[i].stage \in Nat
    BY StateFacts DEF TypeOK, Row, Stages, NoStage, Learning, SkillManage
  <2>. QED BY <1>3, <1>6, <2>1 DEF Below
<1>8. TableInv' /\ Works(r, n)' /\ Below(r, n)'
  BY <1>0, <1>3, <1>5, <1>6, <1>7, InsertedTables DEF requests
<1>9. TaskIs(t, r, s, StatusFor(k))' /\ NoneAwaited(r)'
  BY <1>0, <1>3 DEF TaskIs, NoneAwaited, requests
<1>10. Moving(r, t, s, StatusFor(k), n)'
  BY <1>8, <1>9 DEF Moving
<1>11. PICK j : Onto(h, "advance_task", j)
  BY <1>5, StateFacts, GoesOn
<1>12. WorkOK(j)'
  BY <1>2, <1>3, <1>4, <1>10, <1>11 DEF WorkOK, Onto
<1>13. WorksOn(job[h]) = r /\ WorksOn(j)' = r /\ j # Idle
  BY <1>2, <1>3, <1>11 DEF WorksOn, Onto, Idle
<1>14. \A x \in RunId : x # r => Same(x)
  BY <1>0, <1>5, StateFacts, InsertRowSame, UnchangedSame DEF Same
<1>. QED BY <1>0, <1>1, <1>8, <1>11, <1>12, <1>13, <1>14, SerialHandler DEF Onto

\* The task shows the stage that works already.
LEMMA SerialAdvanceTask ==
  ASSUME StageInv, SerialInv, Serial, Alone', NEW h \in Handlers,
         AdvanceTask(h)
  PROVE  SerialInv'
<1>0. /\ job[h] # Idle /\ job[h].pc = "advance_task"
      /\ monitor' = monitor /\ UNCHANGED <<rows, nrows, ntasks, requests>>
  BY DEF AdvanceTask, At, Idle
<1>1. /\ monitor = Resting /\ \A g \in Handlers \ {h} : job[g] = Idle
      /\ WorkOK(job[h]) /\ PointOK(job[h])
  BY <1>0, AtWork
<1>2. PICK r, t, s, k : /\ r = job[h].run /\ t = job[h].task
                        /\ s = job[h].stage /\ k = job[h].kind
  OBVIOUS
<1>3. PICK n : n = NextStage(s)
  OBVIOUS
<1>4. /\ TaskIs(t, r, s, StatusFor(k)) /\ NoneAwaited(r)
      /\ Works(r, n) /\ Below(r, n)
      /\ k \in {"result", "recovery"} /\ HasNext(s)
  BY <1>0, <1>1, <1>2, <1>3 DEF WorkOK, Moving, PointOK
<1>5. /\ tasks \in [TaskId -> Task] /\ t \in TaskId /\ LiveTask(t)
      /\ t \in 1 .. ntasks /\ tasks[t].run = r
  BY <1>4, StateFacts DEF TypeOK, TaskIs, LiveTask, Gone, StatusFor
<1>6. tasks' = [tasks EXCEPT ![t] = [@ EXCEPT !.stage = n, !.status = "running"]]
  BY <1>2, <1>3, <1>4, <1>5 DEF AdvanceTask, TaskIs, StatusFor
<1>7. /\ tasks'[t].run = r /\ tasks'[t].stage = n /\ tasks'[t].status = "running"
      /\ tasks'[t].parent = tasks[t].parent
      /\ \A u \in 1 .. ntasks : u # t => tasks'[u] = tasks[u]
  BY <1>5, <1>6, StateFacts DEF Task
<1>8. n \in Stages
  BY <1>3, <1>4 DEF HasNext, NextStage, Stages, Learning, SkillManage
<1>9. TableInv'
  <2>1. \A u \in 1 .. ntasks :
          /\ tasks'[u].run = tasks[u].run /\ tasks'[u].parent = tasks[u].parent
          /\ tasks'[u].stage \in Stages
          /\ tasks[u].status = "deleted" => tasks'[u].status = "deleted"
    BY <1>5, <1>7, <1>8, StateFacts DEF OneTask, LiveTask, Gone
  <2>2. CalmTables
    BY <1>0, <2>1 DEF CalmTables, RowsCalm, requests
  <2>. QED BY <2>2, StateFacts, CalmTablesKept
<1>10. TaskIs(t, r, n, "running")'
  BY <1>0, <1>5, <1>7 DEF TaskIs
<1>11. \A x : RowsSame(x) /\ AwaitedSame(x)
  BY <1>0, UnchangedSame
<1>12. Settled(r)'
  <2>1. Below(r, n)' /\ Works(r, n)' /\ NoneAwaited(r)'
    BY <1>4, <1>11, RowFactsSame DEF AwaitedSame
  <2>. QED BY <1>9, <1>10, <2>1, SettlesRunning
<1>13. \A x \in RunId : x # r => Same(x)
  <2>1. ASSUME NEW x, x # r
        PROVE  TasksSame(x)
    BY <1>0, <1>5, <1>7, <2>1 DEF TasksSame
  <2>. QED BY <1>11, <2>1 DEF Same
<1>14. WorkOK(Idle)' /\ job' = [job EXCEPT ![h] = Idle]
  BY DEF WorkOK, Idle, Return, AdvanceTask
<1>15. WorksOn(job[h]) = r
  BY <1>2, <1>4 DEF WorksOn
<1>. QED BY <1>0, <1>1, <1>9, <1>12, <1>13, <1>14, <1>15, SerialHandler

-----------------------------------------------------------------------------
(* A decision of the agent.                                                *)

LEMMA SerialLookUpStage ==
  ASSUME StageInv, SerialInv, Serial, Alone', NEW h \in Handlers,
         LookUpStage(h)
  PROVE  SerialInv'
<1>0. /\ job[h] # Idle /\ job[h].pc = "recovery_task"
      /\ monitor' = monitor /\ Still
  BY ReadStill DEF LookUpStage, At, Idle
<1>1. /\ monitor = Resting /\ \A g \in Handlers \ {h} : job[g] = Idle
      /\ WorkOK(job[h]) /\ PointOK(job[h]) /\ job[h] \in Job
  BY <1>0, AtWork
<1>2. PICK r, u, said : r = job[h].run /\ u = job[h].task /\ said = job[h].said
  OBVIOUS
<1>3. /\ job[h].kind = "recovery" /\ u # None /\ NoneAwaited(r)
      /\ \/ Held(r, u, tasks[u].stage, "recovering")
         \/ GoneRun(r) /\ tasks[u].status = "deleted"
  BY <1>0, <1>1, <1>2 DEF WorkOK, PointOK
<1>4. PICK t : t = GetTask(u)
  OBVIOUS
<1>5. PICK s : s = IF t = None THEN NoStage ELSE tasks[t].stage
  OBVIOUS
<1>6. PICK p : p = AfterDecision(said, s, t)
  OBVIOUS
<1>7. IF p = "idle" THEN Return(h)
      ELSE job' = [job EXCEPT ![h] = [@ EXCEPT !.pc = p, !.task = t,
                                               !.stage = s]]
  BY <1>2, <1>4, <1>5, <1>6 DEF LookUpStage
<1>8. PICK j : j = [job[h] EXCEPT !.pc = p, !.task = t, !.stage = s]
  OBVIOUS
<1>9. p # "idle" => job' = [job EXCEPT ![h] = j]
  BY <1>1, <1>7, <1>8, StateFacts DEF TypeOK
<1>10. /\ j.pc = p /\ j.run = r /\ j.stage = s /\ j.task = t
       /\ j.kind = "recovery"
  BY <1>1, <1>2, <1>3, <1>8 DEF Job
<1>11. \/ t # None /\ Held(r, t, s, "recovering")
       \/ t = None /\ s = NoStage /\ GoneRun(r)
  <2>1. CASE Held(r, u, tasks[u].stage, "recovering")
    <3>1. LiveTask(u)
      BY <2>1, StateFacts DEF Held, TaskIs, LiveTask, Gone
    <3>2. t = u /\ s = tasks[u].stage
      BY <1>3, <1>4, <1>5, <3>1 DEF GetTask
    <3>. QED BY <1>3, <2>1, <3>2
  <2>2. CASE GoneRun(r) /\ tasks[u].status = "deleted"
    BY <1>4, <1>5, <2>2 DEF GetTask, LiveTask, Gone
  <2>. QED BY <1>3, <2>1, <2>2
<1>12. HeldFor(j) \/ Late(j)
  BY <1>10, <1>11 DEF HeldFor, Late, StatusFor
<1>13. WorksOn(job[h]) = r
  BY <1>2, <1>3 DEF WorksOn
<1>14. CASE p = "idle"
  <2>1. t = None
    BY <1>6, <1>14 DEF AfterDecision, Onward
  <2>2. GoneRun(r) /\ TableInv' /\ Still
    BY <1>0, <1>11, <2>1, StillSame, StateFacts
  <2>3. Settled(r)'
    BY <2>2, StillFacts, SettlesGone
  <2>4. WorkOK(Idle)' /\ job' = [job EXCEPT ![h] = Idle] /\ \A x : Same(x)
    BY <1>0, <1>7, <1>14, StillSame DEF WorkOK, Idle, Return
  <2>. QED BY <1>0, <1>1, <1>13, <2>2, <2>3, <2>4, SerialHandler
<1>15. CASE p # "idle"
  <2>1. /\ p \in {"retry_count", "subtasks", "advance_row", "finish_task",
                  "abort_task"}
        /\ p = "subtasks" => t # None
        /\ p \in {"advance_row", "finish_task"} => s \in Skippable
    BY <1>6, <1>15 DEF AfterDecision, Onward
  <2>2. s \in Skippable => t # None
    BY <1>11 DEF Skippable, NoStage, Evaluation, SkillManage
  <2>3. t # None => HeldFor(j) /\ Held(r, t, s, "recovering")
    BY <1>10, <1>11 DEF HeldFor, StatusFor
  <2>4. p = "abort_task" => Held(r, t, s, "recovering") \/ Late(j)
    BY <1>10, <1>12 DEF HeldFor, StatusFor
  <2>5. WorkOK(j)
    BY <1>10, <1>12, <2>1, <2>2, <2>3, <2>4 DEF WorkOK
  <2>6. WorksOn(j) = r /\ j # Idle
    BY <1>10 DEF WorksOn, Idle
  <2>. QED BY <1>0, <1>1, <1>9, <1>13, <1>15, <2>5, <2>6, SerialRead
<1>. QED BY <1>14, <1>15

LEMMA SerialCheckRetries ==
  ASSUME StageInv, SerialInv, Serial, Alone', NEW h \in Handlers,
         CheckRetries(h)
  PROVE  SerialInv'
<1>0. /\ job[h] # Idle /\ job[h].pc = "retry_count"
      /\ monitor' = monitor /\ Still
  BY ReadStill DEF CheckRetries, At, Idle
<1>1. /\ monitor = Resting /\ \A g \in Handlers \ {h} : job[g] = Idle
      /\ WorkOK(job[h]) /\ PointOK(job[h])
  BY <1>0, AtWork
<1>2. /\ job[h].kind = "recovery"
      /\ HeldFor(job[h]) \/ Late(job[h])
      /\ HeldFor(job[h]) <=> Held(job[h].run, job[h].task, job[h].stage, "recovering")
  BY <1>0, <1>1 DEF WorkOK, PointOK, HeldFor, StatusFor
<1>3. PICK p \in {"abort_task", "retry_find"} : Goto(h, p)
  BY DEF CheckRetries
<1>4. PICK j : Onto(h, p, j)
  BY <1>3, StateFacts, GoesOn
<1>5. WorkOK(j)
  <2>1. /\ j.pc \in {"abort_task", "retry_find"} /\ j.kind = "recovery"
        /\ HeldFor(j) \/ Late(j)
        /\ HeldFor(j) <=> Held(j.run, j.task, j.stage, "recovering")
    BY <1>2, <1>3, <1>4 DEF Onto, HeldFor, Late
  <2>. QED BY <2>1 DEF WorkOK
<1>6. PICK r : r = job[h].run
  OBVIOUS
<1>7. WorksOn(job[h]) = r /\ WorksOn(j) = r /\ j # Idle
  BY <1>0, <1>1, <1>4, <1>6 DEF WorksOn, Onto, Idle, PointOK
<1>. QED BY <1>0, <1>1, <1>4, <1>5, <1>7, SerialRead DEF Onto

LEMMA SerialFindRetryRow ==
  ASSUME StageInv, SerialInv, Serial, Alone', NEW h \in Handlers,
         FindRetryRow(h)
  PROVE  SerialInv'
<1>0. /\ job[h] # Idle /\ job[h].pc = "retry_find"
      /\ monitor' = monitor /\ Still
  <2>1. /\ At(h, "retry_find")
        /\ UNCHANGED <<database, requests, sent, monitor, faults>>
    BY Zenon DEF FindRetryRow
  <2>. QED BY <2>1, ReadStill DEF At, Idle
<1>1. /\ monitor = Resting /\ \A g \in Handlers \ {h} : job[g] = Idle
      /\ WorkOK(job[h]) /\ PointOK(job[h]) /\ job[h] \in Job /\ JobOK(job[h])
  BY <1>0, AtWork
<1>2. PICK r, t, s : r = job[h].run /\ t = job[h].task /\ s = job[h].stage
  OBVIOUS
<1>3. /\ job[h].kind = "recovery"
      /\ Held(r, t, s, "recovering") \/ Late(job[h])
  BY <1>0, <1>1, <1>2 DEF WorkOK, PointOK, HeldFor, StatusFor
<1>4. PICK found : found = Newest(RowsOf(r, s))
  OBVIOUS
<1>5. \/ found = {} /\ Return(h)
      \/ \E i \in found :
           job' = [job EXCEPT ![h] = [@ EXCEPT !.pc = "retry_row", !.row = i]]
  BY <1>2, <1>4 DEF FindRetryRow
<1>6. WorksOn(job[h]) = r
  BY <1>2, <1>3 DEF WorksOn
<1>7. CASE Held(r, t, s, "recovering")
  <2>1. /\ t \in 1 .. ntasks /\ tasks[t].run = r /\ tasks[t].stage = s
        /\ tasks[t].status = "recovering"
    BY <1>7 DEF Held, TaskIs
  <2>2. s \in Stages /\ s # NoStage
    BY <2>1, StateFacts DEF OneTask, Stages, Learning, SkillManage, NoStage
  <2>3. PICK i \in 1 .. nrows : rows[i].run = r /\ rows[i].stage = s
    BY <1>1, <1>2, <2>2 DEF JobOK, HasRow
  <2>4. rows[i].status # "deleted"
    <3>1. SUFFICES ASSUME rows[i].status = "deleted"
          PROVE  FALSE
      OBVIOUS
    <3>2. PICK u \in 1 .. ntasks : tasks[u].run = r /\ tasks[u].status = "deleted"
      BY <2>3, <3>1, StateFacts DEF DeletedAfter
    <3>3. u = t
      BY <2>1, <3>2, StateFacts DEF OneTask
    <3>. QED BY <2>1, <3>2, <3>3
  <2>5. i \in RowsOf(r, s)
    BY <2>3, <2>4, StateFacts DEF RowsOf, LiveRow, Gone, RowsOK, RowOK, TypeOK
  <2>6. found # {} /\ found \subseteq RowsOf(r, s)
    BY <1>4, <2>5, NewestExists DEF RowsOf, Newest
  <2>7. PICK k \in found :
          job' = [job EXCEPT ![h] = [@ EXCEPT !.pc = "retry_row", !.row = k]]
    BY <1>5, <2>6
  <2>8. IsRow(k, r, s)
    BY <2>6, <2>7, StateFacts DEF RowsOf, LiveRow, Gone, IsRow
  <2>9. PICK j : j = [job[h] EXCEPT !.pc = "retry_row", !.row = k]
    OBVIOUS
  <2>10. job' = [job EXCEPT ![h] = j]
    BY <1>1, <2>7, <2>9, StateFacts DEF TypeOK
  <2>11. /\ j.pc = "retry_row" /\ j.run = r /\ j.task = t /\ j.stage = s
         /\ j.kind = "recovery" /\ j.row = k
    BY <1>1, <1>2, <1>3, <2>9 DEF Job
  <2>12. WorkOK(j)
    BY <1>7, <2>8, <2>11 DEF WorkOK, HeldFor, StatusFor
  <2>13. WorksOn(j) = r /\ j # Idle
    BY <2>11 DEF WorksOn, Idle
  <2>. QED BY <1>0, <1>1, <1>6, <2>10, <2>12, <2>13, SerialRead
<1>8. CASE Late(job[h])
  <2>1. GoneRun(r) /\ s = NoStage
    BY <1>2, <1>8 DEF Late
  <2>2. RowsOf(r, s) = {}
    BY <2>1, StateFacts DEF RowsOf, LiveRow, Gone, GoneRun
  <2>3. found = {}
    BY <1>4, <2>2 DEF Newest
  <2>4. Return(h)
    BY <1>5, <2>3
  <2>5. TableInv' /\ \A x : Same(x)
    BY <1>0, StillSame, StateFacts
  <2>6. Settled(r)'
    BY <1>0, <2>1, <2>5, StillFacts, SettlesGone
  <2>7. WorkOK(Idle)' /\ job' = [job EXCEPT ![h] = Idle]
    BY <2>4 DEF WorkOK, Idle, Return
  <2>. QED BY <1>0, <1>1, <1>6, <2>5, <2>6, <2>7, SerialHandler
<1>. QED BY <1>3, <1>7, <1>8

\* The row of the stage works again: no later one exists.
LEMMA SerialRetryRow ==
  ASSUME StageInv, SerialInv, Serial, Alone', NEW h \in Handlers,
         RetryRow(h)
  PROVE  SerialInv'
<1>0. /\ job[h] # Idle /\ job[h].pc = "retry_row"
      /\ monitor' = monitor /\ UNCHANGED <<nrows, tasks, ntasks, requests>>
  BY DEF RetryRow, At, Idle
<1>1. /\ monitor = Resting /\ \A g \in Handlers \ {h} : job[g] = Idle
      /\ WorkOK(job[h]) /\ PointOK(job[h])
  BY <1>0, AtWork
<1>2. PICK r, t, s, i : /\ r = job[h].run /\ t = job[h].task
                        /\ s = job[h].stage /\ i = job[h].row
  OBVIOUS
<1>3. /\ TaskIs(t, r, s, "recovering") /\ NoneRuns(r) /\ NoneAwaited(r)
      /\ Below(r, s) /\ i \in 1 .. nrows /\ rows[i].run = r
      /\ rows[i].stage = s /\ job[h].kind = "recovery"
  BY <1>0, <1>1, <1>2 DEF WorkOK, HeldFor, Held, StatusFor, PointOK, IsRow
<1>4. rows[i].status # "deleted"
  <2>1. SUFFICES ASSUME rows[i].status = "deleted"
        PROVE  FALSE
    OBVIOUS
  <2>2. PICK u \in 1 .. ntasks : tasks[u].run = r /\ tasks[u].status = "deleted"
    BY <1>3, <2>1, StateFacts DEF DeletedAfter
  <2>3. u = t
    BY <1>3, <2>2, StateFacts DEF OneTask, TaskIs
  <2>. QED BY <1>3, <2>2, <2>3 DEF TaskIs
<1>5. LiveRow(i)
  BY <1>3, <1>4, StateFacts DEF LiveRow, Gone, RowsOK, RowOK, TypeOK
<1>6. /\ rows'[i].status = "running" /\ rows'[i].run = r /\ rows'[i].stage = s
      /\ \A k \in 1 .. nrows : /\ rows'[k].run = rows[k].run
                               /\ rows'[k].stage = rows[k].stage
                               /\ k # i => rows'[k] = rows[k]
  <2>1. rows \in [RowId -> Row] /\ i \in RowId
    BY <1>3, StateFacts DEF TypeOK
  <2>2. rows' = [rows EXCEPT ![i].status = "running", ![i].retry = @ + 1,
                             ![i].stale = FALSE]
    BY <1>2, <1>5 DEF RetryRow
  <2>3. rows[i] \in Row
    BY <2>1
  <2>4. /\ rows'[i].status = "running" /\ rows'[i].run = rows[i].run
        /\ rows'[i].stage = rows[i].stage
    BY <2>1, <2>2, <2>3 DEF Row
  <2>5. \A k \in 1 .. nrows : k # i => rows'[k] = rows[k]
    BY <2>1, <2>2, StateFacts
  <2>. QED BY <1>3, <2>4, <2>5
<1>7. EachStageOnce' /\ LastRuns'
  <2>1. EachStageOnce'
    BY <1>0, <1>6, StateFacts DEF EachStageOnce
  <2>2. LastRuns'
    <3>1. SUFFICES ASSUME NEW a \in 1 .. nrows, NEW b \in 1 .. nrows,
                          rows[a].run = rows[b].run,
                          rows[a].stage < rows[b].stage
          PROVE  rows'[a].status # "running"
      BY <1>0, <1>6 DEF LastRuns
    <3>2. CASE a = i
      <4>1. rows[b].stage <= s /\ s < rows[b].stage
        BY <1>3, <3>1, <3>2 DEF Below
      <4>2. s \in Nat /\ rows[b].stage \in Nat
        BY <1>3, StateFacts DEF TypeOK, Row, Stages, NoStage, Learning, SkillManage
      <4>. QED BY <4>1, <4>2
    <3>3. CASE a # i
      BY <1>6, <3>1, <3>3, StateFacts DEF LastRuns
    <3>. QED BY <3>2, <3>3
  <2>. QED BY <2>1, <2>2
<1>8. TableInv'
  <2>1. OneTask'
    BY <1>0, StateFacts DEF OneTask
  <2>2. DeletedAfter'
    <3>1. \A k \in 1 .. nrows : rows'[k].status = "deleted"
                                  => rows[k].status = "deleted"
      BY <1>6
    <3>. QED BY <1>0, <1>6, <3>1, StateFacts DEF DeletedAfter
  <2>3. OneAwaited'
    BY <1>0, StateFacts, OneAwaitedKept DEF requests
  <2>. QED BY <1>7, <2>1, <2>2, <2>3 DEF TableInv
<1>9. Works(r, s)' /\ Below(r, s)'
  BY <1>0, <1>3, <1>6 DEF Works, Below
<1>10. Moving(r, t, s, "recovering", s)'
  BY <1>0, <1>3, <1>9 DEF Moving, TaskIs, NoneAwaited, requests
<1>11. PICK j : Onto(h, "retry_task", j)
  BY StateFacts, GoesOn DEF RetryRow
<1>12. WorkOK(j)'
  BY <1>2, <1>10, <1>11 DEF WorkOK, Onto
<1>13. WorksOn(job[h]) = r /\ WorksOn(j)' = r /\ j # Idle
  BY <1>2, <1>3, <1>11 DEF WorksOn, Onto, Idle
<1>14. \A x \in RunId : x # r => Same(x)
  <2>1. ASSUME NEW x, x # r
        PROVE  RowsSame(x)
    BY <1>0, <1>3, <1>6, <2>1 DEF RowsSame
  <2>. QED BY <1>0, <2>1, UnchangedSame DEF Same
<1>. QED BY <1>0, <1>1, <1>8, <1>11, <1>12, <1>13, <1>14, SerialHandler DEF Onto

LEMMA SerialRetryTask ==
  ASSUME StageInv, SerialInv, Serial, Alone', NEW h \in Handlers,
         RetryTask(h)
  PROVE  SerialInv'
<1>0. /\ job[h] # Idle /\ job[h].pc = "retry_task"
      /\ monitor' = monitor /\ UNCHANGED <<rows, nrows, ntasks, requests>>
  BY DEF RetryTask, At, Idle
<1>1. /\ monitor = Resting /\ \A g \in Handlers \ {h} : job[g] = Idle
      /\ WorkOK(job[h]) /\ PointOK(job[h])
  BY <1>0, AtWork
<1>2. PICK r, t, s : r = job[h].run /\ t = job[h].task /\ s = job[h].stage
  OBVIOUS
<1>3. /\ TaskIs(t, r, s, "recovering") /\ NoneAwaited(r) /\ Works(r, s)
      /\ Below(r, s) /\ job[h].kind = "recovery"
  BY <1>0, <1>1, <1>2 DEF WorkOK, Moving, PointOK
<1>4. SetTask(t, "running")
  BY <1>2 DEF RetryTask
<1>5. /\ TableInv' /\ TaskIs(t, r, s, "running")' /\ \A x : x # r => Same(x)
      /\ NoneAwaited(r)' /\ Below(r, s)' /\ Works(r, s)'
  BY <1>0, <1>3, <1>4, TaskSet
<1>6. Settled(r)'
  BY <1>5, SettlesRunning
<1>7. WorkOK(Idle)' /\ job' = [job EXCEPT ![h] = Idle]
  BY DEF WorkOK, Idle, Return, RetryTask
<1>8. WorksOn(job[h]) = r
  BY <1>2, <1>3 DEF WorksOn
<1>. QED BY <1>0, <1>1, <1>5, <1>6, <1>7, <1>8, SerialHandler

-----------------------------------------------------------------------------
(* A deletion.                                                             *)

\* The task a deletion is about.
LEMMA Deleted ==
  ASSUME StageInv, SerialInv, Serial, NEW h \in Handlers, job[h] # Idle,
         job[h].kind = "delete", job[h].task # None,
         tasks[job[h].task].status \in EndStatus \cup {"running", "recovering"}
  PROVE  /\ job[h].task \in 1 .. ntasks /\ LiveTask(job[h].task)
         /\ TaskIs(job[h].task, WorksOn(job[h]), tasks[job[h].task].stage,
                   tasks[job[h].task].status)
<1>1. PICK t : t = job[h].task
  OBVIOUS
<1>2. t \in TaskId
  BY <1>1, AtWork DEF Job
<1>3. LiveTask(t) /\ t \in 1 .. ntasks
  BY <1>1, <1>2, StateFacts DEF LiveTask, Gone, EndStatus
<1>. QED BY <1>1, <1>3 DEF TaskIs, WorksOn

LEMMA SerialDeleteAbort ==
  ASSUME StageInv, SerialInv, Serial, Alone', NEW h \in Handlers,
         DeleteAbort(h)
  PROVE  SerialInv'
<1>0. /\ job[h] # Idle /\ job[h].pc = "delete_abort"
      /\ UNCHANGED <<rows, nrows, ntasks, requests, monitor>>
  BY DEF DeleteAbort, At, Idle
<1>1. /\ job[h].kind = "delete" /\ job[h].task # None
      /\ tasks[job[h].task].status \in {"running", "recovering"}
  BY <1>0, AtWork DEF WorkOK, PointOK
<1>2. PICK t, r, s, old : /\ t = job[h].task /\ r = tasks[t].run
                          /\ s = tasks[t].stage /\ old = tasks[t].status
  OBVIOUS
<1>3. TaskIs(t, r, s, old) /\ WorksOn(job[h]) = r
  BY <1>0, <1>1, <1>2, Deleted DEF WorksOn
<1>4. SetTask(t, "failed") /\ Goto(h, "delete_collect")
  BY <1>2 DEF DeleteAbort
<1>5. TaskIs(t, r, s, "failed")'
  BY <1>0, <1>1, <1>2, <1>3, <1>4, TaskSet
<1>6. PICK j : Onto(h, "delete_collect", j)
  BY <1>4, StateFacts, GoesOn
<1>7. WorkOK(j)'
  BY <1>2, <1>5, <1>6 DEF WorkOK, Onto, TaskIs, EndStatus
<1>8. WorksOn(j)' = r /\ j # Idle
  BY <1>1, <1>2, <1>5, <1>6 DEF WorksOn, Onto, Idle, TaskIs
<1>. QED BY <1>0, <1>1, <1>2, <1>3, <1>4, <1>6, <1>7, <1>8, SerialSets DEF Onto

\* The task has no subtasks.
LEMMA SerialDeleteCollect ==
  ASSUME StageInv, SerialInv, Serial, Alone', NEW h \in Handlers,
         DeleteCollect(h)
  PROVE  SerialInv'
<1>0. /\ job[h] # Idle /\ job[h].pc = "delete_collect"
      /\ monitor' = monitor /\ Still
  BY ReadStill DEF DeleteCollect, At, Idle
<1>1. /\ monitor = Resting /\ \A g \in Handlers \ {h} : job[g] = Idle
      /\ WorkOK(job[h]) /\ PointOK(job[h]) /\ job[h] \in Job
  BY <1>0, AtWork
<1>2. /\ job[h].kind = "delete" /\ job[h].task # None
      /\ tasks[job[h].task].status \in EndStatus
  BY <1>0, <1>1 DEF WorkOK, PointOK
<1>3. PICK t, r : t = job[h].task /\ r = tasks[t].run
  OBVIOUS
<1>4. t \in 1 .. ntasks /\ LiveTask(t)
  BY <1>0, <1>2, <1>3, Deleted
<1>5. {u \in TaskId : LiveTask(u) /\ tasks[u].parent = t} = {}
  BY <1>2, <1>3, StateFacts DEF LiveTask, Gone, OneTask
<1>6. PICK j : j = [job[h] EXCEPT !.pc = "delete_tasks", !.run = r,
                                  !.doomed = {t}]
  OBVIOUS
<1>7. job' = [job EXCEPT ![h] = j]
  <2>1. {t} \cup {u \in TaskId : LiveTask(u) /\ tasks[u].parent = t} = {t}
    BY <1>5
  <2>2. job' = [job EXCEPT ![h] =
                  [@ EXCEPT !.pc = "delete_tasks", !.run = r,
                            !.doomed = {t} \cup {u \in TaskId :
                              LiveTask(u) /\ tasks[u].parent = t}]]
    BY <1>3, <1>4, Zenon DEF DeleteCollect
  <2>3. job \in [Handlers -> Job]
    BY StateFacts DEF TypeOK
  <2>. QED BY <1>6, <2>1, <2>2, <2>3
<1>8. /\ j.pc = "delete_tasks" /\ j.run = r /\ j.task = t
      /\ j.kind = "delete" /\ j.doomed = {t}
  BY <1>1, <1>2, <1>3, <1>6 DEF Job
<1>9. WorkOK(j)
  BY <1>2, <1>3, <1>8 DEF WorkOK
<1>10. WorksOn(job[h]) = r /\ WorksOn(j) = r /\ j # Idle
  BY <1>2, <1>3, <1>8 DEF WorksOn, Idle
<1>. QED BY <1>0, <1>1, <1>7, <1>9, <1>10, SerialRead

LEMMA SerialDeleteOneTask ==
  ASSUME StageInv, SerialInv, Serial, Alone', NEW h \in Handlers,
         DeleteOneTask(h)
  PROVE  SerialInv'
<1>0. /\ job[h] # Idle /\ job[h].pc = "delete_tasks"
      /\ UNCHANGED <<rows, nrows, ntasks, requests, monitor>>
  BY DEF DeleteOneTask, At, Idle
<1>1. /\ WorkOK(job[h]) /\ PointOK(job[h]) /\ job[h] \in Job
  BY <1>0, AtWork
<1>2. PICK t, r, s, old : /\ t = job[h].task /\ r = tasks[t].run
                          /\ s = tasks[t].stage /\ old = tasks[t].status
  OBVIOUS
<1>3. /\ job[h].kind = "delete" /\ t # None /\ old \in EndStatus
      /\ job[h].doomed = {t} /\ job[h].run = r
  BY <1>0, <1>1, <1>2 DEF WorkOK, PointOK
<1>4. TaskIs(t, r, s, old) /\ WorksOn(job[h]) = r /\ t \in Nat
  BY <1>0, <1>1, <1>2, <1>3, Deleted DEF WorksOn
<1>5. Oldest({t}) = {t}
  BY <1>4 DEF Oldest
<1>6. PICK j : j = [job[h] EXCEPT !.doomed = {}, !.pc = "delete_rows"]
  OBVIOUS
<1>7. SetTask(t, "deleted") /\ job' = [job EXCEPT ![h] = j]
  <2>1. PICK u \in {t} :
          /\ SetTask(u, "deleted")
          /\ job' = [job EXCEPT ![h] =
                       [@ EXCEPT !.doomed = {t} \ {u},
                                 !.pc = IF {t} = {u} THEN "delete_rows"
                                                     ELSE "delete_tasks"]]
    BY <1>3, <1>5, Zenon DEF DeleteOneTask
  <2>2. u = t /\ {t} \ {u} = {}
    BY <2>1
  <2>3. job \in [Handlers -> Job]
    BY StateFacts DEF TypeOK
  <2>. QED BY <1>6, <2>1, <2>2, <2>3
<1>8. /\ j.pc = "delete_rows" /\ j.run = r /\ j.task = t /\ j.kind = "delete"
  BY <1>1, <1>2, <1>3, <1>6 DEF Job
<1>9. TaskIs(t, r, s, "deleted")'
  BY <1>0, <1>3, <1>4, <1>7, TaskSet
<1>10. WorkOK(j)'
  BY <1>8, <1>9 DEF WorkOK, TaskIs
<1>11. WorksOn(j)' = r /\ j # Idle
  BY <1>8, <1>9 DEF WorksOn, Idle, TaskIs
<1>. QED BY <1>0, <1>3, <1>4, <1>7, <1>10, <1>11, SerialSets

\* The rows of the run follow its task.
LEMMA SerialDeleteRows ==
  ASSUME StageInv, SerialInv, Serial, Alone', NEW h \in Handlers,
         DeleteRows(h)
  PROVE  SerialInv'
<1>0. /\ job[h] # Idle /\ job[h].pc = "delete_rows"
      /\ monitor' = monitor /\ UNCHANGED <<nrows, tasks, ntasks, requests>>
  <2>1. /\ At(h, "delete_rows")
        /\ UNCHANGED <<nrows, tasks, ntasks, requests, sent, monitor, faults>>
    BY Zenon DEF DeleteRows
  <2>. QED BY <2>1 DEF At, Idle
<1>1. /\ monitor = Resting /\ \A g \in Handlers \ {h} : job[g] = Idle
      /\ WorkOK(job[h]) /\ PointOK(job[h]) /\ job[h] \in Job
  BY <1>0, AtWork
<1>2. PICK t, r : t = job[h].task /\ r = job[h].run
  OBVIOUS
<1>3. /\ job[h].kind = "delete" /\ t # None /\ r = tasks[t].run
      /\ tasks[t].status = "deleted"
  BY <1>0, <1>1, <1>2 DEF WorkOK, PointOK
<1>4. t \in 1 .. ntasks
  BY <1>1, <1>2, <1>3, StateFacts DEF Job
<1>5. /\ \A i \in 1 .. nrows :
           /\ rows'[i].run = rows[i].run /\ rows'[i].stage = rows[i].stage
           /\ rows[i].run = r => rows'[i].status = "deleted"
           /\ rows[i].run # r => rows'[i] = rows[i]
  <2>1. rows' = [i \in RowId |->
                   IF LiveRow(i) /\ rows[i].run = r
                   THEN [rows[i] EXCEPT !.status = "deleted", !.stale = FALSE]
                   ELSE rows[i]]
    BY <1>2 DEF DeleteRows
  <2>2. SUFFICES ASSUME NEW i \in 1 .. nrows
        PROVE  /\ rows'[i].run = rows[i].run /\ rows'[i].stage = rows[i].stage
               /\ rows[i].run = r => rows'[i].status = "deleted"
               /\ rows[i].run # r => rows'[i] = rows[i]
    OBVIOUS
  <2>3. i \in RowId /\ rows[i] \in Row /\ rows[i].status # "absent"
    BY StateFacts DEF TypeOK, RowsOK, RowOK
  <2>4. CASE LiveRow(i) /\ rows[i].run = r
    <3>1. rows'[i] = [rows[i] EXCEPT !.status = "deleted", !.stale = FALSE]
      BY <2>1, <2>3, <2>4
    <3>. QED BY <2>3, <2>4, <3>1 DEF Row
  <2>5. CASE ~(LiveRow(i) /\ rows[i].run = r)
    <3>1. rows'[i] = rows[i]
      BY <2>1, <2>3, <2>5
    <3>2. rows[i].run = r => rows[i].status = "deleted"
      BY <2>3, <2>5 DEF LiveRow, Gone
    <3>. QED BY <3>1, <3>2
  <2>. QED BY <2>4, <2>5
<1>6. TableInv'
  <2>1. RowsCalm
    <3>1. \A i \in 1 .. nrows : rows'[i].status = "running"
                                  => rows[i].status = "running"
      BY <1>5
    <3>. QED BY <1>0, <1>5, <3>1 DEF RowsCalm
  <2>2. EachStageOnce' /\ LastRuns'
    BY <2>1, StateFacts, RowsCalmKept
  <2>3. DeletedAfter'
    BY <1>0, <1>3, <1>4, <1>5, StateFacts DEF DeletedAfter
  <2>4. OneTask'
    BY <1>0, StateFacts DEF OneTask
  <2>5. OneAwaited'
    BY <1>0, StateFacts, OneAwaitedKept DEF requests
  <2>. QED BY <2>2, <2>3, <2>4, <2>5 DEF TableInv
<1>7. GoneRun(r)'
  BY <1>0, <1>3, <1>4, <1>5 DEF GoneRun
<1>8. Settled(r)'
  BY <1>6, <1>7, SettlesGone
<1>9. \A x \in RunId : x # r => Same(x)
  <2>1. ASSUME NEW x, x # r
        PROVE  RowsSame(x)
    BY <1>0, <1>5, <2>1 DEF RowsSame
  <2>. QED BY <1>0, <2>1, UnchangedSame DEF Same
<1>10. WorkOK(Idle)' /\ job' = [job EXCEPT ![h] = Idle]
  BY DEF WorkOK, Idle, Return, DeleteRows
<1>11. WorksOn(job[h]) = r
  BY <1>2, <1>3 DEF WorksOn
<1>. QED BY <1>0, <1>1, <1>6, <1>8, <1>9, <1>10, <1>11, SerialHandler

-----------------------------------------------------------------------------
(* The monitor.                                                            *)

\* A step of the monitor, about run r if there is one.
LEMMA SerialMonitor ==
  ASSUME StageInv, SerialInv, Alone', TableInv', job' = job,
         \A g \in Handlers : job[g] = Idle, NEW r,
         monitor.pc \in {"lookup", "fail"} => rows[monitor.row].run = r,
         \A x \in RunId : x # r => Same(x), MonitorOK',
         r \in RunId => \/ /\ monitor'.pc \in {"lookup", "fail"}
                           /\ rows'[monitor'.row].run = r
                        \/ Settled(r)'
  PROVE  SerialInv'
<1>1. \A g \in Handlers : WorkOK(job[g])'
  BY DEF WorkOK, Idle
<1>2. ASSUME NEW x \in RunId
      PROVE  Busy(x)' \/ Settled(x)'
  <2>1. CASE x = r
    BY <2>1 DEF Busy
  <2>2. CASE x # r
    <3>1. ~Busy(x)
      BY <2>2 DEF Busy
    <3>. QED BY <2>2, <3>1, SettledSame DEF SerialInv
  <2>. QED BY <2>1, <2>2
<1>. QED BY <1>1, <1>2 DEF SerialInv

LEMMA MonitorAlone ==
  ASSUME SerialInv, Serial, monitor # Resting
  PROVE  \A g \in Handlers : job[g] = Idle
BY DEF SerialInv, Alone, Serial

LEMMA SerialMonitorScan ==
  ASSUME StageInv, SerialInv, Serial, Alone', MonitorScan
  PROVE  SerialInv'
<1>1. /\ monitor = Resting /\ \A g \in Handlers : job[g] = Idle
      /\ job' = job /\ Still
      /\ monitor' = [Resting EXCEPT !.pc = "mark", !.left = StaleRows]
  BY ReadStill DEF MonitorScan, Serial, Quiet
<1>2. monitor'.pc = "mark" /\ monitor'.left = StaleRows
  BY <1>1 DEF Resting
<1>3. TableInv' /\ \A x : Same(x)
  BY <1>1, StillSame, StateFacts
<1>4. UNCHANGED rows
  BY DEF MonitorScan, database
<1>5. MonitorOK'
  BY <1>2, <1>4 DEF MonitorOK, StaleRows, RunningRows
<1>6. None \notin RunId
  BY DEF None, RunId
<1>. QED BY <1>1, <1>3, <1>5, <1>6, SerialMonitor DEF Resting

\* The row has not been answered since the query: it stops working here.
LEMMA SerialMonitorMark ==
  ASSUME StageInv, SerialInv, Serial, Alone', MonitorMark
  PROVE  SerialInv'
<1>0. /\ monitor.pc = "mark" /\ job' = job
      /\ UNCHANGED <<nrows, tasks, ntasks, requests>>
  BY DEF MonitorMark
<1>1. \A g \in Handlers : job[g] = Idle
  BY <1>0, MonitorAlone DEF Resting
<1>2. PICK i \in Oldest(monitor.left) :
        /\ SetRow(i, "timed_out")
        /\ monitor' = [monitor EXCEPT !.pc = "lookup", !.row = i,
                                      !.left = @ \ {i}]
  BY DEF MonitorMark
<1>3. monitor \in Monitor
  BY StateFacts DEF TypeOK
<1>4. /\ monitor'.pc = "lookup" /\ monitor'.row = i
      /\ monitor'.left = monitor.left \ {i}
  BY <1>2, <1>3 DEF Monitor
<1>5. /\ i \in monitor.left /\ rows[i].status = "running" /\ i \in RowId
      /\ \A k \in monitor.left : rows[k].status = "running" /\ k \in RowId
  BY <1>2, <1>3 DEF Oldest, SerialInv, MonitorOK, Monitor
<1>6. i \in 1 .. nrows
  BY <1>5, StateFacts
<1>7. PICK r, s : r = rows[i].run /\ s = rows[i].stage
  OBVIOUS
<1>8. r \in RunId
  BY <1>6, <1>7, StateFacts DEF RowsOK, RowOK
<1>9. Settled(r)
  <2>1. ~Busy(r)
    BY <1>0, <1>1 DEF Busy
  <2>. QED BY <1>8, <2>1 DEF SerialInv
<1>10. "timed_out" \in RowStatus \ (Gone \cup {"running"})
  BY DEF RowStatus, Gone
<1>11. /\ TableInv' /\ \A x : x # r => Same(x)
       /\ \E t \in 1 .. ntasks : Held(r, t, s, "running")'
  BY <1>0, <1>2, <1>5, <1>6, <1>7, <1>9, <1>10, RowStops
<1>12. PICK t \in 1 .. ntasks : Held(r, t, s, "running")'
  BY <1>11
<1>13. /\ \A k \in RowId : k # i => rows'[k] = rows[k]
       /\ rows'[i].run = r
  <2>1. rows \in [RowId -> Row]
    BY StateFacts DEF TypeOK
  <2>2. rows[i] \in Row
    BY <1>5, <2>1
  <2>3. rows' = [rows EXCEPT ![i].status = "timed_out", ![i].stale = FALSE]
    BY <1>2, <1>5 DEF SetRow, LiveRow, Gone
  <2>4. rows'[i].run = rows[i].run
    BY <1>5, <2>1, <2>2, <2>3 DEF Row
  <2>. QED BY <1>7, <2>1, <2>3, <2>4
<1>14. MonitorOK'
  <2>1. tasks'[t].stage = s
    BY <1>12 DEF Held, TaskIs
  <2>2. Held(rows[monitor.row].run, t, tasks[t].stage, "running")'
    BY <1>4, <1>12, <1>13, <2>1
  <2>3. \A k \in monitor'.left : rows'[k].status = "running"
    BY <1>4, <1>5, <1>13
  <2>. QED BY <1>0, <1>4, <1>6, <2>2, <2>3 DEF MonitorOK
<1>. QED BY <1>0, <1>1, <1>4, <1>11, <1>13, <1>14, SerialMonitor

\* What the monitor has in hand.
LEMMA InMonitorsHand ==
  ASSUME StageInv, SerialInv, monitor.pc \in {"lookup", "fail"}
  PROVE  \E t \in 1 .. ntasks :
           /\ Held(rows[monitor.row].run, t, tasks[t].stage, "running")
           /\ monitor.pc = "fail" => monitor.task = t
BY DEF SerialInv, MonitorOK

LEMMA SerialMonitorLookup ==
  ASSUME StageInv, SerialInv, Serial, Alone', MonitorLookup
  PROVE  SerialInv'
<1>0. /\ monitor.pc = "lookup" /\ job' = job /\ Still /\ UNCHANGED rows
  BY ReadStill DEF MonitorLookup, database
<1>1. \A g \in Handlers : job[g] = Idle
  BY <1>0, MonitorAlone DEF Resting
<1>2. PICK r : r = rows[monitor.row].run
  OBVIOUS
<1>3. PICK t \in 1 .. ntasks : Held(r, t, tasks[t].stage, "running")
  BY <1>0, <1>2, InMonitorsHand
<1>4. PICK s : s = tasks[t].stage
  OBVIOUS
<1>5. TaskOfRun(r) = {t}
  <2>1. TaskIs(t, r, s, "running") /\ "running" \in TaskStatus \ Gone
    BY <1>3, <1>4 DEF Held, TaskStatus, Gone
  <2>. QED BY <2>1, FindsTask
<1>6. t # None
  BY DEF None
<1>7. monitor' = [monitor EXCEPT !.pc = "fail", !.task = t]
  BY <1>2, <1>5, <1>6 DEF MonitorLookup
<1>8. /\ monitor'.pc = "fail" /\ monitor'.task = t
      /\ monitor'.left = monitor.left /\ monitor'.row = monitor.row
  BY <1>7, StateFacts DEF TypeOK, Monitor
<1>9. TableInv' /\ \A x : Same(x)
  BY <1>0, StillSame, StateFacts
<1>10. MonitorOK'
  <2>1. Held(r, t, s, "running")' /\ tasks'[t].stage = s /\ UNCHANGED <<nrows, ntasks>>
    BY <1>0, <1>3, <1>4, StillFacts DEF Still
  <2>2. Held(rows[monitor.row].run, t, tasks[t].stage, "running")'
    BY <1>0, <1>2, <1>8, <2>1
  <2>3. monitor.row \in 1 .. nrows /\ \A i \in monitor.left : rows[i].status = "running"
    BY <1>0 DEF SerialInv, MonitorOK
  <2>. QED BY <1>0, <1>8, <2>1, <2>2, <2>3 DEF MonitorOK
<1>. QED BY <1>0, <1>1, <1>2, <1>8, <1>9, <1>10, SerialMonitor

LEMMA SerialMonitorFail ==
  ASSUME StageInv, SerialInv, Serial, Alone', MonitorFail
  PROVE  SerialInv'
<1>0. /\ monitor.pc = "fail" /\ job' = job
      /\ UNCHANGED <<rows, nrows, ntasks, requests>>
  BY DEF MonitorFail
<1>1. \A g \in Handlers : job[g] = Idle
  BY <1>0, MonitorAlone DEF Resting
<1>2. PICK r : r = rows[monitor.row].run
  OBVIOUS
<1>3. PICK t \in 1 .. ntasks : /\ Held(r, t, tasks[t].stage, "running")
                               /\ monitor.task = t
  BY <1>0, <1>2, InMonitorsHand
<1>4. PICK s : s = tasks[t].stage
  OBVIOUS
<1>5. TaskIs(t, r, s, "running") /\ NoneRuns(r) /\ NoneAwaited(r)
  BY <1>3, <1>4 DEF Held
<1>6. SetTask(t, "failed") /\ monitor' = MonitorNext
  BY <1>3 DEF MonitorFail
<1>7. /\ TableInv' /\ TaskIs(t, r, s, "failed")' /\ \A x : x # r => Same(x)
      /\ NoneRuns(r)' /\ NoneAwaited(r)'
  BY <1>0, <1>5, <1>6, TaskSet
<1>8. Settled(r)'
  BY <1>7, SettlesEnded DEF EndStatus
<1>9. monitor'.pc \in {"idle", "mark"} /\ monitor'.left = monitor.left
  BY <1>6, StateFacts DEF MonitorNext, Resting, TypeOK, Monitor
<1>10. MonitorOK'
  BY <1>0, <1>9 DEF MonitorOK, SerialInv
<1>. QED BY <1>0, <1>1, <1>2, <1>7, <1>8, <1>10, SerialMonitor

\* Nobody moves, and nothing changes but the age of a row.
LEMMA SerialStill ==
  ASSUME StageInv, SerialInv, Alone', Still, UNCHANGED <<job, monitor>>
  PROVE  SerialInv'
<1>0. UNCHANGED <<job, monitor, nrows, tasks, ntasks>>
  BY DEF Still
<1>1. Still
  OBVIOUS
<1>2. TableInv'
  BY <1>1, StillSame, StateFacts
<1>3. \A h \in Handlers : WorkOK(job[h])'
  <2>1. ASSUME NEW h \in Handlers
        PROVE  WorkOK(job[h])'
    <3>1. PICK j : j = job[h]
      OBVIOUS
    <3>2. j = job'[h] /\ WorkOK(j)
      BY <1>0, <3>1 DEF SerialInv
    <3>3. WorkOK(j)'
      BY <1>1, <3>2, WorkKept
    <3>. QED BY <3>2, <3>3
  <2>. QED BY <2>1
<1>4. MonitorOK'
  <2>1. ASSUME NEW k \in monitor'.left
        PROVE  rows'[k].status = "running"
    <3>1. k \in monitor.left /\ k \in RowId /\ rows[k].status = "running"
      BY <1>0, <2>1, StateFacts DEF SerialInv, MonitorOK, TypeOK, Monitor
    <3>2. k \in 1 .. nrows
      BY <3>1, StateFacts
    <3>. QED BY <1>1, <3>1, <3>2 DEF Still
  <2>2. ASSUME monitor.pc \in {"lookup", "fail"}
        PROVE  /\ monitor.row \in 1 .. nrows
               /\ \E t \in 1 .. ntasks :
                    /\ Held(rows[monitor.row].run, t, tasks[t].stage, "running")'
                    /\ monitor.pc = "fail" => monitor.task = t
    <3>1. PICK r : r = rows[monitor.row].run
      OBVIOUS
    <3>2. PICK t \in 1 .. ntasks : /\ Held(r, t, tasks[t].stage, "running")
                                   /\ monitor.pc = "fail" => monitor.task = t
      BY <2>2, <3>1, InMonitorsHand
    <3>3. PICK s : s = tasks[t].stage
      OBVIOUS
    <3>4. Held(r, t, s, "running")'
      BY <1>1, <3>2, <3>3, StillFacts
    <3>5. monitor.row \in 1 .. nrows
      BY <2>2 DEF SerialInv, MonitorOK
    <3>6. rows'[monitor'.row].run = r /\ tasks'[t].stage = s
      BY <1>0, <1>1, <3>1, <3>3, <3>5 DEF Still
    <3>7. Held(rows[monitor.row].run, t, tasks[t].stage, "running")'
      BY <3>4, <3>6
    <3>. QED BY <3>2, <3>5, <3>7
  <2>. QED BY <1>0, <2>1, <2>2 DEF MonitorOK
<1>5. ASSUME NEW x \in RunId
      PROVE  Busy(x)' \/ Settled(x)'
  <2>1. CASE Busy(x)
    <3>1. CASE \E h \in Handlers : job[h] # Idle /\ WorksOn(job[h]) = x
      <4>1. PICK h \in Handlers : job[h] # Idle /\ WorksOn(job[h]) = x
        BY <3>1
      <4>2. job'[h] # Idle /\ WorksOn(job[h])' = x
        BY <1>0, <4>1 DEF WorksOn
      <4>. QED BY <4>2 DEF Busy
    <3>2. CASE monitor.pc \in {"lookup", "fail"} /\ rows[monitor.row].run = x
      <4>1. monitor.row \in 1 .. nrows
        BY <3>2 DEF SerialInv, MonitorOK
      <4>2. monitor'.pc \in {"lookup", "fail"} /\ rows'[monitor'.row].run = x
        BY <1>0, <1>1, <3>2, <4>1 DEF Still
      <4>. QED BY <4>2 DEF Busy
    <3>. QED BY <2>1, <3>1, <3>2 DEF Busy
  <2>2. CASE Settled(x)
    BY <1>1, <2>2, StillFacts
  <2>. QED BY <2>1, <2>2 DEF SerialInv
<1>. QED BY <1>2, <1>3, <1>4, <1>5 DEF SerialInv

LEMMA SerialGrowStale ==
  ASSUME StageInv, SerialInv, Serial, Alone', NEW i \in RowId, GrowStale(i)
  PROVE  SerialInv'
<1>1. UNCHANGED <<job, monitor, nrows, tasks, ntasks, requests>>
  BY DEF GrowStale
<1>2. rows \in [RowId -> Row] /\ \A k \in 1 .. nrows : k \in RowId
  BY StateFacts DEF TypeOK
<1>3. rows' = [rows EXCEPT ![i].stale = TRUE]
  BY DEF GrowStale
<1>4. \A k \in RowId : rows[k] \in Row
  BY <1>2
<1>5. \A k \in 1 .. nrows :
        /\ rows'[k].run = rows[k].run /\ rows'[k].stage = rows[k].stage
        /\ rows'[k].status = rows[k].status
  BY <1>2, <1>3, <1>4 DEF Row
<1>. QED BY <1>1, <1>5, SerialStill DEF Still

-----------------------------------------------------------------------------
(* The invariant.                                                          *)

LEMMA SerialInit == Init => SerialInv
<1>1. SUFFICES ASSUME Init
      PROVE  SerialInv
  OBVIOUS
<1>2. /\ nrows = 0 /\ ntasks = 0 /\ pending = {} /\ monitor = Resting
      /\ \A h \in Handlers : job[h] = Idle
  BY <1>1 DEF Init
<1>3. Alone
  BY <1>2 DEF Alone
<1>4. TableInv
  BY <1>2 DEF TableInv, OneTask, EachStageOnce, LastRuns, DeletedAfter, OneAwaited
<1>5. \A r \in RunId : Settled(r)
  BY <1>2 DEF Settled
<1>6. \A h \in Handlers : WorkOK(job[h])
  BY <1>2 DEF WorkOK, Idle
<1>7. MonitorOK
  BY <1>2 DEF MonitorOK, Resting
<1>. QED BY <1>3, <1>4, <1>5, <1>6, <1>7 DEF SerialInv

LEMMA SerialInvStep ==
  ASSUME Serial
  PROVE  StageInv /\ SerialInv /\ [Next]_vars => SerialInv'
<1>1. SUFFICES ASSUME StageInv, SerialInv, [Next]_vars
      PROVE  SerialInv'
  OBVIOUS
<1>2. Alone'
  BY <1>1, AloneStep DEF SerialInv
<1>3. ASSUME NEW h \in Handlers, HandlerStep(h)
      PROVE  SerialInv'
  <2>1. CASE StartTask(h) \/ RecordResult(h) \/ LookUpTask(h)
    BY <1>1, <1>2, <2>1, SerialStartTask, SerialRecordResult, SerialLookUpTask
  <2>2. CASE SetRecovering(h) \/ AskRecovery(h) \/ WithdrawRequest(h) \/ AbortTask(h)
    BY <1>1, <1>2, <2>2, SerialSetRecovering, SerialAskRecovery,
       SerialWithdrawRequest, SerialAbortTask
  <2>3. CASE CreateSubtask(h)
    BY <2>3 DEF CreateSubtask, Serial
  <2>4. CASE SubtasksCreated(h) \/ AdvanceRow(h) \/ AdvanceTask(h) \/ FinishTask(h)
    BY <1>1, <1>2, <2>4, SerialSubtasksCreated, SerialAdvanceRow, SerialAdvanceTask,
       SerialFinishTask
  <2>5. CASE LookUpStage(h) \/ CheckRetries(h) \/ FindRetryRow(h)
    BY <1>1, <1>2, <2>5, SerialLookUpStage, SerialCheckRetries, SerialFindRetryRow
  <2>6. CASE RetryRow(h) \/ RetryTask(h)
    BY <1>1, <1>2, <2>6, SerialRetryRow, SerialRetryTask
  <2>7. CASE LookUpDecomposed(h)
    BY <1>1, <2>7 DEF LookUpDecomposed, At, SerialInv, WorkOK
  <2>8. CASE DecomposeTask(h)
    BY <1>1, <1>2, <2>8, SerialDecomposeTask
  <2>9. CASE DeleteAbort(h) \/ DeleteCollect(h) \/ DeleteOneTask(h) \/ DeleteRows(h)
    BY <1>1, <1>2, <2>9, SerialDeleteAbort, SerialDeleteCollect, SerialDeleteOneTask,
       SerialDeleteRows
  <2>. QED BY <1>3, <2>1, <2>2, <2>3, <2>4, <2>5, <2>6, <2>7, <2>8, <2>9
           DEF HandlerStep
<1>4. ASSUME NEW h \in Handlers,
             \/ StartRun(h) \/ ReceiveResult(h) \/ ReceiveRecovery(h)
             \/ ReceiveDecomposition(h) \/ BeginDelete(h)
      PROVE  SerialInv'
  BY <1>1, <1>2, <1>4, SerialStartRun, SerialReceiveResult, SerialReceiveRecovery,
     SerialNoDecomposition, SerialBeginDelete
<1>5. CASE MonitorStep
  BY <1>1, <1>2, <1>5, SerialMonitorScan, SerialMonitorMark, SerialMonitorLookup,
     SerialMonitorFail DEF MonitorStep
<1>6. CASE \E i \in RowId : GrowStale(i)
  BY <1>1, <1>2, <1>6, SerialGrowStale
<1>7. ~RequestDecomposition /\ ~Crash /\ \A h \in Handlers : ~DbError(h)
  BY <1>1, SerialNoDecomposition DEF Crash, DbError, Serial
<1>8. CASE UNCHANGED vars
  BY <1>1, <1>2, <1>8, SerialStill DEF vars, Still, requests
<1>. QED BY <1>1, <1>3, <1>4, <1>5, <1>6, <1>7, <1>8 DEF Next

\* Handled one event at a time, every run is at rest, its task showing what
\* it is at, or in the hands of the one handler or of the monitor.
LEMMA SerialInvariant ==
  ASSUME Serial
  PROVE  Spec => []SerialInv
<1>1. Init => SerialInv
  BY SerialInit
<1>2. StageInv /\ SerialInv /\ [Next]_vars => SerialInv'
  BY SerialInvStep
<1>. QED BY <1>1, <1>2, StageInvariant, PTL DEF Spec

-----------------------------------------------------------------------------
(* What a run with one event at a time guarantees.                         *)

\* Results, recoveries, retries, skips, time-outs and deletions, each handled
\* to its end, never put two stages of a run to work: advance_row inserts a
\* row, and retry_row revives one, only when no row of the run is running.
THEOREM OneStageRuns ==
  ASSUME Serial
  PROVE  Spec => []OneRunningStage
<1>1. ASSUME StageInv, SerialInv
      PROVE  OneRunningStage
  <2>1. SUFFICES ASSUME NEW i \in RunningRows, NEW k \in RunningRows,
                        rows[i].run = rows[k].run
        PROVE  i = k
    BY DEF OneRunningStage
  <2>2. /\ i \in 1 .. nrows /\ rows[i].status = "running"
        /\ k \in 1 .. nrows /\ rows[k].status = "running"
    BY <1>1, StateFacts DEF RunningRows
  <2>3. ~(rows[i].stage < rows[k].stage) /\ ~(rows[k].stage < rows[i].stage)
    BY <1>1, <2>1, <2>2, StateFacts DEF LastRuns
  <2>4. rows[i].stage \in Nat /\ rows[k].stage \in Nat
    BY <1>1, <2>2, StateFacts
       DEF TypeOK, Row, Stages, NoStage, Learning, SkillManage
  <2>5. rows[i].stage = rows[k].stage
    BY <2>3, <2>4
  <2>. QED BY <1>1, <2>1, <2>2, <2>5, StateFacts DEF EachStageOnce
<1>. QED BY <1>1, StageInvariant, SerialInvariant, PTL

\* No run is in a stage twice: the row after a result or a skip is of a stage
\* the run has not been in, and a stage tried again keeps its row.
THEOREM StagesAreEnteredOnce ==
  ASSUME Serial
  PROVE  Spec => []EachStageOnce
<1>1. SerialInv => EachStageOnce
  BY DEF SerialInv, TableInv
<1>. QED BY <1>1, SerialInvariant, PTL

\* When no handler is under way a task that says it is running has a stage
\* at work, and one that says it is recovering has an answer to wait for,
\* whether the emission that asks for it reached anybody or not.
THEOREM NoRunIsStuck ==
  ASSUME Serial
  PROVE  Spec => []NoStuckRun
<1>1. ASSUME StageInv, SerialInv
      PROVE  NoStuckRun
  <2>1. SUFFICES ASSUME NEW t \in TaskId,
                        tasks[t].status \in {"running", "recovering"}, Quiet
        PROVE  \/ \E i \in RunningRows : rows[i].run = tasks[t].run
               \/ \E q \in pending : asked[q].run = tasks[t].run
    BY DEF NoStuckRun
  <2>2. t \in 1 .. ntasks /\ tasks[t].run \in RunId
    BY <1>1, <2>1, StateFacts DEF TasksOK, TaskOK
  <2>3. PICK r : r = tasks[t].run
    OBVIOUS
  <2>4. ~Busy(r)
    BY <2>1 DEF Quiet, Busy, Resting
  <2>5. Shown(r, t)
    BY <1>1, <2>2, <2>3, <2>4 DEF SerialInv, Settled
  <2>6. CASE tasks[t].status = "running"
    <3>1. PICK i \in 1 .. nrows : rows[i].run = r /\ rows[i].status = "running"
      BY <2>5, <2>6 DEF Shown, Works
    <3>2. i \in RunningRows
      BY <1>1, <3>1, StateFacts DEF RunningRows
    <3>. QED BY <2>3, <3>1, <3>2
  <2>7. CASE tasks[t].status = "recovering"
    BY <2>3, <2>5, <2>7 DEF Shown, NoneAwaited
  <2>. QED BY <2>1, <2>6, <2>7
<1>. QED BY <1>1, StageInvariant, SerialInvariant, PTL

-----------------------------------------------------------------------------
(* The refinement of PipelineRun: what RunView shows of each run.          *)

NoTask == [status |-> "none", stage |-> NoStage]

\* RunView shows the task of a run, or that it has none.
ViewOK ==
  \A r \in RunId :
    /\ \A t \in 1 .. ntasks : tasks[t].run = r =>
         RunView[r] = [status |-> tasks[t].status, stage |-> tasks[t].stage]
    /\ (\A t \in 1 .. ntasks : tasks[t].run # r) => RunView[r] = NoTask

LEMMA ViewIs == StageInv /\ SerialInv => ViewOK
<1>1. SUFFICES ASSUME StageInv, SerialInv, NEW r \in RunId
      PROVE  /\ \A t \in 1 .. ntasks : tasks[t].run = r =>
                  RunView[r] = [status |-> tasks[t].status,
                                stage |-> tasks[t].stage]
             /\ (\A t \in 1 .. ntasks : tasks[t].run # r) => RunView[r] = NoTask
  BY DEF ViewOK
<1>2. RunView[r] = IF MainTask(r) = {} THEN NoTask
                   ELSE LET t == CHOOSE t \in MainTask(r) : TRUE IN
                        [status |-> tasks[t].status, stage |-> tasks[t].stage]
  BY DEF RunView, NoTask
<1>3. ASSUME NEW t \in 1 .. ntasks, tasks[t].run = r
      PROVE  RunView[r] = [status |-> tasks[t].status, stage |-> tasks[t].stage]
  <2>1. t \in TaskId /\ t <= ntasks
    BY <1>1, StateFacts
  <2>2. tasks[t].status # "absent" /\ tasks[t].parent = None
    BY <1>1, <2>1, StateFacts DEF TasksOK, TaskOK, OneTask
  <2>3. \A u \in MainTask(r) : u = t
    BY <1>1, <1>3, StateFacts DEF MainTask, OneTask
  <2>4. t \in MainTask(r)
    BY <1>3, <2>1, <2>2 DEF MainTask
  <2>5. (CHOOSE u \in MainTask(r) : TRUE) = t
    BY <2>3, <2>4
  <2>. QED BY <1>2, <2>4, <2>5
<1>4. ASSUME \A t \in 1 .. ntasks : tasks[t].run # r
      PROVE  RunView[r] = NoTask
  <2>1. MainTask(r) = {}
    BY <1>1, <1>4, StateFacts DEF MainTask
  <2>. QED BY <1>2, <2>1
<1>. QED BY <1>3, <1>4

\* Two statuses a run may be in, and its stage, before and after a step.
Moves(r, from, to, old, new) ==
  /\ r \in RunId /\ RunView[r] = [status |-> from, stage |-> old]
  /\ RunView' = [RunView EXCEPT ![r] = [status |-> to, stage |-> new]]

\* A step that changes one task, of run r.
LEMMA OneMoves ==
  ASSUME ViewOK, ViewOK', NEW t \in 1 .. ntasks, NEW r \in RunId,
         tasks[t].run = r, tasks'[t].run = r, ntasks' = ntasks,
         \A u \in 1 .. ntasks : u # t => tasks'[u] = tasks[u]
  PROVE  Moves(r, tasks[t].status, tasks'[t].status, tasks[t].stage,
               tasks'[t].stage)
<1>1. RunView[r] = [status |-> tasks[t].status, stage |-> tasks[t].stage]
  BY DEF ViewOK
<1>2. RunView'[r] = [status |-> tasks'[t].status, stage |-> tasks'[t].stage]
  BY DEF ViewOK
<1>3. ASSUME NEW x \in RunId, x # r
      PROVE  RunView'[x] = RunView[x]
  <2>1. CASE \E u \in 1 .. ntasks : tasks[u].run = x
    <3>1. PICK u \in 1 .. ntasks : tasks[u].run = x
      BY <2>1
    <3>2. u # t /\ tasks'[u] = tasks[u]
      BY <1>3, <3>1
    <3>3. RunView[x] = [status |-> tasks[u].status, stage |-> tasks[u].stage]
      BY <3>1 DEF ViewOK
    <3>4. RunView'[x] = [status |-> tasks'[u].status, stage |-> tasks'[u].stage]
      BY <3>1, <3>2 DEF ViewOK
    <3>. QED BY <3>2, <3>3, <3>4
  <2>2. CASE \A u \in 1 .. ntasks : tasks[u].run # x
    <3>1. \A u \in 1 .. ntasks' : tasks'[u].run # x
      BY <1>3, <2>2
    <3>2. RunView[x] = NoTask
      BY <2>2 DEF ViewOK
    <3>3. RunView'[x] = NoTask
      BY <3>1 DEF ViewOK, NoTask
    <3>. QED BY <3>2, <3>3
  <2>. QED BY <2>1, <2>2
<1>4. RunView' = [x \in RunId |-> RunView'[x]] /\ RunView = [x \in RunId |-> RunView[x]]
  BY DEF RunView
<1>5. RunView' = [RunView EXCEPT ![r] = [status |-> tasks'[t].status,
                                         stage |-> tasks'[t].stage]]
  BY <1>2, <1>3, <1>4
<1>. QED BY <1>1, <1>5 DEF Moves

\* The status of the task of run r is set.
LEMMA StatusMoves ==
  ASSUME StageInv, SerialInv, ViewOK', NEW t, NEW r, NEW s,
         NEW old \in {"running", "recovering"} \cup EndStatus, NEW status,
         TaskIs(t, r, s, old), SetTask(t, status), ntasks' = ntasks
  PROVE  Moves(r, old, status, s, s)
<1>1. /\ tasks \in [TaskId -> Task] /\ t \in TaskId /\ t \in 1 .. ntasks
      /\ tasks[t].run = r /\ tasks[t].stage = s /\ tasks[t].status = old
      /\ \A u \in 1 .. ntasks : u \in TaskId
  BY StateFacts DEF TypeOK, TaskIs
<1>2. tasks' = [tasks EXCEPT ![t].status = status]
  BY <1>1 DEF SetTask, LiveTask, Gone, EndStatus
<1>3. /\ tasks'[t].run = r /\ tasks'[t].stage = s /\ tasks'[t].status = status
      /\ \A u \in 1 .. ntasks : u # t => tasks'[u] = tasks[u]
  <2>1. tasks[t] \in Task
    BY <1>1
  <2>. QED BY <1>1, <1>2, <2>1 DEF Task
<1>4. r \in RunId
  BY <1>1, StateFacts DEF TasksOK, TaskOK
<1>5. ViewOK
  BY ViewIs
<1>6. Moves(r, tasks[t].status, tasks'[t].status, tasks[t].stage, tasks'[t].stage)
  BY <1>1, <1>3, <1>4, <1>5, OneMoves
<1>. QED BY <1>1, <1>3, <1>6

LEMMA MovesRun ==
  ASSUME NEW r, NEW from, NEW to, NEW old, NEW new, Moves(r, from, to, old, new)
  PROVE  /\ r \in RunId /\ RunView[r].stage = old
         /\ Abstract!Move(r, from, to, new)
BY DEF Moves, Abstract!Move

\* A run whose status alone changes, as PipelineRun has it.
LEMMA RunEndsOrWaits ==
  ASSUME NEW r, NEW s, NEW from, NEW to, Moves(r, from, to, s, s),
         <<from, to>> \in {<<"running", "failed">>, <<"running", "recovering">>,
                           <<"recovering", "running">>,
                           <<"recovering", "failed">>,
                           <<"recovering", "decomposed">>}
                          \cup (EndStatus \X {"deleted"})
  PROVE  Abstract!Next
<1>1. r \in RunId /\ RunView[r].stage = s /\ Abstract!Move(r, from, to, s)
  BY MovesRun
<1>2. CASE from = "running" /\ to = "failed"
  BY <1>1, <1>2 DEF Abstract!Fail, Abstract!Next
<1>3. CASE from = "running" /\ to = "recovering"
  BY <1>1, <1>3 DEF Abstract!Recover, Abstract!Next
<1>4. CASE from = "recovering" /\ to = "running"
  BY <1>1, <1>4 DEF Abstract!Retry, Abstract!Next
<1>5. CASE from = "recovering" /\ to = "failed"
  BY <1>1, <1>5 DEF Abstract!Abort, Abstract!Next
<1>6. CASE from = "recovering" /\ to = "decomposed"
  BY <1>1, <1>6 DEF Abstract!Decompose, Abstract!Next
<1>7. CASE from \in EndStatus /\ to = "deleted"
  BY <1>1, <1>7 DEF Abstract!Delete, Abstract!Next, Abstract!Ended, EndStatus
<1>. QED BY <1>2, <1>3, <1>4, <1>5, <1>6, <1>7

LEMMA ViewUnchanged ==
  ASSUME UNCHANGED tasks
  PROVE  UNCHANGED RunView
BY DEF RunView, MainTask

LEMMA RunStarts ==
  ASSUME StageInv, SerialInv, Serial, ViewOK', NEW h \in Handlers, StartTask(h)
  PROVE  Abstract!Next
<1>0. job[h] # Idle /\ job[h].pc = "start_task"
  BY DEF StartTask, At, Idle
<1>1. WorkOK(job[h]) /\ JobOK(job[h]) /\ PointOK(job[h])
  BY <1>0, AtWork
<1>2. PICK r : r = job[h].run
  OBVIOUS
<1>3. (\A t \in 1 .. ntasks : tasks[t].run # r) /\ r \in RunId
  BY <1>0, <1>1, <1>2 DEF WorkOK, JobOK, PointOK
<1>4. InsertTask(r, "running", Learning, None)
  BY <1>2 DEF StartTask
<1>5. /\ tasks \in [TaskId -> Task] /\ ntasks \in Nat /\ ntasks + 1 \in TaskId
      /\ ntasks' = ntasks + 1
      /\ tasks'[ntasks + 1] = [run |-> r, stage |-> Learning,
                               status |-> "running", parent |-> None]
      /\ \A t \in 1 .. ntasks : tasks'[t] = tasks[t]
  BY <1>4, StateFacts, ConstantsOK DEF TypeOK, TaskId, MaxTasks, InsertTask
<1>6. ViewOK
  BY ViewIs
<1>7. RunView[r] = NoTask
  BY <1>3, <1>6 DEF ViewOK
<1>8. RunView'[r] = [status |-> "running", stage |-> Learning]
  <2>1. ntasks + 1 \in 1 .. ntasks' /\ tasks'[ntasks + 1].run = r
    BY <1>5
  <2>. QED BY <1>3, <1>5, <2>1 DEF ViewOK
<1>9. ASSUME NEW x \in RunId, x # r
      PROVE  RunView'[x] = RunView[x]
  <2>1. CASE \E u \in 1 .. ntasks : tasks[u].run = x
    <3>1. PICK u \in 1 .. ntasks : tasks[u].run = x
      BY <2>1
    <3>2. tasks'[u] = tasks[u] /\ u \in 1 .. ntasks'
      BY <1>5
    <3>3. RunView[x] = [status |-> tasks[u].status, stage |-> tasks[u].stage]
      BY <1>6, <3>1 DEF ViewOK
    <3>4. RunView'[x] = [status |-> tasks'[u].status, stage |-> tasks'[u].stage]
      BY <3>1, <3>2 DEF ViewOK
    <3>. QED BY <3>2, <3>3, <3>4
  <2>2. CASE \A u \in 1 .. ntasks : tasks[u].run # x
    <3>1. \A u \in 1 .. ntasks' : u \in 1 .. ntasks \/ u = ntasks + 1
      BY <1>5
    <3>2. \A u \in 1 .. ntasks' : tasks'[u].run # x
      BY <1>5, <1>9, <2>2, <3>1
    <3>3. RunView[x] = NoTask
      BY <1>6, <2>2 DEF ViewOK
    <3>4. RunView'[x] = NoTask
      BY <3>2 DEF ViewOK, NoTask
    <3>. QED BY <3>3, <3>4
  <2>. QED BY <2>1, <2>2
<1>10. /\ RunView' = [x \in RunId |-> RunView'[x]]
       /\ RunView = [x \in RunId |-> RunView[x]]
  BY DEF RunView
<1>11. RunView' = [RunView EXCEPT ![r] = [status |-> "running",
                                          stage |-> Learning]]
  BY <1>8, <1>9, <1>10
<1>12. Moves(r, "none", "running", NoStage, Learning)
  BY <1>3, <1>7, <1>11 DEF Moves, NoTask
<1>13. Abstract!Move(r, "none", "running", Learning)
  BY <1>12, MovesRun
<1>. QED BY <1>3, <1>13 DEF Abstract!Start, Abstract!Next, Abstract!Learning, Learning

LEMMA RunAdvances ==
  ASSUME StageInv, SerialInv, Serial, ViewOK', NEW h \in Handlers, AdvanceTask(h)
  PROVE  Abstract!Next
<1>0. /\ job[h] # Idle /\ job[h].pc = "advance_task" /\ ntasks' = ntasks
  BY DEF AdvanceTask, At, Idle
<1>1. WorkOK(job[h]) /\ PointOK(job[h])
  BY <1>0, AtWork
<1>2. PICK r, t, s, k : /\ r = job[h].run /\ t = job[h].task
                        /\ s = job[h].stage /\ k = job[h].kind
  OBVIOUS
<1>3. /\ TaskIs(t, r, s, StatusFor(k)) /\ k \in {"result", "recovery"}
      /\ HasNext(s)
      /\ k = "result" \/ s \in Skippable
  BY <1>0, <1>1, <1>2 DEF WorkOK, Moving, PointOK
<1>4. PICK n : n = NextStage(s)
  OBVIOUS
<1>5. /\ tasks \in [TaskId -> Task] /\ t \in TaskId /\ LiveTask(t)
      /\ t \in 1 .. ntasks /\ tasks[t].run = r /\ tasks[t].stage = s
      /\ tasks[t].status = StatusFor(k)
  BY <1>3, StateFacts DEF TypeOK, TaskIs, LiveTask, Gone, StatusFor
<1>6. tasks' = [tasks EXCEPT ![t] = [@ EXCEPT !.stage = n, !.status = "running"]]
  BY <1>2, <1>3, <1>4, <1>5 DEF AdvanceTask, StatusFor
<1>7. /\ tasks'[t].run = r /\ tasks'[t].stage = n /\ tasks'[t].status = "running"
      /\ \A u \in 1 .. ntasks : u # t => tasks'[u] = tasks[u]
  BY <1>5, <1>6, StateFacts DEF Task
<1>8. r \in RunId /\ ViewOK
  BY <1>5, ViewIs, StateFacts DEF TasksOK, TaskOK
<1>9. Moves(r, tasks[t].status, tasks'[t].status, tasks[t].stage, tasks'[t].stage)
  BY <1>0, <1>5, <1>7, <1>8, OneMoves
<1>10. Moves(r, StatusFor(k), "running", s, n)
  BY <1>5, <1>7, <1>9
<1>11. RunView[r].stage = s /\ Abstract!Move(r, StatusFor(k), "running", n)
  BY <1>10, MovesRun
<1>12. CASE k = "result"
  BY <1>3, <1>4, <1>8, <1>11, <1>12 DEF StatusFor, Abstract!Advance, Abstract!Next,
     Abstract!HasNext, Abstract!NextStage, HasNext, NextStage, Abstract!Stages,
     Stages, Abstract!Learning, Learning, Abstract!SkillManage, SkillManage
<1>13. CASE k = "recovery" /\ s \in Skippable
  BY <1>3, <1>4, <1>8, <1>11, <1>13 DEF StatusFor, Abstract!Skip, Abstract!Next,
     Abstract!HasNext, Abstract!NextStage, HasNext, NextStage, Abstract!Stages,
     Stages, Abstract!Learning, Learning, Abstract!SkillManage, SkillManage,
     Abstract!Skippable, Skippable, Abstract!Evaluation, Evaluation
<1>. QED BY <1>3, <1>12, <1>13

LEMMA RunFinishes ==
  ASSUME StageInv, SerialInv, Serial, ViewOK', NEW h \in Handlers, FinishTask(h)
  PROVE  Abstract!Next
<1>0. /\ job[h] # Idle /\ job[h].pc = "finish_task" /\ ntasks' = ntasks
  BY DEF FinishTask, At, Idle
<1>1. WorkOK(job[h]) /\ PointOK(job[h])
  BY <1>0, AtWork
<1>2. PICK r, t, s, k : /\ r = job[h].run /\ t = job[h].task
                        /\ s = job[h].stage /\ k = job[h].kind
  OBVIOUS
<1>3. /\ TaskIs(t, r, s, StatusFor(k)) /\ k \in {"result", "recovery"}
      /\ s = SkillManage
  BY <1>0, <1>1, <1>2 DEF WorkOK, HeldFor, Held, PointOK
<1>4. PICK old \in {"running", "recovering"} : old = StatusFor(k)
  BY DEF StatusFor
<1>5. TaskIs(t, r, s, old) /\ SetTask(t, "completed")
  BY <1>2, <1>3, <1>4 DEF FinishTask
<1>6. Moves(r, old, "completed", s, s)
  BY <1>0, <1>5, StatusMoves
<1>7. /\ r \in RunId /\ RunView[r].stage = s
      /\ Abstract!Move(r, old, "completed", s)
  BY <1>6, MovesRun
<1>8. CASE old = "running"
  BY <1>3, <1>7, <1>8 DEF Abstract!Complete, Abstract!Next,
     Abstract!SkillManage, SkillManage
<1>9. CASE old = "recovering"
  BY <1>3, <1>7, <1>9 DEF Abstract!Skip, Abstract!Next, Abstract!HasNext,
     Abstract!SkillManage, SkillManage, Abstract!Skippable, Abstract!Evaluation
<1>. QED BY <1>4, <1>8, <1>9

\* The other statements about the task of a run.
LEMMA RunChanges ==
  ASSUME StageInv, SerialInv, Serial, ViewOK', NEW h \in Handlers,
         \/ SetRecovering(h) \/ AbortTask(h) \/ RetryTask(h) \/ DecomposeTask(h)
         \/ DeleteAbort(h) \/ DeleteOneTask(h)
  PROVE  Abstract!Next \/ UNCHANGED RunView
<1>0. job[h] # Idle /\ ntasks' = ntasks
  <2>1. CASE \/ SetRecovering(h) \/ AbortTask(h) \/ RetryTask(h)
             \/ DecomposeTask(h) \/ DeleteAbort(h)
    BY <2>1 DEF SetRecovering, AbortTask, RetryTask, DecomposeTask,
       DeleteAbort, At, Idle
  <2>2. CASE DeleteOneTask(h)
    <3>1. At(h, "delete_tasks") /\ ntasks' = ntasks
      BY <2>2, Zenon DEF DeleteOneTask
    <3>. QED BY <3>1 DEF At, Idle
  <2>. QED BY <2>1, <2>2
<1>1. WorkOK(job[h]) /\ PointOK(job[h]) /\ job[h] \in Job
  BY <1>0, AtWork
<1>2. PICK r, t, s : r = job[h].run /\ t = job[h].task /\ s = job[h].stage
  OBVIOUS
<1>3. ASSUME NEW x, NEW n, NEW from \in {"running", "recovering"} \cup EndStatus,
             NEW to, TaskIs(t, x, n, from), SetTask(t, to),
             <<from, to>> \in {<<"running", "failed">>,
                               <<"running", "recovering">>,
                               <<"recovering", "running">>,
                               <<"recovering", "failed">>,
                               <<"recovering", "decomposed">>}
                              \cup (EndStatus \X {"deleted"})
      PROVE  Abstract!Next
  BY <1>0, <1>3, StatusMoves, RunEndsOrWaits
<1>4. CASE SetRecovering(h)
  <2>1. job[h].pc = "recover_task" /\ SetTask(t, "recovering")
    BY <1>2, <1>4 DEF SetRecovering, At
  <2>2. TaskIs(t, r, s, "running")
    BY <1>1, <1>2, <2>1 DEF WorkOK, HeldFor, Held, PointOK, StatusFor
  <2>. QED BY <1>3, <2>1, <2>2
<1>5. CASE AbortTask(h)
  <2>1. job[h].pc = "abort_task" /\ SetTask(t, "failed")
    BY <1>2, <1>5 DEF AbortTask, At
  <2>2. CASE Held(r, t, s, "recovering")
    BY <1>3, <2>1, <2>2 DEF Held
  <2>3. CASE Late(job[h])
    <3>1. UNCHANGED tasks
      BY <1>2, <2>1, <2>3, ConstantsOK DEF Late, SetTask, LiveTask, TaskId, None,
         MaxTasks
    <3>. QED BY <3>1, ViewUnchanged
  <2>. QED BY <1>1, <1>2, <2>1, <2>2, <2>3 DEF WorkOK
<1>6. CASE RetryTask(h)
  <2>1. job[h].pc = "retry_task" /\ SetTask(t, "running")
    BY <1>2, <1>6 DEF RetryTask, At
  <2>2. TaskIs(t, r, s, "recovering")
    BY <1>1, <1>2, <2>1 DEF WorkOK, Moving
  <2>. QED BY <1>3, <2>1, <2>2
<1>7. CASE DecomposeTask(h)
  <2>1. job[h].pc = "decompose_task" /\ SetTask(t, "decomposed")
    BY <1>2, <1>7 DEF DecomposeTask, At
  <2>2. TaskIs(t, r, s, "recovering")
    BY <1>1, <1>2, <2>1 DEF WorkOK, HeldFor, Held, StatusFor
  <2>. QED BY <1>3, <2>1, <2>2
<1>8. CASE DeleteAbort(h)
  <2>1. job[h].pc = "delete_abort" /\ SetTask(t, "failed")
    BY <1>2, <1>8 DEF DeleteAbort, At
  <2>2. /\ job[h].kind = "delete" /\ t # None
        /\ tasks[t].status \in {"running", "recovering"}
    BY <1>1, <1>2, <2>1 DEF WorkOK, PointOK
  <2>3. PICK x, n, old : /\ x = WorksOn(job[h]) /\ n = tasks[t].stage
                         /\ old = tasks[t].status
    OBVIOUS
  <2>4. TaskIs(t, x, n, old)
    BY <1>0, <1>2, <2>2, <2>3, Deleted
  <2>. QED BY <1>3, <2>1, <2>2, <2>3, <2>4
<1>9. CASE DeleteOneTask(h)
  <2>1. job[h].pc = "delete_tasks" /\ \E u \in Oldest(job[h].doomed) :
                                        SetTask(u, "deleted")
    BY <1>9 DEF DeleteOneTask, At
  <2>2. /\ job[h].kind = "delete" /\ t # None /\ tasks[t].status \in EndStatus
        /\ job[h].doomed = {t}
    BY <1>1, <1>2, <2>1 DEF WorkOK, PointOK
  <2>3. SetTask(t, "deleted")
    BY <2>1, <2>2 DEF Oldest
  <2>4. PICK x, n, old : /\ x = WorksOn(job[h]) /\ n = tasks[t].stage
                         /\ old = tasks[t].status
    OBVIOUS
  <2>5. TaskIs(t, x, n, old)
    BY <1>0, <1>2, <2>2, <2>4, Deleted
  <2>. QED BY <1>3, <2>2, <2>3, <2>4, <2>5
<1>. QED BY <1>4, <1>5, <1>6, <1>7, <1>8, <1>9

LEMMA RunTimesOut ==
  ASSUME StageInv, SerialInv, ViewOK', MonitorFail
  PROVE  Abstract!Next
<1>1. monitor.pc = "fail" /\ ntasks' = ntasks /\ SetTask(monitor.task, "failed")
  BY DEF MonitorFail
<1>2. PICK t \in 1 .. ntasks :
        /\ Held(rows[monitor.row].run, t, tasks[t].stage, "running")
        /\ monitor.task = t
  BY <1>1, InMonitorsHand
<1>3. PICK r, s : r = rows[monitor.row].run /\ s = tasks[t].stage
  OBVIOUS
<1>4. TaskIs(t, r, s, "running")
  BY <1>2, <1>3 DEF Held
<1>5. Moves(r, "running", "failed", s, s)
  BY <1>1, <1>2, <1>4, StatusMoves
<1>. QED BY <1>5, RunEndsOrWaits

LEMMA RunStep ==
  ASSUME Serial
  PROVE  StageInv /\ SerialInv /\ ViewOK' /\ [Next]_vars
           => Abstract!Next \/ UNCHANGED RunView
<1>1. SUFFICES ASSUME StageInv, SerialInv, ViewOK', [Next]_vars
      PROVE  Abstract!Next \/ UNCHANGED RunView
  OBVIOUS
<1>2. ASSUME NEW h \in Handlers, HandlerStep(h)
      PROVE  Abstract!Next \/ UNCHANGED RunView
  <2>1. CASE StartTask(h) \/ AdvanceTask(h) \/ FinishTask(h)
    BY <1>1, <2>1, RunStarts, RunAdvances, RunFinishes
  <2>2. CASE \/ SetRecovering(h) \/ AbortTask(h) \/ RetryTask(h)
             \/ DecomposeTask(h) \/ DeleteAbort(h) \/ DeleteOneTask(h)
    BY <1>1, <2>2, RunChanges
  <2>3. CASE CreateSubtask(h)
    BY <2>3 DEF CreateSubtask, Serial
  <2>4. CASE \/ RecordResult(h) \/ LookUpTask(h) \/ AskRecovery(h)
             \/ WithdrawRequest(h) \/ SubtasksCreated(h) \/ AdvanceRow(h)
    <3>1. UNCHANGED tasks
      BY <2>4 DEF RecordResult, LookUpTask, AskRecovery, WithdrawRequest,
         SubtasksCreated, AdvanceRow, database
    <3>. QED BY <3>1, ViewUnchanged
  <2>5. CASE \/ LookUpStage(h) \/ CheckRetries(h) \/ FindRetryRow(h)
             \/ RetryRow(h) \/ LookUpDecomposed(h)
    <3>1. UNCHANGED tasks
      BY <2>5, Zenon DEF LookUpStage, CheckRetries, FindRetryRow, RetryRow,
         LookUpDecomposed, database
    <3>. QED BY <3>1, ViewUnchanged
  <2>6. CASE DeleteCollect(h) \/ DeleteRows(h)
    <3>1. UNCHANGED tasks
      BY <2>6, Zenon DEF DeleteCollect, DeleteRows, database
    <3>. QED BY <3>1, ViewUnchanged
  <2>. QED BY <1>2, <2>1, <2>2, <2>3, <2>4, <2>5, <2>6 DEF HandlerStep
<1>3. ASSUME NEW h \in Handlers,
             \/ StartRun(h) \/ ReceiveResult(h) \/ ReceiveRecovery(h)
             \/ ReceiveDecomposition(h) \/ BeginDelete(h)
      PROVE  UNCHANGED RunView
  <2>1. UNCHANGED tasks
    BY <1>3, Zenon DEF StartRun, ReceiveResult, ReceiveRecovery,
       ReceiveDecomposition, BeginDelete, database
  <2>. QED BY <2>1, ViewUnchanged
<1>4. CASE MonitorFail
  BY <1>1, <1>4, RunTimesOut
<1>5. CASE MonitorScan \/ MonitorMark \/ MonitorLookup
  <2>1. UNCHANGED tasks
    BY <1>5 DEF MonitorScan, MonitorMark, MonitorLookup, database
  <2>. QED BY <2>1, ViewUnchanged
<1>6. CASE (\E i \in RowId : GrowStale(i)) \/ UNCHANGED vars
  <2>1. UNCHANGED tasks
    BY <1>6 DEF GrowStale, vars
  <2>. QED BY <2>1, ViewUnchanged
<1>7. ~RequestDecomposition /\ ~Crash /\ \A h \in Handlers : ~DbError(h)
  BY <1>1, SerialNoDecomposition DEF Crash, DbError, Serial
<1>. QED BY <1>1, <1>2, <1>3, <1>4, <1>5, <1>6, <1>7 DEF Next, MonitorStep

\* One event at a time, whatever the agents answer and whenever stages time
\* out, tasks are deleted or emissions fail, what the task of a run shows
\* follows PipelineRun: the stages in order, a failure tried again, skipped in
\* the last two stages only, decomposed or given up, and an end that stays
\* (start_run, on_stage_result, on_recovery_response, abort_pipeline,
\* timeout_monitor and delete_task_cascade together).
THEOREM CoordinatorImplementsRun ==
  ASSUME Serial
  PROVE  Spec => ImplementsRun
<1>1. Init => Abstract!Init
  <2>1. SUFFICES ASSUME Init
        PROVE  Abstract!Init
    OBVIOUS
  <2>2. \A r : MainTask(r) = {}
    BY <2>1 DEF Init, MainTask
  <2>. QED BY <2>2 DEF Abstract!Init, RunView, Abstract!NoStage, NoStage
<1>2. StageInv /\ SerialInv /\ ViewOK' /\ [Next]_vars => [Abstract!Next]_RunView
  BY RunStep
<1>. QED BY <1>1, <1>2, ViewIs, StageInvariant, SerialInvariant, PTL
     DEF Spec, ImplementsRun, Abstract!Spec

-----------------------------------------------------------------------------
(* Deletions, when events do not overlap and king does not stop: subtasks, *)
(* decompositions and errors of the database included.                     *)

OneByOne == World \cap {"overlap", "crash"} = {}

HasTask(r) == \E t \in 1 .. ntasks : /\ tasks[t].run = r
                                     /\ tasks[t].status \notin Gone
Dead(r)    == /\ \E t \in 1 .. ntasks : /\ tasks[t].run = r
                                        /\ tasks[t].status = "deleted"
              /\ ~HasTask(r)
Swept(r)   == \A i \in 1 .. nrows : rows[i].run = r
                                      => rows[i].status = "deleted"

\* A handler that deletes the tasks of run r and will delete its rows.
Sweeps(j, r) == j.pc \in {"delete_tasks", "delete_rows"} /\ j.run = r

\* A run has its first row before it has a task, and a subtask is of the run
\* of its parent.
FamilyOK ==
  \A t \in 1 .. ntasks :
    /\ HasRow(tasks[t].run, Learning)
    /\ tasks[t].parent # None =>
         /\ tasks[t].parent \in 1 .. ntasks
         /\ tasks[tasks[t].parent].run = tasks[t].run

\* A handler that may insert a row has a run that is not dead, and one that
\* deletes collects tasks of one run.
SweepPoint(j) ==
  /\ j.kind = "result" \/ j.pc = "advance_row" => ~Dead(j.run)
  /\ j.pc \in {"delete_abort", "delete_collect"} => LiveTask(j.task)
  /\ j.pc = "delete_tasks"
       => \A u \in j.doomed : u \in 1 .. ntasks /\ tasks[u].run = j.run

SweepInv ==
  /\ Alone
  /\ FamilyOK
  /\ \A r \in RunId : Dead(r) =>
       Swept(r) \/ \E h \in Handlers : Sweeps(job[h], r)
  /\ \A h \in Handlers : SweepPoint(job[h])

LEMMA TableFacts ==
  ASSUME StageInv
  PROVE  /\ TypeOK /\ nrows \in Nat /\ ntasks \in Nat
         /\ rows \in [RowId -> Row] /\ tasks \in [TaskId -> Task]
         /\ job \in [Handlers -> Job]
         /\ \A i \in 1 .. nrows : /\ i \in RowId /\ rows[i].run \in RunId
                                  /\ rows[i].status # "absent"
         /\ \A t \in 1 .. ntasks : /\ t \in TaskId /\ tasks[t].run \in RunId
                                   /\ tasks[t].status # "absent"
         /\ \A i \in RowId : rows[i].status # "absent" => i \in 1 .. nrows
         /\ \A t \in TaskId : tasks[t].status # "absent" => t \in 1 .. ntasks
         /\ \A h \in Handlers : JobOK(job[h]) /\ PointOK(job[h]) /\ job[h] \in Job
<1>1. TypeOK /\ RowsOK /\ TasksOK
  BY DEF StageInv
<1>2. \A i \in RowId : rows[i].status # "absent" => i \in 1 .. nrows
  BY <1>1, ConstantsOK DEF RowsOK, RowOK, RowId, TypeOK
<1>3. \A t \in TaskId : tasks[t].status # "absent" => t \in 1 .. ntasks
  BY <1>1, ConstantsOK DEF TasksOK, TaskOK, TaskId, MaxTasks, TypeOK
<1>4. \A i \in 1 .. nrows : /\ i \in RowId /\ rows[i].run \in RunId
                            /\ rows[i].status # "absent"
  BY <1>1, ConstantsOK DEF RowsOK, RowOK, RowId, TypeOK
<1>5. \A t \in 1 .. ntasks : /\ t \in TaskId /\ tasks[t].run \in RunId
                             /\ tasks[t].status # "absent"
  BY <1>1, ConstantsOK DEF TasksOK, TaskOK, TaskId, MaxTasks, TypeOK
<1>6. \A h \in Handlers : JobOK(job[h]) /\ PointOK(job[h]) /\ job[h] \in Job
  BY <1>1 DEF StageInv, JobsOK, JobOK, TypeOK
<1>. QED BY <1>1, <1>2, <1>3, <1>4, <1>5, <1>6 DEF TypeOK

\* What a step does to the tasks, new ones included, but for a deletion.
TasksStand ==
  /\ ntasks <= ntasks' /\ ntasks' \in Nat
  /\ \A t \in 1 .. ntasks : /\ tasks'[t].run = tasks[t].run
                            /\ tasks'[t].parent = tasks[t].parent
  /\ \A t \in 1 .. ntasks' : t \notin 1 .. ntasks =>
       /\ HasRow(tasks'[t].run, Learning)
       /\ tasks'[t].parent # None =>
            /\ tasks'[t].parent \in 1 .. ntasks
            /\ tasks[tasks'[t].parent].run = tasks'[t].run

LivesStand ==
  /\ \A t \in 1 .. ntasks : tasks'[t].status \in Gone
                              <=> tasks[t].status \in Gone
  /\ \A t \in 1 .. ntasks' : t \notin 1 .. ntasks => tasks'[t].status \notin Gone

\* What a step does to the rows: none comes back, new ones are of live runs.
RowsStand ==
  /\ nrows <= nrows' /\ nrows' \in Nat
  /\ \A i \in 1 .. nrows : /\ rows'[i].run = rows[i].run
                           /\ rows'[i].stage = rows[i].stage
                           /\ rows[i].status = "deleted"
                                => rows'[i].status = "deleted"
  /\ \A i \in 1 .. nrows' : i \notin 1 .. nrows => ~Dead(rows'[i].run)

LEMMA SameStands ==
  ASSUME StageInv
  PROVE  /\ UNCHANGED <<tasks, ntasks>> => TasksStand /\ LivesStand
         /\ UNCHANGED <<rows, nrows>> => RowsStand
BY TableFacts DEF TasksStand, LivesStand, RowsStand

LEMMA SetTaskStands ==
  ASSUME StageInv, NEW t, NEW status, SetTask(t, status), ntasks' = ntasks
  PROVE  /\ TasksStand
         /\ status \notin Gone => LivesStand
<1>1. \A u \in TaskId : /\ tasks'[u].run = tasks[u].run
                        /\ tasks'[u].parent = tasks[u].parent
                        /\ status \notin Gone =>
                             (tasks'[u].status \in Gone <=> tasks[u].status \in Gone)
  BY TableFacts DEF SetTask, LiveTask, Task
<1>. QED BY <1>1, TableFacts DEF TasksStand, LivesStand

LEMMA InsertTaskStands ==
  ASSUME StageInv, NEW r, NEW status \in TaskStatus \ Gone, NEW s, NEW p,
         InsertTask(r, status, s, p), HasRow(r, Learning),
         p # None => p \in 1 .. ntasks /\ tasks[p].run = r
  PROVE  TasksStand /\ LivesStand
<1>1. ntasks' = ntasks + 1 /\ ntasks \in Nat /\ ntasks + 1 \in TaskId
  BY TableFacts, ConstantsOK DEF InsertTask, TaskId, MaxTasks
<1>2. /\ tasks'[ntasks + 1] = [run |-> r, stage |-> s, status |-> status,
                               parent |-> p]
      /\ \A t \in 1 .. ntasks : tasks'[t] = tasks[t]
  BY <1>1, TableFacts DEF InsertTask
<1>3. \A t \in 1 .. ntasks' : t \notin 1 .. ntasks => t = ntasks + 1
  BY <1>1
<1>4. LivesStand
  BY <1>1, <1>2, <1>3 DEF LivesStand
<1>5. TasksStand
  BY <1>1, <1>2, <1>3 DEF TasksStand
<1>. QED BY <1>4, <1>5

\* A run that is dead after such a step was dead before it.
LEMMA DeadBefore ==
  ASSUME StageInv, TasksStand, LivesStand, NEW r, Dead(r)'
  PROVE  Dead(r)
<1>1. PICK t \in 1 .. ntasks' : tasks'[t].run = r /\ tasks'[t].status = "deleted"
  BY DEF Dead
<1>2. t \in 1 .. ntasks /\ tasks[t].status \in Gone /\ tasks[t].run = r
  BY <1>1 DEF LivesStand, TasksStand, Gone
<1>3. tasks[t].status = "deleted"
  BY <1>2, TableFacts DEF Gone
<1>4. ~HasTask(r)
  <2>1. SUFFICES ASSUME NEW u \in 1 .. ntasks, tasks[u].run = r,
                        tasks[u].status \notin Gone
        PROVE  FALSE
    BY DEF HasTask
  <2>2. u \in 1 .. ntasks' /\ tasks'[u].run = r /\ tasks'[u].status \notin Gone
    BY <2>1, TableFacts DEF TasksStand, LivesStand
  <2>. QED BY <2>2 DEF Dead, HasTask
<1>. QED BY <1>2, <1>3, <1>4 DEF Dead

LEMMA SweptStays ==
  ASSUME RowsStand, NEW r, Dead(r), Swept(r)
  PROVE  Swept(r)'
<1>1. SUFFICES ASSUME NEW i \in 1 .. nrows', rows'[i].run = r
      PROVE  rows'[i].status = "deleted"
  BY DEF Swept
<1>2. i \in 1 .. nrows
  BY <1>1 DEF RowsStand
<1>. QED BY <1>1, <1>2 DEF RowsStand, Swept

LEMMA FamilyStays ==
  ASSUME StageInv, StageInv', FamilyOK, TasksStand, RowsStand
  PROVE  FamilyOK'
<1>1. ASSUME NEW r, HasRow(r, Learning)
      PROVE  HasRow(r, Learning)'
  BY <1>1, TableFacts DEF HasRow, RowsStand
<1>2. SUFFICES ASSUME NEW t \in 1 .. ntasks'
      PROVE  /\ HasRow(tasks[t].run, Learning)'
             /\ tasks'[t].parent # None =>
                  /\ tasks'[t].parent \in 1 .. ntasks'
                  /\ tasks'[tasks'[t].parent].run = tasks'[t].run
  BY DEF FamilyOK
<1>3. PICK r, p : r = tasks'[t].run /\ p = tasks'[t].parent
  OBVIOUS
<1>4. HasRow(r, Learning)
  BY <1>3 DEF FamilyOK, TasksStand
<1>5. HasRow(r, Learning)'
  BY <1>1, <1>4
<1>6. p # None => p \in 1 .. ntasks /\ tasks[p].run = r
  <2>1. CASE t \in 1 .. ntasks
    <3>1. p = tasks[t].parent /\ r = tasks[t].run
      BY <1>3, <2>1 DEF TasksStand
    <3>. QED BY <2>1, <3>1 DEF FamilyOK
  <2>2. CASE t \notin 1 .. ntasks
    BY <1>3, <2>2 DEF TasksStand
  <2>. QED BY <2>1, <2>2
<1>7. p # None => p \in 1 .. ntasks' /\ tasks'[p].run = r
  BY <1>6, TableFacts DEF TasksStand
<1>8. HasRow(tasks[t].run, Learning)'
  BY <1>3, <1>5 DEF HasRow
<1>. QED BY <1>3, <1>7, <1>8

\* A row that is written is there or stays deleted.
LEMMA SetRowStands ==
  ASSUME StageInv, NEW i, NEW status, SetRow(i, status), nrows' = nrows
  PROVE  RowsStand
<1>1. \A k \in RowId : /\ rows'[k].run = rows[k].run
                       /\ rows'[k].stage = rows[k].stage
                       /\ rows[k].status = "deleted"
                            => rows'[k].status = "deleted"
  BY TableFacts DEF SetRow, LiveRow, Gone, Row
<1>. QED BY <1>1, TableFacts DEF RowsStand

LEMMA InsertRowStands ==
  ASSUME StageInv, NEW r, NEW s, InsertRow(r, s), ~Dead(r)
  PROVE  RowsStand
<1>1. nrows' = nrows + 1 /\ nrows \in Nat /\ nrows + 1 \in RowId
  BY TableFacts, ConstantsOK DEF InsertRow, RowId
<1>2. /\ rows'[nrows + 1].run = r
      /\ \A i \in 1 .. nrows : rows'[i] = rows[i]
  BY <1>1, TableFacts DEF InsertRow
<1>3. \A i \in 1 .. nrows' : i \notin 1 .. nrows => i = nrows + 1
  BY <1>1
<1>. QED BY <1>1, <1>2, <1>3 DEF RowsStand

LEMMA RowsStandStep ==
  ASSUME StageInv, SweepInv, OneByOne, [Next]_vars
  PROVE  RowsStand
<1>0. /\ rows \in [RowId -> Row] /\ nrows \in Nat
      /\ \A i \in 1 .. nrows : i \in RowId
  BY TableFacts
<1>1. CASE UNCHANGED <<rows, nrows>>
  BY <1>1, SameStands
<1>2. ASSUME NEW h \in Handlers, HandlerStep(h)
      PROVE  RowsStand
  <2>1. CASE RecordResult(h)
    BY <2>1, SetRowStands DEF RecordResult
  <2>2. CASE RetryRow(h)
    <3>1. PICK i : rows' = IF ~LiveRow(i) THEN rows
                           ELSE [rows EXCEPT ![i].status = "running",
                                             ![i].retry = @ + 1,
                                             ![i].stale = FALSE]
      BY <2>2 DEF RetryRow
    <3>2. \A k \in RowId : /\ rows'[k].run = rows[k].run
                           /\ rows'[k].stage = rows[k].stage
                           /\ rows[k].status = "deleted"
                                => rows'[k].status = "deleted"
      BY <1>0, <3>1 DEF LiveRow, Gone, Row
    <3>3. nrows' = nrows
      BY Zenon, <2>2 DEF RetryRow
    <3>. QED BY <1>0, <3>2, <3>3 DEF RowsStand
  <2>3. CASE DeleteRows(h)
    <3>1. /\ rows' = [i \in RowId |->
                        IF LiveRow(i) /\ rows[i].run = job[h].run
                        THEN [rows[i] EXCEPT !.status = "deleted", !.stale = FALSE]
                        ELSE rows[i]]
          /\ nrows' = nrows
      BY Zenon, <2>3 DEF DeleteRows
    <3>2. \A k \in RowId : /\ rows'[k].run = rows[k].run
                           /\ rows'[k].stage = rows[k].stage
                           /\ rows[k].status = "deleted"
                                => rows'[k].status = "deleted"
      <4>1. SUFFICES ASSUME NEW k \in RowId
            PROVE  /\ rows'[k].run = rows[k].run
                   /\ rows'[k].stage = rows[k].stage
                   /\ rows[k].status = "deleted" => rows'[k].status = "deleted"
        OBVIOUS
      <4>2. rows[k] \in Row
        BY <1>0
      <4>3. CASE LiveRow(k) /\ rows[k].run = job[h].run
        <5>1. rows'[k] = [rows[k] EXCEPT !.status = "deleted", !.stale = FALSE]
          BY Zenon, <3>1, <4>3
        <5>. QED BY <4>2, <5>1 DEF Row
      <4>4. CASE ~(LiveRow(k) /\ rows[k].run = job[h].run)
        <5>1. rows'[k] = rows[k]
          BY Zenon, <3>1, <4>4
        <5>. QED BY <5>1
      <4>. QED BY <4>3, <4>4
    <3>3. nrows' = nrows
      BY Zenon, <3>1
    <3>. QED BY <1>0, <3>2, <3>3 DEF RowsStand
  <2>4. CASE AdvanceRow(h)
    <3>1. ~Dead(job[h].run)
      BY <2>4 DEF AdvanceRow, At, SweepInv, SweepPoint
    <3>. QED BY <2>4, <3>1, InsertRowStands DEF AdvanceRow
  <2>5. CASE ~RecordResult(h) /\ ~RetryRow(h) /\ ~DeleteRows(h) /\ ~AdvanceRow(h)
    BY <1>1, <1>2, <2>5 DEF HandlerStep, database, StartTask, LookUpTask,
       SetRecovering, AskRecovery, WithdrawRequest, AbortTask, CreateSubtask,
       SubtasksCreated, AdvanceTask, FinishTask, LookUpStage,
       CheckRetries, FindRetryRow, RetryTask, LookUpDecomposed, DecomposeTask,
       DeleteAbort, DeleteCollect, DeleteOneTask
  <2>. QED BY <2>1, <2>2, <2>3, <2>4, <2>5
<1>3. ASSUME NEW h \in Handlers, Event(h)
      PROVE  RowsStand
  <2>1. CASE StartRun(h)
    <3>1. PICK r \in RunId : /\ \A i \in RowId : rows[i].run # r
                             /\ InsertRow(r, Learning)
      BY <2>1 DEF StartRun
    <3>2. ~HasRow(r, Learning)
      BY <1>0, <3>1 DEF HasRow
    <3>3. ~Dead(r)
      BY <3>2 DEF Dead, SweepInv, FamilyOK
    <3>. QED BY <3>1, <3>3, InsertRowStands
  <2>2. CASE ~StartRun(h)
    BY <1>1, <1>3, <2>2 DEF Event, ReceiveResult, ReceiveRecovery,
       ReceiveDecomposition, BeginDelete, database
  <2>. QED BY <2>1, <2>2
<1>4. CASE MonitorStep
  <2>1. CASE MonitorMark
    BY <2>1, SetRowStands DEF MonitorMark
  <2>2. CASE ~MonitorMark
    BY <1>1, <1>4, <2>2 DEF MonitorStep, MonitorScan, MonitorLookup,
                            MonitorFail, database
  <2>. QED BY <2>1, <2>2
<1>5. ASSUME NEW i \in RowId, GrowStale(i)
      PROVE  RowsStand
  <2>1. \A k \in RowId : /\ rows'[k].run = rows[k].run
                         /\ rows'[k].stage = rows[k].stage
                         /\ rows'[k].status = rows[k].status
    BY <1>0, <1>5 DEF GrowStale, Row
  <2>2. nrows' = nrows
    BY <1>5 DEF GrowStale
  <2>. QED BY <1>0, <2>1, <2>2 DEF RowsStand
<1>6. CASE RequestDecomposition \/ Crash \/ (\E h \in Handlers : DbError(h))
             \/ UNCHANGED vars
  BY <1>1, <1>6 DEF RequestDecomposition, Crash, DbError, vars, database
<1>. QED BY <1>2, <1>3, <1>4, <1>5, <1>6 DEF Next, Event

\* Only a deletion takes a task away.
LEMMA TasksStandStep ==
  ASSUME StageInv, SweepInv, OneByOne, [Next]_vars
  PROVE  /\ TasksStand
         /\ (\A h \in Handlers : ~DeleteOneTask(h)) => LivesStand
<1>. DEFINE Stand == TasksStand /\ LivesStand
<1>1. CASE UNCHANGED <<tasks, ntasks>>
  BY <1>1, SameStands
<1>2. ASSUME NEW h \in Handlers, HandlerStep(h)
      PROVE  /\ TasksStand
             /\ ~DeleteOneTask(h) => LivesStand
  <2>1. CASE StartTask(h)
    <3>1. InsertTask(job[h].run, "running", Learning, None)
      BY <2>1 DEF StartTask
    <3>2. HasRow(job[h].run, Learning)
      <4>1. JobOK(job[h])
        BY TableFacts
      <4>. QED BY <2>1, <4>1 DEF StartTask, At, JobOK, PointOK, Stages,
                                 NoStage, Learning
    <3>. QED BY <3>1, <3>2, InsertTaskStands DEF TaskStatus, Gone
  <2>2. CASE CreateSubtask(h)
    <3>1. /\ InsertTask(job[h].run, "pending", NoStage, job[h].task)
          /\ job[h].pc = "subtasks"
      BY <2>2 DEF CreateSubtask, At
    <3>2. JobOK(job[h]) /\ PointOK(job[h]) /\ ntasks \in Nat /\ job[h] \in Job
      BY TableFacts
    <3>3. job[h].task \in 1 .. ntasks /\ tasks[job[h].task].run = job[h].run
      BY <3>1, <3>2 DEF JobOK, PointOK, TaskIsOf, Job, TaskId, None
    <3>4. HasRow(job[h].run, Learning)
      BY <3>3 DEF SweepInv, FamilyOK
    <3>. QED BY <3>1, <3>3, <3>4, InsertTaskStands DEF TaskStatus, Gone
  <2>3. CASE AdvanceTask(h)
    <3>1. PICK t, status, s :
            /\ LiveTask(t) => status \notin Gone
            /\ tasks' = IF ~LiveTask(t) THEN tasks
                        ELSE [tasks EXCEPT ![t] =
                                [@ EXCEPT !.stage = s, !.status = status]]
      <4>1. PICK status : status = IF job[h].kind = "recovery" THEN "running"
                                   ELSE tasks[job[h].task].status
        OBVIOUS
      <4>2. LiveTask(job[h].task) => status \notin Gone
        BY <4>1 DEF LiveTask, Gone
      <4>. QED BY <2>3, <4>1, <4>2 DEF AdvanceTask
    <3>2. tasks \in [TaskId -> Task]
      BY TableFacts
    <3>3. \A u \in TaskId : /\ tasks'[u].run = tasks[u].run
                            /\ tasks'[u].parent = tasks[u].parent
                            /\ tasks'[u].status \in Gone <=> tasks[u].status \in Gone
      BY <3>1, <3>2 DEF LiveTask, Task
    <3>4. ntasks' = ntasks
      BY <2>3 DEF AdvanceTask
    <3>. QED BY <3>3, <3>4, TableFacts DEF TasksStand, LivesStand
  <2>4. CASE SetRecovering(h) \/ AbortTask(h) \/ FinishTask(h) \/ RetryTask(h)
               \/ DecomposeTask(h) \/ DeleteAbort(h)
    <3>1. PICK status \in {"recovering", "failed", "completed", "running",
                           "decomposed"} : SetTask(job[h].task, status)
      BY <2>4 DEF SetRecovering, AbortTask, FinishTask, RetryTask,
                  DecomposeTask, DeleteAbort
    <3>2. ntasks' = ntasks
      BY <2>4 DEF SetRecovering, AbortTask, FinishTask, RetryTask,
                  DecomposeTask, DeleteAbort
    <3>3. status \notin Gone
      BY DEF Gone
    <3>. QED BY <3>1, <3>2, <3>3, SetTaskStands
  <2>5. CASE DeleteOneTask(h)
    <3>1. PICK u : SetTask(u, "deleted")
      BY Zenon, <2>5 DEF DeleteOneTask
    <3>2. ntasks' = ntasks
      BY Zenon, <2>5 DEF DeleteOneTask
    <3>. QED BY <2>5, <3>1, <3>2, SetTaskStands
  <2>6. CASE /\ ~StartTask(h) /\ ~AdvanceTask(h) /\ ~SetRecovering(h)
             /\ ~AbortTask(h) /\ ~FinishTask(h) /\ ~RetryTask(h)
             /\ ~DecomposeTask(h) /\ ~DeleteAbort(h) /\ ~DeleteOneTask(h)
             /\ ~CreateSubtask(h)
    BY SameStands, <1>2, <2>6 DEF HandlerStep, database, RecordResult, LookUpTask,
       AskRecovery, WithdrawRequest, SubtasksCreated, AdvanceRow, LookUpStage,
       CheckRetries, FindRetryRow, RetryRow, LookUpDecomposed, DeleteCollect,
       DeleteRows
  <2>. QED BY <2>1, <2>2, <2>3, <2>4, <2>5, <2>6
<1>3. ASSUME NEW h \in Handlers, Event(h)
      PROVE  Stand
  BY <1>1, <1>3, SameStands DEF Event, StartRun, ReceiveResult, ReceiveRecovery,
     ReceiveDecomposition, BeginDelete, database
<1>4. CASE MonitorStep
  <2>1. UNCHANGED ntasks /\ (UNCHANGED tasks \/ SetTask(monitor.task, "failed"))
    BY <1>4 DEF MonitorStep, MonitorScan, MonitorMark, MonitorLookup,
                MonitorFail, database
  <2>2. "failed" \notin Gone
    BY DEF Gone
  <2>. QED BY <1>1, <2>1, <2>2, SetTaskStands
<1>5. CASE RequestDecomposition \/ Crash \/ (\E h \in Handlers : DbError(h))
             \/ (\E i \in RowId : GrowStale(i)) \/ UNCHANGED vars
  BY <1>1, <1>5 DEF RequestDecomposition, Crash, DbError, GrowStale, vars, database
<1>. QED BY <1>2, <1>3, <1>4, <1>5 DEF Next, Event

\* What a handler knows of deletions stays true while others run.
LEMMA PointStays ==
  ASSUME StageInv, TasksStand, LivesStand, NEW j, SweepPoint(j)
  PROVE  SweepPoint(j)'
<1>1. ASSUME j.kind = "result" \/ j.pc = "advance_row"
      PROVE  ~Dead(j.run)'
  BY <1>1, DeadBefore DEF SweepPoint
<1>2. ASSUME j.pc \in {"delete_abort", "delete_collect"}
      PROVE  LiveTask(j.task)'
  <2>1. LiveTask(j.task)
    BY <1>2 DEF SweepPoint
  <2>2. j.task \in 1 .. ntasks
    BY <2>1, TableFacts DEF LiveTask, Gone
  <2>. QED BY <2>1, <2>2 DEF LivesStand, LiveTask
<1>3. ASSUME j.pc = "delete_tasks", NEW u \in j.doomed
      PROVE  u \in 1 .. ntasks' /\ tasks'[u].run = j.run
  BY <1>3, TableFacts DEF SweepPoint, TasksStand
<1>. QED BY <1>1, <1>2, <1>3 DEF SweepPoint

\* A handler moves within its run, and not into a deletion.
LEMMA PointMoves ==
  ASSUME NEW j, NEW k, SweepPoint(j), k.kind = j.kind, k.run = j.run,
         k.pc \notin {"delete_abort", "delete_collect", "delete_tasks"},
         k.pc = "advance_row" => j.kind = "result"
  PROVE  SweepPoint(k)
BY DEF SweepPoint

LEMMA IdlePoint == SweepPoint(Idle)
BY DEF SweepPoint, Idle

\* The handler that moves knows what it should at its new point.
Moved(h) == \E j : job' = [job EXCEPT ![h] = j] /\ SweepPoint(j)

LEMMA GotoMoved ==
  ASSUME StageInv, SweepInv, NEW h \in Handlers, NEW p, Goto(h, p),
         p \notin {"delete_abort", "delete_collect", "delete_tasks"},
         p = "advance_row" => job[h].kind = "result"
  PROVE  Moved(h)
<1>1. job[h] \in Job /\ SweepPoint(job[h])
  BY TableFacts DEF SweepInv
<1>2. PICK k : k = [job[h] EXCEPT !.pc = p]
  OBVIOUS
<1>3. k.kind = job[h].kind /\ k.run = job[h].run /\ k.pc = p
  BY <1>1, <1>2 DEF Job
<1>4. SweepPoint(k)
  <2>1. PICK j : j = job[h]
    OBVIOUS
  <2>. QED BY <1>1, <1>3, <2>1, PointMoves
<1>5. job' = [job EXCEPT ![h] = k]
  BY <1>2 DEF Goto
<1>. QED BY <1>4, <1>5 DEF Moved

LEMMA LookUpTaskMoved ==
  ASSUME StageInv, SweepInv, NEW h \in Handlers, LookUpTask(h)
  PROVE  Moved(h)
<1>1. PICK t \in TaskOfRun(job[h].run) :
        \E point \in AfterResult(job[h].said, job[h].stage, t) :
          IF point = "idle" THEN Return(h)
          ELSE job' = [job EXCEPT ![h] = [@ EXCEPT !.pc = point, !.task = t]]
  BY DEF LookUpTask
<1>2. PICK point \in AfterResult(job[h].said, job[h].stage, t) :
        IF point = "idle" THEN Return(h)
        ELSE job' = [job EXCEPT ![h] = [@ EXCEPT !.pc = point, !.task = t]]
  BY <1>1
<1>3. point \in {"idle", "recover_task", "advance_row", "finish_task", "subtasks"}
  BY DEF AfterResult, Onward
<1>4. CASE point = "idle"
  BY <1>2, <1>4, IdlePoint DEF Moved, Return
<1>5. CASE point # "idle"
  <2>1. PICK k : k = [job[h] EXCEPT !.pc = point, !.task = t]
    OBVIOUS
  <2>2. /\ job[h] \in Job /\ SweepPoint(job[h])
        /\ job[h].kind = "result"
    BY TableFacts DEF SweepInv, LookUpTask, At, PointOK
  <2>3. k.kind = "result" /\ k.run = job[h].run /\ k.pc = point
    BY <2>1, <2>2 DEF Job
  <2>4. SweepPoint(k)
    BY <1>3, <2>2, <2>3 DEF SweepPoint
  <2>5. job' = [job EXCEPT ![h] = k]
    BY <1>2, <1>5, <2>1, TableFacts
  <2>. QED BY <2>4, <2>5 DEF Moved
<1>. QED BY <1>4, <1>5

LEMMA LookUpStageMoved ==
  ASSUME StageInv, SweepInv, NEW h \in Handlers, LookUpStage(h)
  PROVE  Moved(h)
<1>1. PICK t, s, point :
        /\ t = GetTask(job[h].task)
        /\ s = IF t = None THEN NoStage ELSE tasks[t].stage
        /\ point = AfterDecision(job[h].said, s, t)
  OBVIOUS
<1>2. /\ job[h].pc = "recovery_task"
      /\ IF point = "idle" THEN Return(h)
         ELSE job' = [job EXCEPT ![h] = [@ EXCEPT !.pc = point, !.task = t,
                                                  !.stage = s]]
  BY <1>1 DEF LookUpStage, At
<1>3. point \in {"idle", "retry_count", "subtasks", "advance_row",
                 "finish_task", "abort_task"}
  BY <1>1 DEF AfterDecision, Onward
<1>4. CASE point = "idle"
  BY <1>2, <1>4, IdlePoint DEF Moved, Return
<1>5. CASE point # "idle"
  <2>1. PICK k : k = [job[h] EXCEPT !.pc = point, !.task = t, !.stage = s]
    OBVIOUS
  <2>2. /\ job[h] \in Job /\ JobOK(job[h]) /\ job[h].kind = "recovery"
    BY <1>2, TableFacts DEF PointOK
  <2>3. k.kind = "recovery" /\ k.run = job[h].run /\ k.pc = point
    BY <2>1, <2>2 DEF Job
  <2>4. ASSUME point = "advance_row"
        PROVE  ~Dead(job[h].run)
    <3>1. s # NoStage
      <4>1. s \in Skippable
        BY <1>1, <2>4 DEF AfterDecision
      <4>. QED BY <4>1 DEF Skippable, Evaluation, SkillManage, NoStage
    <3>2. LiveTask(job[h].task)
      BY <1>1, <3>1 DEF GetTask
    <3>3. job[h].task \in 1 .. ntasks /\ job[h].task # None
      BY <3>2, TableFacts DEF LiveTask, Gone, TaskId, None
    <3>4. tasks[job[h].task].run = job[h].run
      BY <2>2, <3>3 DEF JobOK, TaskIsOf
    <3>. QED BY <3>2, <3>3, <3>4 DEF Dead, HasTask, LiveTask
  <2>5. SweepPoint(k)
    BY <1>3, <2>3, <2>4 DEF SweepPoint
  <2>6. job' = [job EXCEPT ![h] = k]
    BY <1>2, <1>5, <2>1, TableFacts
  <2>. QED BY <2>5, <2>6 DEF Moved
<1>. QED BY <1>4, <1>5

\* The ids collected are those of the task and of its subtasks, of one run.
LEMMA DeleteCollectMoved ==
  ASSUME StageInv, SweepInv, NEW h \in Handlers, DeleteCollect(h)
  PROVE  Moved(h)
<1>1. PICK t, subs :
        /\ t = job[h].task
        /\ subs = {u \in TaskId : LiveTask(u) /\ tasks[u].parent = t}
  OBVIOUS
<1>2. /\ job[h].pc = "delete_collect"
      /\ job' = [job EXCEPT ![h] =
                   [@ EXCEPT !.pc = "delete_tasks",
                             !.run = IF LiveTask(t) THEN tasks[t].run ELSE None,
                             !.doomed = {t} \cup subs]]
  BY Zenon, <1>1 DEF DeleteCollect, At
<1>3. /\ job[h] \in Job /\ job[h].kind = "delete" /\ t # None
  BY <1>1, <1>2, TableFacts DEF PointOK
<1>4. LiveTask(t)
  BY <1>1, <1>2 DEF SweepInv, SweepPoint
<1>5. t \in 1 .. ntasks
  BY <1>4, TableFacts DEF LiveTask, Gone
<1>6. ASSUME NEW u \in subs
      PROVE  u \in 1 .. ntasks /\ tasks[u].run = tasks[t].run
  <2>1. LiveTask(u) /\ tasks[u].parent = t
    BY <1>1
  <2>2. u \in 1 .. ntasks
    BY <2>1, TableFacts DEF LiveTask, Gone
  <2>. QED BY <1>3, <2>1, <2>2 DEF SweepInv, FamilyOK
<1>7. PICK k : k = [job[h] EXCEPT !.pc = "delete_tasks", !.run = tasks[t].run,
                                  !.doomed = {t} \cup subs]
  OBVIOUS
<1>8. /\ k.kind = "delete" /\ k.run = tasks[t].run /\ k.pc = "delete_tasks"
      /\ k.doomed = {t} \cup subs
  BY <1>3, <1>7 DEF Job
<1>9. SweepPoint(k)
  BY <1>5, <1>6, <1>8 DEF SweepPoint
<1>10. job' = [job EXCEPT ![h] = k]
  BY <1>2, <1>4, <1>7, TableFacts
<1>. QED BY <1>9, <1>10 DEF Moved

LEMMA HandlerMoved ==
  ASSUME StageInv, SweepInv, NEW h \in Handlers, HandlerStep(h), ~DeleteOneTask(h)
  PROVE  Moved(h)
<1>0. job \in [Handlers -> Job] /\ job[h] \in Job /\ SweepPoint(job[h])
      /\ PointOK(job[h])
  BY TableFacts DEF SweepInv
<1>1. CASE Return(h)
  BY <1>1, IdlePoint DEF Moved, Return
<1>2. CASE UNCHANGED job
  <2>1. job' = [job EXCEPT ![h] = job[h]]
    BY <1>0, <1>2
  <2>. QED BY <1>0, <2>1 DEF Moved
<1>3. CASE \E p \in {"result_task", "recover_ask", "abort_task", "advance_task",
                     "retry_find", "retry_task"} : Goto(h, p)
  BY <1>3, GotoMoved
<1>4. CASE SubtasksCreated(h)
  <2>1. PICK p : /\ p = IF job[h].kind = "result" THEN Onward(job[h].stage)
                                                  ELSE "decompose_task"
                 /\ Goto(h, p)
    BY <1>4 DEF SubtasksCreated
  <2>2. /\ p \in {"advance_row", "finish_task", "decompose_task"}
        /\ p = "advance_row" => job[h].kind = "result"
    BY <2>1 DEF Onward
  <2>. QED BY <2>1, <2>2, GotoMoved
<1>5. CASE AskRecovery(h)
  <2>1. PICK k : k = [job[h] EXCEPT !.pc = "emit_failed", !.req = nreqs + 1]
    OBVIOUS
  <2>2. k.kind = job[h].kind /\ k.run = job[h].run /\ k.pc = "emit_failed"
    BY <1>0, <2>1 DEF Job
  <2>3. SweepPoint(k)
    <3>1. PICK j : j = job[h]
      OBVIOUS
    <3>. QED BY <1>0, <2>2, <3>1, PointMoves
  <2>4. Return(h) \/ job' = [job EXCEPT ![h] = k]
    BY <1>0, <1>5, <2>1 DEF AskRecovery
  <2>. QED BY <1>1, <2>3, <2>4 DEF Moved
<1>6. CASE FindRetryRow(h)
  <2>1. CASE ~Return(h)
    <3>1. PICK i : job' = [job EXCEPT ![h] = [@ EXCEPT !.pc = "retry_row",
                                                       !.row = i]]
      BY Zenon, <1>6, <2>1 DEF FindRetryRow
    <3>2. PICK k : k = [job[h] EXCEPT !.pc = "retry_row", !.row = i]
      OBVIOUS
    <3>3. k.kind = job[h].kind /\ k.run = job[h].run /\ k.pc = "retry_row"
      BY <1>0, <3>2 DEF Job
    <3>4. SweepPoint(k)
      <4>1. PICK j : j = job[h]
        OBVIOUS
      <4>. QED BY <1>0, <3>3, <4>1, PointMoves
    <3>. QED BY <1>0, <3>1, <3>2, <3>4 DEF Moved
  <2>. QED BY <1>1, <2>1
<1>7. CASE LookUpDecomposed(h)
  <2>1. CASE ~Return(h)
    <3>1. PICK k : k = [job[h] EXCEPT !.pc = "subtasks",
                                      !.run = tasks[job[h].task].run]
      OBVIOUS
    <3>2. job[h].kind = "decompose"
      BY <1>0, <1>7 DEF LookUpDecomposed, At, PointOK
    <3>3. k.kind = "decompose" /\ k.pc = "subtasks"
      BY <1>0, <3>1, <3>2 DEF Job
    <3>4. SweepPoint(k)
      BY <3>3 DEF SweepPoint
    <3>5. job' = [job EXCEPT ![h] = k]
      BY <1>0, <1>7, <2>1, <3>1 DEF LookUpDecomposed
    <3>. QED BY <3>4, <3>5 DEF Moved
  <2>. QED BY <1>1, <2>1
<1>8. CASE DeleteAbort(h)
  <2>1. PICK k : k = [job[h] EXCEPT !.pc = "delete_collect"]
    OBVIOUS
  <2>2. job[h].pc = "delete_abort" /\ job[h].kind = "delete"
    BY <1>0, <1>8 DEF DeleteAbort, At, PointOK
  <2>3. k.kind = "delete" /\ k.pc = "delete_collect" /\ k.task = job[h].task
    BY <1>0, <2>1, <2>2 DEF Job
  <2>4. SweepPoint(k)
    BY <1>0, <2>2, <2>3 DEF SweepPoint
  <2>5. job' = [job EXCEPT ![h] = k]
    BY <1>8, <2>1 DEF DeleteAbort, Goto
  <2>. QED BY <2>4, <2>5 DEF Moved
<1>9. CASE StartTask(h) \/ AbortTask(h) \/ AdvanceTask(h) \/ FinishTask(h)
             \/ RetryTask(h) \/ DecomposeTask(h) \/ DeleteRows(h)
  <2>1. Return(h)
    BY Zenon, <1>9 DEF StartTask, AbortTask, AdvanceTask, FinishTask, RetryTask,
       DecomposeTask, DeleteRows
  <2>. QED BY <1>1, <2>1
<1>10. CASE RecordResult(h) \/ SetRecovering(h) \/ WithdrawRequest(h)
              \/ AdvanceRow(h) \/ CheckRetries(h) \/ RetryRow(h)
  <2>1. RecordResult(h) => Goto(h, "result_task")
    BY DEF RecordResult
  <2>2. SetRecovering(h) => Goto(h, "recover_ask")
    BY DEF SetRecovering
  <2>3. WithdrawRequest(h) => Goto(h, "abort_task")
    BY DEF WithdrawRequest
  <2>4. AdvanceRow(h) => Goto(h, "advance_task")
    BY DEF AdvanceRow
  <2>5. CheckRetries(h) => Goto(h, "abort_task") \/ Goto(h, "retry_find")
    BY DEF CheckRetries
  <2>6. RetryRow(h) => Goto(h, "retry_task")
    BY Zenon DEF RetryRow
  <2>. QED BY <1>3, <1>10, <2>1, <2>2, <2>3, <2>4, <2>5, <2>6
<1>11. CreateSubtask(h) => UNCHANGED job
  BY DEF CreateSubtask
<1>. QED BY <1>2, <1>4, <1>5, <1>6, <1>7, <1>8, <1>9, <1>10, <1>11,
            LookUpTaskMoved, LookUpStageMoved, DeleteCollectMoved
         DEF HandlerStep

\* A result is that of a row that is running, so its run is not dead: when
\* the result arrives no deletion is under way.
LEMMA EventMoved ==
  ASSUME StageInv, SweepInv, OneByOne, NEW h \in Handlers, Event(h)
  PROVE  Moved(h)
<1>0. job \in [Handlers -> Job] /\ SweepPoint(job[h]) /\ Quiet
  BY OwnEvent, TableFacts DEF SweepInv, Begin, OneByOne
<1>1. ASSUME UNCHANGED job
      PROVE  Moved(h)
  <2>1. job' = [job EXCEPT ![h] = job[h]]
    BY <1>0, <1>1
  <2>. QED BY <1>0, <2>1 DEF Moved
<1>2. ASSUME NEW j, job' = [job EXCEPT ![h] = j],
             j.kind # "result", j.pc \notin {"advance_row", "delete_abort",
                                             "delete_collect", "delete_tasks"}
      PROVE  Moved(h)
  BY <1>2 DEF Moved, SweepPoint
<1>3. CASE StartRun(h)
  <2>1. PICK r \in RunId : job' = [job EXCEPT ![h] = [Idle EXCEPT !.pc = "start_task",
                                                        !.kind = "start",
                                                        !.run = r,
                                                        !.stage = Learning]]
    BY <1>3 DEF StartRun
  <2>2. PICK j : j = [Idle EXCEPT !.pc = "start_task", !.kind = "start",
                                  !.run = r, !.stage = Learning]
    OBVIOUS
  <2>3. j.kind = "start" /\ j.pc = "start_task"
    BY <2>2 DEF Idle
  <2>. QED BY <1>2, <2>1, <2>2, <2>3
<1>4. CASE ReceiveResult(h)
  <2>1. PICK work \in sent, said \in Results :
          \E i \in Oldest(RowsOf(work[1], work[2]) \cap RunningRows) :
            job' = [job EXCEPT ![h] = [Idle EXCEPT !.pc = "result_record",
                                                   !.kind = "result",
                                                   !.run = work[1],
                                                   !.stage = work[2],
                                                   !.said = said,
                                                   !.row = i]]
    BY <1>4 DEF ReceiveResult
  <2>2. PICK r, s : r = work[1] /\ s = work[2]
    OBVIOUS
  <2>3. PICK i \in Oldest(RowsOf(r, s) \cap RunningRows) :
          job' = [job EXCEPT ![h] = [Idle EXCEPT !.pc = "result_record",
                                                 !.kind = "result",
                                                 !.run = r,
                                                 !.stage = s,
                                                 !.said = said,
                                                 !.row = i]]
    BY <2>1, <2>2
  <2>4. i \in RowId /\ LiveRow(i) /\ rows[i].run = r
    BY DEF Oldest, RowsOf
  <2>5. i \in 1 .. nrows /\ r \in RunId /\ rows[i].status # "deleted"
    BY <2>4, TableFacts DEF LiveRow, Gone
  <2>6. ~Swept(r)
    BY <2>4, <2>5 DEF Swept
  <2>7. \A g \in Handlers : ~Sweeps(job[g], r)
    BY <1>0 DEF Quiet, Sweeps, Idle
  <2>8. ~Dead(r)
    BY <2>5, <2>6, <2>7 DEF SweepInv
  <2>9. PICK j : j = [Idle EXCEPT !.pc = "result_record", !.kind = "result",
                                  !.run = r, !.stage = s, !.said = said, !.row = i]
    OBVIOUS
  <2>10. j.pc = "result_record" /\ j.run = r
    BY <2>9 DEF Idle
  <2>11. SweepPoint(j)
    BY <2>8, <2>10 DEF SweepPoint
  <2>. QED BY <2>3, <2>9, <2>11 DEF Moved
<1>5. CASE ReceiveRecovery(h)
  <2>1. PICK q \in pending, said \in Actions :
          job' = [job EXCEPT ![h] = [Idle EXCEPT !.pc = "recovery_task",
                                                 !.kind = "recovery",
                                                 !.run = asked[q].run,
                                                 !.said = said,
                                                 !.task = asked[q].task,
                                                 !.req = q]]
    BY <1>5, RecoveryReply
  <2>2. PICK j : j = [Idle EXCEPT !.pc = "recovery_task", !.kind = "recovery",
                                  !.run = asked[q].run, !.said = said,
                                  !.task = asked[q].task, !.req = q]
    OBVIOUS
  <2>3. j.kind = "recovery" /\ j.pc = "recovery_task"
    BY <2>2 DEF Idle
  <2>. QED BY <1>2, <2>1, <2>2, <2>3
<1>6. CASE ReceiveDecomposition(h)
  <2>1. CASE job' # job
    <3>1. PICK q : job' = [job EXCEPT ![h] = [Idle EXCEPT !.pc = "decompose_lookup",
                                                          !.kind = "decompose",
                                                          !.task = asked[q].task,
                                                          !.req = q]]
      BY <1>6, <2>1, DecompositionReply
    <3>2. PICK j : j = [Idle EXCEPT !.pc = "decompose_lookup",
                                    !.kind = "decompose",
                                    !.task = asked[q].task, !.req = q]
      OBVIOUS
    <3>3. j.kind = "decompose" /\ j.pc = "decompose_lookup"
      BY <3>2 DEF Idle
    <3>. QED BY <1>2, <3>1, <3>2, <3>3
  <2>. QED BY <1>1, <2>1
<1>7. CASE BeginDelete(h)
  <2>1. PICK t \in TaskId, p \in {"delete_abort", "delete_collect"} :
          /\ LiveTask(t)
          /\ job' = [job EXCEPT ![h] = [Idle EXCEPT !.kind = "delete", !.task = t,
                                                    !.pc = p]]
    BY <1>7 DEF BeginDelete
  <2>2. PICK j : j = [Idle EXCEPT !.kind = "delete", !.task = t, !.pc = p]
    OBVIOUS
  <2>3. j.kind = "delete" /\ j.task = t /\ j.pc = p
    BY <2>2 DEF Idle
  <2>4. SweepPoint(j)
    BY <2>1, <2>3 DEF SweepPoint
  <2>. QED BY <2>1, <2>2, <2>4 DEF Moved
<1>. QED BY <1>3, <1>4, <1>5, <1>6, <1>7 DEF Event

LEMMA ElsewhereMoved ==
  ASSUME StageInv, SweepInv, NEW h \in Handlers, DbError(h)
  PROVE  Moved(h) /\ job[h].pc \notin {"delete_tasks", "delete_rows"}
BY IdlePoint DEF DbError, Moved, Return

\* A step that takes no task away leaves a deletion to its handler.
LEMMA SweepKept ==
  ASSUME StageInv, StageInv', SweepInv, Alone', TasksStand, LivesStand, RowsStand,
         \A g \in Handlers : SweepPoint(job[g])',
         \A g \in Handlers : \A r : Sweeps(job[g], r) => Sweeps(job[g], r)'
  PROVE  SweepInv'
<1>1. FamilyOK'
  BY FamilyStays DEF SweepInv
<1>2. ASSUME NEW r \in RunId, Dead(r)'
      PROVE  Swept(r)' \/ \E g \in Handlers : Sweeps(job[g], r)'
  <2>1. Dead(r)
    BY <1>2, DeadBefore
  <2>2. Swept(r) \/ \E g \in Handlers : Sweeps(job[g], r)
    BY <2>1 DEF SweepInv
  <2>. QED BY <2>1, <2>2, SweptStays
<1>. QED BY <1>1, <1>2 DEF SweepInv

LEMMA SweepMoved ==
  ASSUME StageInv, StageInv', SweepInv, Alone', TasksStand, LivesStand, RowsStand,
         NEW h \in Handlers, Moved(h),
         job[h].pc \notin {"delete_tasks", "delete_rows"}
  PROVE  SweepInv'
<1>1. PICK j : job' = [job EXCEPT ![h] = j] /\ SweepPoint(j)
  BY DEF Moved
<1>2. job'[h] = j /\ \A g \in Handlers \ {h} : job'[g] = job[g]
  BY <1>1, TableFacts
<1>3. ASSUME NEW g \in Handlers
      PROVE  SweepPoint(job[g])'
  <2>1. PICK k : k = job'[g]
    OBVIOUS
  <2>2. SweepPoint(k)
    BY <1>1, <1>2, <2>1 DEF SweepInv
  <2>3. SweepPoint(k)'
    BY <2>2, PointStays
  <2>. QED BY <2>1, <2>3 DEF SweepPoint
<1>4. ASSUME NEW g \in Handlers, NEW r, Sweeps(job[g], r)
      PROVE  Sweeps(job[g], r)'
  BY <1>2, <1>4 DEF Sweeps
<1>. QED BY <1>3, <1>4, SweepKept

\* The task written last may be the last one of its run that was left; the
\* handler then goes on to the rows.
LEMMA DeleteOneTaskSweeps ==
  ASSUME StageInv, StageInv', SweepInv, Alone', OneByOne, TasksStand, RowsStand,
         NEW h \in Handlers, DeleteOneTask(h)
  PROVE  SweepInv'
<1>1. PICK u : /\ u \in Oldest(job[h].doomed) /\ SetTask(u, "deleted")
               /\ job' = [job EXCEPT ![h] =
                            [@ EXCEPT !.doomed = job[h].doomed \ {u},
                                      !.pc = IF job[h].doomed = {u}
                                             THEN "delete_rows"
                                             ELSE "delete_tasks"]]
  BY Zenon DEF DeleteOneTask
<1>2. job[h].pc = "delete_tasks" /\ UNCHANGED <<rows, nrows, ntasks>>
  BY Zenon DEF DeleteOneTask, At
<1>3. PICK d : d = job[h].run
  OBVIOUS
<1>4. /\ job[h] \in Job /\ job[h].kind = "delete" /\ u \in job[h].doomed
      /\ u \in 1 .. ntasks /\ tasks[u].run = d
  BY <1>1, <1>2, <1>3, TableFacts DEF PointOK, Oldest, SweepInv, SweepPoint
<1>5. PICK j : j = [job[h] EXCEPT !.doomed = job[h].doomed \ {u},
                                  !.pc = IF job[h].doomed = {u}
                                         THEN "delete_rows" ELSE "delete_tasks"]
  OBVIOUS
<1>6. /\ j.pc \in {"delete_tasks", "delete_rows"} /\ j.kind = "delete"
      /\ j.run = d /\ j.doomed = job[h].doomed \ {u}
  BY <1>3, <1>4, <1>5 DEF Job
<1>7. /\ job'[h] = j
      /\ \A g \in Handlers \ {h} : job'[g] = Idle
  <2>1. job[h] # Idle
    BY <1>2 DEF Idle
  <2>2. \A g \in Handlers \ {h} : job[g] = Idle
    BY <2>1 DEF SweepInv, Alone, OneByOne
  <2>. QED BY <1>1, <1>5, <2>2, TableFacts
<1>8. /\ tasks'[u].status = "deleted" /\ tasks'[u].run = d
      /\ \A t \in 1 .. ntasks : t # u => tasks'[t] = tasks[t]
  <2>1. tasks[u].status # "absent"
    BY <1>4, TableFacts
  <2>. QED BY <1>1, <1>4, <2>1, TableFacts DEF SetTask, LiveTask, Gone, Task
<1>9. ASSUME NEW g \in Handlers
      PROVE  SweepPoint(job[g])'
  <2>1. CASE g = h
    <3>1. \A t \in j.doomed : t \in 1 .. ntasks' /\ tasks'[t].run = d
      <4>1. \A t \in job[h].doomed : t \in 1 .. ntasks /\ tasks[t].run = d
        BY <1>2, <1>3 DEF SweepInv, SweepPoint
      <4>. QED BY <1>2, <1>6, <4>1 DEF TasksStand
    <3>. QED BY <1>6, <1>7, <2>1, <3>1 DEF SweepPoint
  <2>2. CASE g # h
    BY <1>7, <2>2 DEF SweepPoint, Idle
  <2>. QED BY <2>1, <2>2
<1>10. ASSUME NEW r \in RunId, Dead(r)'
       PROVE  Swept(r)' \/ \E g \in Handlers : Sweeps(job[g], r)'
  <2>1. CASE r = d
    BY <1>6, <1>7, <2>1 DEF Sweeps
  <2>2. CASE r # d
    <3>1. Dead(r)
      BY <1>2, <1>4, <1>8, <1>10, <2>2 DEF Dead, HasTask
    <3>2. \A g \in Handlers : ~Sweeps(job[g], r)
      BY <1>2, <1>3, <2>2 DEF Sweeps, SweepInv, Alone, OneByOne, Idle
    <3>3. Swept(r)
      BY <3>1, <3>2 DEF SweepInv
    <3>. QED BY <3>1, <3>3, SweptStays
  <2>. QED BY <2>1, <2>2
<1>11. FamilyOK'
  BY FamilyStays DEF SweepInv
<1>. QED BY <1>9, <1>10, <1>11 DEF SweepInv

\* Every row of the run goes, those that were inserted meanwhile too.
LEMMA DeleteRowsSweeps ==
  ASSUME StageInv, StageInv', SweepInv, Alone', OneByOne, TasksStand, LivesStand,
         RowsStand, NEW h \in Handlers, DeleteRows(h), Moved(h)
  PROVE  SweepInv'
<1>1. /\ rows' = [i \in RowId |->
                    IF LiveRow(i) /\ rows[i].run = job[h].run
                    THEN [rows[i] EXCEPT !.status = "deleted", !.stale = FALSE]
                    ELSE rows[i]]
      /\ nrows' = nrows /\ job[h].pc = "delete_rows"
      /\ job' = [job EXCEPT ![h] = Idle]
  BY Zenon DEF DeleteRows, At, Return
<1>2. PICK d : d = job[h].run
  OBVIOUS
<1>3. Swept(d)'
  <2>1. nrows' = nrows
    BY Zenon, <1>1
  <2>2. SUFFICES ASSUME NEW i \in 1 .. nrows, rows'[i].run = d
        PROVE  rows'[i].status = "deleted"
    BY <2>1 DEF Swept
  <2>3. i \in RowId /\ rows[i] \in Row /\ rows[i].status # "absent"
    BY TableFacts
  <2>4. rows[i].run = d
    BY <2>2, <2>3 DEF RowsStand
  <2>5. CASE LiveRow(i)
    <3>1. rows'[i] = [rows[i] EXCEPT !.status = "deleted", !.stale = FALSE]
      BY Zenon, <1>1, <1>2, <2>3, <2>4, <2>5
    <3>. QED BY <2>3, <3>1 DEF Row
  <2>6. CASE ~LiveRow(i)
    BY <2>3, <2>6 DEF LiveRow, Gone, RowsStand
  <2>. QED BY <2>5, <2>6
<1>4. \A g \in Handlers : \A r : Sweeps(job[g], r) => r = d
  <2>1. job[h] # Idle
    <3>1. job[h].pc = "delete_rows"
      BY Zenon, <1>1
    <3>. QED BY <3>1 DEF Idle
  <2>2. \A g \in Handlers \ {h} : job[g] = Idle
    BY <2>1 DEF SweepInv, Alone, OneByOne
  <2>. QED BY <1>2, <2>2 DEF Sweeps, Idle
<1>5. ASSUME NEW r \in RunId, Dead(r)'
      PROVE  Swept(r)'
  <2>1. Dead(r)
    BY <1>5, DeadBefore
  <2>2. CASE r # d
    <3>1. Swept(r)
      BY <1>4, <2>1, <2>2 DEF SweepInv
    <3>. QED BY <2>1, <3>1, SweptStays
  <2>. QED BY <1>3, <2>2
<1>6. ASSUME NEW g \in Handlers
      PROVE  SweepPoint(job[g])'
  <2>1. PICK k : k = job'[g]
    OBVIOUS
  <2>2. k = Idle \/ k = job[g]
    <3>1. job' = [job EXCEPT ![h] = Idle]
      BY Zenon, <1>1
    <3>. QED BY <2>1, <3>1, TableFacts
  <2>3. SweepPoint(k)
    BY <2>2, IdlePoint DEF SweepInv
  <2>4. SweepPoint(k)'
    BY <2>3, PointStays
  <2>. QED BY <2>1, <2>4 DEF SweepPoint
<1>7. FamilyOK'
  BY FamilyStays DEF SweepInv
<1>. QED BY <1>5, <1>6, <1>7 DEF SweepInv

LEMMA SweepInvStep ==
  ASSUME StageInv, SweepInv, OneByOne, [Next]_vars
  PROVE  SweepInv'
<1>1. StageInv' /\ Alone'
  BY StageInvStep, AloneStep DEF SweepInv
<1>2. /\ RowsStand /\ TasksStand
      /\ (\A h \in Handlers : ~DeleteOneTask(h)) => LivesStand
  BY RowsStandStep, TasksStandStep
<1>3. ASSUME NEW h \in Handlers, DeleteOneTask(h)
      PROVE  SweepInv'
  BY <1>1, <1>2, <1>3, DeleteOneTaskSweeps
<1>4. CASE \A h \in Handlers : ~DeleteOneTask(h)
  <2>1. ASSUME NEW h \in Handlers, HandlerStep(h)
        PROVE  SweepInv'
    <3>1. Moved(h)
      BY <1>4, <2>1, HandlerMoved
    <3>2. CASE DeleteRows(h)
      BY <1>1, <1>2, <1>4, <3>1, <3>2, DeleteRowsSweeps
    <3>3. CASE ~DeleteRows(h)
      <4>1. job[h].pc \notin {"delete_tasks", "delete_rows"}
        BY <1>4, <2>1, <3>3 DEF HandlerStep, At, StartTask, RecordResult, LookUpTask,
           SetRecovering, AskRecovery, WithdrawRequest, AbortTask, CreateSubtask,
           SubtasksCreated, AdvanceRow, AdvanceTask, FinishTask, LookUpStage,
           CheckRetries, FindRetryRow, RetryRow, RetryTask, LookUpDecomposed,
           DecomposeTask, DeleteAbort, DeleteCollect
      <4>. QED BY <1>1, <1>2, <1>4, <3>1, <4>1, SweepMoved
    <3>. QED BY <3>2, <3>3
  <2>2. ASSUME NEW h \in Handlers, Event(h)
        PROVE  SweepInv'
    <3>1. Moved(h)
      BY <2>2, EventMoved
    <3>2. job[h].pc \notin {"delete_tasks", "delete_rows"}
      BY <2>2, OwnEvent, TableFacts DEF Begin, Idle
    <3>. QED BY <1>1, <1>2, <1>4, <3>1, <3>2, SweepMoved
  <2>3. ASSUME NEW h \in Handlers, DbError(h)
        PROVE  SweepInv'
    BY <1>1, <1>2, <1>4, <2>3, ElsewhereMoved, SweepMoved
  <2>4. ASSUME UNCHANGED job
        PROVE  SweepInv'
    <3>1. ASSUME NEW g \in Handlers
          PROVE  SweepPoint(job[g])'
      <4>1. PICK k : k = job[g]
        OBVIOUS
      <4>2. SweepPoint(k)'
        BY <1>2, <1>4, <4>1, PointStays DEF SweepInv
      <4>. QED BY <2>4, <4>1, <4>2 DEF SweepPoint
    <3>2. \A g \in Handlers : \A r : Sweeps(job[g], r) => Sweeps(job[g], r)'
      BY <2>4 DEF Sweeps
    <3>. QED BY <1>1, <1>2, <1>4, <3>1, <3>2, SweepKept
  <2>5. CASE MonitorStep \/ RequestDecomposition \/ (\E i \in RowId : GrowStale(i))
               \/ UNCHANGED vars
    BY <2>4, <2>5 DEF MonitorStep, MonitorScan, MonitorMark, MonitorLookup,
                      MonitorFail, RequestDecomposition, GrowStale, vars
  <2>6. ~Crash
    BY DEF Crash, OneByOne
  <2>. QED BY <2>1, <2>2, <2>3, <2>5, <2>6 DEF Next, Event
<1>. QED BY <1>3, <1>4

LEMMA InitSweep == Init => SweepInv
<1>1. SUFFICES ASSUME Init
      PROVE  SweepInv
  OBVIOUS
<1>2. ntasks = 0 /\ \A h \in Handlers : job[h] = Idle
  BY <1>1 DEF Init
<1>. QED BY <1>2, IdlePoint DEF SweepInv, Alone, FamilyOK, Dead

LEMMA SweepInvariant ==
  ASSUME OneByOne
  PROVE  Spec => []SweepInv
<1>1. StageInv /\ SweepInv /\ [Next]_vars => SweepInv'
  BY SweepInvStep
<1>. QED BY <1>1, InitSweep, StageInvariant, PTL DEF Spec

\* Once the last task of a run has been deleted no row of the run is left, and
\* none comes back, when events do not overlap and king does not stop:
\* delete_task_cascade removes the rows after the tasks, the ids it collects
\* are all of the run it read, and no result of a run that is gone is taken.
\* Proposed subtasks, decompositions, time-outs and the errors of the database
\* that a handler propagates are included.
THEOREM DeletionsLeaveNothing ==
  ASSUME OneByOne
  PROVE  Spec => []DeletionLeavesNoRow
<1>1. StageInv /\ SweepInv => DeletionLeavesNoRow
  <2>1. SUFFICES ASSUME StageInv, SweepInv, Quiet, NEW t \in TaskId,
                        tasks[t].status = "deleted",
                        \A u \in TaskId : LiveTask(u) => tasks[u].run # tasks[t].run,
                        NEW i \in RowId, LiveRow(i), rows[i].run = tasks[t].run
        PROVE  FALSE
    BY DEF DeletionLeavesNoRow
  <2>2. PICK r : r = tasks[t].run
    OBVIOUS
  <2>3. t \in 1 .. ntasks /\ r \in RunId
    BY <2>1, <2>2, TableFacts
  <2>4. Dead(r)
    BY <2>1, <2>2, <2>3, TableFacts DEF Dead, HasTask, LiveTask
  <2>5. \A h \in Handlers : ~Sweeps(job[h], r)
    BY <2>1 DEF Quiet, Sweeps, Idle
  <2>6. Swept(r)
    BY <2>1, <2>3, <2>4, <2>5 DEF SweepInv
  <2>7. i \in 1 .. nrows /\ rows[i].status # "deleted"
    BY <2>1, TableFacts DEF LiveRow, Gone
  <2>. QED BY <2>1, <2>2, <2>6, <2>7 DEF Swept
<1>. QED BY <1>1, SweepInvariant, StageInvariant, PTL

=============================================================================
