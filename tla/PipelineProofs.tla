---------------------------- MODULE PipelineProofs ----------------------------
(***************************************************************************)
(* Proofs about PipelineCoordinator, for any number of handlers and any    *)
(* bounds.  Whatever overlaps, fails or restarts: the rows of a run are    *)
(* inserted in the order of the stages, a completed task belongs to a run  *)
(* that has been in all of them, one handler acts on an answer, and a      *)
(* stage is tried again once more than the limit per handler at most.      *)
(* Without deletions and faults no recovery is forgotten.                  *)
(***************************************************************************)
EXTENDS PipelineCoordinator, FiniteSetTheorems, WellFoundedInduction, TLAPS

\* What every step does to the tables: rows and tasks are added at the end,
\* and keep their run (and a row its stage) for ever.
RowsKept ==
  /\ nrows <= nrows'
  /\ \A i \in 1 .. nrows : rows'[i].run = rows[i].run
                             /\ rows'[i].stage = rows[i].stage
TasksKept ==
  /\ ntasks <= ntasks'
  /\ \A t \in 1 .. ntasks : tasks'[t].run = tasks[t].run

\* The part of TypeOK about each table.
RowsType  == rows \in [RowId -> Row] /\ nrows \in 0 .. MaxRows
TasksType == tasks \in [TaskId -> Task] /\ ntasks \in 0 .. MaxTasks
TablesOK   == RowsType /\ RowsOK /\ TasksType /\ TasksOK
TablesKept == RowsKept /\ TasksKept
AskedType == asked \in [ReqId -> Request] /\ nreqs \in 0 .. MaxRequests
               /\ pending \subseteq 1 .. nreqs

-----------------------------------------------------------------------------
(* The tables.                                                             *)

\* A row that is there stays there.
LEMMA HasRowKept ==
  ASSUME RowsType, RowsKept, NEW r, NEW s, HasRow(r, s), nrows' \in Nat
  PROVE  HasRow(r, s)'
BY DEF RowsType, RowsKept, HasRow

\* An insertion in pipeline_runs: the new row is known, the others are kept.
LEMMA InsertRowOK ==
  ASSUME RowsType, RowsOK, NEW run \in RunId, NEW s \in Stages,
         s # Learning => HasRow(run, s - 1), InsertRow(run, s)
  PROVE  RowsType' /\ RowsKept /\ RowsOK' /\ HasRow(run, s)'
<1>. USE ConstantsOK
<1>1. RowsType'
  BY DEF RowsType, InsertRow, RowId, RunId, Row, RowStatus, Gone
<1>2. RowsKept
  BY DEF RowsType, InsertRow, RowsKept, RowId
<1>3. HasRow(run, s)'
  BY DEF RowsType, InsertRow, HasRow, RowId
<1>4. RowsOK'
  <2>1. SUFFICES ASSUME NEW i \in RowId
        PROVE  RowOK(i)'
    BY DEF RowsOK
  <2>2. CASE i <= nrows
    <3>1. rows'[i] = rows[i] /\ i <= nrows'
      BY <2>2 DEF RowsType, InsertRow, RowId
    <3>2. RowOK(i)
      BY DEF RowsOK
    <3>3. ASSUME rows[i].stage # Learning
          PROVE  \E k \in 1 .. nrows' :
                   /\ rows'[k].run = rows[i].run
                   /\ rows'[k].stage = rows[i].stage - 1
      BY <2>2, <3>2, <3>3, <1>2, <1>1 DEF RowOK, HasRow, RowsKept, RowsType
    <3>. QED BY <2>2, <3>1, <3>2, <3>3 DEF RowOK, HasRow
  <2>3. CASE i = nrows + 1
    <3>1. i <= nrows' /\ rows'[i].run = run /\ rows'[i].stage = s
            /\ rows'[i].status = "running"
      BY <2>3 DEF RowsType, InsertRow, RowId
    <3>2. s # Learning => HasRow(run, s - 1)'
      BY <1>2, <1>1, HasRowKept DEF RowsType
    <3>. QED BY <3>1, <3>2 DEF RowOK, HasRow
  <2>4. CASE i > nrows + 1
    BY <2>4 DEF RowsOK, RowOK, RowsType, InsertRow, RowId
  <2>. QED BY <2>2, <2>3, <2>4 DEF RowId, RowsType
<1>. QED BY <1>1, <1>2, <1>3, <1>4

\* An update of rows that leaves their run and stage alone.
LEMMA UpdateRowsOK ==
  ASSUME RowsType, RowsOK, rows' \in [RowId -> Row], nrows' = nrows,
         \A i \in RowId : /\ rows'[i].run = rows[i].run
                          /\ rows'[i].stage = rows[i].stage
                          /\ rows'[i].status = "absent"
                               <=> rows[i].status = "absent"
  PROVE  RowsType' /\ RowsKept /\ RowsOK'
<1>. USE ConstantsOK
<1>1. RowsType' /\ RowsKept
  BY DEF RowsType, RowsKept, RowId
<1>2. RowsOK'
  BY DEF RowsOK, RowOK, RowsType, HasRow, RowId
<1>. QED BY <1>1, <1>2

\* An insertion in tasks.
LEMMA InsertTaskOK ==
  ASSUME RowsType, RowsType', RowsKept, TasksType, TasksOK, NEW run \in RunId,
         NEW status \in {"running", "pending"}, NEW s \in {NoStage, Learning},
         NEW parent \in TaskId \cup {None}, s = Learning => HasRow(run, s),
         InsertTask(run, status, s, parent)
  PROVE  TasksType' /\ TasksKept /\ TasksOK'
<1>. USE ConstantsOK
<1>1. TasksType'
  BY DEF TasksType, InsertTask, MaxTasks, TaskId, RunId, Task, TaskStatus, Gone,
         NoStage, Learning, Stages, SkillManage
<1>2. TasksKept
  BY DEF TasksType, InsertTask, TasksKept, TaskId, MaxTasks
<1>3. TasksOK'
  <2>1. SUFFICES ASSUME NEW t \in TaskId
        PROVE  TaskOK(t)'
    BY DEF TasksOK
  <2>2. CASE t <= ntasks
    BY <2>2 DEF TasksOK, TaskOK, TasksType, InsertTask, TaskId, HasRow,
                RowsKept, RowsType
  <2>3. CASE t = ntasks + 1
    <3>1. t <= ntasks' /\ tasks'[t].run = run /\ tasks'[t].stage = s
            /\ tasks'[t].status = status
      BY <2>3 DEF TasksType, InsertTask, TaskId
    <3>2. s # NoStage => HasRow(run, s)'
      BY HasRowKept DEF RowsType, NoStage
    <3>. QED BY <3>1, <3>2 DEF TaskOK, HasRow
  <2>4. CASE t > ntasks + 1
    BY <2>4 DEF TasksOK, TaskOK, TasksType, InsertTask, TaskId
  <2>. QED BY <2>2, <2>3, <2>4 DEF TaskId, TasksType, MaxTasks
<1>. QED BY <1>1, <1>2, <1>3

\* An update of tasks that only moves a task to a stage its run has a row of,
\* and only completes a task whose run has a row of the last stage.
LEMMA UpdateTasksOK ==
  ASSUME RowsType, RowsType', RowsKept, TasksType, TasksOK,
         tasks' \in [TaskId -> Task], ntasks' = ntasks,
         \A t \in TaskId :
           /\ tasks'[t].run = tasks[t].run
           /\ tasks'[t].status = "absent" <=> tasks[t].status = "absent"
           /\ tasks'[t].stage = tasks[t].stage
                \/ HasRow(tasks[t].run, tasks[t].stage)'
           /\ tasks'[t].status = "completed"
                => tasks[t].status = "completed"
                     \/ HasRow(tasks[t].run, SkillManage)'
  PROVE  TasksType' /\ TasksKept /\ TasksOK'
<1>. USE ConstantsOK
<1>1. TasksType' /\ TasksKept
  BY DEF TasksType, TasksKept, TaskId, MaxTasks
<1>2. TasksOK'
  <2>1. SUFFICES ASSUME NEW t \in TaskId
        PROVE  TaskOK(t)'
    BY DEF TasksOK
  <2>2. TaskOK(t)
    BY DEF TasksOK
  <2>3. ASSUME NEW s, HasRow(tasks[t].run, s)
        PROVE  \E k \in 1 .. nrows' : rows'[k].run = tasks[t].run
                                          /\ rows'[k].stage = s
    BY <2>3 DEF HasRow, RowsKept, RowsType
  <2>4. /\ tasks'[t].run = tasks[t].run
        /\ tasks'[t].status = "absent" <=> tasks[t].status = "absent"
        /\ t <= ntasks' <=> t <= ntasks
    OBVIOUS
  <2>5. CASE ~(t <= ntasks)
    BY <2>2, <2>4, <2>5 DEF TaskOK
  <2>6. CASE t <= ntasks
    <3>1. tasks[t].status # "absent" /\ tasks[t].run \in RunId
      BY <2>2, <2>6 DEF TaskOK
    <3>2. ASSUME tasks'[t].stage # NoStage
          PROVE  HasRow(tasks[t].run, tasks[t].stage)'
      <4>1. CASE tasks'[t].stage = tasks[t].stage
        <5>1. HasRow(tasks[t].run, tasks[t].stage)
          BY <2>2, <2>6, <3>2, <4>1 DEF TaskOK
        <5>. QED BY <2>3, <2>4, <4>1, <5>1 DEF HasRow
      <4>. QED BY <4>1
    <3>3. ASSUME tasks'[t].status = "completed"
          PROVE  HasRow(tasks[t].run, SkillManage)'
      <4>1. CASE tasks[t].status = "completed"
        <5>1. HasRow(tasks[t].run, SkillManage)
          BY <2>2, <2>6, <4>1 DEF TaskOK
        <5>. QED BY <2>3, <2>4, <5>1 DEF HasRow
      <4>. QED BY <3>3, <4>1
    <3>. QED BY <2>4, <2>6, <3>1, <3>2, <3>3 DEF TaskOK
  <2>. QED BY <2>5, <2>6
<1>. QED BY <1>1, <1>2

\* The statements of the model, one by one.
LEMMA SameTables ==
  ASSUME TablesOK, UNCHANGED database
  PROVE  TablesOK' /\ TablesKept
<1>1. RowsType' /\ RowsKept /\ RowsOK'
  BY UpdateRowsOK DEF TablesOK, database, RowsType
<1>2. TasksType' /\ TasksKept /\ TasksOK'
  BY <1>1, UpdateTasksOK DEF TablesOK, database, TasksType
<1>. QED BY <1>1, <1>2 DEF TablesOK, TablesKept

\* An UPDATE of the status of a row keeps the table in order.
LEMMA SetRowOK ==
  ASSUME TablesOK, NEW i, NEW status \in RowStatus \ {"absent"},
         SetRow(i, status), UNCHANGED <<nrows, tasks, ntasks>>
  PROVE  TablesOK' /\ TablesKept
<1>1. RowsType' /\ RowsKept /\ RowsOK'
  BY UpdateRowsOK DEF TablesOK, SetRow, LiveRow, Gone, RowsType, Row
<1>2. TasksType' /\ TasksKept /\ TasksOK'
  BY <1>1, UpdateTasksOK DEF TablesOK, TasksType
<1>. QED BY <1>1, <1>2 DEF TablesOK, TablesKept

\* An UPDATE of the status of a task, completed only with its last stage.
LEMMA SetTaskOK ==
  ASSUME TablesOK, NEW t, NEW status \in TaskStatus \ {"absent"},
         SetTask(t, status), UNCHANGED <<rows, nrows, ntasks>>,
         status = "completed" /\ LiveTask(t) => HasRow(tasks[t].run, SkillManage)
  PROVE  TablesOK' /\ TablesKept
<1>1. RowsType' /\ RowsKept /\ RowsOK'
  BY UpdateRowsOK DEF TablesOK, RowsType
<1>2. tasks' \in [TaskId -> Task]
  BY DEF TablesOK, TasksType, SetTask, Task
<1>3. TasksType' /\ TasksKept /\ TasksOK'
  <2>1. ASSUME NEW u \in TaskId
        PROVE  /\ tasks'[u].run = tasks[u].run
               /\ tasks'[u].stage = tasks[u].stage
               /\ tasks'[u].status = "absent" <=> tasks[u].status = "absent"
               /\ tasks'[u].status = "completed"
                    => tasks[u].status = "completed"
                         \/ HasRow(tasks[u].run, SkillManage)'
    BY DEF TablesOK, TasksType, SetTask, LiveTask, Gone, Task, HasRow
  <2>. QED BY <1>1, <1>2, <2>1, UpdateTasksOK DEF TablesOK
<1>. QED BY <1>1, <1>3 DEF TablesOK, TablesKept

-----------------------------------------------------------------------------
(* The handlers.                                                           *)

\* What a handler knows does not depend on what the others do.
LEMMA JobKept ==
  ASSUME RowsType, TasksType, RowsType', TasksType', TablesKept,
         NEW g \in Handlers, job[g] \in Job, job'[g] = job[g], JobOK(job[g])
  PROVE  JobOK(job[g])'
<1>1. ASSUME NEW s, HasRow(job[g].run, s)
      PROVE  HasRow(job[g].run, s)'
  BY <1>1 DEF HasRow, TablesKept, RowsKept, RowsType
<1>2. TaskIsOf(job[g].task, job[g].run) => TaskIsOf(job[g].task, job[g].run)'
  <2>1. job[g].task \in TaskId \cup {None}
    BY DEF Job
  <2>. QED BY <2>1 DEF TaskIsOf, TablesKept, TasksKept, TasksType, TaskId, None
<1>3. PointOK(job[g])'
  <2>1. job[g].pc = "advance_task"
          => HasRow(job[g].run, NextStage(job[g].stage))'
    BY <1>1 DEF JobOK, PointOK, HasRow
  <2>. QED BY <2>1 DEF JobOK, PointOK
<1>4. job[g].stage # NoStage => HasRow(job[g].run, job[g].stage)'
  BY <1>1 DEF JobOK, HasRow
<1>. QED BY <1>2, <1>3, <1>4 DEF JobOK

\* Putting a step of handler h together.
LEMMA HandlerStepOK ==
  ASSUME StageInv, TablesOK', TablesKept, AskedType', AskedOK',
         NEW h \in Handlers, job' \in [Handlers -> Job],
         \A g \in Handlers \ {h} : job'[g] = job[g], JobOK(job[h])',
         (sent \subseteq RunId \X Stages)', monitor' = monitor,
         (faults \in 0 .. MaxFaults)'
  PROVE  StageInv'
<1>1. JobsOK'
  <2>1. SUFFICES ASSUME NEW g \in Handlers
        PROVE  JobOK(job[g])'
    BY DEF JobsOK
  <2>2. CASE g = h
    BY <2>2
  <2>3. CASE g # h
    <3>1. RowsType /\ TasksType /\ RowsType' /\ TasksType'
      BY DEF StageInv, TypeOK, RowsType, TasksType, TablesOK
    <3>2. job[g] \in Job /\ job'[g] = job[g] /\ JobOK(job[g])
      BY <2>3 DEF StageInv, TypeOK, JobsOK
    <3>. QED BY <3>1, <3>2, JobKept
  <2>. QED BY <2>2, <2>3
<1>2. TypeOK'
  BY DEF StageInv, TypeOK, TablesOK, RowsType, TasksType, AskedType
<1>. QED BY <1>1, <1>2 DEF StageInv, TablesOK

\* The requests, when no new one is made.
LEMMA SameRequests ==
  ASSUME StageInv, TablesOK', TablesKept, UNCHANGED <<asked, nreqs>>,
         pending' \subseteq pending
  PROVE  AskedType' /\ AskedOK'
<1>1. AskedType'
  BY DEF StageInv, TypeOK, AskedType
<1>2. ASSUME NEW q \in 1 .. nreqs
      PROVE  TaskIsOf(asked[q].task, asked[q].run)'
  <2>1. asked[q].task \in TaskId \cup {None}
          /\ TaskIsOf(asked[q].task, asked[q].run)
    BY ConstantsOK DEF StageInv, TypeOK, AskedOK, Request, ReqId
  <2>. QED BY <2>1 DEF TaskIsOf, TablesKept, TasksKept, TaskId, None,
                       StageInv, TypeOK, TablesOK, TasksType
<1>. QED BY <1>1, <1>2 DEF StageInv, AskedOK

\* Every step of a handler that only moves it from one point to another, or
\* out, changes one entry of job.
LEMMA JobUpdate ==
  ASSUME TypeOK, NEW h \in Handlers, NEW j \in Job,
         job' = [job EXCEPT ![h] = j]
  PROVE  /\ job' \in [Handlers -> Job]
         /\ job'[h] = j
         /\ \A g \in Handlers \ {h} : job'[g] = job[g]
BY DEF TypeOK

\* A handler that does nothing knows nothing.
LEMMA IdleOK == Idle \in Job /\ JobOK(Idle)
BY DEF Idle, Job, Point, JobOK, PointOK, TaskIsOf, None, NoStage

\* A handler that returns leaves the others as they are.
LEMMA ReturnOK ==
  ASSUME TypeOK, NEW h \in Handlers, Return(h)
  PROVE  /\ job' \in [Handlers -> Job]
         /\ \A g \in Handlers \ {h} : job'[g] = job[g]
         /\ JobOK(job[h])'
<1>1. job'[h] = Idle /\ job' \in [Handlers -> Job]
        /\ \A g \in Handlers \ {h} : job'[g] = job[g]
  BY IdleOK DEF TypeOK, Return
<1>. QED BY <1>1 DEF Idle, JobOK, PointOK, TaskIsOf, None, NoStage

\* What handler h knew before a step it knows after it, whoever's it is.
LEMMA StillKnown ==
  ASSUME StageInv, TablesOK', TablesKept, NEW h \in Handlers
  PROVE  /\ \A s : HasRow(job[h].run, s)
                     => \E k \in 1 .. nrows' : rows'[k].run = job[h].run
                                                 /\ rows'[k].stage = s
         /\ TaskIsOf(job[h].task, job[h].run)
              => (job[h].task # None => /\ job[h].task <= ntasks'
                                        /\ tasks'[job[h].task].run = job[h].run)
<1>1. ASSUME NEW s, HasRow(job[h].run, s)
      PROVE  \E k \in 1 .. nrows' : rows'[k].run = job[h].run
                                      /\ rows'[k].stage = s
  BY <1>1 DEF HasRow, TablesKept, RowsKept, RowsType, TablesOK, StageInv, TypeOK
<1>2. ASSUME TaskIsOf(job[h].task, job[h].run), job[h].task # None
      PROVE  job[h].task <= ntasks' /\ tasks'[job[h].task].run = job[h].run
  <2>1. job[h].task \in TaskId \cup {None}
    BY DEF StageInv, TypeOK, Job
  <2>. QED BY <1>2, <2>1 DEF TaskIsOf, TablesKept, TasksKept, TasksType, TaskId,
                             None, TablesOK, StageInv, TypeOK
<1>. QED BY <1>1, <1>2

-----------------------------------------------------------------------------
(* The actions.                                                            *)

\* start_run inserts the first stage: nothing has to precede it.
LEMMA StartRunOK ==
  ASSUME StageInv, NEW h \in Handlers, StartRun(h)
  PROVE  StageInv'
<1>. USE ConstantsOK
<1>1. PICK run \in RunId :
        /\ InsertRow(run, Learning)
        /\ job' = [job EXCEPT ![h] = [Idle EXCEPT !.pc = "start_task",
                                                  !.kind = "start",
                                                  !.run = run,
                                                  !.stage = Learning]]
  BY DEF StartRun
<1>2. Learning \in Stages
  BY DEF Stages, Learning, SkillManage
<1>3. RowsType' /\ RowsKept /\ RowsOK' /\ HasRow(run, Learning)'
  BY <1>1, <1>2, InsertRowOK DEF StageInv, TypeOK, RowsType
<1>4. TasksType' /\ TasksKept /\ TasksOK'
  BY <1>3, UpdateTasksOK DEF StageInv, TypeOK, RowsType, TasksType, StartRun
<1>5. TablesOK' /\ TablesKept
  BY <1>3, <1>4 DEF TablesOK, TablesKept
<1>6. AskedType' /\ AskedOK'
  BY <1>5, SameRequests DEF StartRun, requests
<1>7. /\ job' \in [Handlers -> Job]
      /\ \A g \in Handlers \ {h} : job'[g] = job[g]
  BY <1>1, <1>2 DEF StageInv, TypeOK, Job, Idle, Point
<1>8. JobOK(job[h])'
  <2>1. /\ job'[h].pc = "start_task" /\ job'[h].kind = "start"
        /\ job'[h].run = run /\ job'[h].stage = Learning
    BY <1>1 DEF StageInv, TypeOK, Idle
  <2>. QED BY <2>1, <1>3 DEF JobOK, PointOK, HasRow
<1>. QED BY <1>5, <1>6, <1>7, <1>8, HandlerStepOK DEF StartRun, StageInv, TypeOK

\* A handler that has a task of its run sets its status and goes on or ends.
LEMMA SetTaskStepOK ==
  ASSUME StageInv, NEW h \in Handlers,
         NEW status \in {"running", "recovering", "failed", "decomposed"},
         SetTask(job[h].task, status), UNCHANGED <<rows, nrows, ntasks>>,
         UNCHANGED <<requests, monitor, faults>>,
         (sent \subseteq RunId \X Stages)',
         \/ Return(h)
         \/ /\ job[h].pc = "recover_task"
            /\ Goto(h, "recover_ask")
         \/ /\ job[h].pc = "delete_abort"
            /\ Goto(h, "delete_collect")
  PROVE  StageInv'
<1>1. TablesOK' /\ TablesKept
  BY SetTaskOK DEF StageInv, TypeOK, TablesOK, RowsType, TasksType, TaskStatus,
                   Gone
<1>2. AskedType' /\ AskedOK'
  BY <1>1, SameRequests DEF requests
<1>3. /\ job' \in [Handlers -> Job]
      /\ \A g \in Handlers \ {h} : job'[g] = job[g]
      /\ JobOK(job[h])'
  <2>1. CASE Return(h)
    BY <2>1, ReturnOK DEF StageInv
  <2>2. CASE job[h].pc = "recover_task" /\ Goto(h, "recover_ask")
    <3>1. JobOK(job[h]) /\ job[h] \in Job
      BY DEF StageInv, JobsOK, TypeOK
    <3>2. job'[h] = [job[h] EXCEPT !.pc = "recover_ask"]
            /\ job' \in [Handlers -> Job]
            /\ \A g \in Handlers \ {h} : job'[g] = job[g]
      BY <2>2 DEF Goto, StageInv, TypeOK, Job, Point
    <3>. QED BY <2>2, <3>1, <3>2, <1>1, StillKnown
             DEF JobOK, PointOK, HasRow, TaskIsOf, Job
  <2>3. CASE job[h].pc = "delete_abort" /\ Goto(h, "delete_collect")
    <3>1. JobOK(job[h]) /\ job[h] \in Job
      BY DEF StageInv, JobsOK, TypeOK
    <3>2. job'[h] = [job[h] EXCEPT !.pc = "delete_collect"]
            /\ job' \in [Handlers -> Job]
            /\ \A g \in Handlers \ {h} : job'[g] = job[g]
      BY <2>3 DEF Goto, StageInv, TypeOK, Job, Point
    <3>. QED BY <2>3, <3>1, <3>2, <1>1, StillKnown
             DEF JobOK, PointOK, HasRow, TaskIsOf, Job
  <2>. QED BY <2>1, <2>2, <2>3
<1>. QED BY <1>1, <1>2, <1>3, HandlerStepOK DEF StageInv, TypeOK

\* on_stage_result marks the task of a failed stage recovering.
LEMMA SetRecoveringOK ==
  ASSUME StageInv, NEW h \in Handlers, SetRecovering(h)
  PROVE  StageInv'
BY SetTaskStepOK DEF SetRecovering, At, StageInv, TypeOK, requests

\* abort_pipeline writes "failed", which no invariant restricts.
LEMMA AbortTaskOK ==
  ASSUME StageInv, NEW h \in Handlers, AbortTask(h)
  PROVE  StageInv'
BY SetTaskStepOK DEF AbortTask, StageInv, TypeOK, requests

\* A task is marked decomposed.
LEMMA DecomposeTaskOK ==
  ASSUME StageInv, NEW h \in Handlers, DecomposeTask(h)
  PROVE  StageInv'
BY SetTaskStepOK DEF DecomposeTask, StageInv, TypeOK, requests

\* The abort before a deletion.
LEMMA DeleteAbortOK ==
  ASSUME StageInv, NEW h \in Handlers, DeleteAbort(h)
  PROVE  StageInv'
BY SetTaskStepOK DEF DeleteAbort, At, StageInv, TypeOK, requests

\* A retried task runs again; its stage is announced once more.
LEMMA RetryTaskOK ==
  ASSUME StageInv, NEW h \in Handlers, RetryTask(h)
  PROVE  StageInv'
<1>1. job[h].run \in RunId /\ job[h].stage \in Stages
  BY DEF StageInv, JobsOK, JobOK, PointOK, RetryTask, At
<1>2. (sent \subseteq RunId \X Stages)'
  BY <1>1 DEF RetryTask, StageInv, TypeOK
<1>. QED BY <1>2, SetTaskStepOK DEF RetryTask, requests

\* A step that reads the tables, and may take a request out of the map.
LEMMA ReadStepOK ==
  ASSUME StageInv, NEW h \in Handlers, UNCHANGED database,
         UNCHANGED <<asked, nreqs, sent, monitor>>, pending' \subseteq pending,
         (faults \in 0 .. MaxFaults)',
         job' \in [Handlers -> Job],
         \A g \in Handlers \ {h} : job'[g] = job[g],
         JobOK(job[h])'
  PROVE  StageInv'
<1>1. TablesOK' /\ TablesKept
  BY SameTables DEF StageInv, TypeOK, TablesOK, RowsType, TasksType
<1>2. AskedType' /\ AskedOK'
  BY <1>1, SameRequests
<1>. QED BY <1>1, <1>2, HandlerStepOK DEF StageInv, TypeOK

\* The running row a result is matched with is the row of its stage.
LEMMA ReceiveResultOK ==
  ASSUME StageInv, NEW h \in Handlers, ReceiveResult(h)
  PROVE  StageInv'
<1>0. PICK work \in sent, said \in Results :
        \E i \in Oldest(RowsOf(work[1], work[2]) \cap RunningRows) :
          job' = [job EXCEPT ![h] = [Idle EXCEPT !.pc = "result_record",
                                                 !.kind = "result",
                                                 !.run = work[1],
                                                 !.stage = work[2],
                                                 !.said = said,
                                                 !.row = i]]
  BY DEF ReceiveResult
<1>1. PICK i \in RowsOf(work[1], work[2]) \cap RunningRows :
        job' = [job EXCEPT ![h] = [Idle EXCEPT !.pc = "result_record",
                                               !.kind = "result",
                                               !.run = work[1],
                                               !.stage = work[2],
                                               !.said = said,
                                               !.row = i]]
  BY <1>0 DEF Oldest
<1>2. work[1] \in RunId /\ work[2] \in Stages /\ i \in RowId
        /\ said \in Results
  BY DEF StageInv, TypeOK, RowsOf
<1>3. HasRow(work[1], work[2])
  <2>1. rows[i].run = work[1] /\ rows[i].stage = work[2]
          /\ rows[i].status # "absent"
    BY DEF RowsOf, LiveRow, Gone
  <2>2. i \in 1 .. nrows
    BY <1>2, <2>1 DEF StageInv, RowsOK, RowOK, RowId, TypeOK
  <2>. QED BY <2>1, <2>2 DEF HasRow
<1>4. /\ job' \in [Handlers -> Job]
      /\ \A g \in Handlers \ {h} : job'[g] = job[g]
      /\ job'[h] = [Idle EXCEPT !.pc = "result_record", !.kind = "result",
                                !.run = work[1], !.stage = work[2],
                                !.said = said, !.row = i]
  BY <1>1, <1>2 DEF StageInv, TypeOK, Job, Idle, Point
<1>5. JobOK(job[h])'
  <2>1. /\ job'[h].pc = "result_record" /\ job'[h].kind = "result"
        /\ job'[h].run = work[1] /\ job'[h].stage = work[2]
        /\ job'[h].said = said /\ job'[h].task = None
    BY <1>4 DEF Idle
  <2>2. HasRow(work[1], work[2])'
    BY <1>3 DEF HasRow, ReceiveResult, database
  <2>. QED BY <1>2, <2>1, <2>2 DEF JobOK, PointOK, HasRow, TaskIsOf, None
<1>. QED BY <1>4, <1>5, ReadStepOK DEF ReceiveResult, requests, StageInv, TypeOK

\* The tasks a lookup by run_id may return are tasks of that run.
LEMMA TaskOfRunOK ==
  ASSUME StageInv, NEW run, NEW t \in TaskOfRun(run)
  PROVE  t \in TaskId \cup {None} /\ TaskIsOf(t, run)
<1>1. t = None \/ (t \in TaskId /\ LiveTask(t) /\ tasks[t].run = run)
  BY DEF TaskOfRun, OrNone, Newest
<1>. QED BY <1>1 DEF TaskIsOf, StageInv, TasksOK, TaskOK, LiveTask, Gone, None,
                     TaskId, TypeOK

\* The newest task of a run belongs to the run.
LEMMA LookUpTaskOK ==
  ASSUME StageInv, NEW h \in Handlers, LookUpTask(h)
  PROVE  StageInv'
<1>0. PICK t \in TaskOfRun(job[h].run) :
        \E point \in AfterResult(job[h].said, job[h].stage, t) :
          IF point = "idle" THEN Return(h)
          ELSE job' = [job EXCEPT ![h] = [@ EXCEPT !.pc = point, !.task = t]]
  BY DEF LookUpTask
<1>1. PICK point \in AfterResult(job[h].said, job[h].stage, t) :
        IF point = "idle" THEN Return(h)
        ELSE job' = [job EXCEPT ![h] = [@ EXCEPT !.pc = point, !.task = t]]
  BY <1>0
<1>2. t \in TaskId \cup {None} /\ TaskIsOf(t, job[h].run)
  BY TaskOfRunOK
<1>3. /\ JobOK(job[h]) /\ job[h] \in Job
      /\ job[h].kind = "result" /\ job[h].stage \in Stages
  BY DEF StageInv, TypeOK, JobsOK, JobOK, PointOK, LookUpTask, At
<1>4. CASE point = "idle"
  BY <1>1, <1>4, ReturnOK, ReadStepOK
     DEF LookUpTask, requests, StageInv, TypeOK
<1>5. CASE point # "idle"
  <2>1. /\ Onward(job[h].stage) \in {"advance_row", "finish_task"}
        /\ Onward(job[h].stage) = "advance_row" => HasNext(job[h].stage)
        /\ Onward(job[h].stage) = "finish_task" => job[h].stage = SkillManage
    BY <1>3 DEF Onward, HasNext
  <2>2. /\ point \in {"recover_task", "subtasks", Onward(job[h].stage)}
        /\ point = "subtasks" => job[h].stage = Evaluation /\ t # None
    BY <1>5, <2>1 DEF AfterResult
  <2>3. /\ job' \in [Handlers -> Job]
        /\ \A g \in Handlers \ {h} : job'[g] = job[g]
        /\ job'[h] = [job[h] EXCEPT !.pc = point, !.task = t]
    <3>1. point \in Point
      BY <2>1, <2>2 DEF Point
    <3>2. [job[h] EXCEPT !.pc = point, !.task = t] \in Job
      BY <3>1, <1>2, <1>3 DEF Job
    <3>. QED BY <1>1, <1>5, <3>2 DEF StageInv, TypeOK
  <2>4. JobOK(job[h])'
    BY <1>2, <1>3, <2>1, <2>2, <2>3
       DEF JobOK, PointOK, HasRow, TaskIsOf, LookUpTask, database, Job, Stages,
           HasNext
  <2>. QED BY <2>3, <2>4, ReadStepOK DEF LookUpTask, requests, StageInv, TypeOK
<1>. QED BY <1>4, <1>5

\* After the subtasks of an evaluation the run goes on.
LEMMA SubtasksCreatedOK ==
  ASSUME StageInv, NEW h \in Handlers, SubtasksCreated(h)
  PROVE  StageInv'
<1>1. /\ JobOK(job[h]) /\ job[h] \in Job /\ job[h].pc = "subtasks"
  BY DEF StageInv, TypeOK, JobsOK, SubtasksCreated, At
<1>2. DEFINE point == IF job[h].kind = "result" THEN Onward(job[h].stage)
                                                ELSE "decompose_task"
<1>3. /\ point \in {"advance_row", "decompose_task"}
      /\ point = "advance_row" => job[h].kind = "result" /\ HasNext(job[h].stage)
  BY <1>1 DEF JobOK, PointOK, Onward, HasNext, Evaluation, SkillManage, Stages,
              Learning
<1>4. /\ job' \in [Handlers -> Job]
      /\ \A g \in Handlers \ {h} : job'[g] = job[g]
      /\ job'[h] = [job[h] EXCEPT !.pc = point]
  BY <1>1, <1>3 DEF StageInv, TypeOK, Job, Point, SubtasksCreated, Goto
<1>5. JobOK(job[h])'
  BY <1>1, <1>3, <1>4
     DEF JobOK, PointOK, HasRow, TaskIsOf, SubtasksCreated, database, Job
<1>. QED BY <1>4, <1>5, ReadStepOK
         DEF SubtasksCreated, requests, StageInv, TypeOK

\* What a handler of an answer is started with, in terms of the request.
LEMMA RecoveryReply ==
  ASSUME NEW h \in Handlers, ReceiveRecovery(h)
  PROVE  \E q \in pending, said \in Actions :
           /\ asked[q].kind = "recovery" /\ Claim(q)
           /\ job' = [job EXCEPT ![h] = [Idle EXCEPT !.pc = "recovery_task",
                                                     !.kind = "recovery",
                                                     !.run = asked[q].run,
                                                     !.said = said,
                                                     !.task = asked[q].task,
                                                     !.req = q]]
<1>1. PICK reply \in Replies("recovery"), said \in Actions :
        /\ reply.req \in pending /\ Claim(reply.req)
        /\ job' = [job EXCEPT ![h] = [Idle EXCEPT !.pc = "recovery_task",
                                                  !.kind = "recovery",
                                                  !.run = reply.run,
                                                  !.said = said,
                                                  !.task = reply.task,
                                                  !.req = reply.req]]
  BY DEF ReceiveRecovery
<1>2. PICK q \in 1 .. nreqs :
        /\ asked[q].kind = "recovery"
        /\ reply = [req |-> q, run |-> asked[q].run, task |-> asked[q].task]
  BY DEF Replies
<1>3. reply.req = q /\ reply.run = asked[q].run /\ reply.task = asked[q].task
  BY <1>2
<1>. QED BY <1>1, <1>2, <1>3, Zenon

LEMMA DecompositionReply ==
  ASSUME NEW h \in Handlers, ReceiveDecomposition(h)
  PROVE  \E q \in pending :
           /\ asked[q].kind = "decompose" /\ Claim(q)
           /\ \/ UNCHANGED job
              \/ job' = [job EXCEPT ![h] = [Idle EXCEPT !.pc = "decompose_lookup",
                                                        !.kind = "decompose",
                                                        !.task = asked[q].task,
                                                        !.req = q]]
<1>1. PICK reply \in Replies("decompose") :
        /\ reply.req \in pending /\ Claim(reply.req)
        /\ \/ UNCHANGED job
           \/ job' = [job EXCEPT ![h] = [Idle EXCEPT !.pc = "decompose_lookup",
                                                     !.kind = "decompose",
                                                     !.task = reply.task,
                                                     !.req = reply.req]]
  BY DEF ReceiveDecomposition
<1>2. PICK q \in 1 .. nreqs :
        /\ asked[q].kind = "decompose"
        /\ reply = [req |-> q, run |-> asked[q].run, task |-> asked[q].task]
  BY DEF Replies
<1>3. reply.req = q /\ reply.task = asked[q].task
  BY <1>2
<1>. QED BY <1>1, <1>2, <1>3, Zenon

\* The request an answer takes out names a run and a task of that run.
LEMMA ReceiveRecoveryOK ==
  ASSUME StageInv, NEW h \in Handlers, ReceiveRecovery(h)
  PROVE  StageInv'
<1>. USE ConstantsOK
<1>1. PICK q \in pending, said \in Actions :
        job' = [job EXCEPT ![h] = [Idle EXCEPT !.pc = "recovery_task",
                                               !.kind = "recovery",
                                               !.run = asked[q].run,
                                               !.said = said,
                                               !.task = asked[q].task,
                                               !.req = q]]
  BY RecoveryReply
<1>2. /\ q \in 1 .. nreqs /\ q \in ReqId
      /\ asked[q].run \in RunId /\ asked[q].task \in TaskId \cup {None}
      /\ TaskIsOf(asked[q].task, asked[q].run)
  BY DEF StageInv, TypeOK, AskedOK, Request, ReqId
<1>3. /\ job' \in [Handlers -> Job]
      /\ \A g \in Handlers \ {h} : job'[g] = job[g]
      /\ job'[h] = [Idle EXCEPT !.pc = "recovery_task", !.kind = "recovery",
                                !.run = asked[q].run, !.said = said,
                                !.task = asked[q].task, !.req = q]
  BY <1>1, <1>2 DEF StageInv, TypeOK, Job, Idle, Point, Actions
<1>4. JobOK(job[h])'
  <2>1. /\ job'[h].pc = "recovery_task" /\ job'[h].kind = "recovery"
        /\ job'[h].run = asked[q].run /\ job'[h].stage = NoStage
        /\ job'[h].task = asked[q].task
    BY <1>3 DEF Idle
  <2>2. UNCHANGED database
    BY DEF ReceiveRecovery
  <2>. QED BY <1>2, <2>1, <2>2 DEF JobOK, PointOK, TaskIsOf, database
<1>5. pending' \subseteq pending
  BY RecoveryReply DEF Claim
<1>. QED BY <1>3, <1>4, <1>5, ReadStepOK
         DEF ReceiveRecovery, requests, StageInv, TypeOK

\* The stage of a task is one its run has a row of.
LEMMA LookUpStageOK ==
  ASSUME StageInv, NEW h \in Handlers, LookUpStage(h)
  PROVE  StageInv'
<1>. DEFINE t     == IF LiveTask(job[h].task) THEN job[h].task ELSE None
            s     == IF t = None THEN NoStage ELSE tasks[t].stage
            point == AfterDecision(job[h].said, s, t)
<1>1. /\ JobOK(job[h]) /\ job[h] \in Job /\ job[h].kind = "recovery"
      /\ job[h].run \in RunId
      /\ IF point = "idle" THEN Return(h)
         ELSE job' = [job EXCEPT ![h] = [@ EXCEPT !.pc = point, !.task = t,
                                                  !.stage = s]]
  BY DEF StageInv, TypeOK, JobsOK, JobOK, PointOK, LookUpStage, At, GetTask
<1>2. /\ t \in TaskId \cup {None} /\ TaskIsOf(t, job[h].run)
      /\ t # None => LiveTask(t)
  BY <1>1 DEF JobOK, LiveTask, TaskIsOf
<1>3. /\ s \in Stages \cup {NoStage}
      /\ s # NoStage => HasRow(job[h].run, s)
  <2>1. CASE t = None
    BY <2>1 DEF NoStage
  <2>2. CASE t # None
    <3>1. t \in TaskId /\ t <= ntasks /\ tasks[t].run = job[h].run
      BY <1>2, <2>2 DEF TaskIsOf
    <3>. QED BY <2>2, <3>1 DEF StageInv, TypeOK, TasksOK, TaskOK, Task
  <2>. QED BY <2>1, <2>2
<1>. HIDE DEF t, s
<1>4. CASE point = "idle"
  BY <1>1, <1>4, ReturnOK, ReadStepOK
     DEF LookUpStage, requests, StageInv, TypeOK
<1>5. CASE point # "idle"
  <2>1. /\ s \in Skippable => /\ Onward(s) \in {"advance_row", "finish_task"}
                              /\ Onward(s) = "advance_row" => HasNext(s)
                              /\ Onward(s) = "finish_task" => s = SkillManage
    BY DEF Onward, HasNext, Skippable, Stages, Evaluation, SkillManage, Learning
  <2>2. /\ point \in {"retry_count", "subtasks", "advance_row", "finish_task",
                      "abort_task"}
        /\ point = "subtasks" => t # None
        /\ point = "advance_row" => HasNext(s)
        /\ point = "finish_task" => s = SkillManage
    BY <1>5, <2>1 DEF AfterDecision
  <2>. HIDE DEF point
  <2>3. [job[h] EXCEPT !.pc = point, !.task = t, !.stage = s] \in Job
    <3>1. point \in Point
      BY <2>2 DEF Point
    <3>. QED BY <1>1, <1>2, <1>3, <3>1 DEF Job
  <2>4. /\ job' \in [Handlers -> Job]
        /\ \A g \in Handlers \ {h} : job'[g] = job[g]
        /\ job'[h] = [job[h] EXCEPT !.pc = point, !.task = t, !.stage = s]
    BY <1>1, <1>5, <2>3 DEF StageInv, TypeOK
  <2>5. JobOK(job[h])'
    <3>1. /\ job'[h].pc = point /\ job'[h].kind = "recovery"
          /\ job'[h].run = job[h].run /\ job'[h].task = t /\ job'[h].stage = s
      BY <2>4, <1>1 DEF Job
    <3>2. UNCHANGED database
      BY DEF LookUpStage
    <3>. QED BY <1>1, <1>2, <1>3, <2>2, <3>1, <3>2
             DEF JobOK, PointOK, HasRow, TaskIsOf, database
  <2>. QED BY <2>4, <2>5, ReadStepOK DEF LookUpStage, requests, StageInv, TypeOK
<1>. QED BY <1>4, <1>5

\* A handler that stays with its run, stage and task and only changes point
\* (and the row, the request or the tasks it holds).
LEMMA MoveOK ==
  ASSUME StageInv, NEW h \in Handlers, TablesOK', TablesKept,
         job' \in [Handlers -> Job],
         job'[h].run = job[h].run, job'[h].kind = job[h].kind,
         job'[h].stage = job[h].stage, job'[h].task = job[h].task,
         job'[h].pc = "subtasks" => job[h].pc = "subtasks",
         PointOK(job[h])'
  PROVE  JobOK(job[h])'
<1>1. JobOK(job[h])
  BY DEF StageInv, JobsOK
<1>. QED BY <1>1, StillKnown DEF JobOK, HasRow, TaskIsOf

\* Reading the retry count changes what the handler will do only.
LEMMA CheckRetriesOK ==
  ASSUME StageInv, NEW h \in Handlers, CheckRetries(h)
  PROVE  StageInv'
<1>1. /\ JobOK(job[h]) /\ job[h] \in Job /\ job[h].kind = "recovery"
      /\ UNCHANGED database
  BY DEF StageInv, TypeOK, JobsOK, JobOK, PointOK, CheckRetries, At
<1>2. PICK point \in {"abort_task", "retry_find"} : Goto(h, point)
  BY DEF CheckRetries
<1>3. /\ job' \in [Handlers -> Job]
      /\ \A g \in Handlers \ {h} : job'[g] = job[g]
      /\ job'[h] = [job[h] EXCEPT !.pc = point]
  BY <1>1, <1>2 DEF StageInv, TypeOK, Job, Point, Goto
<1>4. TablesOK' /\ TablesKept
  BY <1>1, SameTables DEF StageInv, TypeOK, TablesOK, RowsType, TasksType
<1>5. PointOK(job[h])'
  BY <1>1, <1>3 DEF PointOK, Job
<1>6. JobOK(job[h])'
  BY <1>1, <1>3, <1>4, <1>5, MoveOK DEF Job
<1>. QED BY <1>3, <1>6, ReadStepOK DEF CheckRetries, requests, StageInv, TypeOK

\* The row of a retry is a row of the stage of the handler.
LEMMA FindRetryRowOK ==
  ASSUME StageInv, NEW h \in Handlers, FindRetryRow(h)
  PROVE  StageInv'
<1>1. /\ JobOK(job[h]) /\ job[h] \in Job /\ job[h].kind = "recovery"
      /\ UNCHANGED database
  BY DEF StageInv, TypeOK, JobsOK, JobOK, PointOK, FindRetryRow, At
<1>2. CASE Return(h)
  BY <1>2, ReturnOK, ReadStepOK DEF FindRetryRow, requests, StageInv, TypeOK
<1>3. ASSUME NEW i \in Newest(RowsOf(job[h].run, job[h].stage)),
             job' = [job EXCEPT ![h] = [@ EXCEPT !.pc = "retry_row", !.row = i]]
      PROVE  StageInv'
  <2>1. i \in RowId /\ LiveRow(i) /\ rows[i].stage = job[h].stage
    BY DEF Newest, RowsOf
  <2>2. job[h].stage \in Stages
    BY <2>1 DEF StageInv, RowsOK, RowOK, LiveRow, Gone
  <2>3. [job[h] EXCEPT !.pc = "retry_row", !.row = i] \in Job
    BY <1>1, <2>1 DEF Job, Point
  <2>4. /\ job' \in [Handlers -> Job]
        /\ \A g \in Handlers \ {h} : job'[g] = job[g]
        /\ job'[h] = [job[h] EXCEPT !.pc = "retry_row", !.row = i]
    BY <1>3, <2>3 DEF StageInv, TypeOK
  <2>5. TablesOK' /\ TablesKept
    BY <1>1, SameTables DEF StageInv, TypeOK, TablesOK, RowsType, TasksType
  <2>6. PointOK(job[h])'
    BY <1>1, <2>2, <2>4 DEF PointOK, Job
  <2>7. JobOK(job[h])'
    BY <1>1, <2>4, <2>5, <2>6, MoveOK DEF Job
  <2>. QED BY <2>4, <2>7, ReadStepOK
           DEF FindRetryRow, requests, StageInv, TypeOK
<1>. QED BY <1>2, <1>3 DEF FindRetryRow

\* A step of handler h on the tables that makes no request.
LEMMA TableStepOK ==
  ASSUME StageInv, NEW h \in Handlers, TablesOK', TablesKept,
         UNCHANGED <<requests, monitor, faults>>,
         (sent \subseteq RunId \X Stages)',
         job' \in [Handlers -> Job],
         \A g \in Handlers \ {h} : job'[g] = job[g],
         JobOK(job[h])'
  PROVE  StageInv'
<1>1. AskedType' /\ AskedOK'
  BY SameRequests DEF requests
<1>. QED BY <1>1, HandlerStepOK DEF StageInv, TypeOK

\* A handler that moves to another point keeps its other variables.
LEMMA GotoOK ==
  ASSUME StageInv, NEW h \in Handlers, NEW point \in Point, Goto(h, point)
  PROVE  /\ job' \in [Handlers -> Job]
         /\ \A g \in Handlers \ {h} : job'[g] = job[g]
         /\ job'[h].pc = point
         /\ job'[h].run = job[h].run /\ job'[h].kind = job[h].kind
         /\ job'[h].stage = job[h].stage /\ job'[h].task = job[h].task
<1>1. job[h] \in Job
  BY DEF StageInv, TypeOK
<1>2. [job[h] EXCEPT !.pc = point] \in Job
  BY <1>1 DEF Job
<1>. QED BY <1>1, <1>2 DEF StageInv, TypeOK, Goto, Job

\* The tables are in order in every state of the invariant.
LEMMA TablesFromInv ==
  ASSUME StageInv
  PROVE  TablesOK
BY DEF StageInv, TypeOK, TablesOK, RowsType, TasksType

\* The task of a new run has the first stage, whose row is there.
LEMMA StartTaskOK ==
  ASSUME StageInv, NEW h \in Handlers, StartTask(h)
  PROVE  StageInv'
<1>1. /\ JobOK(job[h]) /\ job[h].run \in RunId
      /\ HasRow(job[h].run, Learning) /\ TablesOK
  BY TablesFromInv
     DEF StageInv, JobsOK, JobOK, PointOK, StartTask, At, Learning, NoStage
<1>2. RowsType' /\ RowsKept /\ RowsOK'
  BY <1>1, UpdateRowsOK DEF TablesOK, RowsType, StartTask
<1>3. TasksType' /\ TasksKept /\ TasksOK'
  <2>1. "running" \in {"running", "pending"} /\ Learning \in {NoStage, Learning}
          /\ None \in TaskId \cup {None}
    OBVIOUS
  <2>. QED BY <1>1, <1>2, <2>1, InsertTaskOK DEF TablesOK, StartTask
<1>4. TablesOK' /\ TablesKept
  BY <1>2, <1>3 DEF TablesOK, TablesKept
<1>5. (sent \subseteq RunId \X Stages)'
  BY <1>1 DEF StartTask, StageInv, TypeOK, Learning, Stages, SkillManage
<1>. QED BY <1>4, <1>5, ReturnOK, TableStepOK DEF StartTask, StageInv

\* A result is written to a row by its id.
LEMMA RecordResultOK ==
  ASSUME StageInv, NEW h \in Handlers, RecordResult(h)
  PROVE  StageInv'
<1>1. JobOK(job[h]) /\ job[h] \in Job /\ job[h].pc = "result_record"
  BY DEF StageInv, TypeOK, JobsOK, RecordResult, At
<1>2. TablesOK' /\ TablesKept
  <2>1. job[h].said \in RowStatus \ {"absent"}
    BY <1>1 DEF JobOK, PointOK, Results, RowStatus, Gone
  <2>. QED BY <2>1, TablesFromInv, SetRowOK DEF RecordResult
<1>3. Goto(h, "result_task") /\ "result_task" \in Point
  BY DEF RecordResult, Point
<1>4. PointOK(job[h])'
  BY <1>1, <1>3, GotoOK DEF JobOK, PointOK
<1>5. JobOK(job[h])'
  BY <1>2, <1>3, <1>4, GotoOK, MoveOK
<1>. QED BY <1>2, <1>3, <1>5, GotoOK, TableStepOK
         DEF RecordResult, StageInv, TypeOK

\* A new request remembers its run and, if there is one, a task of that run.
LEMMA NewRequestOK ==
  ASSUME StageInv, UNCHANGED database, NEW kind \in {"recovery", "decompose"},
         NEW run \in RunId, NEW t \in TaskId \cup {None}, TaskIsOf(t, run),
         NewRequest(kind, run, t)
  PROVE  AskedType' /\ AskedOK'
<1>. USE ConstantsOK
<1>1. /\ asked \in [ReqId -> Request] /\ nreqs \in Nat
      /\ nreqs + 1 \in ReqId /\ nreqs + 1 \in 1 .. MaxRequests
      /\ pending \subseteq 1 .. nreqs
  BY DEF NewRequest, StageInv, TypeOK, ReqId
<1>2. [kind |-> kind, run |-> run, task |-> t] \in Request
  BY DEF Request
<1>3. AskedType'
  BY <1>1, <1>2 DEF AskedType, NewRequest
<1>4. AskedOK'
  <2>1. SUFFICES ASSUME NEW q \in 1 .. nreqs + 1
        PROVE  asked'[q].run \in RunId /\ TaskIsOf(asked'[q].task, asked'[q].run)
    BY <1>1 DEF AskedOK, NewRequest, TaskIsOf, database
  <2>2. CASE q = nreqs + 1
    BY <1>1, <2>2 DEF NewRequest
  <2>3. CASE q # nreqs + 1
    <3>1. q \in 1 .. nreqs /\ asked'[q] = asked[q]
      BY <1>1, <2>3 DEF NewRequest, ReqId
    <3>. QED BY <3>1 DEF StageInv, AskedOK
  <2>. QED BY <2>2, <2>3
<1>. QED BY <1>3, <1>4

\* A recovery request is made for a task of the run.
LEMMA AskRecoveryOK ==
  ASSUME StageInv, NEW h \in Handlers, AskRecovery(h)
  PROVE  StageInv'
<1>. USE ConstantsOK
<1>1. /\ JobOK(job[h]) /\ job[h] \in Job /\ job[h].kind = "result"
      /\ job[h].run \in RunId /\ job[h].task \in TaskId \cup {None}
      /\ TaskIsOf(job[h].task, job[h].run) /\ UNCHANGED database
  BY DEF StageInv, TypeOK, JobsOK, JobOK, PointOK, AskRecovery, At, Job
<1>2. AskedType' /\ AskedOK'
  BY <1>1, NewRequestOK DEF AskRecovery
<1>3. TablesOK' /\ TablesKept
  BY <1>1, TablesFromInv, SameTables
<1>4. CASE Return(h)
  BY <1>2, <1>3, <1>4, ReturnOK, HandlerStepOK DEF AskRecovery, StageInv, TypeOK
<1>5. CASE job' = [job EXCEPT ![h] = [@ EXCEPT !.pc = "emit_failed",
                                               !.req = nreqs + 1]]
  <2>1. [job[h] EXCEPT !.pc = "emit_failed", !.req = nreqs + 1] \in Job
    <3>1. nreqs + 1 \in ReqId
      BY DEF AskRecovery, NewRequest, StageInv, TypeOK, ReqId
    <3>. QED BY <1>1, <3>1 DEF Job, Point
  <2>2. /\ job' \in [Handlers -> Job]
        /\ \A g \in Handlers \ {h} : job'[g] = job[g]
        /\ job'[h] = [job[h] EXCEPT !.pc = "emit_failed", !.req = nreqs + 1]
    BY <1>5, <2>1 DEF StageInv, TypeOK
  <2>3. PointOK(job[h])'
    BY <1>1, <2>2 DEF PointOK, Job
  <2>4. JobOK(job[h])'
    BY <1>1, <1>3, <2>2, <2>3, MoveOK DEF Job
  <2>. QED BY <1>2, <1>3, <2>2, <2>4, HandlerStepOK
           DEF AskRecovery, StageInv, TypeOK
<1>. QED BY <1>4, <1>5 DEF AskRecovery

\* A request that could not be sent is taken out again.
LEMMA WithdrawRequestOK ==
  ASSUME StageInv, NEW h \in Handlers, WithdrawRequest(h)
  PROVE  StageInv'
<1>1. /\ JobOK(job[h]) /\ UNCHANGED database
      /\ Goto(h, "abort_task") /\ "abort_task" \in Point
      /\ pending' \subseteq pending
  BY DEF StageInv, JobsOK, WithdrawRequest, Point
<1>2. TablesOK' /\ TablesKept
  BY <1>1, TablesFromInv, SameTables
<1>3. PointOK(job[h])'
  BY <1>1, GotoOK DEF PointOK, JobOK
<1>4. JobOK(job[h])'
  BY <1>1, <1>2, <1>3, GotoOK, MoveOK
<1>. QED BY <1>1, <1>4, GotoOK, ReadStepOK DEF WithdrawRequest, StageInv, TypeOK

\* A subtask has the run of its parent and no stage.
LEMMA CreateSubtaskOK ==
  ASSUME StageInv, NEW h \in Handlers, CreateSubtask(h)
  PROVE  StageInv'
<1>1. /\ JobOK(job[h]) /\ job[h] \in Job /\ job[h].pc = "subtasks"
      /\ job[h].run \in RunId /\ job[h].task \in TaskId \cup {None}
  BY DEF StageInv, TypeOK, JobsOK, JobOK, PointOK, CreateSubtask, At, Job
<1>2. RowsType' /\ RowsKept /\ RowsOK'
  BY TablesFromInv, UpdateRowsOK DEF TablesOK, RowsType, CreateSubtask
<1>3. TasksType' /\ TasksKept /\ TasksOK'
  <2>1. "pending" \in {"running", "pending"} /\ NoStage \in {NoStage, Learning}
          /\ NoStage # Learning
    BY DEF NoStage, Learning
  <2>. QED BY <1>1, <1>2, <2>1, TablesFromInv, InsertTaskOK
           DEF TablesOK, CreateSubtask
<1>4. TablesOK' /\ TablesKept
  BY <1>2, <1>3 DEF TablesOK, TablesKept
<1>5. JobOK(job[h])'
  <2>1. RowsType /\ TasksType /\ RowsType' /\ TasksType' /\ job' = job
    BY <1>4, TablesFromInv DEF TablesOK, CreateSubtask
  <2>. QED BY <1>1, <1>4, <2>1, JobKept
<1>. QED BY <1>4, <1>5, TableStepOK DEF CreateSubtask, StageInv, TypeOK

\* The next stage is inserted for a run that has the one before.
LEMMA AdvanceRowOK ==
  ASSUME StageInv, NEW h \in Handlers, AdvanceRow(h)
  PROVE  StageInv'
<1>. DEFINE next == NextStage(job[h].stage)
<1>1. /\ JobOK(job[h]) /\ job[h].run \in RunId /\ HasNext(job[h].stage)
      /\ job[h].kind \in {"result", "recovery"}
      /\ HasRow(job[h].run, job[h].stage)
  BY DEF StageInv, JobsOK, JobOK, PointOK, AdvanceRow, At, HasNext, Stages,
         NoStage, Learning, SkillManage
<1>2. next \in Stages /\ next - 1 = job[h].stage
  BY <1>1 DEF HasNext, NextStage, Stages, Learning, SkillManage
<1>. HIDE DEF next
<1>3. RowsType' /\ RowsKept /\ RowsOK' /\ HasRow(job[h].run, next)'
  <2>1. \A r, s : r \in RunId /\ s \in Stages /\ HasRow(r, s - 1)
                    /\ InsertRow(r, s)
                  => RowsType' /\ RowsKept /\ RowsOK'
                       /\ \E k \in 1 .. nrows' : rows'[k].run = r
                                                   /\ rows'[k].stage = s
    BY TablesFromInv, InsertRowOK DEF TablesOK, HasRow
  <2>2. InsertRow(job[h].run, next) /\ job'[h].run = job[h].run
          /\ job'[h].stage = job[h].stage
    BY GotoOK DEF AdvanceRow, next, Point
  <2>3. HasRow(job[h].run, next - 1)
    BY <1>1, <1>2
  <2>. QED BY <1>1, <1>2, <2>1, <2>2, <2>3 DEF HasRow, next
<1>4. TasksType' /\ TasksKept /\ TasksOK'
  BY <1>3, TablesFromInv, UpdateTasksOK DEF TablesOK, TasksType, AdvanceRow
<1>5. TablesOK' /\ TablesKept
  BY <1>3, <1>4 DEF TablesOK, TablesKept
<1>6. Goto(h, "advance_task") /\ "advance_task" \in Point
  BY DEF AdvanceRow, Point
<1>7. PointOK(job[h])'
  BY <1>1, <1>3, <1>6, GotoOK DEF PointOK, HasRow, next
<1>8. JobOK(job[h])'
  BY <1>5, <1>6, <1>7, GotoOK, MoveOK
<1>. QED BY <1>5, <1>6, <1>8, GotoOK, TableStepOK
         DEF AdvanceRow, StageInv, TypeOK

\* The task moves to the stage whose row was inserted before.
LEMMA AdvanceTaskOK ==
  ASSUME StageInv, NEW h \in Handlers, AdvanceTask(h)
  PROVE  StageInv'
<1>. DEFINE next == NextStage(job[h].stage)
<1>1. /\ JobOK(job[h]) /\ job[h].run \in RunId /\ HasNext(job[h].stage)
      /\ HasRow(job[h].run, next) /\ TaskIsOf(job[h].task, job[h].run)
  BY DEF StageInv, JobsOK, JobOK, PointOK, AdvanceTask, At
<1>2. next \in Stages
  BY <1>1 DEF HasNext, NextStage, Stages, Learning, SkillManage
<1>3. RowsType' /\ RowsKept /\ RowsOK'
  BY TablesFromInv, UpdateRowsOK DEF TablesOK, RowsType, AdvanceTask
<1>4. TasksType' /\ TasksKept /\ TasksOK'
  <2>. DEFINE moved == [tasks[job[h].task] EXCEPT
                          !.stage = next,
                          !.status = IF job[h].kind = "recovery"
                                     THEN "running" ELSE @]
  <2>1. tasks' = IF ~LiveTask(job[h].task) THEN tasks
                 ELSE [tasks EXCEPT ![job[h].task] = moved]
    BY DEF AdvanceTask
  <2>2. tasks \in [TaskId -> Task] /\ ntasks' = ntasks
    BY DEF StageInv, TypeOK, AdvanceTask
  <2>. HIDE DEF next
  <2>3. LiveTask(job[h].task) =>
          /\ moved \in Task /\ job[h].task \in TaskId
          /\ moved.run = tasks[job[h].task].run /\ moved.stage = next
          /\ moved.status \in {"running", tasks[job[h].task].status}
    <3>1. ASSUME LiveTask(job[h].task)
          PROVE  job[h].task \in TaskId /\ tasks[job[h].task] \in Task
      BY <2>2, <3>1 DEF LiveTask
    <3>2. ASSUME NEW u \in Task, NEW st \in {"running", u.status}
          PROVE  /\ [u EXCEPT !.stage = next, !.status = st] \in Task
                 /\ [u EXCEPT !.stage = next, !.status = st].run = u.run
                 /\ [u EXCEPT !.stage = next, !.status = st].stage = next
                 /\ [u EXCEPT !.stage = next, !.status = st].status = st
      BY <1>2, <3>2 DEF Task, TaskStatus
    <3>. QED BY <3>1, <3>2
  <2>. HIDE DEF moved
  <2>5. tasks' \in [TaskId -> Task]
    BY <2>1, <2>2, <2>3
  <2>4. ASSUME NEW t \in TaskId
        PROVE  /\ tasks'[t].run = tasks[t].run
               /\ tasks'[t].status = "absent" <=> tasks[t].status = "absent"
               /\ tasks'[t].stage = tasks[t].stage
                    \/ HasRow(tasks[t].run, tasks[t].stage)'
               /\ tasks'[t].status = "completed"
                    => tasks[t].status = "completed"
    <3>1. CASE tasks'[t] = tasks[t]
      BY <3>1
    <3>2. CASE tasks'[t] # tasks[t]
      <4>1. t = job[h].task /\ LiveTask(t)
        BY <2>1, <2>2, <3>2
      <4>2. /\ tasks'[t].run = tasks[t].run
            /\ tasks'[t].stage = next
            /\ tasks'[t].status \in {"running", tasks[t].status}
        BY <2>1, <2>2, <2>3, <4>1
      <4>3. tasks[t].run = job[h].run
        BY <1>1, <4>1 DEF TaskIsOf, LiveTask, TaskId, None
      <4>4. \E i \in 1 .. nrows' : rows'[i].run = tasks[t].run
                                     /\ rows'[i].stage = next
        BY <1>1, <4>3 DEF HasRow, AdvanceTask, next
      <4>. QED BY <4>1, <4>2, <4>4 DEF LiveTask, Gone, HasRow
    <3>. QED BY <3>1, <3>2
  <2>. QED BY <1>3, <2>2, <2>4, <2>5, TablesFromInv, UpdateTasksOK DEF TablesOK
<1>5. TablesOK' /\ TablesKept
  BY <1>3, <1>4 DEF TablesOK, TablesKept
<1>6. (sent \subseteq RunId \X Stages)'
  BY <1>1, <1>2 DEF AdvanceTask, StageInv, TypeOK
<1>. QED BY <1>5, <1>6, ReturnOK, TableStepOK DEF AdvanceTask, StageInv

\* A task is completed by a handler that was at the last stage.
LEMMA FinishTaskOK ==
  ASSUME StageInv, NEW h \in Handlers, FinishTask(h)
  PROVE  StageInv'
<1>1. HasRow(job[h].run, SkillManage) /\ TaskIsOf(job[h].task, job[h].run)
  BY DEF StageInv, JobsOK, JobOK, PointOK, FinishTask, At, SkillManage, NoStage
<1>2. LiveTask(job[h].task) => HasRow(tasks[job[h].task].run, SkillManage)
  BY <1>1 DEF TaskIsOf, LiveTask, TaskId, None
<1>3. TablesOK' /\ TablesKept
  BY <1>2, TablesFromInv, SetTaskOK DEF FinishTask, TaskStatus, Gone
<1>. QED BY <1>3, ReturnOK, TableStepOK DEF FinishTask, StageInv, TypeOK

\* A retry updates a row, whose run and stage stay.
LEMMA RetryRowOK ==
  ASSUME StageInv, NEW h \in Handlers, RetryRow(h)
  PROVE  StageInv'
<1>1. JobOK(job[h]) /\ job[h].kind = "recovery" /\ job[h].stage \in Stages
  BY DEF StageInv, JobsOK, JobOK, PointOK, RetryRow, At
<1>2. RowsType' /\ RowsKept /\ RowsOK'
  <2>1. rows' \in [RowId -> Row] /\ rows \in [RowId -> Row]
    <3>1. "running" \in RowStatus
      BY DEF RowStatus
    <3>. QED BY <3>1 DEF RetryRow, LiveRow, StageInv, TypeOK, Row
  <2>2. ASSUME NEW i \in RowId
        PROVE  /\ rows'[i].run = rows[i].run /\ rows'[i].stage = rows[i].stage
               /\ rows'[i].status = "absent" <=> rows[i].status = "absent"
    BY <2>1 DEF RetryRow, LiveRow, Gone, Row
  <2>. QED BY <2>1, <2>2, TablesFromInv, UpdateRowsOK DEF TablesOK, RetryRow
<1>3. TasksType' /\ TasksKept /\ TasksOK'
  BY <1>2, TablesFromInv, UpdateTasksOK DEF TablesOK, TasksType, RetryRow
<1>4. TablesOK' /\ TablesKept
  BY <1>2, <1>3 DEF TablesOK, TablesKept
<1>5. Goto(h, "retry_task") /\ "retry_task" \in Point
  BY DEF RetryRow, Point
<1>6. PointOK(job[h])'
  BY <1>1, <1>5, GotoOK DEF PointOK
<1>7. JobOK(job[h])'
  BY <1>4, <1>5, <1>6, GotoOK, MoveOK
<1>. QED BY <1>4, <1>5, <1>7, GotoOK, TableStepOK
         DEF RetryRow, StageInv, TypeOK

\* A proposal is for a task that is there, and takes its run.
LEMMA LookUpDecomposedOK ==
  ASSUME StageInv, NEW h \in Handlers, LookUpDecomposed(h)
  PROVE  StageInv'
<1>1. /\ job[h] \in Job /\ job[h].kind = "decompose"
      /\ job[h].stage = NoStage /\ UNCHANGED database
  BY DEF StageInv, TypeOK, JobsOK, JobOK, PointOK, LookUpDecomposed, At
<1>2. CASE Return(h)
  BY <1>1, <1>2, ReturnOK, ReadStepOK
     DEF LookUpDecomposed, requests, StageInv, TypeOK
<1>3. CASE ~Return(h)
  <2>1. /\ LiveTask(job[h].task)
        /\ job' = [job EXCEPT ![h] = [@ EXCEPT !.pc = "subtasks",
                                               !.run = tasks[job[h].task].run]]
    BY <1>3 DEF LookUpDecomposed
  <2>2. job[h].task <= ntasks /\ tasks[job[h].task].run \in RunId
    BY <2>1 DEF StageInv, TasksOK, TaskOK, LiveTask, Gone
  <2>3. [job[h] EXCEPT !.pc = "subtasks", !.run = tasks[job[h].task].run] \in Job
    <3>1. "subtasks" \in Point
      BY DEF Point
    <3>. QED BY <1>1, <2>2, <3>1 DEF Job
  <2>4. /\ job' \in [Handlers -> Job]
        /\ \A g \in Handlers \ {h} : job'[g] = job[g]
        /\ job'[h] = [job[h] EXCEPT !.pc = "subtasks",
                                    !.run = tasks[job[h].task].run]
    BY <2>1, <2>3 DEF StageInv, TypeOK
  <2>5. JobOK(job[h])'
    <3>1. /\ job'[h].pc = "subtasks" /\ job'[h].kind = "decompose"
          /\ job'[h].stage = NoStage /\ job'[h].task = job[h].task
          /\ job'[h].run = tasks[job[h].task].run
      BY <1>1, <2>4 DEF Job
    <3>2. job[h].task # None
      BY <2>1 DEF LiveTask, TaskId, None
    <3>. QED BY <1>1, <2>2, <3>1, <3>2 DEF JobOK, PointOK, TaskIsOf, database
  <2>. QED BY <1>1, <2>4, <2>5, ReadStepOK
           DEF LookUpDecomposed, requests, StageInv, TypeOK
<1>. QED BY <1>2, <1>3

\* A deletion begins with a task.
LEMMA BeginDeleteOK ==
  ASSUME StageInv, NEW h \in Handlers, BeginDelete(h)
  PROVE  StageInv'
<1>1. PICK t \in TaskId, point \in {"delete_abort", "delete_collect"} :
        job' = [job EXCEPT ![h] = [Idle EXCEPT !.kind = "delete", !.task = t,
                                               !.pc = point]]
  BY DEF BeginDelete
<1>2. /\ job' \in [Handlers -> Job]
      /\ \A g \in Handlers \ {h} : job'[g] = job[g]
      /\ job'[h].kind = "delete" /\ job'[h].stage = NoStage
      /\ job'[h].pc = point /\ job'[h].task = t
  BY <1>1 DEF StageInv, TypeOK, Job, Idle, Point
<1>3. JobOK(job[h])'
  BY <1>2 DEF JobOK, PointOK, TaskId, None
<1>. QED BY <1>2, <1>3, ReadStepOK DEF BeginDelete, requests, StageInv, TypeOK

\* The tasks to be deleted are collected; nothing is written.
LEMMA DeleteCollectOK ==
  ASSUME StageInv, NEW h \in Handlers, DeleteCollect(h)
  PROVE  StageInv'
<1>. DEFINE t      == job[h].task
            run    == IF LiveTask(t) THEN tasks[t].run ELSE None
            doomed == {t} \cup {u \in TaskId : LiveTask(u) /\ tasks[u].parent = t}
<1>1. /\ job[h] \in Job /\ job[h].kind = "delete" /\ job[h].stage = NoStage
      /\ t # None
      /\ job' = [job EXCEPT ![h] = [@ EXCEPT !.pc = "delete_tasks", !.run = run,
                                             !.doomed = doomed]]
  BY DEF StageInv, TypeOK, JobsOK, JobOK, PointOK, DeleteCollect, At
<1>2. run \in RunId \cup {None} /\ doomed \in SUBSET TaskId
  BY <1>1 DEF StageInv, TypeOK, Task, LiveTask, Job
<1>. HIDE DEF run, doomed, t
<1>3. [job[h] EXCEPT !.pc = "delete_tasks", !.run = run, !.doomed = doomed] \in Job
  <2>1. "delete_tasks" \in Point
    BY DEF Point
  <2>. QED BY <1>1, <1>2, <2>1 DEF Job
<1>4. /\ job' \in [Handlers -> Job]
      /\ \A g \in Handlers \ {h} : job'[g] = job[g]
      /\ job'[h] = [job[h] EXCEPT !.pc = "delete_tasks", !.run = run,
                                  !.doomed = doomed]
  BY <1>1, <1>3 DEF StageInv, TypeOK
<1>5. JobOK(job[h])'
  BY <1>1, <1>4 DEF JobOK, PointOK, Job, t
<1>. QED BY <1>4, <1>5, ReadStepOK DEF DeleteCollect, requests, StageInv, TypeOK

\* A deleted task keeps its run in the history of the table.
LEMMA DeleteOneTaskOK ==
  ASSUME StageInv, NEW h \in Handlers, DeleteOneTask(h)
  PROVE  StageInv'
<1>1. PICK u \in job[h].doomed, point \in {"delete_rows", "delete_tasks"} :
        /\ SetTask(u, "deleted")
        /\ job' = [job EXCEPT ![h] = [@ EXCEPT !.doomed = job[h].doomed \ {u},
                                               !.pc = point]]
  BY DEF DeleteOneTask, Oldest
<1>2. /\ job[h] \in Job /\ job[h].kind = "delete" /\ job[h].stage = NoStage
      /\ job[h].task # None
  BY DEF StageInv, TypeOK, JobsOK, JobOK, PointOK, DeleteOneTask, At
<1>3. TablesOK' /\ TablesKept
  BY <1>1, TablesFromInv, SetTaskOK DEF DeleteOneTask, TaskStatus, Gone
<1>4. [job[h] EXCEPT !.doomed = job[h].doomed \ {u}, !.pc = point] \in Job
  <2>1. point \in Point
    BY DEF Point
  <2>. QED BY <1>2, <2>1 DEF Job
<1>5. /\ job' \in [Handlers -> Job]
      /\ \A g \in Handlers \ {h} : job'[g] = job[g]
      /\ job'[h] = [job[h] EXCEPT !.doomed = job[h].doomed \ {u}, !.pc = point]
  BY <1>1, <1>4 DEF StageInv, TypeOK
<1>6. JobOK(job[h])'
  BY <1>2, <1>5 DEF JobOK, PointOK, Job
<1>. QED BY <1>3, <1>5, <1>6, TableStepOK DEF DeleteOneTask, StageInv, TypeOK

\* Deleted rows keep their run and stage in the history of the table.
LEMMA DeleteRowsOK ==
  ASSUME StageInv, NEW h \in Handlers, DeleteRows(h)
  PROVE  StageInv'
<1>1. RowsType' /\ RowsKept /\ RowsOK'
  <2>1. rows' \in [RowId -> Row] /\ rows \in [RowId -> Row]
    <3>1. "deleted" \in RowStatus
      BY DEF RowStatus, Gone
    <3>2. rows \in [RowId -> Row]
      BY DEF StageInv, TypeOK
    <3>3. ASSUME NEW i \in RowId
          PROVE  [rows[i] EXCEPT !.status = "deleted", !.stale = FALSE] \in Row
      BY <3>1, <3>2 DEF Row
    <3>. QED BY <3>2, <3>3 DEF DeleteRows
  <2>2. ASSUME NEW i \in RowId
        PROVE  /\ rows'[i].run = rows[i].run /\ rows'[i].stage = rows[i].stage
               /\ rows'[i].status = "absent" <=> rows[i].status = "absent"
    BY <2>1 DEF DeleteRows, LiveRow, Gone, Row
  <2>. QED BY <2>1, <2>2, TablesFromInv, UpdateRowsOK DEF TablesOK, DeleteRows
<1>2. TasksType' /\ TasksKept /\ TasksOK'
  BY <1>1, TablesFromInv, UpdateTasksOK DEF TablesOK, TasksType, DeleteRows
<1>3. TablesOK' /\ TablesKept
  BY <1>1, <1>2 DEF TablesOK, TablesKept
<1>. QED BY <1>3, ReturnOK, TableStepOK DEF DeleteRows, StageInv, TypeOK

\* An answer to a decompose request takes it out of the map.
LEMMA ReceiveDecompositionOK ==
  ASSUME StageInv, NEW h \in Handlers, ReceiveDecomposition(h)
  PROVE  StageInv'
<1>1. PICK q \in pending :
        \/ UNCHANGED job
        \/ job' = [job EXCEPT ![h] = [Idle EXCEPT !.pc = "decompose_lookup",
                                                  !.kind = "decompose",
                                                  !.task = asked[q].task,
                                                  !.req = q]]
  BY DecompositionReply
<1>2. pending' \subseteq pending /\ UNCHANGED database
  BY DecompositionReply DEF ReceiveDecomposition, Claim
<1>3. CASE UNCHANGED job
  <2>1. JobOK(job[h])'
    BY <1>2, <1>3
       DEF StageInv, JobsOK, JobOK, PointOK, HasRow, TaskIsOf, database
  <2>. QED BY <1>2, <1>3, <2>1, ReadStepOK DEF ReceiveDecomposition, StageInv, TypeOK
<1>4. CASE ~UNCHANGED job
  <2>1. q \in ReqId /\ asked[q].task \in TaskId \cup {None}
    BY ConstantsOK DEF StageInv, TypeOK, Request, ReqId
  <2>2. /\ job' \in [Handlers -> Job]
        /\ \A g \in Handlers \ {h} : job'[g] = job[g]
        /\ job'[h].kind = "decompose" /\ job'[h].stage = NoStage
        /\ job'[h].pc = "decompose_lookup"
    <3>1. [Idle EXCEPT !.pc = "decompose_lookup", !.kind = "decompose",
                       !.task = asked[q].task, !.req = q] \in Job
      BY <2>1, IdleOK DEF Job, Point
    <3>. QED BY <1>1, <1>4, <3>1 DEF StageInv, TypeOK, Idle
  <2>3. JobOK(job[h])'
    BY <2>2 DEF JobOK, PointOK
  <2>. QED BY <1>2, <2>2, <2>3, ReadStepOK
           DEF ReceiveDecomposition, StageInv, TypeOK
<1>. QED BY <1>3, <1>4

-----------------------------------------------------------------------------
(* The steps of no handler.                                                *)

\* A step that leaves every handler where it is, or puts it back to idle.
LEMMA OtherStepOK ==
  ASSUME StageInv, TablesOK', TablesKept, AskedType', AskedOK',
         job' \in [Handlers -> Job],
         \A h \in Handlers : job'[h] = job[h] \/ job'[h] = Idle,
         (sent \subseteq RunId \X Stages)', (monitor \in Monitor)',
         (faults \in 0 .. MaxFaults)'
  PROVE  StageInv'
<1>1. JobsOK'
  <2>1. SUFFICES ASSUME NEW h \in Handlers
        PROVE  JobOK(job[h])'
    BY DEF JobsOK
  <2>2. CASE job'[h] = job[h]
    <3>1. RowsType /\ TasksType /\ RowsType' /\ TasksType'
      BY TablesFromInv DEF TablesOK
    <3>. QED BY <2>2, <3>1, JobKept DEF StageInv, TypeOK, JobsOK
  <2>3. CASE job'[h] = Idle
    BY <2>3 DEF Idle, JobOK, PointOK, TaskIsOf, None, NoStage
  <2>. QED BY <2>2, <2>3
<1>2. TypeOK'
  BY DEF StageInv, TypeOK, TablesOK, RowsType, TasksType, AskedType
<1>. QED BY <1>1, <1>2 DEF StageInv, TablesOK

\* A decompose request is made for a task and its run.
LEMMA RequestDecompositionOK ==
  ASSUME StageInv, RequestDecomposition
  PROVE  StageInv'
<1>1. PICK t \in TaskId : LiveTask(t) /\ NewRequest("decompose", tasks[t].run, t)
  BY DEF RequestDecomposition
<1>2. tasks[t].run \in RunId /\ TaskIsOf(t, tasks[t].run) /\ UNCHANGED database
  BY <1>1 DEF StageInv, TasksOK, TaskOK, LiveTask, Gone, TaskIsOf,
              RequestDecomposition
<1>3. AskedType' /\ AskedOK'
  BY <1>1, <1>2, NewRequestOK
<1>4. TablesOK' /\ TablesKept
  BY <1>2, TablesFromInv, SameTables
<1>. QED BY <1>3, <1>4, OtherStepOK DEF RequestDecomposition, StageInv, TypeOK

\* A row that grows old keeps its run and stage.
LEMMA GrowStaleOK ==
  ASSUME StageInv, NEW i \in RowId, GrowStale(i)
  PROVE  StageInv'
<1>1. RowsType' /\ RowsKept /\ RowsOK'
  BY TablesFromInv, UpdateRowsOK
     DEF TablesOK, GrowStale, RowsType, Row, RowStatus, Gone
<1>2. TasksType' /\ TasksKept /\ TasksOK'
  BY <1>1, TablesFromInv, UpdateTasksOK DEF TablesOK, TasksType, GrowStale
<1>3. TablesOK' /\ TablesKept
  BY <1>1, <1>2 DEF TablesOK, TablesKept
<1>4. AskedType' /\ AskedOK'
  BY <1>3, SameRequests DEF GrowStale, requests
<1>. QED BY <1>3, <1>4, OtherStepOK DEF GrowStale, StageInv, TypeOK

\* The monitor writes the status of rows and tasks, never "completed".
LEMMA MonitorStepOK ==
  ASSUME StageInv, MonitorStep
  PROVE  StageInv'
<1>1. /\ UNCHANGED <<requests, sent, job, faults, nrows, ntasks>>
      /\ monitor \in Monitor
  BY DEF MonitorStep, MonitorScan, MonitorMark, MonitorLookup, MonitorFail,
         database, StageInv, TypeOK
<1>2. TablesOK' /\ TablesKept
  <2>1. CASE MonitorScan \/ MonitorLookup
    BY <2>1, TablesFromInv, SameTables DEF MonitorScan, MonitorLookup
  <2>2. CASE MonitorMark
    <3>1. PICK i \in RowId : SetRow(i, "timed_out")
      BY <1>1, <2>2 DEF MonitorMark, Oldest, Monitor
    <3>. QED BY <2>2, <3>1, TablesFromInv, SetRowOK
             DEF MonitorMark, RowStatus, Gone
  <2>3. CASE MonitorFail
    BY <2>3, TablesFromInv, SetTaskOK DEF MonitorFail, TaskStatus, Gone
  <2>. QED BY <2>1, <2>2, <2>3 DEF MonitorStep
<1>3. AskedType' /\ AskedOK'
  BY <1>1, <1>2, SameRequests DEF requests
<1>4. (monitor \in Monitor)'
  <2>1. MonitorNext \in Monitor
    BY <1>1 DEF MonitorNext, Monitor, Resting
  <2>2. CASE MonitorScan
    BY <2>2 DEF MonitorScan, Monitor, Resting, StaleRows, RunningRows
  <2>3. CASE MonitorMark
    BY <1>1, <2>3 DEF MonitorMark, Monitor, Oldest
  <2>4. CASE MonitorLookup
    <3>1. PICK t \in TaskOfRun(rows[monitor.row].run) :
            monitor' = IF t = None THEN MonitorNext
                       ELSE [monitor EXCEPT !.pc = "fail", !.task = t]
      BY <2>4 DEF MonitorLookup
    <3>2. t \in TaskId \cup {None}
      BY TaskOfRunOK
    <3>. QED BY <1>1, <2>1, <3>1, <3>2 DEF Monitor
  <2>5. CASE MonitorFail
    BY <2>1, <2>5 DEF MonitorFail
  <2>. QED BY <2>2, <2>3, <2>4, <2>5 DEF MonitorStep
<1>. QED BY <1>1, <1>2, <1>3, <1>4, OtherStepOK DEF StageInv, TypeOK

\* A handler that fails at a database call returns.
LEMMA DbErrorOK ==
  ASSUME StageInv, NEW h \in Handlers, DbError(h)
  PROVE  StageInv'
<1>1. (faults \in 0 .. MaxFaults)'
  BY ConstantsOK DEF DbError, StageInv, TypeOK
<1>. QED BY <1>1, ReturnOK, ReadStepOK DEF DbError, requests, StageInv, TypeOK

\* A restart leaves the tables and empties the memory.
LEMMA CrashOK ==
  ASSUME StageInv, Crash
  PROVE  StageInv'
<1>1. TablesOK' /\ TablesKept
  BY TablesFromInv, SameTables DEF Crash
<1>2. AskedType' /\ AskedOK'
  BY <1>1, SameRequests DEF Crash
<1>3. (monitor \in Monitor)' /\ job' \in [Handlers -> Job]
  BY IdleOK DEF Crash, Monitor, Resting
<1>4. (faults \in 0 .. MaxFaults)'
  BY ConstantsOK DEF Crash, StageInv, TypeOK
<1>. QED BY <1>1, <1>2, <1>3, <1>4, OtherStepOK DEF Crash, StageInv, TypeOK

-----------------------------------------------------------------------------
(* The invariant and what follows from it.                                 *)

\* The empty tables satisfy the invariant.
LEMMA InitStageInv == Init => StageInv
<1>1. SUFFICES ASSUME Init
      PROVE  StageInv
  OBVIOUS
<1>. USE ConstantsOK
<1>2. TypeOK
  <2>1. rows \in [RowId -> Row] /\ nrows \in 0 .. MaxRows
    BY <1>1 DEF Init, Row, RowStatus, Gone
  <2>2. tasks \in [TaskId -> Task] /\ ntasks \in 0 .. MaxTasks
    BY <1>1 DEF Init, Task, TaskStatus, Gone, MaxTasks
  <2>3. /\ asked \in [ReqId -> Request] /\ nreqs \in 0 .. MaxRequests
        /\ pending \subseteq 1 .. nreqs
    BY <1>1 DEF Init, Request
  <2>4. job \in [Handlers -> Job] /\ monitor \in Monitor
    BY <1>1, IdleOK DEF Init, Monitor, Resting
  <2>5. faults \in 0 .. MaxFaults /\ sent \subseteq RunId \X Stages
    BY <1>1 DEF Init
  <2>. QED BY <2>1, <2>2, <2>3, <2>4, <2>5 DEF TypeOK
<1>3. RowsOK /\ TasksOK /\ AskedOK
  BY <1>1 DEF Init, RowsOK, RowOK, TasksOK, TaskOK, AskedOK, RowId, TaskId
<1>4. JobsOK
  BY <1>1, IdleOK DEF Init, JobsOK
<1>. QED BY <1>2, <1>3, <1>4 DEF StageInv

\* Every step a handler takes by itself keeps the invariant.
LEMMA HandlerStepsOK ==
  ASSUME StageInv, NEW h \in Handlers, HandlerStep(h)
  PROVE  StageInv'
BY StartTaskOK, RecordResultOK, LookUpTaskOK, SetRecoveringOK, AskRecoveryOK,
   WithdrawRequestOK, AbortTaskOK, CreateSubtaskOK, SubtasksCreatedOK,
   AdvanceRowOK, AdvanceTaskOK, FinishTaskOK, LookUpStageOK, CheckRetriesOK,
   FindRetryRowOK, RetryRowOK, RetryTaskOK, LookUpDecomposedOK,
   DecomposeTaskOK, DeleteAbortOK, DeleteCollectOK, DeleteOneTaskOK,
   DeleteRowsOK
DEF HandlerStep

\* The invariant is inductive.
LEMMA StageInvStep == StageInv /\ [Next]_vars => StageInv'
<1>1. SUFFICES ASSUME StageInv, [Next]_vars
      PROVE  StageInv'
  OBVIOUS
<1>2. ASSUME NEW h \in Handlers,
             \/ StartRun(h) \/ ReceiveResult(h) \/ ReceiveRecovery(h)
             \/ ReceiveDecomposition(h) \/ BeginDelete(h)
      PROVE  StageInv'
  BY <1>1, <1>2, StartRunOK, ReceiveResultOK, ReceiveRecoveryOK,
     ReceiveDecompositionOK, BeginDeleteOK
<1>3. ASSUME NEW h \in Handlers, HandlerStep(h)
      PROVE  StageInv'
  BY <1>1, <1>3, HandlerStepsOK
<1>4. ASSUME NEW h \in Handlers, DbError(h)
      PROVE  StageInv'
  BY <1>1, <1>4, DbErrorOK
<1>5. ASSUME NEW i \in RowId, GrowStale(i)
      PROVE  StageInv'
  BY <1>1, <1>5, GrowStaleOK
<1>6. CASE RequestDecomposition \/ MonitorStep \/ Crash
  BY <1>1, <1>6, RequestDecompositionOK, MonitorStepOK, CrashOK
<1>7. CASE UNCHANGED vars
  <2>1. TablesOK' /\ TablesKept
    BY <1>1, <1>7, TablesFromInv, SameTables DEF vars, database
  <2>2. AskedType' /\ AskedOK'
    BY <1>1, <1>7, <2>1, SameRequests DEF vars
  <2>. QED BY <1>1, <1>7, <2>1, <2>2, OtherStepOK DEF vars, StageInv, TypeOK
<1>. QED BY <1>1, <1>2, <1>3, <1>4, <1>5, <1>6, <1>7 DEF Next

\* Whatever overlaps, fails or restarts, every reachable state satisfies the
\* inductive invariant: what each handler of the coordinator knows at its
\* program point, and where the rows and tasks it relies on stand.
THEOREM StageInvariant == Spec => []StageInv
BY InitStageInv, StageInvStep, PTL DEF Spec

\* Every reachable state of the coordinator has the types of TypeOK.
THEOREM TypeCorrect == Spec => []TypeOK
<1>1. StageInv => TypeOK
  BY DEF StageInv
<1>. QED BY <1>1, StageInvariant, PTL

\* on_stage_result and on_recovery_response never put a run in a stage whose
\* predecessor it has not been in, with any number of handlers at work.
THEOREM StagesAreInOrder == Spec => []StagesInOrder
<1>1. StageInv => StagesInOrder
  BY ConstantsOK DEF StageInv, TypeOK, RowsOK, RowOK, StagesInOrder, RowId
<1>. QED BY <1>1, StageInvariant, PTL

\* A task is completed only for a run that has a row of each of the stages.
THEOREM CompletedIsComplete == Spec => []CompletedRanAllStages
<1>1. StageInv => CompletedRanAllStages
  <2>1. SUFFICES ASSUME StageInv, NEW t \in TaskId,
                        tasks[t].status = "completed", NEW s \in Stages
        PROVE  HasRow(tasks[t].run, s)
    BY DEF CompletedRanAllStages
  <2>2. HasRow(tasks[t].run, SkillManage)
    BY <2>1 DEF StageInv, TasksOK, TaskOK
  <2>3. ASSUME NEW n \in 2 .. 5, HasRow(tasks[t].run, n)
        PROVE  HasRow(tasks[t].run, n - 1)
    BY <2>1, <2>3, ConstantsOK
       DEF StageInv, TypeOK, RowsOK, RowOK, HasRow, RowId, Learning
  <2>4. HasRow(tasks[t].run, 5) /\ s \in 1 .. 5
    BY <2>2 DEF SkillManage, Stages, Learning
  <2>5. HasRow(tasks[t].run, 4)
    BY <2>3, <2>4
  <2>6. HasRow(tasks[t].run, 3)
    BY <2>3, <2>5
  <2>7. HasRow(tasks[t].run, 2)
    BY <2>3, <2>6
  <2>8. HasRow(tasks[t].run, 1)
    BY <2>3, <2>7
  <2>. QED BY <2>4, <2>5, <2>6, <2>7, <2>8
<1>. QED BY <1>1, StageInvariant, PTL

-----------------------------------------------------------------------------
(* The answers to requests.                                                *)

\* What the handlers that act on an answer hold: a request that was made, is
\* out of the map, and is nobody else's.
Answers == {"recovery", "decompose"}

AnswerInv ==
  \A h \in Handlers : job[h].kind \in Answers =>
    /\ job[h].req \in 1 .. nreqs
    /\ job[h].req \notin pending
    /\ \A g \in Handlers \ {h} : job[g].kind \in Answers
                                   => job[g].req # job[h].req

\* No handler takes up an answer in a step.
NoneTaken ==
  \A g \in Handlers : job'[g].kind \in Answers =>
    job[g].kind = job'[g].kind /\ job[g].req = job'[g].req

\* No request that was made comes back into the map.
NoneBack ==
  /\ nreqs' \in Nat /\ nreqs <= nreqs'
  /\ \A q \in 1 .. nreqs : q \in pending' => q \in pending

LEMMA AnswerKept ==
  ASSUME TypeOK, AnswerInv, NoneTaken, NoneBack
  PROVE  AnswerInv'
BY DEF TypeOK, AnswerInv, NoneTaken, NoneBack

\* The first answer to a request takes it out of the map.
LEMMA AnswerTaken ==
  ASSUME TypeOK, AnswerInv, NEW h \in Handlers, NEW q \in pending, NEW j,
         Claim(q), nreqs' = nreqs, j.req = q,
         job' = [job EXCEPT ![h] = j]
  PROVE  AnswerInv'
<1>1. job'[h] = j /\ \A g \in Handlers \ {h} : job'[g] = job[g]
  BY DEF TypeOK
<1>2. q \in 1 .. nreqs /\ q \notin pending' /\ pending' \subseteq pending
  BY DEF TypeOK, Claim
<1>. QED BY <1>1, <1>2 DEF AnswerInv

\* A new request has a number no earlier one has.
LEMMA NewRequestNew ==
  ASSUME TypeOK, NEW kind, NEW run, NEW t, NewRequest(kind, run, t)
  PROVE  NoneBack
BY DEF TypeOK, NewRequest, NoneBack

\* A handler that goes on keeps its kind and its request, one that returns
\* drops them.
LEMMA HandlerTakesNone ==
  ASSUME StageInv, NEW h \in Handlers, HandlerStep(h)
  PROVE  NoneTaken
<1>0. job \in [Handlers -> Job] /\ job[h] \in Job
  BY DEF StageInv, TypeOK
<1>1. CASE Return(h)
  BY <1>0, <1>1 DEF Return, Idle, NoneTaken, Answers
<1>2. ASSUME NEW p, Goto(h, p)
      PROVE  NoneTaken
  BY <1>0, <1>2 DEF Goto, NoneTaken, Job
<1>3. ASSUME UNCHANGED job
      PROVE  NoneTaken
  BY <1>3 DEF NoneTaken
<1>4. ASSUME NEW j, job' = [job EXCEPT ![h] = j], j.kind = job[h].kind,
             j.req = job[h].req \/ job[h].kind = "result"
      PROVE  NoneTaken
  BY <1>0, <1>4 DEF NoneTaken, Answers
<1>5. CASE LookUpTask(h)
  <2>1. ASSUME NEW t, NEW p,
               job' = [job EXCEPT ![h] = [@ EXCEPT !.pc = p, !.task = t]]
        PROVE  NoneTaken
    BY <1>0, <1>4, <2>1 DEF Job
  <2>. QED BY <1>1, <1>5, <2>1 DEF LookUpTask
<1>6. CASE AskRecovery(h)
  <2>1. job[h].kind = "result"
    BY <1>6 DEF AskRecovery, At, StageInv, JobsOK, JobOK, PointOK
  <2>2. ASSUME job' = [job EXCEPT ![h] = [@ EXCEPT !.pc = "emit_failed",
                                                   !.req = nreqs + 1]]
        PROVE  NoneTaken
    BY <1>0, <1>4, <2>1, <2>2 DEF Job
  <2>. QED BY <1>1, <1>6, <2>2 DEF AskRecovery
<1>7. CASE LookUpStage(h)
  <2>1. ASSUME NEW t, NEW s, NEW p,
               job' = [job EXCEPT ![h] = [@ EXCEPT !.pc = p, !.task = t,
                                                   !.stage = s]]
        PROVE  NoneTaken
    BY <1>0, <1>4, <2>1 DEF Job
  <2>. QED BY <1>1, <1>7, <2>1 DEF LookUpStage
<1>8. CASE FindRetryRow(h)
  <2>1. ASSUME NEW i,
               job' = [job EXCEPT ![h] = [@ EXCEPT !.pc = "retry_row",
                                                   !.row = i]]
        PROVE  NoneTaken
    BY <1>0, <1>4, <2>1 DEF Job
  <2>. QED BY <1>1, <1>8, <2>1 DEF FindRetryRow
<1>9. CASE LookUpDecomposed(h)
  <2>1. ASSUME NEW r,
               job' = [job EXCEPT ![h] = [@ EXCEPT !.pc = "subtasks",
                                                   !.run = r]]
        PROVE  NoneTaken
    BY <1>0, <1>4, <2>1 DEF Job
  <2>. QED BY <1>1, <1>9, <2>1 DEF LookUpDecomposed
<1>10. CASE DeleteCollect(h)
  <2>1. ASSUME NEW r, NEW D,
               job' = [job EXCEPT ![h] = [@ EXCEPT !.pc = "delete_tasks",
                                                   !.run = r, !.doomed = D]]
        PROVE  NoneTaken
    BY <1>0, <1>4, <2>1 DEF Job
  <2>. QED BY <1>10, <2>1 DEF DeleteCollect
<1>11. CASE DeleteOneTask(h)
  <2>1. ASSUME NEW p, NEW D,
               job' = [job EXCEPT ![h] = [@ EXCEPT !.doomed = D, !.pc = p]]
        PROVE  NoneTaken
    BY <1>0, <1>4, <2>1 DEF Job
  <2>. QED BY <1>11, <2>1 DEF DeleteOneTask
<1>. QED BY <1>1, <1>2, <1>3, <1>5, <1>6, <1>7, <1>8, <1>9, <1>10, <1>11
   DEF HandlerStep, StartTask, RecordResult, SetRecovering, WithdrawRequest,
       AbortTask, CreateSubtask, SubtasksCreated, AdvanceRow, AdvanceTask,
       FinishTask, CheckRetries, RetryRow, RetryTask, DecomposeTask,
       DeleteAbort, DeleteRows

\* A step of a handler puts no request back.
LEMMA HandlerPutsNoneBack ==
  ASSUME TypeOK, NEW h \in Handlers, HandlerStep(h)
  PROVE  NoneBack
<1>1. CASE AskRecovery(h)
  BY <1>1, NewRequestNew DEF AskRecovery
<1>2. CASE WithdrawRequest(h)
  BY <1>2 DEF WithdrawRequest, NoneBack, TypeOK
<1>3. ASSUME UNCHANGED requests
      PROVE  NoneBack
  BY <1>3 DEF requests, NoneBack, TypeOK
<1>. QED BY <1>1, <1>2, <1>3
   DEF HandlerStep, StartTask, RecordResult, LookUpTask, SetRecovering,
       AbortTask, CreateSubtask, SubtasksCreated, AdvanceRow, AdvanceTask,
       FinishTask, LookUpStage, CheckRetries, FindRetryRow, RetryRow,
       RetryTask, LookUpDecomposed, DecomposeTask, DeleteAbort, DeleteCollect,
       DeleteOneTask, DeleteRows

\* The invariant is inductive: only the two handlers of an answer take one.
LEMMA AnswerInvStep == StageInv /\ AnswerInv /\ [Next]_vars => AnswerInv'
<1>1. SUFFICES ASSUME StageInv, AnswerInv, [Next]_vars
      PROVE  AnswerInv'
  OBVIOUS
<1>2. TypeOK
  BY <1>1 DEF StageInv
<1>3. ASSUME NoneTaken, UNCHANGED requests
      PROVE  AnswerInv'
  BY <1>1, <1>2, <1>3, AnswerKept DEF NoneBack, requests, TypeOK
<1>4. ASSUME NEW h \in Handlers, NEW j, j.kind \notin Answers,
             job' = [job EXCEPT ![h] = j]
      PROVE  NoneTaken
  BY <1>2, <1>4 DEF NoneTaken, TypeOK
<1>5. ASSUME NEW h \in Handlers, HandlerStep(h)
      PROVE  AnswerInv'
  BY <1>1, <1>2, <1>5, AnswerKept, HandlerTakesNone, HandlerPutsNoneBack
<1>6. ASSUME NEW h \in Handlers, StartRun(h)
      PROVE  AnswerInv'
  BY <1>3, <1>4, <1>6 DEF StartRun, Idle, Answers
<1>7. ASSUME NEW h \in Handlers, ReceiveResult(h)
      PROVE  AnswerInv'
  <2>1. PICK j : j.kind = "result" /\ job' = [job EXCEPT ![h] = j]
    <3>1. ASSUME NEW work, NEW said, NEW i,
                 job' = [job EXCEPT ![h] = [Idle EXCEPT !.pc = "result_record",
                                                        !.kind = "result",
                                                        !.run = work[1],
                                                        !.stage = work[2],
                                                        !.said = said,
                                                        !.row = i]]
          PROVE  \E j : j.kind = "result" /\ job' = [job EXCEPT ![h] = j]
      BY <3>1 DEF Idle
    <3>. QED BY <1>7, <3>1 DEF ReceiveResult
  <2>. QED BY <1>3, <1>4, <1>7, <2>1 DEF ReceiveResult, Answers
<1>8. ASSUME NEW h \in Handlers, BeginDelete(h)
      PROVE  AnswerInv'
  <2>1. PICK j : j.kind = "delete" /\ job' = [job EXCEPT ![h] = j]
    BY <1>8 DEF BeginDelete, Idle
  <2>. QED BY <1>3, <1>4, <1>8, <2>1 DEF BeginDelete, Answers
<1>9. ASSUME NEW h \in Handlers, ReceiveRecovery(h)
      PROVE  AnswerInv'
  <2>1. PICK q \in pending : \E j : Claim(q) /\ j.req = q
                                      /\ job' = [job EXCEPT ![h] = j]
    BY <1>9, RecoveryReply DEF Idle
  <2>. QED BY <1>1, <1>2, <1>9, <2>1, AnswerTaken DEF ReceiveRecovery
<1>10. ASSUME NEW h \in Handlers, ReceiveDecomposition(h)
       PROVE  AnswerInv'
  <2>1. PICK q \in pending :
          /\ Claim(q)
          /\ UNCHANGED job \/ \E j : j.req = q /\ job' = [job EXCEPT ![h] = j]
    BY <1>10, DecompositionReply DEF Idle
  <2>2. CASE UNCHANGED job
    BY <1>1, <1>2, <1>10, <2>1, <2>2, AnswerKept
       DEF ReceiveDecomposition, NoneTaken, NoneBack, Claim, TypeOK
  <2>. QED BY <1>1, <1>2, <1>10, <2>1, <2>2, AnswerTaken
           DEF ReceiveDecomposition
<1>11. ASSUME NEW h \in Handlers, DbError(h)
       PROVE  AnswerInv'
  BY <1>3, <1>4, <1>11 DEF DbError, Return, Idle, Answers
<1>12. CASE RequestDecomposition
  BY <1>1, <1>2, <1>12, NewRequestNew, AnswerKept
     DEF RequestDecomposition, NoneTaken
<1>13. CASE Crash
  BY <1>1, <1>2, <1>13, AnswerKept
     DEF Crash, NoneTaken, NoneBack, Idle, Answers, TypeOK
<1>14. CASE (\E i \in RowId : GrowStale(i)) \/ MonitorStep \/ UNCHANGED vars
  BY <1>3, <1>14 DEF GrowStale, MonitorStep, MonitorScan, MonitorMark,
     MonitorLookup, MonitorFail, vars, requests, NoneTaken
<1>. QED BY <1>1, <1>5, <1>6, <1>7, <1>8, <1>9, <1>10, <1>11, <1>12, <1>13, <1>14
   DEF Next

\* pending_requests lets one answer through: no two handlers ever act on the
\* same request, and none on one that could still be answered, however answers,
\* failed emissions and restarts fall together.
THEOREM AnswersAreTakenOnce == Spec => []AnsweredOnce
<1>1. Init => AnswerInv
  BY DEF Init, AnswerInv, Idle, Answers
<1>2. AnswerInv => AnsweredOnce
  BY DEF AnswerInv, AnsweredOnce, Answers
<1>. QED BY <1>1, <1>2, AnswerInvStep, StageInvariant, PTL DEF Spec

-----------------------------------------------------------------------------
(* How many handlers are at work.                                          *)

\* A step of a handler is a step of one that has begun, and moves no other.
LEMMA OwnJob ==
  ASSUME TypeOK, NEW h \in Handlers, HandlerStep(h)
  PROVE  job[h] # Idle /\ \E j : job' = [job EXCEPT ![h] = j]
<1>1. job \in [Handlers -> Job]
  BY DEF TypeOK
<1>2. ASSUME UNCHANGED job
      PROVE  \E j : job' = [job EXCEPT ![h] = j]
  <2>1. job' = [job EXCEPT ![h] = job[h]]
    BY <1>1, <1>2
  <2>. QED BY <2>1
<1>3. \E j : job' = [job EXCEPT ![h] = j]
  BY <1>2 DEF HandlerStep, Goto, Return, StartTask, RecordResult, LookUpTask,
     SetRecovering, AskRecovery, WithdrawRequest, AbortTask, CreateSubtask,
     SubtasksCreated, AdvanceRow, AdvanceTask, FinishTask, LookUpStage,
     CheckRetries, FindRetryRow, RetryRow, RetryTask, LookUpDecomposed,
     DecomposeTask, DeleteAbort, DeleteCollect, DeleteOneTask, DeleteRows
<1>4. job[h].pc # "idle"
  BY DEF HandlerStep, At, StartTask, RecordResult, LookUpTask,
     SetRecovering, AskRecovery, WithdrawRequest, AbortTask, CreateSubtask,
     SubtasksCreated, AdvanceRow, AdvanceTask, FinishTask, LookUpStage,
     CheckRetries, FindRetryRow, RetryRow, RetryTask, LookUpDecomposed,
     DecomposeTask, DeleteAbort, DeleteCollect, DeleteOneTask, DeleteRows
<1>5. job[h] # Idle
  BY <1>4 DEF Idle
<1>. QED BY <1>3, <1>5

\* The event that starts a handler.
Event(h) == \/ StartRun(h) \/ ReceiveResult(h) \/ ReceiveRecovery(h)
            \/ ReceiveDecomposition(h) \/ BeginDelete(h)

LEMMA OwnEvent ==
  ASSUME TypeOK, NEW h \in Handlers, Event(h)
  PROVE  /\ Begin(h) /\ monitor' = monitor
         /\ \E j : job' = [job EXCEPT ![h] = j]
<1>1. job \in [Handlers -> Job]
  BY DEF TypeOK
<1>2. ASSUME UNCHANGED job
      PROVE  \E j : job' = [job EXCEPT ![h] = j]
  <2>1. job' = [job EXCEPT ![h] = job[h]]
    BY <1>1, <1>2
  <2>. QED BY <2>1
<1>. QED BY <1>2 DEF Event, StartRun, ReceiveResult, ReceiveRecovery,
                     ReceiveDecomposition, BeginDelete

\* Events that do not overlap are handled one at a time, and not while the
\* monitor is at work.
Alone ==
  "overlap" \notin World =>
    \A h \in Handlers : job[h] # Idle =>
      monitor = Resting /\ \A g \in Handlers \ {h} : job[g] = Idle

\* One handler moves, or none.
LEMMA AloneStep == StageInv /\ Alone /\ [Next]_vars => Alone'
<1>1. SUFFICES ASSUME StageInv, Alone, [Next]_vars, "overlap" \notin World
      PROVE  Alone'
  BY DEF Alone
<1>2. TypeOK
  BY <1>1 DEF StageInv
<1>3. ASSUME NEW h \in Handlers, NEW j, job' = [job EXCEPT ![h] = j],
             monitor' = Resting, \A g \in Handlers \ {h} : job[g] = Idle
      PROVE  Alone'
  <2>1. \A g \in Handlers \ {h} : job'[g] = Idle
    BY <1>2, <1>3 DEF TypeOK
  <2>. QED BY <1>3, <2>1 DEF Alone
<1>4. ASSUME NEW h \in Handlers, Event(h)
      PROVE  Alone'
  BY <1>1, <1>2, <1>3, <1>4, OwnEvent DEF Begin, Quiet
<1>5. ASSUME NEW h \in Handlers, HandlerStep(h)
      PROVE  Alone'
  <2>1. monitor' = monitor
    BY <1>5 DEF HandlerStep, StartTask, RecordResult, LookUpTask,
       SetRecovering, AskRecovery, WithdrawRequest, AbortTask, CreateSubtask,
       SubtasksCreated, AdvanceRow, AdvanceTask, FinishTask, LookUpStage,
       CheckRetries, FindRetryRow, RetryRow, RetryTask, LookUpDecomposed,
       DecomposeTask, DeleteAbort, DeleteCollect, DeleteOneTask, DeleteRows
  <2>. QED BY <1>1, <1>2, <1>3, <1>5, <2>1, OwnJob DEF Alone
<1>6. ASSUME NEW h \in Handlers, DbError(h)
      PROVE  Alone'
  <2>1. job[h] # Idle
    BY <1>6 DEF DbError, Idle
  <2>. QED BY <1>1, <1>3, <1>6, <2>1 DEF DbError, Return, Alone
<1>7. CASE MonitorStep
  <2>1. \A h \in Handlers : job'[h] = Idle
    <3>1. CASE MonitorScan
      BY <1>1, <3>1 DEF MonitorScan, Quiet
    <3>2. ASSUME UNCHANGED job, monitor.pc # "idle"
          PROVE  \A h \in Handlers : job'[h] = Idle
      BY <1>1, <3>2 DEF Alone, Resting
    <3>. QED BY <1>7, <3>1, <3>2
         DEF MonitorStep, MonitorMark, MonitorLookup, MonitorFail
  <2>. QED BY <2>1 DEF Alone
<1>8. CASE Crash
  BY <1>8 DEF Crash, Alone
<1>9. CASE RequestDecomposition \/ (\E i \in RowId : GrowStale(i))
             \/ UNCHANGED vars
  <2>1. UNCHANGED <<job, monitor>>
    BY <1>9 DEF RequestDecomposition, GrowStale, vars
  <2>. QED BY <1>1, <2>1 DEF Alone
<1>. QED BY <1>1, <1>4, <1>5, <1>6, <1>7, <1>8, <1>9 DEF Next, Event

\* How many handlers may be at work at once.
Width == IF "overlap" \in World THEN Cardinality(Handlers) ELSE 1

\* There are finitely many handlers, as far as they may overlap.
FinitelyMany == "overlap" \in World => IsFiniteSet(Handlers)

LEMMA AtMostWidth ==
  ASSUME FinitelyMany, NEW S \in SUBSET Handlers,
         "overlap" \notin World => \A g, h \in S : g = h
  PROVE  /\ IsFiniteSet(S) /\ Width \in Nat
         /\ Cardinality(S) \in Nat /\ Cardinality(S) <= Width
<1>1. CASE "overlap" \in World
  <2>1. IsFiniteSet(Handlers)
    BY <1>1 DEF FinitelyMany
  <2>. QED BY <1>1, <2>1, FS_Subset, FS_CardinalityType DEF Width
<1>2. CASE "overlap" \notin World
  <2>1. CASE S = {}
    BY <1>2, <2>1, FS_EmptySet DEF Width
  <2>2. CASE S # {}
    <3>1. PICK h \in S : TRUE
      BY <2>2
    <3>2. \A g \in S : g = h
      BY <1>2, <3>1
    <3>3. S = {h}
      BY <3>1, <3>2
    <3>4. IsFiniteSet({h}) /\ Cardinality({h}) = 1
      BY FS_Singleton
    <3>5. Width = 1
      BY <1>2 DEF Width
    <3>. QED BY <3>3, <3>4, <3>5
  <2>. QED BY <2>1, <2>2
<1>. QED BY <1>1, <1>2

-----------------------------------------------------------------------------
(* The limit on retries.  A handler past the check of the limit will write *)
(* the row that is the newest of its stage, and the sum of the retries of  *)
(* a row and of the handlers that aim at it is what the check bounds.      *)

Aims(h, i) ==
  \/ /\ job[h].pc = "retry_find"
     /\ i \in Newest(RowsOf(job[h].run, job[h].stage))
  \/ job[h].pc = "retry_row" /\ job[h].row = i
Aiming(i) == {h \in Handlers : Aims(h, i)}

RetryLimit == MaxStageRetries + Width - 1

RetryOK(i) ==
  /\ rows[i].retry <= RetryLimit
  /\ LiveRow(i) => rows[i].retry + Cardinality(Aiming(i)) <= RetryLimit

RetryInv == \A i \in RowId : RetryOK(i)

\* Few handlers aim at a row, and they are at work.
LEMMA FewAim ==
  ASSUME FinitelyMany, Alone, NEW i
  PROVE  /\ IsFiniteSet(Aiming(i)) /\ Width \in Nat
         /\ Cardinality(Aiming(i)) \in Nat /\ Cardinality(Aiming(i)) <= Width
<1>1. \A h \in Aiming(i) : h \in Handlers /\ job[h] # Idle
  BY DEF Aiming, Aims, Idle
<1>2. "overlap" \notin World => \A g, h \in Aiming(i) : g = h
  BY <1>1 DEF Alone
<1>3. Aiming(i) \in SUBSET Handlers
  BY <1>1
<1>. QED BY <1>2, <1>3, AtMostWidth

\* A row that is not tried again, and that no handler comes to aim at.
LEMMA RetryKept ==
  ASSUME FinitelyMany, Alone, TypeOK, TypeOK', NEW i \in RowId, RetryOK(i),
         rows'[i].retry = rows[i].retry,
         LiveRow(i)' => LiveRow(i) /\ \A g \in Handlers : Aims(g, i)' => Aims(g, i)
  PROVE  RetryOK(i)'
<1>1. CASE ~LiveRow(i)'
  BY <1>1 DEF RetryOK, RetryLimit, Width
<1>2. CASE LiveRow(i)'
  <2>1. PICK S : S = Aiming(i)'
    OBVIOUS
  <2>2. S \in SUBSET Aiming(i)
    BY <1>2, <2>1 DEF Aiming
  <2>3. /\ IsFiniteSet(S) /\ Cardinality(S) <= Cardinality(Aiming(i))
        /\ Cardinality(S) \in Nat /\ Cardinality(Aiming(i)) \in Nat
    BY <2>2, FewAim, FS_Subset, FS_CardinalityType
  <2>4. rows[i].retry \in Nat
    BY DEF TypeOK, Row
  <2>6. RetryLimit \in Int
    BY FewAim, ConstantsOK DEF RetryLimit
  <2>5. rows[i].retry + Cardinality(S) <= RetryLimit
    BY <1>2, <2>3, <2>4, <2>6 DEF RetryOK
  <2>. QED BY <2>1, <2>5 DEF RetryOK, RetryLimit, Width
<1>. QED BY <1>1, <1>2

\* A row with room below the limit may be aimed at by all that are at work.
LEMMA RetryRoom ==
  ASSUME FinitelyMany, Alone', TypeOK', NEW i \in RowId,
         rows'[i].retry < MaxStageRetries
  PROVE  RetryOK(i)'
<1>1. PICK S : S = Aiming(i)'
  OBVIOUS
<1>2. \A h \in S : h \in Handlers /\ job'[h] # Idle
  BY <1>1 DEF Aiming, Aims, Idle
<1>3. "overlap" \notin World => \A g, h \in S : g = h
  BY <1>2 DEF Alone
<1>4. Cardinality(S) \in Nat /\ Cardinality(S) <= Width /\ Width \in Nat
  BY <1>2, <1>3, AtMostWidth
<1>5. rows'[i].retry \in Nat /\ MaxStageRetries \in Nat
  BY ConstantsOK DEF TypeOK, Row
<1>6. /\ rows'[i].retry <= MaxStageRetries + Width - 1
      /\ rows'[i].retry + Cardinality(S) <= MaxStageRetries + Width - 1
  BY <1>4, <1>5
<1>. QED BY <1>1, <1>6 DEF RetryOK, RetryLimit, Width

\* A new row has no retries yet, and the handler that inserts it is at work
\* without aiming at it.
LEMMA RetryNew ==
  ASSUME FinitelyMany, Alone', NEW i \in RowId, rows'[i].retry = 0,
         NEW h \in Handlers, job'[h] # Idle, ~Aims(h, i)'
  PROVE  RetryOK(i)'
<1>1. PICK S : S = Aiming(i)'
  OBVIOUS
<1>2. \A g \in S \cup {h} : g \in Handlers /\ job'[g] # Idle
  BY <1>1 DEF Aiming, Aims, Idle
<1>3. "overlap" \notin World => \A g, k \in S \cup {h} : g = k
  BY <1>2 DEF Alone
<1>4. /\ IsFiniteSet(S \cup {h}) /\ Width \in Nat
      /\ Cardinality(S \cup {h}) <= Width
  BY <1>2, <1>3, AtMostWidth
<1>5. h \notin S
  BY <1>1 DEF Aiming
<1>6. IsFiniteSet(S) /\ Cardinality(S) \in Nat
  <2>1. S \in SUBSET (S \cup {h})
    OBVIOUS
  <2>. QED BY <1>4, <2>1, FS_Subset, FS_CardinalityType
<1>7. Cardinality(S \cup {h}) = Cardinality(S) + 1
  BY <1>5, <1>6, FS_AddElement
<1>8. /\ 0 <= MaxStageRetries + Width - 1
      /\ 0 + Cardinality(S) <= MaxStageRetries + Width - 1
  BY <1>4, <1>6, <1>7, ConstantsOK
<1>. QED BY <1>1, <1>8 DEF RetryOK, RetryLimit, Width

\* A retry adds one to the row and takes away one that aims at it.
LEMMA RetryDone ==
  ASSUME FinitelyMany, Alone, TypeOK, NEW i \in RowId, RetryOK(i), LiveRow(i),
         NEW h \in Handlers, Aims(h, i), rows'[i].retry = rows[i].retry + 1,
         \A g \in Handlers : Aims(g, i)' => Aims(g, i) /\ g # h
  PROVE  RetryOK(i)'
<1>1. PICK S : S = Aiming(i)'
  OBVIOUS
<1>2. S \in SUBSET (Aiming(i) \ {h}) /\ h \in Aiming(i)
  BY <1>1 DEF Aiming
<1>3. IsFiniteSet(Aiming(i)) /\ Cardinality(Aiming(i)) \in Nat
  BY FewAim
<1>4. /\ IsFiniteSet(Aiming(i) \ {h})
      /\ Cardinality(Aiming(i) \ {h}) = Cardinality(Aiming(i)) - 1
  BY <1>2, <1>3, FS_RemoveElement
<1>5. /\ Cardinality(S) <= Cardinality(Aiming(i)) - 1
      /\ Cardinality(S) \in Nat
  BY <1>2, <1>4, FS_Subset, FS_CardinalityType
<1>6. rows[i].retry \in Nat /\ RetryLimit \in Int
  BY FewAim, ConstantsOK DEF TypeOK, Row, RetryLimit
<1>7. rows[i].retry + Cardinality(Aiming(i)) <= RetryLimit
  BY DEF RetryOK
<1>8. /\ rows[i].retry + 1 <= RetryLimit
      /\ rows[i].retry + 1 + Cardinality(S) <= RetryLimit
  BY <1>3, <1>5, <1>6, <1>7
<1>. QED BY <1>1, <1>8 DEF RetryOK, RetryLimit, Width

\* What most steps do: no row appears, goes, or is tried again, and no
\* handler passes the check.
RowsStay ==
  \A i \in RowId : /\ rows'[i].run = rows[i].run
                   /\ rows'[i].stage = rows[i].stage
                   /\ rows'[i].retry = rows[i].retry
                   /\ LiveRow(i)' = LiveRow(i)
NoneAims ==
  \A g \in Handlers : job'[g].pc \in {"retry_find", "retry_row"}
                        => job'[g] = job[g]

\* The queries return the same rows.
LEMMA SameQueries ==
  ASSUME RowsStay, NEW r, NEW s
  PROVE  RowsOf(r, s)' = RowsOf(r, s)
BY DEF RowsStay, RowsOf

LEMMA RetryStays ==
  ASSUME FinitelyMany, Alone, TypeOK, TypeOK', RetryInv, RowsStay, NoneAims
  PROVE  RetryInv'
<1>1. SUFFICES ASSUME NEW i \in RowId
      PROVE  RetryOK(i)'
  BY DEF RetryInv
<1>2. ASSUME NEW g \in Handlers, Aims(g, i)'
      PROVE  Aims(g, i)
  <2>1. job'[g] = job[g]
    BY <1>2 DEF Aims, NoneAims
  <2>2. RowsOf(job[g].run, job[g].stage)' = RowsOf(job[g].run, job[g].stage)
    BY <2>1, SameQueries
  <2>. QED BY <1>2, <2>1, <2>2 DEF Aims, Newest
<1>. QED BY <1>2, RetryKept DEF RetryInv, RowsStay

\* An insertion: the new row is the only one without a past.
LEMMA RetryInsert ==
  ASSUME FinitelyMany, Alone, Alone', StageInv, TypeOK', RetryInv,
         NEW r, NEW s, InsertRow(r, s), NoneAims, RowsOK',
         NEW h \in Handlers, job'[h] # Idle,
         job'[h].pc \notin {"retry_find", "retry_row"}
  PROVE  RetryInv'
<1>1. SUFFICES ASSUME NEW i \in RowId
      PROVE  RetryOK(i)'
  BY DEF RetryInv
<1>2. rows \in [RowId -> Row] /\ nrows \in Nat /\ TypeOK
  BY DEF StageInv, TypeOK
<1>3. CASE i = nrows + 1
  <2>1. rows'[i].retry = 0 /\ ~Aims(h, i)'
    BY <1>2, <1>3 DEF InsertRow, Aims
  <2>. QED BY <2>1, RetryNew
<1>4. CASE i # nrows + 1
  <2>1. rows'[i] = rows[i]
    BY <1>2, <1>4 DEF InsertRow
  <2>2. ASSUME NEW g \in Handlers, Aims(g, i)'
        PROVE  Aims(g, i)
    <3>1. job'[g] = job[g]
      BY <2>2 DEF Aims, NoneAims
    <3>2. ASSUME i \in Newest(RowsOf(job[g].run, job[g].stage))'
          PROVE  i \in Newest(RowsOf(job[g].run, job[g].stage))
      <4>1. \A k \in RowsOf(job[g].run, job[g].stage) :
              k \in RowsOf(job[g].run, job[g].stage)'
        <5>1. ASSUME NEW k \in RowId, LiveRow(k)
              PROVE  rows'[k] = rows[k]
          <6>1. k <= nrows
            BY <5>1 DEF StageInv, RowsOK, RowOK, LiveRow, Gone
          <6>. QED BY <1>2, <6>1 DEF InsertRow, RowId
        <5>. QED BY <3>1, <5>1 DEF RowsOf, LiveRow
      <4>. QED BY <2>1, <3>1, <3>2, <4>1 DEF Newest, RowsOf, LiveRow
    <3>. QED BY <2>2, <3>1, <3>2 DEF Aims
  <2>3. LiveRow(i)' => LiveRow(i)
    BY <2>1 DEF LiveRow
  <2>. QED BY <1>2, <2>1, <2>2, <2>3, RetryKept DEF RetryInv
<1>. QED BY <1>3, <1>4

\* DELETE FROM pipeline_runs takes all rows of a run, so the newest of a
\* stage that is left was the newest before.
LEMMA RetryDelete ==
  ASSUME FinitelyMany, Alone, StageInv, TypeOK', RetryInv,
         NEW h \in Handlers, DeleteRows(h)
  PROVE  RetryInv'
<1>1. SUFFICES ASSUME NEW i \in RowId
      PROVE  RetryOK(i)'
  BY DEF RetryInv
<1>2. rows \in [RowId -> Row] /\ TypeOK /\ job \in [Handlers -> Job]
  BY DEF StageInv, TypeOK
<1>3. ASSUME NEW k \in RowId
      PROVE  /\ rows'[k].run = rows[k].run /\ rows'[k].stage = rows[k].stage
             /\ rows'[k].retry = rows[k].retry
             /\ LiveRow(k)' <=> LiveRow(k) /\ rows[k].run # job[h].run
  BY <1>2 DEF DeleteRows, LiveRow, Gone, Row
<1>4. NoneAims
  BY <1>2 DEF DeleteRows, Return, NoneAims, Idle
<1>5. ASSUME NEW g \in Handlers, Aims(g, i)', LiveRow(i)'
      PROVE  Aims(g, i)
  <2>1. job'[g] = job[g]
    BY <1>4, <1>5 DEF Aims, NoneAims
  <2>2. ASSUME i \in Newest(RowsOf(job[g].run, job[g].stage))'
        PROVE  i \in Newest(RowsOf(job[g].run, job[g].stage))
    <3>1. rows[i].run = job[g].run /\ rows[i].run # job[h].run
            /\ i \in RowsOf(job[g].run, job[g].stage)
      BY <1>3, <1>5, <2>1, <2>2 DEF Newest, RowsOf
    <3>2. \A k \in RowsOf(job[g].run, job[g].stage) :
            k \in RowsOf(job[g].run, job[g].stage)'
      BY <1>3, <2>1, <3>1 DEF RowsOf
    <3>. QED BY <2>2, <3>1, <3>2 DEF Newest
  <2>. QED BY <1>5, <2>1, <2>2 DEF Aims
<1>. QED BY <1>2, <1>3, <1>5, RetryKept DEF RetryInv

\* CheckRetries lets a handler through when the newest row has room; without
\* a row there is nothing to aim at.
LEMMA RetryCheck ==
  ASSUME FinitelyMany, Alone, Alone', StageInv, TypeOK', RetryInv,
         NEW h \in Handlers, CheckRetries(h)
  PROVE  RetryInv'
<1>1. SUFFICES ASSUME NEW i \in RowId
      PROVE  RetryOK(i)'
  BY DEF RetryInv
<1>2. rows' = rows /\ TypeOK /\ job \in [Handlers -> Job]
  BY DEF StageInv, TypeOK, CheckRetries, database
<1>3. RowsStay /\ \A r, s : RowsOf(r, s)' = RowsOf(r, s)
  BY <1>2 DEF RowsStay, LiveRow, RowsOf
<1>4. PICK p \in {"abort_task", "retry_find"} :
        /\ job' = [job EXCEPT ![h] = [job[h] EXCEPT !.pc = p]]
        /\ p = "retry_find" => \A k \in Newest(RowsOf(job[h].run, job[h].stage)) :
                                 ~(rows[k].retry >= MaxStageRetries)
  BY DEF CheckRetries, Goto
<1>5. /\ \A g \in Handlers \ {h} : job'[g] = job[g]
      /\ job'[h].pc = p /\ job'[h].run = job[h].run
      /\ job'[h].stage = job[h].stage
  BY <1>2, <1>4 DEF Job
<1>6. CASE p = "retry_find" /\ i \in Newest(RowsOf(job[h].run, job[h].stage))
  <2>1. rows'[i].retry < MaxStageRetries
    BY <1>2, <1>4, <1>6, ConstantsOK DEF TypeOK, Row
  <2>. QED BY <2>1, RetryRoom
<1>7. CASE ~(p = "retry_find" /\ i \in Newest(RowsOf(job[h].run, job[h].stage)))
  <2>1. \A r, s : Newest(RowsOf(r, s))' = Newest(RowsOf(r, s))
    BY <1>3 DEF Newest
  <2>2. ASSUME NEW g \in Handlers, Aims(g, i)'
        PROVE  Aims(g, i)
    <3>1. CASE g = h
      <4>1. i \in Newest(RowsOf(job[h].run, job[h].stage)) /\ p = "retry_find"
        BY <1>4, <1>5, <2>1, <2>2, <3>1 DEF Aims
      <4>. QED BY <1>7, <4>1
    <3>2. CASE g # h
      BY <1>5, <2>1, <2>2, <3>2 DEF Aims
    <3>. QED BY <3>1, <3>2
  <2>. QED BY <1>2, <1>3, <2>2, RetryKept DEF RetryInv, RowsStay
<1>. QED BY <1>6, <1>7

\* FindRetryRow aims at the same row by its id.
LEMMA RetryFind ==
  ASSUME FinitelyMany, Alone, StageInv, TypeOK', RetryInv,
         NEW h \in Handlers, FindRetryRow(h)
  PROVE  RetryInv'
<1>1. SUFFICES ASSUME NEW i \in RowId
      PROVE  RetryOK(i)'
  BY DEF RetryInv
<1>2. rows' = rows /\ TypeOK /\ job \in [Handlers -> Job]
        /\ job[h].pc = "retry_find"
  BY DEF StageInv, TypeOK, FindRetryRow, database, At
<1>3. RowsStay /\ \A r, s : RowsOf(r, s)' = RowsOf(r, s)
  BY <1>2 DEF RowsStay, LiveRow, RowsOf
<1>4. \A r, s : Newest(RowsOf(r, s))' = Newest(RowsOf(r, s))
  BY <1>3 DEF Newest
<1>5. \/ Return(h)
      \/ \E k \in Newest(RowsOf(job[h].run, job[h].stage)) :
           job' = [job EXCEPT ![h] = [job[h] EXCEPT !.pc = "retry_row",
                                                    !.row = k]]
  BY DEF FindRetryRow
<1>6. /\ \A g \in Handlers \ {h} : job'[g] = job[g]
      /\ \/ job'[h] = Idle
         \/ /\ job'[h].pc = "retry_row"
            /\ job'[h].row \in Newest(RowsOf(job[h].run, job[h].stage))
  BY <1>2, <1>5 DEF Job, Return
<1>7. ASSUME NEW g \in Handlers, Aims(g, i)'
      PROVE  Aims(g, i)
  BY <1>2, <1>4, <1>6, <1>7 DEF Aims, Idle
<1>. QED BY <1>2, <1>3, <1>7, RetryKept DEF RetryInv, RowsStay

\* RetryRow writes the row it aimed at, if it is still there.
LEMMA RetryWrite ==
  ASSUME FinitelyMany, Alone, StageInv, TypeOK', RetryInv,
         NEW h \in Handlers, RetryRow(h)
  PROVE  RetryInv'
<1>1. SUFFICES ASSUME NEW i \in RowId
      PROVE  RetryOK(i)'
  BY DEF RetryInv
<1>2. /\ rows \in [RowId -> Row] /\ TypeOK /\ job \in [Handlers -> Job]
      /\ job[h].pc = "retry_row"
  BY DEF StageInv, TypeOK, RetryRow, At
<1>3. /\ \A g \in Handlers \ {h} : job'[g] = job[g]
      /\ job'[h].pc = "retry_task"
  BY <1>2 DEF RetryRow, Goto, Job
<1>4. ASSUME NEW k \in RowId
      PROVE  /\ rows'[k].run = rows[k].run /\ rows'[k].stage = rows[k].stage
             /\ LiveRow(k)' = LiveRow(k)
             /\ rows'[k].retry = IF k = job[h].row /\ LiveRow(k)
                                 THEN rows[k].retry + 1 ELSE rows[k].retry
  BY <1>2 DEF RetryRow, LiveRow, Gone, Row
<1>5. \A r, s : RowsOf(r, s)' = RowsOf(r, s)
  BY <1>4 DEF RowsOf
<1>6. \A r, s : Newest(RowsOf(r, s))' = Newest(RowsOf(r, s))
  BY <1>5 DEF Newest
<1>7. \A g \in Handlers : Aims(g, i)' => Aims(g, i) /\ g # h
  BY <1>3, <1>6 DEF Aims
<1>8. CASE i = job[h].row /\ LiveRow(i)
  BY <1>2, <1>4, <1>7, <1>8, RetryDone DEF RetryInv, Aims
<1>9. CASE ~(i = job[h].row /\ LiveRow(i))
  BY <1>2, <1>4, <1>7, <1>9, RetryKept DEF RetryInv
<1>. QED BY <1>8, <1>9

\* The statements that leave the rows where they are.
LEMMA RowsStayOK ==
  ASSUME TypeOK
  PROVE  /\ UNCHANGED rows => RowsStay
         /\ \A i : \A st \in RowStatus \ Gone : SetRow(i, st) => RowsStay
         /\ \A i \in RowId : GrowStale(i) => RowsStay
<1>1. rows \in [RowId -> Row]
  BY DEF TypeOK
<1>2. UNCHANGED rows => RowsStay
  BY DEF RowsStay, LiveRow
<1>3. ASSUME NEW i, NEW st \in RowStatus \ Gone, SetRow(i, st)
      PROVE  RowsStay
  BY <1>1, <1>3 DEF SetRow, RowsStay, LiveRow, Gone, Row
<1>4. ASSUME NEW i \in RowId, GrowStale(i)
      PROVE  RowsStay
  BY <1>1, <1>4 DEF GrowStale, RowsStay, LiveRow, Gone, Row
<1>. QED BY <1>2, <1>3, <1>4

\* Where a handler goes that does not pass the check.
LEMMA GoesElsewhere ==
  ASSUME TypeOK, NEW h \in Handlers, NEW j,
         job' = [job EXCEPT ![h] = j], j.pc \notin {"retry_find", "retry_row"}
  PROVE  NoneAims /\ job'[h] = j
BY DEF TypeOK, NoneAims

\* Only the check of the limit and the query after it let a handler aim.
LEMMA HandlerAimsNone ==
  ASSUME StageInv, NEW h \in Handlers, HandlerStep(h), ~CheckRetries(h),
         ~FindRetryRow(h)
  PROVE  NoneAims
<1>0. TypeOK /\ job \in [Handlers -> Job] /\ job[h] \in Job
  BY DEF StageInv, TypeOK
<1>1. CASE Return(h)
  BY <1>0, <1>1, GoesElsewhere DEF Return, Idle
<1>2. ASSUME NEW p, Goto(h, p), p \notin {"retry_find", "retry_row"}
      PROVE  NoneAims
  <2>1. PICK j : j = [job[h] EXCEPT !.pc = p]
    OBVIOUS
  <2>2. job' = [job EXCEPT ![h] = j] /\ j.pc = p
    BY <1>0, <1>2, <2>1 DEF Goto, Job
  <2>. QED BY <1>0, <1>2, <2>2, GoesElsewhere
<1>3. CASE UNCHANGED job
  BY <1>3 DEF NoneAims
<1>4. CASE LookUpTask(h)
  <2>1. PICK t, p : /\ p \in AfterResult(job[h].said, job[h].stage, t)
                    /\ \/ Return(h)
                       \/ job' = [job EXCEPT ![h] = [job[h] EXCEPT !.pc = p,
                                                                   !.task = t]]
    BY <1>4 DEF LookUpTask
  <2>2. p \notin {"retry_find", "retry_row"}
    <3>1. Onward(job[h].stage) \notin {"retry_find", "retry_row"}
      BY DEF Onward
    <3>. QED BY <2>1, <3>1 DEF AfterResult
  <2>3. CASE ~Return(h)
    <3>1. PICK j : j = [job[h] EXCEPT !.pc = p, !.task = t]
      OBVIOUS
    <3>2. job' = [job EXCEPT ![h] = j] /\ j.pc = p
      BY <1>0, <2>1, <2>3, <3>1 DEF Job
    <3>. QED BY <1>0, <2>2, <3>2, GoesElsewhere
  <2>. QED BY <1>1, <2>3
<1>5. CASE AskRecovery(h)
  <2>1. CASE ~Return(h)
    <3>1. PICK j : j = [job[h] EXCEPT !.pc = "emit_failed", !.req = nreqs + 1]
      OBVIOUS
    <3>2. job' = [job EXCEPT ![h] = j] /\ j.pc = "emit_failed"
      BY <1>0, <1>5, <2>1, <3>1 DEF AskRecovery, Job
    <3>. QED BY <1>0, <3>2, GoesElsewhere
  <2>. QED BY <1>1, <2>1
<1>6. CASE LookUpStage(h)
  <2>1. PICK t, s, p : /\ p = AfterDecision(job[h].said, s, t)
                       /\ \/ Return(h)
                          \/ job' = [job EXCEPT ![h] =
                                       [job[h] EXCEPT !.pc = p, !.task = t,
                                                      !.stage = s]]
    BY <1>6 DEF LookUpStage
  <2>2. p \notin {"retry_find", "retry_row"}
    BY <2>1 DEF AfterDecision, Onward
  <2>3. CASE ~Return(h)
    <3>1. PICK j : j = [job[h] EXCEPT !.pc = p, !.task = t, !.stage = s]
      OBVIOUS
    <3>2. job' = [job EXCEPT ![h] = j] /\ j.pc = p
      BY <1>0, <2>1, <2>3, <3>1 DEF Job
    <3>. QED BY <1>0, <2>2, <3>2, GoesElsewhere
  <2>. QED BY <1>1, <2>3
<1>7. CASE LookUpDecomposed(h)
  <2>1. CASE ~Return(h)
    <3>1. PICK j : j = [job[h] EXCEPT !.pc = "subtasks",
                                      !.run = tasks[job[h].task].run]
      OBVIOUS
    <3>2. job' = [job EXCEPT ![h] = j] /\ j.pc = "subtasks"
      BY <1>0, <1>7, <2>1, <3>1 DEF LookUpDecomposed, Job
    <3>. QED BY <1>0, <3>2, GoesElsewhere
  <2>. QED BY <1>1, <2>1
<1>8. CASE DeleteCollect(h)
  <2>1. PICK r, D : job' = [job EXCEPT ![h] = [job[h] EXCEPT
                              !.pc = "delete_tasks", !.run = r, !.doomed = D]]
    BY <1>8 DEF DeleteCollect
  <2>2. PICK j : j = [job[h] EXCEPT !.pc = "delete_tasks", !.run = r,
                                    !.doomed = D]
    OBVIOUS
  <2>3. job' = [job EXCEPT ![h] = j] /\ j.pc = "delete_tasks"
    BY <1>0, <2>1, <2>2 DEF Job
  <2>. QED BY <1>0, <2>3, GoesElsewhere
<1>9. CASE DeleteOneTask(h)
  <2>0. PICK D : \E p \in {"delete_rows", "delete_tasks"} :
          job' = [job EXCEPT ![h] = [job[h] EXCEPT !.doomed = D, !.pc = p]]
    BY <1>9 DEF DeleteOneTask
  <2>1. PICK p \in {"delete_rows", "delete_tasks"} :
          job' = [job EXCEPT ![h] = [job[h] EXCEPT !.doomed = D, !.pc = p]]
    BY <2>0
  <2>2. PICK j : j = [job[h] EXCEPT !.doomed = D, !.pc = p]
    OBVIOUS
  <2>3. job' = [job EXCEPT ![h] = j] /\ j.pc = p
    BY <1>0, <2>1, <2>2 DEF Job
  <2>. QED BY <1>0, <2>3, GoesElsewhere
<1>10. CASE SubtasksCreated(h)
  BY <1>2, <1>10 DEF SubtasksCreated, Onward
<1>. QED BY <1>1, <1>2, <1>3, <1>4, <1>5, <1>6, <1>7, <1>8, <1>9, <1>10
   DEF HandlerStep, StartTask, RecordResult, SetRecovering, WithdrawRequest,
       AbortTask, CreateSubtask, AdvanceRow, AdvanceTask, FinishTask,
       RetryRow, RetryTask, DecomposeTask, DeleteAbort, DeleteRows

\* An event starts a handler before the check.
LEMMA EventAimsNone ==
  ASSUME TypeOK, NEW h \in Handlers, Event(h)
  PROVE  NoneAims
<1>1. CASE UNCHANGED job
  BY <1>1 DEF NoneAims
<1>2. ASSUME NEW j, job' = [job EXCEPT ![h] = j],
             j.pc \notin {"retry_find", "retry_row"}
      PROVE  NoneAims
  BY <1>2, GoesElsewhere
<1>3. CASE StartRun(h)
  <2>1. PICK r : job' = [job EXCEPT ![h] = [Idle EXCEPT !.pc = "start_task",
                                                        !.kind = "start",
                                                        !.run = r,
                                                        !.stage = Learning]]
    BY <1>3 DEF StartRun
  <2>2. [Idle EXCEPT !.pc = "start_task", !.kind = "start", !.run = r,
                     !.stage = Learning].pc = "start_task"
    BY DEF Idle
  <2>. QED BY <1>2, <2>1, <2>2
<1>4. CASE ReceiveResult(h)
  <2>1. PICK r, s, said, i :
          job' = [job EXCEPT ![h] = [Idle EXCEPT !.pc = "result_record",
                                                 !.kind = "result",
                                                 !.run = r, !.stage = s,
                                                 !.said = said, !.row = i]]
    BY <1>4 DEF ReceiveResult
  <2>2. [Idle EXCEPT !.pc = "result_record", !.kind = "result", !.run = r,
                     !.stage = s, !.said = said, !.row = i].pc
          = "result_record"
    BY DEF Idle
  <2>. QED BY <1>2, <2>1, <2>2
<1>5. CASE ReceiveRecovery(h)
  <2>1. PICK q \in pending, said \in Actions :
          job' = [job EXCEPT ![h] = [Idle EXCEPT !.pc = "recovery_task",
                                                 !.kind = "recovery",
                                                 !.run = asked[q].run,
                                                 !.said = said,
                                                 !.task = asked[q].task,
                                                 !.req = q]]
    BY <1>5, RecoveryReply
  <2>2. [Idle EXCEPT !.pc = "recovery_task", !.kind = "recovery",
                     !.run = asked[q].run, !.said = said,
                     !.task = asked[q].task, !.req = q].pc = "recovery_task"
    BY DEF Idle
  <2>. QED BY <1>2, <2>1, <2>2
<1>6. CASE ReceiveDecomposition(h)
  <2>1. CASE ~UNCHANGED job
    <3>1. PICK t, q :
            job' = [job EXCEPT ![h] = [Idle EXCEPT !.pc = "decompose_lookup",
                                                   !.kind = "decompose",
                                                   !.task = t, !.req = q]]
      BY <1>6, <2>1, DecompositionReply
    <3>2. [Idle EXCEPT !.pc = "decompose_lookup", !.kind = "decompose",
                       !.task = t, !.req = q].pc = "decompose_lookup"
      BY DEF Idle
    <3>. QED BY <1>2, <3>1, <3>2
  <2>. QED BY <1>1, <2>1
<1>7. CASE BeginDelete(h)
  <2>1. PICK t \in TaskId :
          job' = [job EXCEPT ![h] =
            [Idle EXCEPT !.kind = "delete", !.task = t,
                         !.pc = IF tasks[t].status \in {"running", "recovering"}
                                THEN "delete_abort" ELSE "delete_collect"]]
    BY <1>7 DEF BeginDelete
  <2>3. PICK p \in {"delete_abort", "delete_collect"} :
          p = IF tasks[t].status \in {"running", "recovering"}
              THEN "delete_abort" ELSE "delete_collect"
    OBVIOUS
  <2>2. [Idle EXCEPT !.kind = "delete", !.task = t, !.pc = p].pc = p
    BY DEF Idle
  <2>. QED BY <1>2, <2>1, <2>2, <2>3
<1>. QED BY <1>3, <1>4, <1>5, <1>6, <1>7 DEF Event

\* The invariant is inductive.
LEMMA RetryInvStep ==
  ASSUME FinitelyMany
  PROVE  StageInv /\ Alone /\ RetryInv /\ [Next]_vars => RetryInv'
<1>1. SUFFICES ASSUME StageInv, Alone, RetryInv, [Next]_vars
      PROVE  RetryInv'
  OBVIOUS
<1>2. /\ TypeOK /\ TypeOK' /\ RowsOK' /\ Alone'
      /\ job \in [Handlers -> Job] /\ rows \in [RowId -> Row]
  BY <1>1, StageInvStep, AloneStep DEF StageInv, TypeOK
<1>3. ASSUME NEW h \in Handlers, HandlerStep(h)
      PROVE  RetryInv'
  <2>1. CASE CheckRetries(h)
    BY <1>1, <1>2, <2>1, RetryCheck
  <2>2. CASE FindRetryRow(h)
    BY <1>1, <1>2, <2>2, RetryFind
  <2>3. CASE RetryRow(h)
    BY <1>1, <1>2, <2>3, RetryWrite
  <2>4. CASE DeleteRows(h)
    BY <1>1, <1>2, <2>4, RetryDelete
  <2>5. CASE AdvanceRow(h)
    <3>1. job'[h].pc = "advance_task" /\ job'[h] # Idle
      BY <1>2, <2>5 DEF AdvanceRow, Goto, Job, Idle
    <3>2. NoneAims
      BY <1>1, <1>3, <2>5, HandlerAimsNone
         DEF AdvanceRow, CheckRetries, FindRetryRow, At
    <3>. QED BY <1>1, <1>2, <2>5, <3>1, <3>2, RetryInsert DEF AdvanceRow
  <2>6. CASE RecordResult(h)
    <3>1. NoneAims
      BY <1>1, <1>3, <2>6, HandlerAimsNone
         DEF RecordResult, CheckRetries, FindRetryRow, At
    <3>2. job[h].said \in RowStatus \ Gone
      BY <1>1, <2>6 DEF RecordResult, At, StageInv, JobsOK, JobOK, PointOK,
                        Results, RowStatus, Gone
    <3>3. RowsStay
      BY <1>2, <2>6, <3>2, RowsStayOK DEF RecordResult
    <3>. QED BY <1>1, <1>2, <3>1, <3>3, RetryStays
  <2>7. CASE /\ ~CheckRetries(h) /\ ~FindRetryRow(h) /\ ~RetryRow(h)
             /\ ~DeleteRows(h) /\ ~AdvanceRow(h) /\ ~RecordResult(h)
    <3>1. NoneAims
      BY <1>1, <1>3, <2>7, HandlerAimsNone
    <3>2. UNCHANGED rows
      BY <1>3, <2>7 DEF HandlerStep, database, StartTask, LookUpTask,
         SetRecovering, AskRecovery, WithdrawRequest, AbortTask,
         CreateSubtask, SubtasksCreated, AdvanceTask, FinishTask, LookUpStage,
         RetryTask, LookUpDecomposed, DecomposeTask, DeleteAbort,
         DeleteCollect, DeleteOneTask
    <3>. QED BY <1>1, <1>2, <3>1, <3>2, RowsStayOK, RetryStays
  <2>. QED BY <2>1, <2>2, <2>3, <2>4, <2>5, <2>6, <2>7
<1>4. ASSUME NEW h \in Handlers, Event(h)
      PROVE  RetryInv'
  <2>1. NoneAims
    BY <1>2, <1>4, EventAimsNone
  <2>2. CASE StartRun(h)
    <3>1. PICK run \in RunId :
            /\ InsertRow(run, Learning)
            /\ job' = [job EXCEPT ![h] = [Idle EXCEPT !.pc = "start_task",
                                                      !.kind = "start",
                                                      !.run = run,
                                                      !.stage = Learning]]
      BY <2>2 DEF StartRun
    <3>2. job'[h].pc = "start_task" /\ job'[h] # Idle
      BY <1>2, <3>1 DEF Idle
    <3>. QED BY <1>1, <1>2, <2>1, <3>1, <3>2, RetryInsert
  <2>3. CASE ~StartRun(h)
    <3>1. UNCHANGED rows
      BY <1>4, <2>3 DEF Event, ReceiveResult, ReceiveRecovery,
                        ReceiveDecomposition, BeginDelete, database
    <3>. QED BY <1>1, <1>2, <2>1, <3>1, RowsStayOK, RetryStays
  <2>. QED BY <2>2, <2>3
<1>5. ASSUME NEW h \in Handlers, DbError(h)
      PROVE  RetryInv'
  <2>1. NoneAims
    BY <1>2, <1>5, GoesElsewhere DEF DbError, Return, Idle
  <2>. QED BY <1>1, <1>2, <1>5, <2>1, RowsStayOK, RetryStays
           DEF DbError, database
<1>6. ASSUME NEW i \in RowId, GrowStale(i)
      PROVE  RetryInv'
  <2>1. NoneAims
    BY <1>6 DEF GrowStale, NoneAims
  <2>. QED BY <1>1, <1>2, <1>6, <2>1, RowsStayOK, RetryStays
<1>7. CASE MonitorStep
  <2>1. NoneAims
    BY <1>7 DEF MonitorStep, MonitorScan, MonitorMark, MonitorLookup,
                MonitorFail, NoneAims
  <2>2. UNCHANGED rows \/ \E i : SetRow(i, "timed_out")
    BY <1>7 DEF MonitorStep, MonitorScan, MonitorMark, MonitorLookup,
                MonitorFail, database
  <2>3. "timed_out" \in RowStatus \ Gone
    BY DEF RowStatus, Gone
  <2>. QED BY <1>1, <1>2, <2>1, <2>2, <2>3, RowsStayOK, RetryStays
<1>8. CASE Crash
  <2>1. NoneAims
    BY <1>8 DEF Crash, NoneAims, Idle
  <2>. QED BY <1>1, <1>2, <1>8, <2>1, RowsStayOK, RetryStays
           DEF Crash, database
<1>9. CASE RequestDecomposition \/ UNCHANGED vars
  <2>1. UNCHANGED rows /\ NoneAims
    BY <1>9 DEF RequestDecomposition, vars, database, NoneAims
  <2>. QED BY <1>1, <1>2, <2>1, RowsStayOK, RetryStays
<1>. QED BY <1>1, <1>3, <1>4, <1>5, <1>6, <1>7, <1>8, <1>9 DEF Next, Event

\* No handler is at work at the start, and no row has been tried again.
LEMMA InitRetry ==
  ASSUME FinitelyMany
  PROVE  Init => Alone /\ RetryInv
<1>1. SUFFICES ASSUME Init
      PROVE  Alone /\ RetryInv
  OBVIOUS
<1>2. Alone
  BY <1>1 DEF Init, Alone
<1>3. ASSUME NEW i \in RowId
      PROVE  RetryOK(i)
  <2>1. ~LiveRow(i) /\ rows[i].retry = 0
    BY <1>1 DEF Init, LiveRow, Gone
  <2>2. Width \in Nat /\ Width >= 1
    <3>1. PICK h \in Handlers : TRUE
      BY ConstantsOK
    <3>2. /\ {h} \in SUBSET Handlers /\ \A g, k \in {h} : g = k
          /\ Cardinality({h}) = 1
      BY <3>1, FS_Singleton
    <3>. QED BY <3>2, AtMostWidth
  <2>3. 0 <= MaxStageRetries + Width - 1
    BY <2>2, ConstantsOK
  <2>. QED BY <2>1, <2>3 DEF RetryOK, RetryLimit
<1>. QED BY <1>2, <1>3 DEF RetryInv

\* The coordinator handles one event at a time unless events overlap.
LEMMA AloneInvariant == Spec => []Alone
<1>1. Init => Alone
  BY DEF Init, Alone
<1>. QED BY <1>1, AloneStep, StageInvariant, PTL DEF Spec

LEMMA RetryInvariant ==
  ASSUME FinitelyMany
  PROVE  Spec => []RetryInv
BY InitRetry, RetryInvStep, AloneInvariant, StageInvariant, PTL DEF Spec

\* The limit is checked in one call and the retry written in another, so the
\* handlers that overlap may pass the limit: by one each, and no more.
THEOREM RetriesAreBounded ==
  ASSUME IsFiniteSet(Handlers)
  PROVE  Spec => []RetriesBounded
<1>1. FinitelyMany
  BY DEF FinitelyMany
<1>2. RetryInv /\ StageInv => RetriesBounded
  <2>1. SUFFICES ASSUME RetryInv, StageInv, NEW i \in RowId
        PROVE  rows[i].retry <= MaxStageRetries + Cardinality(Handlers) - 1
    BY DEF RetriesBounded
  <2>2. Width \in Nat /\ Width <= Cardinality(Handlers)
          /\ Cardinality(Handlers) \in Nat
    <3>1. Cardinality(Handlers) \in Nat
      BY FS_CardinalityType
    <3>2. Cardinality(Handlers) # 0
      BY FS_EmptySet, ConstantsOK
    <3>. QED BY <3>1, <3>2 DEF Width
  <2>3. rows[i].retry \in Nat
    BY <2>1 DEF StageInv, TypeOK, Row
  <2>4. rows[i].retry <= MaxStageRetries + Width - 1
    BY <2>1 DEF RetryInv, RetryOK, RetryLimit
  <2>. QED BY <2>2, <2>3, <2>4, ConstantsOK
<1>. QED BY <1>1, <1>2, RetryInvariant, StageInvariant, PTL

\* Handled one event at a time, a stage is tried again at most
\* MAX_STAGE_RETRIES times, as the documentation says.
THEOREM RetriesAreLimited ==
  ASSUME "overlap" \notin World
  PROVE  Spec => []RetriesWithinLimit
<1>1. FinitelyMany
  BY DEF FinitelyMany
<1>2. RetryInv /\ StageInv => RetriesWithinLimit
  <2>1. SUFFICES ASSUME RetryInv, StageInv, NEW i \in RowId
        PROVE  rows[i].retry <= MaxStageRetries
    BY DEF RetriesWithinLimit
  <2>2. Width = 1 /\ rows[i].retry \in Nat
    BY <2>1 DEF StageInv, TypeOK, Row, Width
  <2>3. rows[i].retry <= MaxStageRetries + Width - 1
    BY <2>1 DEF RetryInv, RetryOK, RetryLimit
  <2>. QED BY <2>2, <2>3, ConstantsOK
<1>. QED BY <1>1, <1>2, RetryInvariant, StageInvariant, PTL

-----------------------------------------------------------------------------
(* Recovery.  Unless subtasks are made, rows deleted, or handlers cut      *)
(* short, an answer is awaited for every task in recovery, or a handler    *)
(* is on its way that will set its status.                                 *)

Undisturbed == World \cap {"subtasks", "delete", "db_error", "crash"} = {}

\* A set of row numbers that is not empty has a greatest element.
Before == {p \in Nat \X Nat : p[1] < p[2]}

LEMMA NewestExists ==
  ASSUME NEW S \in SUBSET RowId, S # {}
  PROVE  Newest(S) # {}
<1>1. IsWellFoundedOn(Before, Nat)
  BY NatLessThanWellFounded DEF OpToRel, Before
<1>2. PICK T \in SUBSET Nat : T = {n \in Nat : \E i \in S : n = MaxRows - i}
  OBVIOUS
<1>3. \A i \in S : MaxRows - i \in T
  BY <1>2, ConstantsOK DEF RowId
<1>4. PICK x \in T : \A y \in T : <<y, x>> \notin Before
  BY <1>1, <1>3, WFMin
<1>5. PICK i \in S : x = MaxRows - i
  BY <1>2
<1>6. ASSUME NEW j \in S
      PROVE  j <= i
  <2>1. MaxRows - j \in T /\ x \in Nat
    BY <1>3
  <2>2. ~(MaxRows - j < x)
    BY <1>4, <2>1 DEF Before
  <2>. QED BY <1>5, <2>2, ConstantsOK DEF RowId
<1>. QED BY <1>6 DEF Newest

\* The handlers that will set the status of task t.
Deciding(h, t) ==
  /\ job[h].task = t
  /\ \/ job[h].pc \in {"recover_ask", "emit_failed", "abort_task"}
     \/ job[h].kind = "recovery"

AwaitedFor(t) == \E q \in pending : asked[q].kind = "recovery"
                                      /\ asked[q].task = t
InHand(t)     == AwaitedFor(t) \/ \E h \in Handlers : Deciding(h, t)

RecoveryHeld == \A t \in TaskId : tasks[t].status = "recovering" => InHand(t)

\* Nothing is deleted, and every task is at a stage.
LiveRows  == \A i \in 1 .. nrows : rows[i].status \notin Gone
LiveTasks == \A t \in 1 .. ntasks : /\ tasks[t].status \notin Gone
                                    /\ tasks[t].stage \in Stages
AllLive   == LiveRows /\ LiveTasks

\* Nothing is being deleted, a handler that returned is free, a request that
\* could not be sent was made for the task of its handler, and a retry is of
\* a stage.
RecoveryPoint(j) ==
  /\ j.kind # "delete"
  /\ j.pc = "idle" => j.kind = "none"
  /\ j.pc = "emit_failed" => /\ j.req \in 1 .. nreqs
                             /\ asked[j.req].task = j.task
  /\ j.pc \in {"retry_count", "retry_find"} /\ j.task # None
       => j.stage \in Stages

RecoveryPoints == \A h \in Handlers : RecoveryPoint(job[h])

RecoveryInv == AllLive /\ RecoveryHeld /\ RecoveryPoints

\* A step keeps the invariant if each task that is recovering after it is in
\* hand after it.
LEMMA HeldKept ==
  ASSUME RecoveryHeld,
         \A t \in TaskId : tasks'[t].status = "recovering" =>
           \/ tasks[t].status = "recovering" /\ (InHand(t) => InHand(t)')
           \/ InHand(t)'
  PROVE  RecoveryHeld'
BY DEF RecoveryHeld

\* The requests stay in the map, and what they were made for stays.
RequestsStay == \A q \in pending : q \in pending' /\ asked'[q] = asked[q]

\* A step of one handler, after which each task it was deciding about is
\* still in hand or not in recovery.
LEMMA HeldByOthers ==
  ASSUME TypeOK, RecoveryHeld, RequestsStay, NEW h \in Handlers, NEW j,
         job' = [job EXCEPT ![h] = j],
         \A t \in TaskId : tasks'[t].status = "recovering" =>
           /\ tasks[t].status = "recovering"
           /\ Deciding(h, t) => InHand(t)'
  PROVE  RecoveryHeld'
<1>1. \A g \in Handlers \ {h} : job'[g] = job[g]
  BY DEF TypeOK
<1>2. \A t : AwaitedFor(t) => AwaitedFor(t)'
  BY DEF AwaitedFor, RequestsStay
<1>3. \A t, g : g \in Handlers \ {h} /\ Deciding(g, t) => Deciding(g, t)'
  BY <1>1 DEF Deciding
<1>4. ASSUME NEW t \in TaskId, tasks'[t].status = "recovering"
      PROVE  tasks[t].status = "recovering" /\ (InHand(t) => InHand(t)')
  BY <1>2, <1>3, <1>4 DEF InHand
<1>. QED BY <1>4, HeldKept

\* A step that leaves the tasks and the requests, of a handler that goes on
\* with its task.
LEMMA HeldInHand ==
  ASSUME TypeOK, RecoveryHeld, UNCHANGED <<tasks, requests>>,
         NEW h \in Handlers, NEW j, job' = [job EXCEPT ![h] = j],
         \A t \in TaskId : Deciding(h, t) /\ tasks[t].status = "recovering" =>
           /\ j.task = t
           /\ j.kind = "recovery"
  PROVE  RecoveryHeld'
<1>1. job'[h] = j /\ RequestsStay
  BY DEF TypeOK, RequestsStay, requests
<1>2. ASSUME NEW t \in TaskId, Deciding(h, t), tasks[t].status = "recovering"
      PROVE  InHand(t)'
  BY <1>1, <1>2 DEF Deciding, InHand
<1>. QED BY <1>1, <1>2, HeldByOthers

\* A step that sets the task of the handler to another status.
LEMMA HeldDecided ==
  ASSUME TypeOK, RecoveryHeld, UNCHANGED requests, NEW h \in Handlers,
         NEW status \in TaskStatus \ {"recovering"}, SetTask(job[h].task, status),
         Return(h)
  PROVE  RecoveryHeld'
<1>1. RequestsStay /\ tasks \in [TaskId -> Task]
  BY DEF TypeOK, RequestsStay, requests
<1>2. ASSUME NEW t \in TaskId, tasks'[t].status = "recovering"
      PROVE  tasks[t].status = "recovering" /\ ~Deciding(h, t)
  BY <1>1, <1>2 DEF SetTask, LiveTask, Gone, Task, Deciding
<1>. QED BY <1>1, <1>2, HeldByOthers DEF Return

\* The row of the stage a retry is of is there, so the query finds it.
LEMMA RetryRowIsThere ==
  ASSUME StageInv, RecoveryInv, NEW h \in Handlers, job[h].pc = "retry_find",
         job[h].task # None
  PROVE  Newest(RowsOf(job[h].run, job[h].stage)) # {}
<1>1. job[h].stage \in Stages /\ job[h].stage # NoStage
  BY DEF RecoveryInv, RecoveryPoints, RecoveryPoint, Stages, NoStage, Learning,
         SkillManage
<1>2. PICK i \in 1 .. nrows : rows[i].run = job[h].run
                                /\ rows[i].stage = job[h].stage
  BY <1>1 DEF StageInv, JobsOK, JobOK, HasRow
<1>3. i \in RowsOf(job[h].run, job[h].stage)
  BY <1>2, ConstantsOK
     DEF RecoveryInv, AllLive, LiveRows, RowsOf, LiveRow, RowId, StageInv, TypeOK
<1>. QED BY <1>3, NewestExists DEF RowsOf

\* The steps of a handler.
LEMMA HeldByHandler ==
  ASSUME StageInv, RecoveryInv, Undisturbed, NEW h \in Handlers, HandlerStep(h)
  PROVE  RecoveryHeld'
<1>0. /\ TypeOK /\ RecoveryHeld /\ job \in [Handlers -> Job] /\ job[h] \in Job
      /\ tasks \in [TaskId -> Task] /\ PointOK(job[h])
      /\ RecoveryPoint(job[h])
  BY DEF StageInv, TypeOK, RecoveryInv, RecoveryPoints, JobsOK, JobOK
<1>1. ASSUME UNCHANGED <<tasks, requests>>, NEW j, job' = [job EXCEPT ![h] = j],
             j.task = job[h].task, j.kind = job[h].kind,
             job[h].pc \notin {"recover_ask", "emit_failed", "abort_task"}
      PROVE  RecoveryHeld'
  BY <1>0, <1>1, HeldInHand DEF Deciding
<1>2. ASSUME UNCHANGED <<tasks, requests>>, NEW p, Goto(h, p),
             job[h].pc \notin {"recover_ask", "emit_failed", "abort_task"}
      PROVE  RecoveryHeld'
  <2>1. PICK j : j = [job[h] EXCEPT !.pc = p]
    OBVIOUS
  <2>2. job' = [job EXCEPT ![h] = j] /\ j.task = job[h].task
          /\ j.kind = job[h].kind
    BY <1>0, <1>2, <2>1 DEF Goto, Job
  <2>. QED BY <1>1, <1>2, <2>2
<1>3. ASSUME UNCHANGED <<tasks, requests>>, Return(h),
             job[h].kind = "result" \/ job[h].task = None,
             job[h].pc \notin {"recover_ask", "emit_failed", "abort_task"}
      PROVE  RecoveryHeld'
  <2>1. \A t \in TaskId : ~Deciding(h, t)
    BY <1>3 DEF Deciding, TaskId, None
  <2>. QED BY <1>0, <1>3, <2>1, HeldInHand DEF Return
<1>4. CASE StartTask(h)
  <2>1. \A t \in TaskId : /\ tasks'[t].status = "recovering"
                               => tasks[t].status = "recovering"
                          /\ ~Deciding(h, t)
    BY <1>0, <1>4 DEF StartTask, At, InsertTask, Deciding, PointOK, TypeOK
  <2>2. RequestsStay
    BY <1>4 DEF StartTask, requests, RequestsStay
  <2>. QED BY <1>0, <1>4, <2>1, <2>2, HeldByOthers DEF StartTask, Return
<1>5. CASE RecordResult(h) \/ AdvanceRow(h) \/ CheckRetries(h) \/ RetryRow(h)
             \/ SubtasksCreated(h)
  BY <1>2, <1>5 DEF RecordResult, AdvanceRow, CheckRetries, RetryRow,
     SubtasksCreated, At, database
<1>6. CASE LookUpTask(h)
  <2>1. job[h].kind = "result" /\ job[h].pc = "result_task"
    BY <1>0, <1>6 DEF LookUpTask, At, PointOK
  <2>2. PICK j : job' = [job EXCEPT ![h] = j]
    BY <1>6 DEF LookUpTask, Return
  <2>3. \A t \in TaskId : ~Deciding(h, t)
    BY <2>1 DEF Deciding
  <2>. QED BY <1>0, <1>6, <2>2, <2>3, HeldInHand DEF LookUpTask, database
<1>7. CASE SetRecovering(h)
  <2>1. /\ \A g \in Handlers \ {h} : job'[g] = job[g]
        /\ job'[h].task = job[h].task /\ job'[h].pc = "recover_ask"
        /\ job[h].kind = "result" /\ job[h].pc = "recover_task"
    BY <1>0, <1>7 DEF SetRecovering, Goto, At, Job, PointOK
  <2>2. \A t : ~Deciding(h, t)
    BY <2>1 DEF Deciding
  <2>3. ASSUME NEW t \in TaskId, tasks'[t].status = "recovering"
        PROVE  \/ tasks[t].status = "recovering" /\ (InHand(t) => InHand(t)')
               \/ InHand(t)'
    <3>1. CASE t = job[h].task
      BY <2>1, <3>1 DEF InHand, Deciding
    <3>2. CASE t # job[h].task
      <4>1. tasks[t].status = "recovering"
        BY <1>0, <1>7, <2>3, <3>2 DEF SetRecovering, SetTask
      <4>2. AwaitedFor(t) => AwaitedFor(t)'
        BY <1>7 DEF SetRecovering, requests, AwaitedFor
      <4>3. \A g \in Handlers : Deciding(g, t) => Deciding(g, t)'
        BY <2>1, <2>2 DEF Deciding
      <4>. QED BY <4>1, <4>2, <4>3 DEF InHand
    <3>. QED BY <3>1, <3>2
  <2>. QED BY <1>0, <2>3, HeldKept
<1>8. CASE AskRecovery(h)
  <2>1. /\ nreqs + 1 \in pending' /\ nreqs \in Nat /\ pending \subseteq 1 .. nreqs
        /\ asked'[nreqs + 1].kind = "recovery"
        /\ asked'[nreqs + 1].task = job[h].task /\ RequestsStay
    <3>1. nreqs + 1 \in ReqId
      BY <1>0, <1>8, ConstantsOK DEF AskRecovery, NewRequest, TypeOK, ReqId
    <3>. QED BY <1>0, <1>8, <3>1
             DEF AskRecovery, NewRequest, TypeOK, RequestsStay
  <2>2. \A t \in TaskId : Deciding(h, t) => InHand(t)'
    BY <2>1 DEF Deciding, InHand, AwaitedFor
  <2>3. PICK j : job' = [job EXCEPT ![h] = j]
    BY <1>8 DEF AskRecovery, Return
  <2>. QED BY <1>0, <1>8, <2>1, <2>2, <2>3, HeldByOthers
           DEF AskRecovery, database
<1>9. CASE WithdrawRequest(h)
  <2>1. /\ \A g \in Handlers \ {h} : job'[g] = job[g]
        /\ job'[h].task = job[h].task /\ job'[h].pc = "abort_task"
        /\ asked[job[h].req].task = job[h].task
    BY <1>0, <1>9 DEF WithdrawRequest, Goto, At, Job, RecoveryPoint
  <2>2. \A t : Deciding(h, t) => Deciding(h, t)'
    BY <2>1 DEF Deciding
  <2>3. ASSUME NEW t
        PROVE  InHand(t) => InHand(t)'
    <3>1. AwaitedFor(t) => AwaitedFor(t)' \/ t = job[h].task
      BY <1>9, <2>1 DEF WithdrawRequest, AwaitedFor
    <3>2. t = job[h].task => Deciding(h, t)'
      BY <2>1 DEF Deciding
    <3>3. \A g \in Handlers : Deciding(g, t) => Deciding(g, t)'
      BY <2>1, <2>2 DEF Deciding
    <3>. QED BY <3>1, <3>2, <3>3 DEF InHand
  <2>. QED BY <1>0, <1>9, <2>3, HeldKept DEF WithdrawRequest, database
<1>10. CASE AbortTask(h) \/ FinishTask(h) \/ RetryTask(h) \/ DecomposeTask(h)
  BY <1>0, <1>10, HeldDecided DEF AbortTask, FinishTask, RetryTask,
     DecomposeTask, TaskStatus
<1>11. CASE AdvanceTask(h)
  <2>1. PICK status : status = IF job[h].kind = "recovery" THEN "running"
                               ELSE tasks[job[h].task].status
    OBVIOUS
  <2>2. job[h].pc = "advance_task" /\ Return(h) /\ RequestsStay
          /\ tasks' = IF ~LiveTask(job[h].task) THEN tasks
                      ELSE [tasks EXCEPT ![job[h].task] =
                              [@ EXCEPT !.stage = NextStage(job[h].stage),
                                        !.status = status]]
    BY <1>11, <2>1 DEF AdvanceTask, At, requests, RequestsStay
  <2>3. ASSUME NEW t \in TaskId, tasks'[t].status = "recovering"
        PROVE  tasks[t].status = "recovering" /\ ~Deciding(h, t)
    <3>1. CASE t = job[h].task /\ LiveTask(t)
      <4>1. tasks'[t].status = status
        BY <1>0, <2>2, <3>1 DEF Task
      <4>. QED BY <2>1, <2>2, <2>3, <3>1, <4>1 DEF Deciding
    <3>2. CASE ~(t = job[h].task /\ LiveTask(t))
      <4>1. tasks'[t] = tasks[t]
        BY <1>0, <2>2, <3>2
      <4>. QED BY <2>3, <3>2, <4>1 DEF Deciding, LiveTask, Gone
    <3>. QED BY <3>1, <3>2
  <2>. QED BY <1>0, <2>2, <2>3, HeldByOthers DEF Return
<1>12. CASE LookUpStage(h)
  <2>1. PICK t, s, p : /\ t = GetTask(job[h].task)
                       /\ p = AfterDecision(job[h].said, s, t)
                       /\ IF p = "idle" THEN Return(h)
                          ELSE job' = [job EXCEPT ![h] =
                                 [job[h] EXCEPT !.pc = p, !.task = t,
                                                !.stage = s]]
    BY <1>12 DEF LookUpStage
  <2>2. job[h].kind = "recovery" /\ UNCHANGED <<tasks, requests>>
    BY <1>0, <1>12 DEF LookUpStage, At, PointOK, database
  <2>3. \A u \in TaskId : Deciding(h, u) /\ tasks[u].status = "recovering"
                            => t = u /\ u # None
    BY <2>1 DEF Deciding, GetTask, LiveTask, Gone, TaskId, None
  <2>4. CASE p = "idle"
    <3>1. t = None
      BY <2>1, <2>4 DEF AfterDecision, Onward
    <3>. QED BY <1>0, <2>1, <2>2, <2>3, <2>4, <3>1, HeldInHand DEF Return
  <2>5. CASE p # "idle"
    <3>1. PICK j : j = [job[h] EXCEPT !.pc = p, !.task = t, !.stage = s]
      OBVIOUS
    <3>2. job' = [job EXCEPT ![h] = j] /\ j.task = t /\ j.kind = "recovery"
      BY <1>0, <2>1, <2>2, <2>5, <3>1 DEF Job
    <3>. QED BY <1>0, <2>2, <2>3, <3>2, HeldInHand
  <2>. QED BY <2>4, <2>5
<1>13. CASE FindRetryRow(h)
  <2>1. job[h].pc = "retry_find" /\ UNCHANGED <<tasks, requests>>
    BY <1>13 DEF FindRetryRow, At, database
  <2>2. CASE job[h].task = None
    <3>1. PICK j : job' = [job EXCEPT ![h] = j]
      BY <1>13 DEF FindRetryRow, Return
    <3>2. \A t \in TaskId : ~Deciding(h, t)
      BY <2>2 DEF Deciding, TaskId, None
    <3>. QED BY <1>0, <2>1, <3>1, <3>2, HeldInHand
  <2>3. CASE job[h].task # None
    <3>1. PICK i : job' = [job EXCEPT ![h] = [job[h] EXCEPT !.pc = "retry_row",
                                                            !.row = i]]
      BY <1>13, <2>1, <2>3, RetryRowIsThere DEF FindRetryRow
    <3>2. PICK j : j = [job[h] EXCEPT !.pc = "retry_row", !.row = i]
      OBVIOUS
    <3>3. job' = [job EXCEPT ![h] = j] /\ j.task = job[h].task
            /\ j.kind = job[h].kind
      BY <1>0, <3>1, <3>2 DEF Job
    <3>. QED BY <1>1, <2>1, <3>3
  <2>. QED BY <2>2, <2>3
<1>14. CASE LookUpDecomposed(h)
  <2>1. job[h].kind = "decompose" /\ job[h].pc = "decompose_lookup"
    BY <1>0, <1>14 DEF LookUpDecomposed, At, PointOK
  <2>2. PICK j : job' = [job EXCEPT ![h] = j]
    BY <1>14 DEF LookUpDecomposed, Return
  <2>3. \A t \in TaskId : ~Deciding(h, t)
    BY <2>1 DEF Deciding
  <2>. QED BY <1>0, <1>14, <2>2, <2>3, HeldInHand DEF LookUpDecomposed, database
<1>15. CASE CreateSubtask(h) \/ DeleteAbort(h) \/ DeleteCollect(h)
              \/ DeleteOneTask(h) \/ DeleteRows(h)
  BY <1>0, <1>15 DEF CreateSubtask, Undisturbed, DeleteAbort, DeleteCollect,
     DeleteOneTask, DeleteRows, At, PointOK, RecoveryPoint
<1>. QED BY <1>4, <1>5, <1>6, <1>7, <1>8, <1>9, <1>10, <1>11, <1>12, <1>13,
            <1>14, <1>15 DEF HandlerStep

\* The events: an answer to a recovery is taken by a handler that decides.
LEMMA HeldByEvent ==
  ASSUME StageInv, RecoveryInv, NEW h \in Handlers, Event(h)
  PROVE  RecoveryHeld'
<1>0. /\ TypeOK /\ RecoveryHeld /\ job \in [Handlers -> Job]
      /\ tasks' = tasks /\ asked' = asked /\ job[h] = Idle
  BY OwnEvent DEF StageInv, TypeOK, RecoveryInv, Event, StartRun, Begin,
     ReceiveResult, ReceiveRecovery, ReceiveDecomposition, BeginDelete,
     database, requests
<1>1. \A t : ~Deciding(h, t)
  BY <1>0 DEF Deciding, Idle
<1>2. PICK j : job' = [job EXCEPT ![h] = j]
  BY <1>0, OwnEvent
<1>3. /\ \A g \in Handlers \ {h} : job'[g] = job[g]
      /\ job'[h] = j
  BY <1>0, <1>2
<1>4. \A g \in Handlers, t \in TaskId : Deciding(g, t) => Deciding(g, t)'
  BY <1>1, <1>3 DEF Deciding
<1>5. ASSUME UNCHANGED pending
      PROVE  RecoveryHeld'
  <2>1. RequestsStay
    BY <1>0, <1>5 DEF RequestsStay
  <2>. QED BY <1>0, <1>1, <1>2, <2>1, HeldByOthers
<1>6. CASE ReceiveRecovery(h)
  <2>1. PICK q \in pending, said \in Actions :
          /\ asked[q].kind = "recovery" /\ Claim(q)
          /\ job' = [job EXCEPT ![h] = [Idle EXCEPT !.pc = "recovery_task",
                                                    !.kind = "recovery",
                                                    !.run = asked[q].run,
                                                    !.said = said,
                                                    !.task = asked[q].task,
                                                    !.req = q]]
    BY <1>6, RecoveryReply
  <2>2. job'[h].task = asked[q].task /\ job'[h].kind = "recovery"
    BY <1>0, <2>1 DEF Idle
  <2>3. ASSUME NEW t \in TaskId
        PROVE  InHand(t) => InHand(t)'
    <3>1. AwaitedFor(t) => AwaitedFor(t)' \/ t = asked[q].task
      BY <1>0, <2>1 DEF AwaitedFor, Claim
    <3>2. t = asked[q].task => Deciding(h, t)'
      BY <2>2 DEF Deciding
    <3>. QED BY <1>4, <3>1, <3>2 DEF InHand
  <2>. QED BY <1>0, <2>3, HeldKept
<1>7. CASE ReceiveDecomposition(h)
  <2>1. PICK q \in pending : asked[q].kind = "decompose" /\ Claim(q)
    BY <1>7, DecompositionReply
  <2>2. ASSUME NEW t \in TaskId
        PROVE  InHand(t) => InHand(t)'
    <3>1. AwaitedFor(t) => AwaitedFor(t)'
      BY <1>0, <2>1 DEF AwaitedFor, Claim
    <3>. QED BY <1>4, <3>1 DEF InHand
  <2>. QED BY <1>0, <2>2, HeldKept
<1>. QED BY <1>5, <1>6, <1>7 DEF Event, StartRun, ReceiveResult, BeginDelete,
                                 requests

\* What is not a step of a handler.
LEMMA HeldElsewhere ==
  ASSUME TypeOK, RecoveryHeld,
         \/ RequestDecomposition \/ (\E i \in RowId : GrowStale(i))
         \/ MonitorStep \/ UNCHANGED vars
  PROVE  RecoveryHeld'
<1>0. job' = job /\ tasks \in [TaskId -> Task]
  BY DEF RequestDecomposition, GrowStale, MonitorStep, MonitorScan, MonitorMark,
     MonitorLookup, MonitorFail, vars, TypeOK
<1>1. RequestsStay
  <2>1. CASE RequestDecomposition
    <3>1. PICK t : NewRequest("decompose", tasks[t].run, t)
      BY <2>1 DEF RequestDecomposition
    <3>2. asked \in [ReqId -> Request] /\ nreqs + 1 \notin pending
      BY DEF TypeOK
    <3>. QED BY <3>1, <3>2 DEF NewRequest, RequestsStay
  <2>2. CASE ~RequestDecomposition
    BY <2>2 DEF GrowStale, MonitorStep, MonitorScan, MonitorMark,
       MonitorLookup, MonitorFail, vars, requests, RequestsStay
  <2>. QED BY <2>1, <2>2
<1>2. \A t \in TaskId : tasks'[t].status = "recovering"
                          => tasks[t].status = "recovering"
  <2>1. UNCHANGED tasks \/ SetTask(monitor.task, "failed")
    BY DEF RequestDecomposition, GrowStale, MonitorStep, MonitorScan,
       MonitorMark, MonitorLookup, MonitorFail, vars, database
  <2>. QED BY <1>0, <2>1 DEF SetTask, Task
<1>3. ASSUME NEW t
      PROVE  InHand(t) => InHand(t)'
  BY <1>0, <1>1 DEF InHand, AwaitedFor, Deciding, RequestsStay
<1>. QED BY <1>2, <1>3, HeldKept

LEMMA HeldStep ==
  ASSUME StageInv, RecoveryInv, Undisturbed, [Next]_vars
  PROVE  RecoveryHeld'
<1>1. TypeOK /\ RecoveryHeld
  BY DEF StageInv, RecoveryInv
<1>2. ~Crash /\ \A h \in Handlers : ~DbError(h)
  BY DEF Undisturbed, Crash, DbError
<1>. QED BY <1>1, <1>2, HeldByHandler, HeldByEvent, HeldElsewhere
         DEF Next, Event

\* Rows are inserted running, and no statement but a deletion removes them.
LEMMA LiveRowsStep ==
  ASSUME StageInv, RecoveryInv, Undisturbed, [Next]_vars
  PROVE  LiveRows'
<1>0. /\ rows \in [RowId -> Row] /\ nrows \in Nat /\ LiveRows /\ TypeOK
      /\ \A i \in 1 .. nrows : i \in RowId
  BY ConstantsOK DEF StageInv, TypeOK, RecoveryInv, AllLive, RowId
<1>1. CASE UNCHANGED <<rows, nrows>>
  BY <1>0, <1>1 DEF LiveRows
<1>2. ASSUME NEW r, NEW s, InsertRow(r, s)
      PROVE  LiveRows'
  <2>1. ASSUME NEW i \in 1 .. nrows + 1
        PROVE  rows'[i].status \notin Gone
    <3>1. CASE i = nrows + 1
      <4>1. i \in RowId
        BY <1>0, <1>2, <3>1, ConstantsOK DEF InsertRow, RowId
      <4>. QED BY <1>0, <1>2, <3>1, <4>1 DEF InsertRow, Gone
    <3>2. CASE i # nrows + 1
      BY <1>0, <1>2, <3>2 DEF InsertRow, LiveRows
    <3>. QED BY <3>1, <3>2
  <2>. QED BY <1>2, <2>1 DEF InsertRow, LiveRows
<1>3. ASSUME RowsStay, UNCHANGED nrows
      PROVE  LiveRows'
  BY <1>0, <1>3 DEF RowsStay, LiveRows, LiveRow
<1>4. ASSUME NEW h \in Handlers, HandlerStep(h)
      PROVE  LiveRows'
  <2>1. CASE RecordResult(h)
    <3>1. job[h].said \in RowStatus \ Gone
      BY <2>1 DEF RecordResult, At, StageInv, JobsOK, JobOK, PointOK,
                  Results, RowStatus, Gone
    <3>. QED BY <1>0, <1>3, <2>1, <3>1, RowsStayOK DEF RecordResult
  <2>2. CASE RetryRow(h)
    <3>1. PICK i : rows' = IF ~LiveRow(i) THEN rows
                           ELSE [rows EXCEPT ![i].status = "running",
                                             ![i].retry = @ + 1,
                                             ![i].stale = FALSE]
      BY <2>2 DEF RetryRow
    <3>2. \A k \in RowId : rows[k].status \notin Gone => rows'[k].status \notin Gone
      BY <1>0, <3>1 DEF Gone, Row
    <3>. QED BY <1>0, <2>2, <3>2 DEF RetryRow, LiveRows
  <2>3. CASE DeleteRows(h)
    BY <2>3 DEF DeleteRows, At, StageInv, JobsOK, JobOK, PointOK, RecoveryInv,
                RecoveryPoints, RecoveryPoint
  <2>4. CASE ~RecordResult(h) /\ ~RetryRow(h) /\ ~DeleteRows(h)
    BY <1>1, <1>2, <1>4, <2>4 DEF HandlerStep, database, StartTask, LookUpTask,
       SetRecovering, AskRecovery, WithdrawRequest, AbortTask, CreateSubtask,
       SubtasksCreated, AdvanceRow, AdvanceTask, FinishTask, LookUpStage,
       CheckRetries, FindRetryRow, RetryTask, LookUpDecomposed, DecomposeTask,
       DeleteAbort, DeleteCollect, DeleteOneTask
  <2>. QED BY <2>1, <2>2, <2>3, <2>4
<1>5. ASSUME NEW h \in Handlers, Event(h)
      PROVE  LiveRows'
  BY <1>1, <1>2, <1>5 DEF Event, StartRun, ReceiveResult, ReceiveRecovery,
     ReceiveDecomposition, BeginDelete, database
<1>6. CASE MonitorStep
  <2>1. UNCHANGED nrows /\ (UNCHANGED rows \/ \E i : SetRow(i, "timed_out"))
    <3>1. CASE MonitorMark
      BY <3>1 DEF MonitorMark
    <3>2. CASE ~MonitorMark
      BY <1>6, <3>2 DEF MonitorStep, MonitorScan, MonitorLookup, MonitorFail,
                        database
    <3>. QED BY <3>1, <3>2
  <2>2. "timed_out" \in RowStatus \ Gone
    BY DEF RowStatus, Gone
  <2>. QED BY <1>0, <1>1, <1>3, <2>1, <2>2, RowsStayOK
<1>7. ASSUME NEW i \in RowId, GrowStale(i)
      PROVE  LiveRows'
  BY <1>0, <1>3, <1>7, RowsStayOK DEF GrowStale
<1>8. ~Crash /\ \A h \in Handlers : ~DbError(h)
  BY DEF Undisturbed, Crash, DbError
<1>9. CASE RequestDecomposition \/ UNCHANGED vars
  BY <1>1, <1>9 DEF RequestDecomposition, vars, database
<1>. QED BY <1>4, <1>5, <1>6, <1>7, <1>8, <1>9 DEF Next, Event

\* A task starts at the first stage and moves to the next one.
LEMMA LiveTasksStep ==
  ASSUME StageInv, RecoveryInv, Undisturbed, [Next]_vars
  PROVE  LiveTasks'
<1>0. /\ tasks \in [TaskId -> Task] /\ ntasks \in Nat /\ LiveTasks /\ TypeOK
      /\ \A t \in 1 .. ntasks : t \in TaskId
  BY ConstantsOK DEF StageInv, TypeOK, RecoveryInv, AllLive, TaskId, MaxTasks
<1>1. CASE UNCHANGED <<tasks, ntasks>>
  BY <1>0, <1>1 DEF LiveTasks
<1>2. ASSUME NEW t, NEW status \in TaskStatus \ Gone, SetTask(t, status),
             UNCHANGED ntasks
      PROVE  LiveTasks'
  BY <1>0, <1>2 DEF LiveTasks, SetTask, LiveTask, Task
<1>3. ASSUME NEW h \in Handlers, HandlerStep(h)
      PROVE  LiveTasks'
  <2>1. CASE StartTask(h)
    <3>1. InsertTask(job[h].run, "running", Learning, None)
      BY <2>1 DEF StartTask
    <3>2. ASSUME NEW t \in 1 .. ntasks + 1
          PROVE  tasks'[t].status \notin Gone /\ tasks'[t].stage \in Stages
      <4>1. CASE t = ntasks + 1
        <5>1. t \in TaskId
          BY <1>0, <3>1, <4>1, ConstantsOK DEF InsertTask, TaskId, MaxTasks
        <5>. QED BY <1>0, <3>1, <4>1, <5>1 DEF InsertTask, Gone, Stages,
                                               Learning, SkillManage
      <4>2. CASE t # ntasks + 1
        BY <1>0, <3>1, <4>2 DEF InsertTask, LiveTasks
      <4>. QED BY <4>1, <4>2
    <3>. QED BY <3>1, <3>2 DEF InsertTask, LiveTasks
  <2>2. CASE AdvanceTask(h)
    <3>1. NextStage(job[h].stage) \in Stages
      BY <2>2 DEF AdvanceTask, At, StageInv, JobsOK, JobOK, PointOK, HasNext,
                  NextStage, Stages, Learning, SkillManage
    <3>2. PICK t, status :
            /\ LiveTask(t) => status \notin Gone
            /\ tasks' = IF ~LiveTask(t) THEN tasks
                        ELSE [tasks EXCEPT ![t] =
                                [@ EXCEPT !.stage = NextStage(job[h].stage),
                                          !.status = status]]
      <4>1. PICK status : status = IF job[h].kind = "recovery" THEN "running"
                                   ELSE tasks[job[h].task].status
        OBVIOUS
      <4>2. LiveTask(job[h].task) => status \notin Gone
        BY <4>1 DEF LiveTask, Gone
      <4>. QED BY <2>2, <4>1, <4>2 DEF AdvanceTask
    <3>3. \A u \in TaskId :
            u # t \/ ~LiveTask(t) => tasks'[u] = tasks[u]
      BY <1>0, <3>2
    <3>4. LiveTask(t) => /\ tasks'[t].stage = NextStage(job[h].stage)
                         /\ tasks'[t].status = status
      BY <1>0, <3>2 DEF LiveTask, Task
    <3>5. \A u \in 1 .. ntasks : /\ tasks'[u].status \notin Gone
                                 /\ tasks'[u].stage \in Stages
      BY <1>0, <3>1, <3>2, <3>3, <3>4 DEF LiveTasks
    <3>. QED BY <2>2, <3>5 DEF LiveTasks, AdvanceTask
  <2>3. CASE SetRecovering(h) \/ AbortTask(h) \/ FinishTask(h) \/ RetryTask(h)
               \/ DecomposeTask(h)
    <3>1. {"recovering", "failed", "completed", "running", "decomposed"}
            \subseteq TaskStatus \ Gone
      BY DEF TaskStatus, Gone
    <3>. QED BY <1>2, <2>3, <3>1 DEF SetRecovering, AbortTask, FinishTask,
                                     RetryTask, DecomposeTask
  <2>4. CASE DeleteAbort(h) \/ DeleteOneTask(h) \/ CreateSubtask(h)
    BY <2>4 DEF DeleteAbort, DeleteOneTask, CreateSubtask, At, StageInv,
       JobsOK, JobOK, PointOK, RecoveryInv, RecoveryPoints, RecoveryPoint,
       Undisturbed
  <2>5. CASE /\ ~StartTask(h) /\ ~AdvanceTask(h) /\ ~SetRecovering(h)
             /\ ~AbortTask(h) /\ ~FinishTask(h) /\ ~RetryTask(h)
             /\ ~DecomposeTask(h) /\ ~DeleteAbort(h) /\ ~DeleteOneTask(h)
             /\ ~CreateSubtask(h)
    BY <1>1, <1>3, <2>5 DEF HandlerStep, database, RecordResult, LookUpTask,
       AskRecovery, WithdrawRequest, SubtasksCreated, AdvanceRow, LookUpStage,
       CheckRetries, FindRetryRow, RetryRow, LookUpDecomposed, DeleteCollect,
       DeleteRows
  <2>. QED BY <2>1, <2>2, <2>3, <2>4, <2>5
<1>4. ASSUME NEW h \in Handlers, Event(h)
      PROVE  LiveTasks'
  BY <1>1, <1>4 DEF Event, StartRun, ReceiveResult, ReceiveRecovery,
     ReceiveDecomposition, BeginDelete, database
<1>5. CASE MonitorStep
  <2>1. UNCHANGED ntasks /\ (UNCHANGED tasks \/ SetTask(monitor.task, "failed"))
    BY <1>5 DEF MonitorStep, MonitorScan, MonitorMark, MonitorLookup,
                MonitorFail, database
  <2>2. "failed" \in TaskStatus \ Gone
    BY DEF TaskStatus, Gone
  <2>. QED BY <1>1, <1>2, <2>1, <2>2
<1>6. ~Crash /\ \A h \in Handlers : ~DbError(h)
  BY DEF Undisturbed, Crash, DbError
<1>7. CASE RequestDecomposition \/ (\E i \in RowId : GrowStale(i))
             \/ UNCHANGED vars
  BY <1>1, <1>7 DEF RequestDecomposition, GrowStale, vars, database
<1>. QED BY <1>3, <1>4, <1>5, <1>6, <1>7 DEF Next, Event

\* What the requests were made for stays, so a handler that does not move
\* stays right about its own.
LEMMA PointsKept ==
  ASSUME TypeOK, RecoveryPoints, nreqs' \in Nat, nreqs <= nreqs',
         \A q \in 1 .. nreqs : asked'[q] = asked[q],
         NEW h \in Handlers, NEW j, job' = [job EXCEPT ![h] = j],
         RecoveryPoint(j)'
  PROVE  RecoveryPoints'
<1>1. job'[h] = j /\ \A g \in Handlers \ {h} : job'[g] = job[g]
  BY DEF TypeOK
<1>2. ASSUME NEW g \in Handlers \ {h}
      PROVE  RecoveryPoint(job[g])'
  <2>1. RecoveryPoint(job[g]) /\ nreqs \in Nat
    BY DEF RecoveryPoints, TypeOK
  <2>. QED BY <1>1, <2>1 DEF RecoveryPoint
<1>3. RecoveryPoint(job[h])'
  BY <1>1 DEF RecoveryPoint
<1>. QED BY <1>2, <1>3 DEF RecoveryPoints

\* The requests that were made are kept.
LEMMA AskedKept ==
  ASSUME TypeOK, [Next]_vars
  PROVE  /\ nreqs' \in Nat /\ nreqs <= nreqs'
         /\ \A q \in 1 .. nreqs : asked'[q] = asked[q]
<1>1. asked \in [ReqId -> Request] /\ nreqs \in Nat
  BY DEF TypeOK
<1>2. CASE UNCHANGED <<asked, nreqs>>
  BY <1>1, <1>2
<1>3. ASSUME NEW kind, NEW run, NEW t, NewRequest(kind, run, t)
      PROVE  /\ nreqs' \in Nat /\ nreqs <= nreqs'
             /\ \A q \in 1 .. nreqs : asked'[q] = asked[q]
  BY <1>1, <1>3 DEF NewRequest
<1>4. ASSUME NEW h \in Handlers, HandlerStep(h) \/ Event(h) \/ DbError(h)
      PROVE  UNCHANGED <<asked, nreqs>>
               \/ \E kind, run, t : NewRequest(kind, run, t)
  BY <1>4 DEF Event, StartRun, ReceiveResult, ReceiveRecovery, DbError,
     ReceiveDecomposition, BeginDelete, requests,
     HandlerStep, StartTask, RecordResult, LookUpTask,
     SetRecovering, AskRecovery, WithdrawRequest, AbortTask, CreateSubtask,
     SubtasksCreated, AdvanceRow, AdvanceTask, FinishTask, LookUpStage,
     CheckRetries, FindRetryRow, RetryRow, RetryTask, LookUpDecomposed,
     DecomposeTask, DeleteAbort, DeleteCollect, DeleteOneTask, DeleteRows
<1>5. CASE RequestDecomposition
  BY <1>3, <1>5 DEF RequestDecomposition
<1>6. CASE MonitorStep \/ Crash \/ (\E i \in RowId : GrowStale(i))
             \/ UNCHANGED vars
  BY <1>2, <1>6 DEF MonitorStep, MonitorScan, MonitorMark, MonitorLookup,
     MonitorFail, Crash, GrowStale, vars, requests
<1>. QED BY <1>2, <1>3, <1>4, <1>5, <1>6 DEF Next, Event

\* The points RecoveryPoint says something of.
Special == {"idle", "emit_failed", "retry_count", "retry_find"}

\* A handler starts, goes on or returns to such a point.
LEMMA PointsByHandler ==
  ASSUME StageInv, RecoveryInv, [Next]_vars, NEW h \in Handlers, HandlerStep(h)
  PROVE  RecoveryPoints'
<1>0. /\ TypeOK /\ RecoveryPoints /\ job \in [Handlers -> Job]
      /\ job[h] \in Job /\ RecoveryPoint(job[h]) /\ PointOK(job[h])
  BY DEF StageInv, TypeOK, RecoveryInv, RecoveryPoints, JobsOK, JobOK
<1>1. ASSUME NEW j, job' = [job EXCEPT ![h] = j], RecoveryPoint(j)'
      PROVE  RecoveryPoints'
  BY <1>0, <1>1, AskedKept, PointsKept
<1>2. ASSUME NEW j, job' = [job EXCEPT ![h] = j], j.kind = job[h].kind,
             j.pc \notin Special
      PROVE  RecoveryPoints'
  BY <1>0, <1>1, <1>2 DEF RecoveryPoint, Special
<1>3. CASE Return(h)
  <2>1. PICK j : j = Idle
    OBVIOUS
  <2>2. j.pc = "idle" /\ j.kind = "none"
    BY <2>1 DEF Idle
  <2>3. RecoveryPoint(j)'
    BY <2>2 DEF RecoveryPoint
  <2>. QED BY <1>1, <1>3, <2>1, <2>3 DEF Return
<1>4. ASSUME NEW p, Goto(h, p),
             p \notin Special
      PROVE  RecoveryPoints'
  <2>1. PICK j : j = [job[h] EXCEPT !.pc = p]
    OBVIOUS
  <2>2. job' = [job EXCEPT ![h] = j] /\ j.pc = p /\ j.kind = job[h].kind
    BY <1>0, <1>4, <2>1 DEF Goto, Job
  <2>. QED BY <1>2, <1>4, <2>2
<1>5. CASE UNCHANGED job
  <2>1. job' = [job EXCEPT ![h] = job[h]]
    BY <1>0, <1>5
  <2>2. RecoveryPoint(job[h])'
    BY <1>0, <1>5, AskedKept DEF RecoveryPoint, TypeOK
  <2>3. PICK j : j = job[h]
    OBVIOUS
  <2>. QED BY <1>1, <1>5, <2>1, <2>2, <2>3 DEF RecoveryPoint
<1>6. CASE LookUpTask(h) /\ ~Return(h)
  <2>1. PICK t, p : /\ p \in AfterResult(job[h].said, job[h].stage, t)
                    /\ p # "idle"
                    /\ job' = [job EXCEPT ![h] = [job[h] EXCEPT !.pc = p,
                                                                !.task = t]]
    BY <1>6 DEF LookUpTask
  <2>2. p \notin Special
    <3>1. Onward(job[h].stage) \notin Special
      BY DEF Onward, Special
    <3>. QED BY <1>6, <2>1, <3>1 DEF AfterResult, LookUpTask, Special
  <2>3. PICK j : j = [job[h] EXCEPT !.pc = p, !.task = t]
    OBVIOUS
  <2>4. job' = [job EXCEPT ![h] = j] /\ j.pc = p /\ j.kind = job[h].kind
    BY <1>0, <2>1, <2>3 DEF Job
  <2>. QED BY <1>2, <2>2, <2>4
<1>7. CASE AskRecovery(h) /\ ~Return(h)
  <2>1. PICK j : j = [job[h] EXCEPT !.pc = "emit_failed", !.req = nreqs + 1]
    OBVIOUS
  <2>2. /\ job' = [job EXCEPT ![h] = j] /\ j.pc = "emit_failed"
        /\ j.req = nreqs + 1 /\ j.task = job[h].task /\ j.kind = job[h].kind
    BY <1>0, <1>7, <2>1 DEF AskRecovery, Job
  <2>3. nreqs + 1 \in ReqId /\ nreqs \in Nat
    BY <1>0, <1>7, ConstantsOK DEF AskRecovery, NewRequest, TypeOK, ReqId
  <2>4. asked'[nreqs + 1].task = job[h].task /\ nreqs' = nreqs + 1
    BY <1>0, <1>7, <2>3 DEF AskRecovery, NewRequest, TypeOK
  <2>5. RecoveryPoint(j)'
    BY <1>0, <2>2, <2>3, <2>4 DEF RecoveryPoint
  <2>. QED BY <1>1, <2>2, <2>5
<1>8. CASE LookUpStage(h) /\ ~Return(h)
  <2>1. PICK t, s, p : /\ t = GetTask(job[h].task)
                       /\ s = IF t = None THEN NoStage ELSE tasks[t].stage
                       /\ p = AfterDecision(job[h].said, s, t)
                       /\ p # "idle"
                       /\ job' = [job EXCEPT ![h] =
                                    [job[h] EXCEPT !.pc = p, !.task = t,
                                                   !.stage = s]]
    BY <1>8 DEF LookUpStage
  <2>2. PICK j : j = [job[h] EXCEPT !.pc = p, !.task = t, !.stage = s]
    OBVIOUS
  <2>3. /\ job' = [job EXCEPT ![h] = j] /\ j.pc = p /\ j.task = t
        /\ j.stage = s /\ j.kind = job[h].kind
    BY <1>0, <2>1, <2>2 DEF Job
  <2>4. t # None => s \in Stages
    <3>1. ASSUME LiveTask(job[h].task)
          PROVE  job[h].task \in 1 .. ntasks
      BY <3>1, ConstantsOK DEF LiveTask, Gone, StageInv, TasksOK, TaskOK,
                               TypeOK, TaskId, MaxTasks
    <3>. QED BY <2>1, <3>1 DEF GetTask, RecoveryInv, AllLive, LiveTasks
  <2>5. p # "emit_failed"
    BY <2>1 DEF AfterDecision, Onward
  <2>6. RecoveryPoint(j)'
    BY <1>0, <2>1, <2>3, <2>4, <2>5 DEF RecoveryPoint
  <2>. QED BY <1>1, <2>3, <2>6
<1>9. CASE CheckRetries(h)
  <2>1. PICK p \in {"abort_task", "retry_find"} : Goto(h, p)
    BY <1>9 DEF CheckRetries
  <2>2. PICK j : j = [job[h] EXCEPT !.pc = p]
    OBVIOUS
  <2>3. /\ job' = [job EXCEPT ![h] = j] /\ j.pc = p /\ j.task = job[h].task
        /\ j.stage = job[h].stage /\ j.kind = job[h].kind
        /\ job[h].pc = "retry_count"
    BY <1>0, <1>9, <2>1, <2>2 DEF Goto, Job, CheckRetries, At
  <2>4. RecoveryPoint(j)'
    BY <1>0, <2>3 DEF RecoveryPoint
  <2>. QED BY <1>1, <2>3, <2>4
<1>10. CASE FindRetryRow(h) /\ ~Return(h)
  <2>1. PICK i : job' = [job EXCEPT ![h] = [job[h] EXCEPT !.pc = "retry_row",
                                                          !.row = i]]
    BY <1>10 DEF FindRetryRow
  <2>2. PICK j : j = [job[h] EXCEPT !.pc = "retry_row", !.row = i]
    OBVIOUS
  <2>3. job' = [job EXCEPT ![h] = j] /\ j.pc = "retry_row"
          /\ j.kind = job[h].kind
    BY <1>0, <2>1, <2>2 DEF Job
  <2>. QED BY <1>2, <2>3 DEF Special
<1>11. CASE LookUpDecomposed(h) /\ ~Return(h)
  <2>1. PICK j : j = [job[h] EXCEPT !.pc = "subtasks",
                                    !.run = tasks[job[h].task].run]
    OBVIOUS
  <2>2. job' = [job EXCEPT ![h] = j] /\ j.pc = "subtasks"
          /\ j.kind = job[h].kind
    BY <1>0, <1>11, <2>1 DEF LookUpDecomposed, Job
  <2>. QED BY <1>2, <2>2 DEF Special
<1>12. CASE DeleteAbort(h) \/ DeleteCollect(h) \/ DeleteOneTask(h)
              \/ DeleteRows(h)
  BY <1>0, <1>12 DEF DeleteAbort, DeleteCollect, DeleteOneTask, DeleteRows, At,
     PointOK, RecoveryPoint
<1>13. CASE SubtasksCreated(h)
  <2>1. PICK p : Goto(h, p) /\ p \notin Special
    BY <1>13 DEF SubtasksCreated, Onward, Special
  <2>. QED BY <1>4, <2>1
<1>. QED BY <1>3, <1>4, <1>5, <1>6, <1>7, <1>8, <1>9, <1>10, <1>11, <1>12,
            <1>13
   DEF Special, HandlerStep, StartTask, RecordResult, SetRecovering, WithdrawRequest,
       AbortTask, CreateSubtask, AdvanceRow, AdvanceTask, FinishTask, RetryRow,
       RetryTask, DecomposeTask

LEMMA PointsStep ==
  ASSUME StageInv, RecoveryInv, Undisturbed, [Next]_vars
  PROVE  RecoveryPoints'
<1>0. TypeOK /\ RecoveryPoints /\ job \in [Handlers -> Job]
  BY DEF StageInv, TypeOK, RecoveryInv
<1>1. CASE UNCHANGED job
  <2>1. PICK h \in Handlers : TRUE
    BY ConstantsOK
  <2>2. job' = [job EXCEPT ![h] = job[h]]
    BY <1>0, <1>1
  <2>3. PICK j : j = job[h]
    OBVIOUS
  <2>4. RecoveryPoint(j)'
    BY <1>0, <2>3, AskedKept DEF RecoveryPoint, RecoveryPoints, TypeOK
  <2>. QED BY <1>0, <2>2, <2>3, <2>4, AskedKept, PointsKept
<1>2. ASSUME NEW h \in Handlers, NEW j, job' = [job EXCEPT ![h] = j],
             j.kind # "delete",
             j.pc \notin Special
      PROVE  RecoveryPoints'
  BY <1>0, <1>2, AskedKept, PointsKept DEF RecoveryPoint, Special
<1>3. ASSUME NEW h \in Handlers, Event(h), job' # job
      PROVE  \E j : /\ job' = [job EXCEPT ![h] = j] /\ j.kind # "delete"
                    /\ j.pc \notin Special
  <2>1. CASE StartRun(h)
    <3>1. PICK r : job' = [job EXCEPT ![h] = [Idle EXCEPT !.pc = "start_task",
                                                          !.kind = "start",
                                                          !.run = r,
                                                          !.stage = Learning]]
      BY <2>1 DEF StartRun
    <3>2. PICK j : j = [Idle EXCEPT !.pc = "start_task", !.kind = "start",
                                    !.run = r, !.stage = Learning]
      OBVIOUS
    <3>3. j.pc = "start_task" /\ j.kind = "start"
      BY <3>2 DEF Idle
    <3>. QED BY <3>1, <3>2, <3>3 DEF Special
  <2>2. CASE ReceiveResult(h)
    <3>1. PICK r, s, said, i :
            job' = [job EXCEPT ![h] = [Idle EXCEPT !.pc = "result_record",
                                                   !.kind = "result",
                                                   !.run = r, !.stage = s,
                                                   !.said = said, !.row = i]]
      BY <2>2 DEF ReceiveResult
    <3>2. PICK j : j = [Idle EXCEPT !.pc = "result_record", !.kind = "result",
                                    !.run = r, !.stage = s, !.said = said,
                                    !.row = i]
      OBVIOUS
    <3>3. j.pc = "result_record" /\ j.kind = "result"
      BY <3>2 DEF Idle
    <3>. QED BY <3>1, <3>2, <3>3 DEF Special
  <2>3. CASE ReceiveRecovery(h)
    <3>1. PICK q \in pending, said \in Actions :
            job' = [job EXCEPT ![h] = [Idle EXCEPT !.pc = "recovery_task",
                                                   !.kind = "recovery",
                                                   !.run = asked[q].run,
                                                   !.said = said,
                                                   !.task = asked[q].task,
                                                   !.req = q]]
      BY <2>3, RecoveryReply
    <3>2. PICK j : j = [Idle EXCEPT !.pc = "recovery_task", !.kind = "recovery",
                                    !.run = asked[q].run, !.said = said,
                                    !.task = asked[q].task, !.req = q]
      OBVIOUS
    <3>3. j.pc = "recovery_task" /\ j.kind = "recovery"
      BY <3>2 DEF Idle
    <3>. QED BY <3>1, <3>2, <3>3 DEF Special
  <2>4. CASE ReceiveDecomposition(h)
    <3>1. PICK q \in pending :
            job' = [job EXCEPT ![h] = [Idle EXCEPT !.pc = "decompose_lookup",
                                                   !.kind = "decompose",
                                                   !.task = asked[q].task,
                                                   !.req = q]]
      BY <1>3, <2>4, DecompositionReply
    <3>2. PICK j : j = [Idle EXCEPT !.pc = "decompose_lookup",
                                    !.kind = "decompose",
                                    !.task = asked[q].task, !.req = q]
      OBVIOUS
    <3>3. j.pc = "decompose_lookup" /\ j.kind = "decompose"
      BY <3>2 DEF Idle
    <3>. QED BY <3>1, <3>2, <3>3 DEF Special
  <2>. QED BY <1>3, <2>1, <2>2, <2>3, <2>4
           DEF Event, BeginDelete, Undisturbed, Special
<1>4. ASSUME NEW h \in Handlers, Event(h)
      PROVE  RecoveryPoints'
  BY <1>1, <1>2, <1>3, <1>4
<1>5. ASSUME NEW h \in Handlers, HandlerStep(h)
      PROVE  RecoveryPoints'
  BY <1>5, PointsByHandler
<1>6. ~Crash /\ \A h \in Handlers : ~DbError(h)
  BY DEF Undisturbed, Crash, DbError
<1>7. CASE RequestDecomposition \/ MonitorStep \/ UNCHANGED vars
             \/ (\E i \in RowId : GrowStale(i))
  BY <1>1, <1>7 DEF RequestDecomposition, MonitorStep, MonitorScan,
     MonitorMark, MonitorLookup, MonitorFail, GrowStale, vars
<1>. QED BY <1>4, <1>5, <1>6, <1>7 DEF Next, Event

\* A failed stage is not forgotten by any interleaving of results, answers,
\* time-outs and failed emissions: an answer is awaited for its task, or a
\* handler holds it.  Without subtasks, deletions, restarts and database
\* errors: each of them can end a recovery without an answer.
THEOREM RecoveriesAreRemembered ==
  ASSUME Undisturbed
  PROVE  Spec => []RecoveryNotForgotten
<1>1. Init => RecoveryInv
  <2>1. SUFFICES ASSUME Init
        PROVE  RecoveryInv
    OBVIOUS
  <2>2. AllLive /\ RecoveryHeld
    BY <2>1 DEF Init, AllLive, LiveRows, LiveTasks, RecoveryHeld
  <2>3. RecoveryPoints
    BY <2>1 DEF Init, RecoveryPoints, RecoveryPoint, Idle
  <2>. QED BY <2>2, <2>3 DEF RecoveryInv
<1>2. StageInv /\ RecoveryInv /\ [Next]_vars => RecoveryInv'
  BY HeldStep, LiveRowsStep, LiveTasksStep, PointsStep DEF RecoveryInv, AllLive
<1>3. StageInv /\ RecoveryInv => RecoveryNotForgotten
  <2>1. SUFFICES ASSUME StageInv, RecoveryInv, NEW t \in TaskId,
                        tasks[t].status = "recovering"
        PROVE  AwaitedFor(t) \/ Owned(t)
    BY DEF RecoveryNotForgotten, AwaitedFor
  <2>2. ASSUME NEW h \in Handlers, Deciding(h, t)
        PROVE  job[h].pc # "idle" /\ job[h].task = t
    BY <2>1, <2>2 DEF Deciding, RecoveryInv, RecoveryPoints, RecoveryPoint
  <2>. QED BY <2>1, <2>2 DEF RecoveryInv, RecoveryHeld, InHand, Owned
<1>. QED BY <1>1, <1>2, <1>3, StageInvariant, PTL DEF Spec

=============================================================================
