----------------------------- MODULE PipelineRun -----------------------------
(***************************************************************************)
(* What an evolution run promises to whoever watches its task: it moves    *)
(* through the stages in order, a failing stage is either tried again,     *)
(* skipped (the last two stages only), broken into subtasks or given up,   *)
(* and a run that has ended stays as it ended until it is deleted.         *)
(***************************************************************************)
EXTENDS PipelineStages

CONSTANT Runs

VARIABLE run    \* the status and the stage of the task of each run

Ended  == {"completed", "failed", "decomposed"}
Status == Ended \cup {"none", "running", "recovering", "deleted"}

TypeOK == run \in [Runs -> [status : Status, stage : Stages \cup {NoStage}]]

Init == run = [r \in Runs |-> [status |-> "none", stage |-> NoStage]]

\* Run r leaves status `from` for `to`, at stage s.
Move(r, from, to, s) ==
  /\ run[r].status = from
  /\ run' = [run EXCEPT ![r] = [status |-> to, stage |-> s]]

Start(r)     == Move(r, "none", "running", Learning)
Advance(r)   == /\ HasNext(run[r].stage)
                /\ Move(r, "running", "running", NextStage(run[r].stage))
Complete(r)  == /\ run[r].stage = SkillManage
                /\ Move(r, "running", "completed", SkillManage)
\* The stage timed out, or the user deletes the task while it runs.
Fail(r)      == Move(r, "running", "failed", run[r].stage)
Recover(r)   == Move(r, "running", "recovering", run[r].stage)
Retry(r)     == Move(r, "recovering", "running", run[r].stage)
Abort(r)     == Move(r, "recovering", "failed", run[r].stage)
Decompose(r) == Move(r, "recovering", "decomposed", run[r].stage)
Skip(r)      ==
  /\ run[r].stage \in Skippable
  /\ IF HasNext(run[r].stage)
     THEN Move(r, "recovering", "running", NextStage(run[r].stage))
     ELSE Move(r, "recovering", "completed", run[r].stage)
Delete(r)    == \E from \in Ended : Move(r, from, "deleted", run[r].stage)

Next == \E r \in Runs :
  \/ Start(r) \/ Advance(r) \/ Complete(r) \/ Fail(r)
  \/ Recover(r) \/ Retry(r) \/ Abort(r) \/ Decompose(r) \/ Skip(r)
  \/ Delete(r)

Spec == Init /\ [][Next]_run

=============================================================================
