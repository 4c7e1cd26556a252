--------------------------- MODULE PipelineStages ---------------------------
(***************************************************************************)
(* The five stages of an evolution pipeline run and their order.  A stage  *)
(* is its position, so that the order of the stages is the order of the    *)
(* numbers; NoStage is the empty string a subtask has as current_stage.    *)
(***************************************************************************)
EXTENDS Naturals

NoStage     == 0
Learning    == 1
Building    == 2
PreLoad     == 3
Evaluation  == 4
SkillManage == 5

Stages == Learning .. SkillManage

\* Mutant: an arm of the match is missing.
NextStageSkips(s)    == IF s = PreLoad THEN SkillManage ELSE s + 1

\* The stage after s; the last stage has none, and is its own guard.
HasNext(s)   == s \in Stages /\ s # SkillManage
NextStage(s) == s + 1

\* The stages a recovery decision may skip.
Skippable == {Evaluation, SkillManage}

=============================================================================
