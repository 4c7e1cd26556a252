------------------------------ MODULE DebugTask ------------------------------
(***************************************************************************)
(* A debug task (main.rs): a bash command whose output is streamed, logged *)
(* and handed to the evaluations, or a prompt that the agents of a role     *)
(* answer.                                                                 *)
(*                                                                         *)
(* Of a bash command four activities know: the child, the thread that      *)
(* reads its terminal, the tokio task that takes the chunks from an        *)
(* unbounded channel, and the one that waits for both and settles the      *)
(* task.  Meanwhile the task may be deleted.                               *)
(***************************************************************************)
EXTENDS Naturals, Sequences, SequencesExt

CONSTANTS
  Responders,      \* the agents in the room a prompt is sent to
  MAX_ACCUMULATED, \* characters kept for the evaluation
  MaxRead,         \* characters one read of the terminal returns
  MaxOutput,       \* bound: characters the child writes
  MaxFaults        \* bound: failed calls and crashes

ASSUME DebugConstantsOK ==
  {MAX_ACCUMULATED, MaxRead, MaxOutput, MaxFaults} \subseteq Nat

\* The output is the characters 1, 2, ...; a character split by the end of a
\* read becomes one Garbled at the end of a chunk and one at the start of the
\* next.  Message is what a failure to start the child is reported with.
Garbled == 0
Message == MaxOutput + 1
Char    == 0 .. MaxOutput + 1

VARIABLES
  kind,        \* "none" before the request, then "bash" or "prompt"
  status,      \* of the row in tasks; "none": it could not be created
  logs,        \* the output in task_logs, one text per row
  evaluations, \* the output_preview of every task:evaluate sent
  child,       \* bash; open: bash or what it started holds the terminal
  reader,      \* pty_run_blocking
  channel,     \* the chunks sent and not received
  sent,        \* all the text ever sent over the channel
  emitter,     \* the task that receives them
  runner,      \* the rest of run_bash_pty_with_task
  answer,      \* the debug:response handler of each responder
  deleter,     \* the handler of a deletion, "done" once it has begun and ended
  faults

row   == <<status, logs, evaluations>>
pty   == <<child, reader, channel, sent>>
tasks == <<emitter, runner, answer, deleter>>
vars  == <<kind, row, pty, tasks, faults>>

Init ==
  /\ kind = "none"
  /\ status = "none"
  /\ logs = <<>>
  /\ evaluations = <<>>
  /\ child = [state |-> "none", open |-> FALSE, written |-> 0, success |-> FALSE]
  /\ reader = [pc |-> "off", pos |-> 0, half |-> FALSE, success |-> FALSE]
  /\ channel = <<>>
  /\ sent = <<>>
  /\ emitter = [pc |-> "off", accumulated |-> <<>>, buffer |-> <<>>]
  /\ runner = [pc |-> "off", success |-> FALSE, preview |-> <<>>]
  /\ answer = [r \in Responders |-> "off"]
  /\ deleter = "idle"
  /\ faults = 0

Fault == faults < MaxFaults /\ faults' = faults + 1

\* create_task returned a row; a row deleted meanwhile is "gone".
HasTask == status # "none"

\* update_task: an UPDATE by id.
SetStatus(s) == status' = IF status = "gone" THEN "gone" ELSE s

-----------------------------------------------------------------------------
(* The requests                                                            *)

\* The row is inserted, or the work goes on without one.
CreateTask ==
  \/ status' = "running" /\ UNCHANGED faults
  \/ status' = "none" /\ Fault

DebugBash ==
  /\ kind = "none"
  /\ kind' = "bash"
  /\ CreateTask
  /\ reader' = [reader EXCEPT !.pc = "open"]
  /\ emitter' = [emitter EXCEPT !.pc = "recv"]
  /\ runner' = [runner EXCEPT !.pc = "join"]
  /\ UNCHANGED <<logs, evaluations, child, channel, sent, answer, deleter>>

\* The prompt reaches some of the agents of its role, or none.
DebugPrompt ==
  /\ kind = "none"
  /\ kind' = "prompt"
  /\ CreateTask
  /\ \E reached \in SUBSET Responders :
       answer' = [r \in Responders |-> IF r \in reached THEN "asked" ELSE "off"]
  /\ UNCHANGED <<logs, evaluations, pty, emitter, runner, deleter>>

-----------------------------------------------------------------------------
(* The child and pty_run_blocking                                          *)

Send(text) ==
  /\ sent' = sent \o text
  /\ channel' = Append(channel, text)

\* The terminal, the child or its reader cannot be had: the message is sent
\* and the thread returns 1; without a reader the child goes on unattended.
OpenFails ==
  /\ reader.pc = "open" /\ Fault
  /\ \/ UNCHANGED child
     \/ child' = [child EXCEPT !.state = "up", !.open = TRUE]
  /\ Send(<<Message>>)
  /\ reader' = [reader EXCEPT !.pc = "done"]
  /\ UNCHANGED <<kind, row, tasks>>

Open ==
  /\ reader.pc = "open"
  /\ child' = [child EXCEPT !.state = "up", !.open = TRUE]
  /\ reader' = [reader EXCEPT !.pc = "read"]
  /\ UNCHANGED <<kind, row, channel, sent, tasks, faults>>

ChildWrites ==
  /\ child.open /\ child.written < MaxOutput
  /\ child' = [child EXCEPT !.written = @ + 1]
  /\ UNCHANGED <<kind, row, reader, channel, sent, tasks, faults>>

\* Bash ends; what it has started in the background may go on.
ChildExits ==
  /\ child.state = "up"
  /\ \E success \in BOOLEAN :
       child' = [child EXCEPT !.state = "ended", !.success = success]
  /\ UNCHANGED <<kind, row, reader, channel, sent, tasks, faults>>

\* The last process closes the terminal, before bash ends or after.
LetGo ==
  /\ child.open
  /\ child' = [child EXCEPT !.open = FALSE]
  /\ UNCHANGED <<kind, row, reader, channel, sent, tasks, faults>>

\* One read: n characters, and perhaps the first half of the next.  When the
\* receiver is gone the loop ends.
Read ==
  /\ reader.pc = "read"
  /\ \E n \in 0 .. MaxRead, half \in BOOLEAN :
       LET next == reader.pos + n
           start == IF reader.half THEN reader.pos + 1 ELSE reader.pos
           whole == [i \in 1 .. next - start |-> start + i]
           text == (IF reader.half THEN <<Garbled>> ELSE <<>>) \o whole
                      \o (IF half THEN <<Garbled>> ELSE <<>>)
       IN
       /\ next <= child.written
       /\ n = 0 => half /\ ~reader.half
       /\ half => next < child.written
       /\ reader' = [reader EXCEPT !.pos = next, !.half = half,
                       !.pc = IF emitter.pc = "panicked" THEN "wait" ELSE "read"]
       /\ IF emitter.pc = "panicked" THEN UNCHANGED <<channel, sent>>
                                     ELSE Send(text)
  /\ UNCHANGED <<kind, row, child, tasks, faults>>

\* End of file once nobody holds the terminal, or a failed read.
ReadEnds ==
  /\ reader.pc = "read"
  /\ \/ /\ ~child.open /\ reader.pos = child.written
        /\ UNCHANGED faults
     \/ Fault
  /\ reader' = [reader EXCEPT !.pc = "wait"]
  /\ UNCHANGED <<kind, row, child, channel, sent, tasks>>

\* wait returns when bash has ended, or it fails, which counts as a failure.
WaitChild ==
  /\ reader.pc = "wait"
  /\ \/ /\ child.state = "ended"
        /\ reader' = [reader EXCEPT !.pc = "done", !.success = child.success]
        /\ UNCHANGED faults
     \/ /\ Fault
        /\ reader' = [reader EXCEPT !.pc = "done"]
  /\ UNCHANGED <<kind, row, child, channel, sent, tasks>>

-----------------------------------------------------------------------------
(* The emitter                                                             *)

First(n, text) == SubSeq(text, 1, IF n < Len(text) THEN n ELSE Len(text))

\* Mutant: the limit is not looked at.
ReceiveAll ==
  /\ emitter.pc = "recv" /\ channel # <<>>
  /\ emitter' = [emitter EXCEPT
        !.accumulated = @ \o Head(channel),
        !.buffer = IF HasTask THEN @ \o Head(channel) ELSE @,
        !.pc = "flush"]
  /\ channel' = Tail(channel)
  /\ UNCHANGED <<kind, row, child, reader, sent, runner, answer, deleter, faults>>

\* A chunk is added to what is kept for the evaluations, up to the limit, and
\* to the buffer of the log.  A chunk that goes beyond the limit is cut at a
\* byte; inside a character that panics and ends the task.
Receive ==
  /\ emitter.pc = "recv" /\ channel # <<>>
  /\ LET text == Head(channel)
         room == MAX_ACCUMULATED - Len(emitter.accumulated)
     IN
     \/ /\ emitter' = [emitter EXCEPT
             !.accumulated = @ \o First(room, text),
             !.buffer = IF HasTask THEN @ \o text ELSE @,
             !.pc = "flush"]
     \/ /\ 0 < room /\ room < Len(text)
        /\ emitter' = [emitter EXCEPT !.pc = "panicked"]
  /\ channel' = Tail(channel)
  /\ UNCHANGED <<kind, row, child, reader, sent, runner, answer, deleter, faults>>

\* Mutant: the buffer is not cleared.
LogBufferKept(next) ==
  /\ \/ logs' = Append(logs, emitter.buffer) /\ UNCHANGED faults
     \/ UNCHANGED logs /\ Fault
  /\ emitter' = [emitter EXCEPT !.pc = next]

\* create_task_log, whether or not the task is still there; the buffer is
\* cleared whether or not it succeeds.
LogBuffer(next) ==
  /\ \/ logs' = Append(logs, emitter.buffer) /\ UNCHANGED faults
     \/ UNCHANGED logs /\ Fault
  /\ emitter' = [emitter EXCEPT !.pc = next, !.buffer = <<>>]

\* After a chunk: 1.5 s may have passed since the last flush, or not.
Flush ==
  /\ emitter.pc = "flush"
  /\ \/ HasTask /\ LogBuffer("recv")
     \/ /\ emitter' = [emitter EXCEPT !.pc = "recv"]
        /\ UNCHANGED <<logs, faults>>
  /\ UNCHANGED <<kind, status, evaluations, pty, runner, answer, deleter>>

\* Mutant: the end of the channel is noticed with the last flush only.
DrainBuffered ==
  /\ emitter.pc = "recv" /\ channel = <<>> /\ reader.pc = "done"
  /\ emitter.buffer # <<>>
  /\ LogBuffer("done")
  /\ UNCHANGED <<kind, status, evaluations, pty, runner, answer, deleter>>

\* The channel is closed and empty: the last flush.
Drain ==
  /\ emitter.pc = "recv" /\ channel = <<>> /\ reader.pc = "done"
  /\ IF emitter.buffer # <<>> THEN LogBuffer("done")
     ELSE /\ emitter' = [emitter EXCEPT !.pc = "done"]
          /\ UNCHANGED <<logs, faults>>
  /\ UNCHANGED <<kind, status, evaluations, pty, runner, answer, deleter>>

-----------------------------------------------------------------------------
(* run_bash_pty_with_task, after it has started the two                    *)

\* Mutant: the emitter is not waited for.
JoinReader ==
  /\ runner.pc = "join"
  /\ reader.pc = "done"
  /\ runner' = [pc |-> IF HasTask THEN "settle" ELSE "done",
                success |-> reader.success, preview |-> emitter.accumulated]
  /\ UNCHANGED <<kind, row, pty, emitter, answer, deleter, faults>>

\* Both have ended; of an emitter that panicked the preview is empty.
Join ==
  /\ runner.pc = "join"
  /\ reader.pc = "done" /\ emitter.pc \in {"done", "panicked"}
  /\ runner' = [pc |-> IF HasTask THEN "settle" ELSE "done",
                success |-> reader.success,
                preview |-> IF emitter.pc = "done" THEN emitter.accumulated
                                                   ELSE <<>>]
  /\ UNCHANGED <<kind, row, pty, emitter, answer, deleter, faults>>

\* Mutant: the task waits for the evaluations, whatever the exit code.
SettleBlindly ==
  /\ runner.pc = "settle"
  /\ \/ SetStatus("completed") /\ UNCHANGED faults
     \/ UNCHANGED status /\ Fault
  /\ runner' = [runner EXCEPT !.pc = "evaluate"]
  /\ UNCHANGED <<kind, logs, evaluations, pty, emitter, answer, deleter>>

\* update_task, its failure ignored, and the log of the exit code.
Settle ==
  /\ runner.pc = "settle"
  /\ \/ /\ SetStatus(IF runner.success THEN "completed" ELSE "failed")
        /\ UNCHANGED faults
     \/ UNCHANGED status /\ Fault
  /\ runner' = [runner EXCEPT !.pc = "evaluate"]
  /\ UNCHANGED <<kind, logs, evaluations, pty, emitter, answer, deleter>>

Evaluate ==
  /\ runner.pc = "evaluate"
  /\ evaluations' = Append(evaluations, runner.preview)
  /\ runner' = [runner EXCEPT !.pc = "done"]
  /\ UNCHANGED <<kind, status, logs, pty, emitter, answer, deleter, faults>>

-----------------------------------------------------------------------------
(* The rest                                                                *)

\* debug:response completes the task and asks for its evaluation.
Respond(r) ==
  /\ answer[r] = "asked"
  /\ \/ SetStatus(IF HasTask THEN "completed" ELSE status) /\ UNCHANGED faults
     \/ HasTask /\ UNCHANGED status /\ Fault
  /\ answer' = [answer EXCEPT ![r] = IF HasTask THEN "evaluate" ELSE "done"]
  /\ UNCHANGED <<kind, logs, evaluations, pty, emitter, runner, deleter>>

EvaluateResponse(r) ==
  /\ answer[r] = "evaluate"
  /\ answer' = [answer EXCEPT ![r] = "done"]
  /\ evaluations' = Append(evaluations, <<>>)
  /\ UNCHANGED <<kind, status, logs, pty, emitter, runner, deleter, faults>>

\* task:summary of the evaluation agent, at any time and any number of times
\* after it was asked (its memory is the subject of MemoryStore).
Summarise ==
  /\ evaluations # <<>>
  /\ SetStatus("evaluated")
  /\ UNCHANGED <<kind, logs, evaluations, pty, tasks, faults>>

\* task:delete: the status is read, a task at work is aborted, then its logs
\* and the row go; a call that fails is passed over.
BeginDelete ==
  /\ deleter = "idle" /\ HasTask
  /\ \/ /\ deleter' = IF status = "running" THEN "abort" ELSE "drop_logs"
        /\ UNCHANGED faults
     \/ deleter' = "drop_logs" /\ Fault
  /\ UNCHANGED <<kind, row, pty, emitter, runner, answer>>

DeleteAbort ==
  /\ deleter = "abort"
  /\ \/ SetStatus("failed") /\ UNCHANGED faults
     \/ UNCHANGED status /\ Fault
  /\ deleter' = "drop_logs"
  /\ UNCHANGED <<kind, logs, evaluations, pty, emitter, runner, answer>>

DeleteLogs ==
  /\ deleter = "drop_logs"
  /\ \/ logs' = <<>> /\ UNCHANGED faults
     \/ UNCHANGED logs /\ Fault
  /\ deleter' = "drop_task"
  /\ UNCHANGED <<kind, status, evaluations, pty, emitter, runner, answer>>

DeleteRow ==
  /\ deleter = "drop_task"
  /\ \/ status' = "gone" /\ UNCHANGED faults
     \/ UNCHANGED status /\ Fault
  /\ deleter' = "done"
  /\ UNCHANGED <<kind, logs, evaluations, pty, emitter, runner, answer>>

\* King stops: the row and its logs stay, the activities end, and nothing
\* takes them up again.
Crash ==
  /\ kind # "none" /\ Fault
  /\ reader' = [reader EXCEPT !.pc = "off"]
  /\ channel' = <<>>
  /\ emitter' = [emitter EXCEPT !.pc = "off"]
  /\ runner' = [runner EXCEPT !.pc = "off"]
  /\ answer' = [r \in Responders |-> "off"]
  /\ deleter' = IF deleter = "idle" THEN "idle" ELSE "done"
  /\ UNCHANGED <<kind, row, child, sent>>

-----------------------------------------------------------------------------
ReaderStep  == Open \/ Read \/ ReadEnds \/ WaitChild
EmitterStep == Receive \/ Flush \/ Drain
RunnerStep  == Join \/ Settle \/ Evaluate

Next ==
  \/ DebugBash \/ DebugPrompt \/ OpenFails
  \/ ChildWrites \/ ChildExits \/ LetGo
  \/ ReaderStep \/ EmitterStep \/ RunnerStep
  \/ \E r \in Responders : Respond(r) \/ EvaluateResponse(r)
  \/ Summarise
  \/ BeginDelete \/ DeleteAbort \/ DeleteLogs \/ DeleteRow
  \/ Crash

Spec == Init /\ [][Next]_vars

\* A read returns when there is something to read or the terminal is closed,
\* wait returns when bash has ended, and tokio runs a task that can go on.
\* Nothing is assumed of the child, the agents and the users.
FairSpec ==
  Spec /\ WF_vars(ReaderStep) /\ WF_vars(EmitterStep) /\ WF_vars(RunnerStep)

-----------------------------------------------------------------------------
(* Properties                                                              *)

Text == Seq(Char)

TypeOK ==
  /\ kind \in {"none", "bash", "prompt"}
  /\ status \in {"none", "running", "completed", "failed", "evaluated", "gone"}
  /\ logs \in Seq(Text)
  /\ evaluations \in Seq(Text)
  /\ child \in [state : {"none", "up", "ended"}, open : BOOLEAN,
                written : 0 .. MaxOutput, success : BOOLEAN]
  /\ reader \in [pc : {"off", "open", "read", "wait", "done"},
                 pos : 0 .. child.written, half : BOOLEAN, success : BOOLEAN]
  /\ channel \in Seq(Text) /\ sent \in Text
  /\ emitter.pc \in {"off", "recv", "flush", "done", "panicked"}
  /\ Len(emitter.accumulated) <= MAX_ACCUMULATED
  /\ emitter.accumulated \in Text /\ emitter.buffer \in Text
  /\ runner \in [pc : {"off", "join", "settle", "evaluate", "done"},
                 success : BOOLEAN, preview : Text]
  /\ answer \in [Responders -> {"off", "asked", "evaluate", "done"}]
  /\ deleter \in {"idle", "abort", "drop_logs", "drop_task", "done"}
  /\ faults \in 0 .. MaxFaults

Undisturbed == kind = "bash" /\ HasTask /\ faults = 0 /\ deleter = "idle"
Logged      == FlattenSeq(logs)

\* No text is lost, doubled or reordered between the terminal and the log:
\* what was read is in the log, then in the buffer, then in the channel, and
\* a panic of the emitter only cuts the log short.
OutputConserved ==
  Undisturbed =>
    IF emitter.pc = "panicked" THEN IsPrefix(Logged, sent)
    ELSE Logged \o emitter.buffer \o FlattenSeq(channel) = sent

\* The evaluation is asked for when the task is settled, the log has all the
\* output, and the preview is its beginning; unless the emitter panicked.
EvaluationComplete ==
  (Undisturbed /\ evaluations # <<>> /\ emitter.pc # "panicked") =>
    /\ status # "running"
    /\ Logged = sent
    /\ evaluations = <<First(MAX_ACCUMULATED, sent)>>

\* A command counts as completed only if bash ended with success and all that
\* was written to the terminal went through the channel.
CompletedIsTrue ==
  (kind = "bash" /\ status = "completed") =>
    /\ child.state = "ended" /\ child.success
    /\ (faults = 0 /\ emitter.pc # "panicked") =>
         ~child.open /\ reader.pos = child.written

\* The command is over for pty_run_blocking: bash has ended and the terminal is
\* closed or no longer read, or it could not be started or waited for.
CommandOver ==
  \/ child.state = "ended" /\ (~child.open \/ reader.pc = "wait")
  \/ reader.pc = "done"

\* When the command is over the task is settled, whichever way the terminal,
\* the reader and the emitter ended, failed calls included; only king stopping
\* and the failure of the one update that settles it leave it running.
BashSettles ==
  (kind = "bash" /\ status = "running" /\ CommandOver)
    ~> (status # "running" \/ runner.pc \in {"off", "evaluate", "done"})

\* What the comment on run_bash_pty_with_task promises: the output is
\* accumulated (at most MAX_ACCUMULATED) for the evaluation.
PreviewPromised ==
  (Undisturbed /\ evaluations # <<>>) =>
    evaluations = <<First(MAX_ACCUMULATED, sent)>>
=============================================================================
