-------------------------- MODULE AgentSupervision --------------------------
(***************************************************************************)
(* The supervision of the kernel agents (agent_manager.rs): the registry   *)
(* of runner processes, which the start-up, the process monitor and the    *)
(* heartbeat watcher all write, and the agent_status rows they mark.       *)
(*                                                                         *)
(* The three are tokio tasks of their own.  Starting a runner and entering *)
(* it in the registry are two steps, and the lock of the registry is held  *)
(* for one access at a time.                                               *)
(***************************************************************************)
EXTENDS Naturals, FiniteSets

CONSTANTS
  Agents,                \* the kernel agent folders
  Alike,                 \* those whose folder name contains their role
  None,                  \* no agent
  MAX_RESPAWN_ATTEMPTS,
  MaxSpawns              \* bound: runners ever started

ASSUME SupervisionConstantsOK ==
  /\ Alike \subseteq Agents
  /\ None \notin Agents
  /\ MAX_RESPAWN_ATTEMPTS \in Nat
  /\ MaxSpawns \in Nat

NoRunner == 0
Runner   == 1 .. MaxSpawns

RunnerState == {"absent", "up", "exited"}

\* The agent_status row of an agent; "old" is a last_heartbeat further back
\* than HEARTBEAT_SILENCE_THRESHOLD_SECS.
Record == [status : {"absent", "online", "crashed", "failed"},
           beat : {"fresh", "old"}]

Resting == [pc |-> "idle", left |-> {}, at |-> None, attempt |-> 0,
            hand |-> NoRunner]
\* A background task: the agents it has still to do, the one it is at, and
\* the runner it has started and not registered yet.
Process == [pc : {"idle", "mark", "check", "spawn", "register", "give_up"},
            left : SUBSET Agents, at : Agents \cup {None},
            attempt : 0 .. MAX_RESPAWN_ATTEMPTS,
            hand : Runner \cup {NoRunner}]

VARIABLES
  runner, nrunners,  \* the processes started, and their number
  registry,          \* AgentRegistry: the runner of each folder
  record,            \* agent_status
  starter,           \* spawn_all_kernel_agents
  monitor,           \* monitor_processes
  watcher            \* heartbeat_watch_loop

processes == <<runner, nrunners>>
vars == <<runner, nrunners, registry, record, starter, monitor, watcher>>

Init ==
  /\ runner = [r \in Runner |-> [agent |-> None, state |-> "absent"]]
  /\ nrunners = 0
  /\ registry = [a \in Agents |-> NoRunner]
  /\ record = [a \in Agents |-> [status |-> "absent", beat |-> "fresh"]]
  /\ starter = IF Agents = {} THEN Resting
               ELSE [Resting EXCEPT !.pc = "spawn", !.left = Agents]
  /\ monitor = Resting
  /\ watcher = Resting

-----------------------------------------------------------------------------
\* spawn_runner, when it succeeds.
NewRunner(a) ==
  /\ nrunners < MaxSpawns
  /\ nrunners' = nrunners + 1
  /\ runner' = [runner EXCEPT ![nrunners + 1] = [agent |-> a, state |-> "up"]]

\* AgentRegistry::register replaces what is there.
Enter(a, r) == registry' = [registry EXCEPT ![a] = r]

\* The end of one round of a loop: the next agent at point, or rest.
NextAgent(p, point) ==
  IF p.left = {} THEN Resting
  ELSE [p EXCEPT !.pc = point, !.at = None, !.attempt = 0, !.hand = NoRunner]

\* The rows whose role contains the hint: a role contains itself, and never
\* the name of a folder ("learning" and "evo-kernel-agent-learning").
RecordsByFolder(a) == {}
RecordsByRole(a)   == {a}

Mark(agents, status) ==
  record' = [a \in Agents |->
               IF a \in agents /\ record[a].status \notin {"absent", status}
               THEN [status |-> status, beat |-> "fresh"] ELSE record[a]]

-----------------------------------------------------------------------------
(* spawn_all_kernel_agents                                                 *)

StarterSpawn ==
  /\ starter.pc = "spawn"
  /\ \E a \in starter.left :
       LET rest == [starter EXCEPT !.left = @ \ {a}] IN
       \/ /\ NewRunner(a)
          /\ starter' = [rest EXCEPT !.pc = "register", !.at = a,
                                     !.hand = nrunners + 1]
       \/ /\ starter' = NextAgent(rest, "spawn")
          /\ UNCHANGED processes
  /\ UNCHANGED <<registry, record, monitor, watcher>>

StarterRegister ==
  /\ starter.pc = "register"
  /\ Enter(starter.at, starter.hand)
  /\ starter' = NextAgent(starter, "spawn")
  /\ UNCHANGED <<processes, record, monitor, watcher>>

-----------------------------------------------------------------------------
(* monitor_processes                                                       *)

Exited == {a \in Agents : registry[a] # NoRunner
                            /\ runner[registry[a]].state = "exited"}

\* Mutant: the exited runners stay in the registry.
MonitorScanKeeps ==
  /\ monitor.pc = "idle"
  /\ Exited # {}
  /\ monitor' = [Resting EXCEPT !.pc = "mark", !.left = Exited]
  /\ UNCHANGED <<processes, registry, record, starter, watcher>>

\* Every exited runner leaves the registry under one lock.
MonitorScan ==
  /\ monitor.pc = "idle"
  /\ Exited # {}
  /\ registry' = [a \in Agents |-> IF a \in Exited THEN NoRunner
                                                   ELSE registry[a]]
  /\ monitor' = [Resting EXCEPT !.pc = "mark", !.left = Exited]
  /\ UNCHANGED <<processes, record, starter, watcher>>

MonitorMark ==
  /\ monitor.pc = "mark"
  /\ \E a \in monitor.left :
       /\ Mark(RecordsByFolder(a), "crashed")
       /\ monitor' = [monitor EXCEPT !.pc = "spawn", !.left = @ \ {a},
                                     !.at = a, !.attempt = 0]
  /\ UNCHANGED <<processes, registry, starter, watcher>>

\* One attempt, after its delay.
MonitorSpawn ==
  /\ monitor.pc = "spawn"
  /\ monitor.attempt < MAX_RESPAWN_ATTEMPTS
  /\ \/ /\ NewRunner(monitor.at)
        /\ monitor' = [monitor EXCEPT !.pc = "register", !.hand = nrunners + 1]
     \/ /\ monitor' = [monitor EXCEPT !.attempt = @ + 1]
        /\ UNCHANGED processes
  /\ UNCHANGED <<registry, record, starter, watcher>>

\* Mutant: no break after a success.
MonitorRegisterGoesOn ==
  /\ monitor.pc = "register"
  /\ Enter(monitor.at, monitor.hand)
  /\ monitor' = [monitor EXCEPT !.pc = "spawn", !.attempt = @ + 1,
                                !.hand = NoRunner]
  /\ UNCHANGED <<processes, record, starter, watcher>>

\* Mutant: a success leaves the loop over the agents as well.
MonitorRegisterBreaks ==
  /\ monitor.pc = "register"
  /\ Enter(monitor.at, monitor.hand)
  /\ monitor' = Resting
  /\ UNCHANGED <<processes, record, starter, watcher>>

MonitorRegister ==
  /\ monitor.pc = "register"
  /\ Enter(monitor.at, monitor.hand)
  /\ monitor' = NextAgent(monitor, "mark")
  /\ UNCHANGED <<processes, record, starter, watcher>>

MonitorGiveUp ==
  /\ monitor.pc = "spawn"
  /\ monitor.attempt = MAX_RESPAWN_ATTEMPTS
  /\ Mark(RecordsByFolder(monitor.at), "failed")
  /\ monitor' = NextAgent(monitor, "mark")
  /\ UNCHANGED <<processes, registry, starter, watcher>>

-----------------------------------------------------------------------------
(* heartbeat_watch_loop                                                    *)

Silent(a) == record[a].status # "absent" /\ record[a].beat = "old"

\* The snapshot of agent_status.  For an agent whose role and folder are not
\* alike the loop finds neither its process nor its folder.
WatcherScan ==
  /\ watcher.pc = "idle"
  /\ \E a \in Alike : Silent(a)
  /\ watcher' = [Resting EXCEPT !.pc = "check",
                                !.left = {a \in Alike : Silent(a)}]
  /\ UNCHANGED <<processes, registry, record, starter, monitor>>

\* Mutant: the hint matches any folder.
WatcherCheckAny ==
  /\ watcher.pc = "check"
  /\ \E a \in watcher.left :
       LET rest == [watcher EXCEPT !.left = @ \ {a}] IN
       watcher' = IF \E b \in Agents : registry[b] # NoRunner
                  THEN NextAgent(rest, "check")
                  ELSE [rest EXCEPT !.pc = "spawn", !.at = a]
  /\ UNCHANGED <<processes, registry, record, starter, monitor>>

\* A process in the registry might just be slow: wait for the next cycle.
WatcherCheck ==
  /\ watcher.pc = "check"
  /\ \E a \in watcher.left :
       LET rest == [watcher EXCEPT !.left = @ \ {a}] IN
       watcher' = IF registry[a] # NoRunner THEN NextAgent(rest, "check")
                  ELSE [rest EXCEPT !.pc = "spawn", !.at = a]
  /\ UNCHANGED <<processes, registry, record, starter, monitor>>

WatcherSpawn ==
  /\ watcher.pc = "spawn"
  /\ \/ /\ NewRunner(watcher.at)
        /\ watcher' = [watcher EXCEPT !.pc = "register", !.hand = nrunners + 1]
     \/ /\ watcher' = [watcher EXCEPT !.pc = "give_up"]
        /\ UNCHANGED processes
  /\ UNCHANGED <<registry, record, starter, monitor>>

WatcherRegister ==
  /\ watcher.pc = "register"
  /\ Enter(watcher.at, watcher.hand)
  /\ watcher' = NextAgent(watcher, "check")
  /\ UNCHANGED <<processes, record, starter, monitor>>

WatcherGiveUp ==
  /\ watcher.pc = "give_up"
  /\ Mark(RecordsByRole(watcher.at), "failed")
  /\ watcher' = NextAgent(watcher, "check")
  /\ UNCHANGED <<processes, registry, starter, monitor>>

-----------------------------------------------------------------------------
(* The runners                                                             *)

Exit(r) ==
  /\ runner[r].state = "up"
  /\ runner' = [runner EXCEPT ![r].state = "exited"]
  /\ UNCHANGED <<nrunners, registry, record, starter, monitor, watcher>>

\* agent:register ("online") and agent:status (what the agent says): the
\* first creates the row, both renew the heartbeat.  A message may be handled
\* after its runner has gone, and a runner that is up need not send any.
Heard(r) ==
  /\ runner[r].state # "absent"
  /\ record' = [record EXCEPT ![runner[r].agent] =
                  [status |-> "online", beat |-> "fresh"]]
  /\ UNCHANGED <<processes, registry, starter, monitor, watcher>>

\* The last message of an agent is further back than the threshold.
FallSilent(a) ==
  /\ record[a].status # "absent"
  /\ record' = [record EXCEPT ![a].beat = "old"]
  /\ UNCHANGED <<processes, registry, starter, monitor, watcher>>

-----------------------------------------------------------------------------
StarterStep == StarterSpawn \/ StarterRegister
MonitorStep == MonitorScan \/ MonitorMark \/ MonitorSpawn \/ MonitorRegister
                 \/ MonitorGiveUp
WatcherStep == WatcherScan \/ WatcherCheck \/ WatcherSpawn \/ WatcherRegister
                 \/ WatcherGiveUp

Next ==
  \/ StarterStep \/ MonitorStep \/ WatcherStep
  \/ \E r \in Runner : Exit(r) \/ Heard(r)
  \/ \E a \in Agents : FallSilent(a)

Spec == Init /\ [][Next]_vars

\* The three loops go on; nothing is assumed of the runners.
FairSpec == /\ Spec
            /\ WF_vars(StarterStep) /\ WF_vars(MonitorStep)
            /\ WF_vars(WatcherStep)

-----------------------------------------------------------------------------
(* Properties                                                              *)

TypeOK ==
  /\ runner \in [Runner -> [agent : Agents \cup {None}, state : RunnerState]]
  /\ nrunners \in 0 .. MaxSpawns
  /\ registry \in [Agents -> Runner \cup {NoRunner}]
  /\ record \in [Agents -> Record]
  /\ {starter, monitor, watcher} \subseteq Process

Live(r) == runner[r].state = "up"

\* A runner king knows of: in the registry, or just started by a task.
Tracked(r) == \/ \E a \in Agents : registry[a] = r
              \/ r \in {starter.hand, monitor.hand, watcher.hand}

\* Start-up and process monitor together never leave an agent with two
\* runners, or with one the registry has lost, although both start runners
\* and neither looks at the other.  (With the watcher there can be more: it
\* starts a runner while the monitor waits to start its own.)
SoleRunner ==
  \A r \in Runner : Live(r) /\ runner[r].agent \notin Alike =>
    /\ Tracked(r)
    /\ \A s \in Runner \ {r} : Live(s) => runner[s].agent # runner[r].agent

GaveUp(a) == monitor.at = a /\ monitor.attempt = MAX_RESPAWN_ATTEMPTS

\* A runner that exits is replaced in the registry, or the monitor gives its
\* agent up after its attempts, however many exit while it is busy.
CrashAnswered ==
  \A a \in Agents, r \in Runner :
    registry[a] = r /\ runner[r].state = "exited"
      ~> registry[a] \notin {r, NoRunner} \/ GaveUp(a)

\* An agent that fell silent and has no process gets a new one, or an attempt
\* at one, whatever the other agents do.
SilenceAnswered ==
  \A a \in Alike :
    Silent(a) /\ registry[a] = NoRunner
      ~> ~Silent(a) \/ registry[a] # NoRunner \/ watcher.at = a

-----------------------------------------------------------------------------
(* The inductive invariant behind SoleRunner: an agent the watcher leaves  *)
(* alone is in one place only, still to be started, with the monitor, or   *)
(* in the registry, and its live runner is where the agent is.             *)

RunnersOK ==
  \A r \in Runner : IF r <= nrunners THEN runner[r].agent \in Agents
                    ELSE runner[r].state = "absent"

RegistryOK ==
  \A a \in Agents : registry[a] # NoRunner =>
    registry[a] <= nrunners /\ runner[registry[a]].agent = a

Has(p, a) == a \in p.left \/ p.at = a

ProcessOK(p) ==
  /\ p.at \notin p.left
  /\ p.pc = "idle" => p.at = None
  /\ p.pc # "register" => p.hand = NoRunner
  /\ p.pc = "register" => /\ p.hand \in 1 .. nrunners
                          /\ p.at = runner[p.hand].agent

PlacesOK ==
  \A a \in Agents \ Alike :
    /\ ~Has(watcher, a)
    /\ ~(Has(starter, a) /\ Has(monitor, a))
    /\ Has(starter, a) \/ Has(monitor, a) => registry[a] = NoRunner

LiveOK ==
  \A r \in Runner : Live(r) /\ runner[r].agent \notin Alike => Tracked(r)

SupervisionInv ==
  /\ TypeOK /\ RunnersOK /\ RegistryOK
  /\ ProcessOK(starter) /\ ProcessOK(monitor) /\ ProcessOK(watcher)
  /\ (starter.pc = "spawn" => starter.at = None)
  /\ (monitor.pc = "spawn" => monitor.at \in Agents)
  /\ (watcher.pc \in {"spawn", "give_up"} => watcher.at \in Agents)
  /\ PlacesOK /\ LiveOK

=============================================================================
