-------------------------- MODULE SupervisionProofs --------------------------
(***************************************************************************)
(* Proofs about AgentSupervision, for any set of agents and any bound: the *)
(* start-up and the process monitor never leave an agent with two runners. *)
(***************************************************************************)
EXTENDS AgentSupervision, TLAPS

\* The runners and the registry, without the processes that write them.
TablesOK ==
  /\ runner \in [Runner -> [agent : Agents \cup {None}, state : RunnerState]]
  /\ nrunners \in 0 .. MaxSpawns
  /\ registry \in [Agents -> Runner \cup {NoRunner}]
  /\ record \in [Agents -> Record]
  /\ RunnersOK /\ RegistryOK

StarterOK == starter \in Process /\ ProcessOK(starter)
               /\ (starter.pc = "spawn" => starter.at = None)
MonitorOK == monitor \in Process /\ ProcessOK(monitor)
               /\ (monitor.pc = "spawn" => monitor.at \in Agents)
WatcherOK == watcher \in Process /\ ProcessOK(watcher)
               /\ (watcher.pc \in {"spawn", "give_up"} => watcher.at \in Agents)

\* The invariant is the conjunction of these parts.
LEMMA InvParts ==
  /\ SupervisionInv <=> TablesOK /\ StarterOK /\ MonitorOK /\ WatcherOK
                          /\ PlacesOK /\ LiveOK
  /\ SupervisionInv' <=> TablesOK' /\ StarterOK' /\ MonitorOK' /\ WatcherOK'
                          /\ PlacesOK' /\ LiveOK'
BY DEF SupervisionInv, TypeOK, TablesOK, StarterOK, MonitorOK, WatcherOK

\* What was started stays what it is: a runner keeps its agent.
RunnersKept ==
  /\ nrunners <= nrunners'
  /\ \A r \in 1 .. nrunners : runner'[r].agent = runner[r].agent

\* A process that does not move stays in order while others do.
LEMMA ProcessesKept ==
  ASSUME TablesOK, TablesOK', RunnersKept
  PROVE  /\ StarterOK /\ starter' = starter => StarterOK'
         /\ MonitorOK /\ monitor' = monitor => MonitorOK'
         /\ WatcherOK /\ watcher' = watcher => WatcherOK'
BY DEF TablesOK, RunnersKept, StarterOK, MonitorOK, WatcherOK, ProcessOK,
       Process, Runner

\* After a round of a loop nothing is in hand, and only what was left is held.
LEMMA NextAgentOK ==
  ASSUME NEW p \in Process, NEW point \in {"spawn", "mark", "check"}
  PROVE  LET q == NextAgent(p, point) IN
         /\ q \in Process /\ q.at = None /\ q.hand = NoRunner
         /\ q.pc \in {"idle", point}
         /\ q.left = p.left
<1>. DEFINE next == [p EXCEPT !.pc = point, !.at = None, !.attempt = 0,
                             !.hand = NoRunner]
<1>. USE SupervisionConstantsOK
<1>1. CASE p.left = {}
  <2>1. NextAgent(p, point) = Resting
    BY <1>1 DEF NextAgent
  <2>2. Resting \in Process
    BY DEF Resting, Process, NoRunner
  <2>. QED BY <1>1, <2>1, <2>2 DEF Resting
<1>2. CASE p.left # {}
  <2>1. NextAgent(p, point) = next
    BY <1>2 DEF NextAgent
  <2>2. next \in Process
    <3>1. 0 \in 0 .. MAX_RESPAWN_ATTEMPTS
      BY DEF SupervisionConstantsOK
    <3>2. point \in {"idle", "mark", "check", "spawn", "register", "give_up"}
      OBVIOUS
    <3>. QED BY <3>1, <3>2 DEF Process
  <2>3. /\ next.pc = point /\ next.at = None /\ next.hand = NoRunner
        /\ next.left = p.left
    BY DEF Process
  <2>. QED BY <2>1, <2>2, <2>3
<1>. QED BY <1>1, <1>2

\* Starting a runner for an agent.
LEMMA NewRunnerOK ==
  ASSUME TablesOK, NEW a \in Agents, NewRunner(a),
         registry' = registry, record' = record
  PROVE  /\ TablesOK' /\ RunnersKept
         /\ nrunners' = nrunners + 1 /\ nrunners' \in Runner
         /\ runner'[nrunners'].agent = a
         /\ \A r \in Runner \ {nrunners'} : runner'[r] = runner[r]
<1>. USE SupervisionConstantsOK
<1>1. /\ nrunners' = nrunners + 1 /\ nrunners' \in Runner
      /\ nrunners' \in 0 .. MaxSpawns
  BY DEF NewRunner, TablesOK, Runner
<1>2. /\ runner'[nrunners'] = [agent |-> a, state |-> "up"]
      /\ \A r \in Runner \ {nrunners'} : runner'[r] = runner[r]
      /\ runner' \in [Runner -> [agent : Agents \cup {None}, state : RunnerState]]
  BY <1>1 DEF NewRunner, TablesOK, RunnerState
<1>3. RunnersKept
  BY <1>1, <1>2 DEF RunnersKept, TablesOK, Runner
<1>4. RunnersOK'
  BY <1>1, <1>2 DEF RunnersOK, TablesOK, Runner
<1>5. RegistryOK'
  BY <1>1, <1>2, <1>3 DEF RegistryOK, TablesOK, RunnersKept, Runner, NoRunner
<1>. QED BY <1>1, <1>2, <1>3, <1>4, <1>5 DEF TablesOK

\* Entering a runner in the registry under its own agent.
LEMMA EnterOK ==
  ASSUME TablesOK, NEW a \in Agents, NEW r \in 1 .. nrunners,
         runner[r].agent = a, Enter(a, r), UNCHANGED <<processes, record>>
  PROVE  TablesOK' /\ RunnersKept /\ registry'[a] = r
         /\ \A b \in Agents \ {a} : registry'[b] = registry[b]
<1>. USE SupervisionConstantsOK
<1>1. /\ registry' \in [Agents -> Runner \cup {NoRunner}]
      /\ registry'[a] = r
      /\ \A b \in Agents \ {a} : registry'[b] = registry[b]
  BY DEF Enter, TablesOK, Runner
<1>2. RegistryOK' /\ RunnersOK'
  BY <1>1 DEF TablesOK, RegistryOK, RunnersOK, processes
<1>. QED BY <1>1, <1>2 DEF TablesOK, processes, RunnersKept

\* A process puts what it has in hand in the registry, where the agent has
\* nothing yet or the watcher is answerable for it: no live runner is lost.
LEMMA LiveEntered ==
  ASSUME TablesOK, LiveOK, NEW a \in Agents, NEW r \in 1 .. nrunners,
         Enter(a, r), UNCHANGED processes,
         registry'[a] = r, \A b \in Agents \ {a} : registry'[b] = registry[b],
         a \notin Alike => registry[a] = NoRunner,
         \A q \in Runner : q \in {starter.hand, monitor.hand, watcher.hand}
           => q = r \/ q \in {starter.hand, monitor.hand, watcher.hand}'
  PROVE  LiveOK'
<1>1. SUFFICES ASSUME NEW q \in Runner, Live(q), runner[q].agent \notin Alike
      PROVE  Tracked(q)'
  BY DEF LiveOK, Live, processes
<1>2. CASE q = r
  BY <1>2 DEF Tracked
<1>3. CASE q \in {starter.hand, monitor.hand, watcher.hand}
  BY <1>2, <1>3 DEF Tracked
<1>4. CASE \E b \in Agents : registry[b] = q
  <2>1. PICK b \in Agents : registry[b] = q
    BY <1>4
  <2>2. runner[q].agent = b /\ registry[b] # NoRunner
    BY <2>1 DEF TablesOK, RegistryOK, Runner, NoRunner
  <2>3. b # a
    BY <1>1, <2>2
  <2>. QED BY <2>1, <2>3 DEF Tracked
<1>. QED BY <1>1, <1>3, <1>4 DEF LiveOK, Tracked

-----------------------------------------------------------------------------
(* The start-up.                                                           *)

\* A folder goes from the list of the start-up to its hand, or is dropped.
LEMMA StarterSpawnOK ==
  ASSUME SupervisionInv, StarterSpawn
  PROVE  SupervisionInv'
<1>. USE SupervisionConstantsOK
<1>1. /\ TablesOK /\ StarterOK /\ MonitorOK /\ WatcherOK /\ PlacesOK /\ LiveOK
      /\ starter.pc = "spawn" /\ starter.hand = NoRunner /\ starter \in Process
  BY InvParts DEF StarterSpawn, StarterOK, ProcessOK
<1>2. PICK a \in starter.left :
        \/ /\ NewRunner(a)
           /\ starter' = [[starter EXCEPT !.left = starter.left \ {a}]
                            EXCEPT !.pc = "register", !.at = a,
                                   !.hand = nrunners + 1]
        \/ /\ starter' = NextAgent([starter EXCEPT !.left = starter.left \ {a}],
                                   "spawn")
           /\ UNCHANGED processes
  BY DEF StarterSpawn
<1>3. a \in Agents /\ UNCHANGED <<registry, record, monitor, watcher>>
  BY <1>1 DEF StarterSpawn, Process
<1>4. CASE NewRunner(a) /\ starter' = [[starter EXCEPT !.left = starter.left \ {a}]
                                         EXCEPT !.pc = "register", !.at = a,
                                                !.hand = nrunners + 1]
  <2>1. /\ TablesOK' /\ RunnersKept
        /\ nrunners' = nrunners + 1 /\ nrunners' \in Runner
        /\ runner'[nrunners'].agent = a
        /\ \A r \in Runner \ {nrunners'} : runner'[r] = runner[r]
    BY <1>1, <1>3, <1>4, NewRunnerOK
  <2>2. /\ starter' \in Process /\ starter'.pc = "register" /\ starter'.at = a
        /\ starter'.left = starter.left \ {a} /\ starter'.hand = nrunners'
    BY <1>1, <1>3, <1>4, <2>1 DEF Process
  <2>3. StarterOK'
    BY <2>1, <2>2 DEF StarterOK, ProcessOK, Runner
  <2>4. MonitorOK' /\ WatcherOK'
    BY <1>1, <1>3, <2>1, ProcessesKept
  <2>5. PlacesOK'
    BY <1>1, <1>3, <2>2 DEF PlacesOK, Has
  <2>6. LiveOK'
    BY <1>1, <1>3, <2>1, <2>2 DEF LiveOK, Live, Tracked, NoRunner, Runner
  <2>. QED BY <2>1, <2>3, <2>4, <2>5, <2>6, InvParts
<1>5. CASE /\ starter' = NextAgent([starter EXCEPT !.left = starter.left \ {a}],
                                   "spawn")
           /\ UNCHANGED processes
  <2>. DEFINE rest == [starter EXCEPT !.left = starter.left \ {a}]
  <2>1. rest \in Process /\ rest.left = starter.left \ {a}
    BY <1>1 DEF Process
  <2>2. /\ starter' \in Process /\ starter'.at = None
        /\ starter'.pc \in {"idle", "spawn"}
        /\ starter'.left = starter.left \ {a} /\ starter'.hand = NoRunner
    BY <1>5, <2>1, NextAgentOK
  <2>3. StarterOK'
    BY <1>1, <2>2 DEF StarterOK, ProcessOK, Process
  <2>4. TablesOK' /\ RunnersKept
    BY <1>1, <1>3, <1>5 DEF TablesOK, RunnersOK, RegistryOK, processes, RunnersKept
  <2>5. MonitorOK' /\ WatcherOK'
    BY <1>1, <1>3, <2>4, ProcessesKept
  <2>6. PlacesOK'
    BY <1>1, <1>3, <2>2 DEF PlacesOK, Has
  <2>7. LiveOK'
    BY <1>1, <1>3, <1>5, <2>2 DEF LiveOK, Live, Tracked, processes, NoRunner, Runner
  <2>. QED BY <2>3, <2>4, <2>5, <2>6, <2>7, InvParts
<1>. QED BY <1>2, <1>4, <1>5

\* The runner in the hand of the start-up is registered; an agent that was
\* still to be started has no other runner in the registry.
LEMMA StarterRegisterOK ==
  ASSUME SupervisionInv, StarterRegister
  PROVE  SupervisionInv'
<1>1. /\ TablesOK /\ StarterOK /\ MonitorOK /\ WatcherOK /\ PlacesOK /\ LiveOK
      /\ starter \in Process /\ starter.hand \in 1 .. nrunners
      /\ starter.at = runner[starter.hand].agent
      /\ starter.at \notin starter.left
      /\ Enter(starter.at, starter.hand)
      /\ UNCHANGED <<processes, record, monitor, watcher>>
  BY InvParts DEF StarterRegister, StarterOK, ProcessOK
<1>2. starter.at \in Agents
  BY <1>1, SupervisionConstantsOK
     DEF TablesOK, RunnersOK, Runner, SupervisionConstantsOK
<1>3. /\ TablesOK' /\ RunnersKept /\ registry'[starter.at] = starter.hand
      /\ \A b \in Agents \ {starter.at} : registry'[b] = registry[b]
  BY <1>1, <1>2, EnterOK
<1>4. /\ starter' \in Process /\ starter'.at = None
      /\ starter'.pc \in {"idle", "spawn"}
      /\ starter'.left = starter.left /\ starter'.hand = NoRunner
  BY <1>1, NextAgentOK DEF StarterRegister
<1>5. StarterOK'
  BY <1>4, SupervisionConstantsOK
     DEF StarterOK, ProcessOK, Process, SupervisionConstantsOK
<1>6. MonitorOK' /\ WatcherOK'
  BY <1>1, <1>3, ProcessesKept
<1>7. PlacesOK'
  BY <1>1, <1>2, <1>3, <1>4, SupervisionConstantsOK
     DEF PlacesOK, Has, SupervisionConstantsOK
<1>8. LiveOK'
  BY <1>1, <1>2, <1>3, <1>4, LiveEntered DEF PlacesOK, Has
<1>. QED BY <1>3, <1>5, <1>6, <1>7, <1>8, InvParts

-----------------------------------------------------------------------------
(* The process monitor.                                                    *)

\* Only runners that exited leave the registry, and the monitor holds them.
LEMMA MonitorScanOK ==
  ASSUME SupervisionInv, MonitorScan
  PROVE  SupervisionInv'
<1>. USE SupervisionConstantsOK DEF SupervisionConstantsOK
<1>1. /\ TablesOK /\ StarterOK /\ MonitorOK /\ WatcherOK /\ PlacesOK /\ LiveOK
      /\ monitor.pc = "idle" /\ monitor.hand = NoRunner /\ Exited \subseteq Agents
      /\ UNCHANGED <<processes, record, starter, watcher>>
  BY InvParts DEF MonitorScan, MonitorOK, ProcessOK, Exited
<1>2. /\ registry' \in [Agents -> Runner \cup {NoRunner}]
      /\ \A a \in Agents : registry'[a] = IF a \in Exited THEN NoRunner
                                                        ELSE registry[a]
  BY <1>1 DEF MonitorScan, TablesOK
<1>3. TablesOK' /\ RunnersKept
  BY <1>1, <1>2 DEF TablesOK, RunnersOK, RegistryOK, processes, RunnersKept
<1>4. /\ monitor'.pc = "mark" /\ monitor'.left = Exited /\ monitor'.at = None
      /\ monitor'.hand = NoRunner /\ monitor'.attempt = 0
      /\ monitor' = [pc |-> "mark", left |-> Exited, at |-> None,
                     attempt |-> 0, hand |-> NoRunner]
  BY DEF MonitorScan, Resting
<1>5. MonitorOK'
  BY <1>1, <1>4 DEF MonitorOK, ProcessOK, Process
<1>6. StarterOK' /\ WatcherOK'
  BY <1>1, <1>3, ProcessesKept
<1>7. PlacesOK'
  BY <1>1, <1>2, <1>4 DEF PlacesOK, Has, Exited
<1>8. LiveOK'
  <2>1. SUFFICES ASSUME NEW r \in Runner, Live(r), runner[r].agent \notin Alike
        PROVE  Tracked(r)'
    BY <1>1 DEF LiveOK, Live, processes
  <2>2. CASE r \in {starter.hand, watcher.hand}
    BY <1>1, <2>2 DEF Tracked
  <2>3. CASE \E a \in Agents : registry[a] = r
    <3>1. PICK a \in Agents : registry[a] = r
      BY <2>3
    <3>2. a \notin Exited
      BY <2>1, <3>1 DEF Exited, Live
    <3>. QED BY <1>2, <3>1, <3>2 DEF Tracked
  <2>4. r # monitor.hand
    BY <1>1 DEF Runner, NoRunner
  <2>. QED BY <1>1, <2>1, <2>2, <2>3, <2>4 DEF LiveOK, Tracked
<1>. QED BY <1>3, <1>5, <1>6, <1>7, <1>8, InvParts

\* Marking rows of agent_status leaves runners and registry alone.
LEMMA MarkOK ==
  ASSUME TablesOK, NEW agents, NEW status \in {"crashed", "failed"},
         Mark(agents, status), UNCHANGED <<processes, registry>>
  PROVE  TablesOK' /\ RunnersKept
<1>1. record' \in [Agents -> Record]
  BY DEF Mark, TablesOK, Record
<1>. QED BY <1>1 DEF TablesOK, RunnersOK, RegistryOK, processes, RunnersKept

\* The monitor goes on to the next agent of its list, or on to its next
\* attempt: it holds no more agents than before and has nothing in hand.
LEMMA MonitorMoveOK ==
  ASSUME SupervisionInv, TablesOK', RunnersKept, MonitorOK',
         UNCHANGED <<processes, registry, starter, watcher>>,
         monitor.hand = NoRunner, monitor'.hand = NoRunner,
         \A a \in Agents : Has(monitor', a) => Has(monitor, a)
  PROVE  SupervisionInv'
<1>1. StarterOK' /\ WatcherOK'
  BY InvParts, ProcessesKept
<1>2. PlacesOK'
  BY InvParts DEF PlacesOK, Has
<1>3. LiveOK'
  BY InvParts DEF LiveOK, Live, Tracked, processes
<1>. QED BY <1>1, <1>2, <1>3, InvParts

\* The next exited agent is taken from the list.
LEMMA MonitorMarkOK ==
  ASSUME SupervisionInv, MonitorMark
  PROVE  SupervisionInv'
<1>1. PICK a \in monitor.left :
        /\ Mark(RecordsByFolder(a), "crashed")
        /\ monitor' = [monitor EXCEPT !.pc = "spawn", !.left = monitor.left \ {a},
                                      !.at = a, !.attempt = 0]
  BY DEF MonitorMark
<1>2. /\ monitor \in Process /\ monitor.hand = NoRunner /\ a \in Agents
      /\ TablesOK /\ UNCHANGED <<processes, registry, starter, watcher>>
  BY InvParts DEF MonitorMark, MonitorOK, ProcessOK, Process
<1>3. TablesOK' /\ RunnersKept
  BY <1>1, <1>2, MarkOK
<1>4. /\ monitor'.pc = "spawn" /\ monitor'.at = a /\ monitor'.hand = NoRunner
      /\ monitor'.left = monitor.left \ {a}
  BY <1>1, <1>2 DEF Process
<1>5. monitor' \in Process
  <2>1. 0 \in 0 .. MAX_RESPAWN_ATTEMPTS
    BY SupervisionConstantsOK DEF SupervisionConstantsOK
  <2>. QED BY <1>1, <1>2, <2>1 DEF Process
<1>6. MonitorOK'
  BY <1>2, <1>4, <1>5 DEF MonitorOK, ProcessOK
<1>. QED BY <1>1, <1>2, <1>3, <1>4, <1>6, MonitorMoveOK DEF Has

\* A new runner is in the hand of the monitor, or the attempt is counted.
LEMMA MonitorSpawnOK ==
  ASSUME SupervisionInv, MonitorSpawn
  PROVE  SupervisionInv'
<1>. USE SupervisionConstantsOK DEF SupervisionConstantsOK
<1>1. /\ TablesOK /\ StarterOK /\ MonitorOK /\ WatcherOK /\ PlacesOK /\ LiveOK
      /\ monitor \in Process /\ monitor.pc = "spawn" /\ monitor.hand = NoRunner
      /\ monitor.at \in Agents /\ monitor.at \notin monitor.left
      /\ monitor.attempt < MAX_RESPAWN_ATTEMPTS
      /\ UNCHANGED <<registry, record, starter, watcher>>
  BY InvParts DEF MonitorSpawn, MonitorOK, ProcessOK
<1>2. CASE /\ NewRunner(monitor.at)
           /\ monitor' = [monitor EXCEPT !.pc = "register", !.hand = nrunners + 1]
  <2>1. /\ TablesOK' /\ RunnersKept
        /\ nrunners' = nrunners + 1 /\ nrunners' \in Runner
        /\ runner'[nrunners'].agent = monitor.at
        /\ \A r \in Runner \ {nrunners'} : runner'[r] = runner[r]
    BY <1>1, <1>2, NewRunnerOK
  <2>2. /\ monitor' \in Process /\ monitor'.pc = "register"
        /\ monitor'.at = monitor.at /\ monitor'.left = monitor.left
        /\ monitor'.hand = nrunners'
    BY <1>1, <1>2, <2>1 DEF Process
  <2>3. MonitorOK'
    BY <1>1, <2>1, <2>2 DEF MonitorOK, ProcessOK, Runner
  <2>4. StarterOK' /\ WatcherOK'
    BY <1>1, <2>1, ProcessesKept
  <2>5. PlacesOK'
    BY <1>1, <2>2 DEF PlacesOK, Has
  <2>6. LiveOK'
    BY <1>1, <2>1, <2>2 DEF LiveOK, Live, Tracked, NoRunner, Runner
  <2>. QED BY <2>1, <2>3, <2>4, <2>5, <2>6, InvParts
<1>3. CASE /\ monitor' = [monitor EXCEPT !.attempt = monitor.attempt + 1]
           /\ UNCHANGED processes
  <2>1. TablesOK' /\ RunnersKept
    BY <1>1, <1>3 DEF TablesOK, RunnersOK, RegistryOK, processes, RunnersKept
  <2>2. monitor' \in Process
    <3>1. monitor.attempt + 1 \in 0 .. MAX_RESPAWN_ATTEMPTS
      BY <1>1 DEF Process
    <3>. QED BY <1>1, <1>3, <3>1 DEF Process
  <2>3. /\ monitor'.pc = "spawn" /\ monitor'.at = monitor.at
        /\ monitor'.left = monitor.left /\ monitor'.hand = NoRunner
    BY <1>1, <1>3 DEF Process
  <2>4. MonitorOK'
    BY <1>1, <2>2, <2>3 DEF MonitorOK, ProcessOK
  <2>. QED BY <1>1, <1>3, <2>1, <2>3, <2>4, MonitorMoveOK DEF Has
<1>. QED BY <1>2, <1>3 DEF MonitorSpawn

\* The monitor registers a runner for an agent whose entry it had removed.
LEMMA MonitorRegisterOK ==
  ASSUME SupervisionInv, MonitorRegister
  PROVE  SupervisionInv'
<1>1. /\ TablesOK /\ StarterOK /\ MonitorOK /\ WatcherOK /\ PlacesOK /\ LiveOK
      /\ monitor \in Process /\ monitor.hand \in 1 .. nrunners
      /\ monitor.at = runner[monitor.hand].agent
      /\ monitor.at \notin monitor.left
      /\ Enter(monitor.at, monitor.hand)
      /\ UNCHANGED <<processes, record, starter, watcher>>
  BY InvParts DEF MonitorRegister, MonitorOK, ProcessOK
<1>2. monitor.at \in Agents
  BY <1>1, SupervisionConstantsOK
     DEF TablesOK, RunnersOK, Runner, SupervisionConstantsOK
<1>3. /\ TablesOK' /\ RunnersKept /\ registry'[monitor.at] = monitor.hand
      /\ \A b \in Agents \ {monitor.at} : registry'[b] = registry[b]
  BY <1>1, <1>2, EnterOK
<1>4. /\ monitor' \in Process /\ monitor'.at = None
      /\ monitor'.pc \in {"idle", "mark"}
      /\ monitor'.left = monitor.left /\ monitor'.hand = NoRunner
  BY <1>1, NextAgentOK DEF MonitorRegister
<1>5. MonitorOK'
  BY <1>4, SupervisionConstantsOK
     DEF MonitorOK, ProcessOK, Process, SupervisionConstantsOK
<1>6. StarterOK' /\ WatcherOK'
  BY <1>1, <1>3, ProcessesKept
<1>7. PlacesOK'
  BY <1>1, <1>2, <1>3, <1>4, SupervisionConstantsOK
     DEF PlacesOK, Has, SupervisionConstantsOK
<1>8. LiveOK'
  BY <1>1, <1>2, <1>3, <1>4, LiveEntered DEF PlacesOK, Has
<1>. QED BY <1>3, <1>5, <1>6, <1>7, <1>8, InvParts

\* The monitor lets an agent go.
LEMMA MonitorGiveUpOK ==
  ASSUME SupervisionInv, MonitorGiveUp
  PROVE  SupervisionInv'
<1>1. /\ monitor \in Process /\ monitor.hand = NoRunner
      /\ TablesOK /\ UNCHANGED <<processes, registry, starter, watcher>>
      /\ Mark(RecordsByFolder(monitor.at), "failed")
      /\ monitor' = NextAgent(monitor, "mark")
  BY InvParts DEF MonitorGiveUp, MonitorOK, ProcessOK
<1>2. TablesOK' /\ RunnersKept
  BY <1>1, MarkOK
<1>3. /\ monitor' \in Process /\ monitor'.at = None
      /\ monitor'.pc \in {"idle", "mark"}
      /\ monitor'.left = monitor.left /\ monitor'.hand = NoRunner
  BY <1>1, NextAgentOK
<1>4. MonitorOK'
  BY <1>3, SupervisionConstantsOK
     DEF MonitorOK, ProcessOK, Process, SupervisionConstantsOK
<1>. QED BY <1>1, <1>2, <1>3, <1>4, MonitorMoveOK, SupervisionConstantsOK
         DEF Has, SupervisionConstantsOK

-----------------------------------------------------------------------------
(* The heartbeat watcher, which only ever holds agents of Alike.           *)

\* The watcher takes no agent it did not have, unless of Alike, and has
\* nothing in hand.
LEMMA WatcherMoveOK ==
  ASSUME SupervisionInv, TablesOK', RunnersKept, WatcherOK',
         UNCHANGED <<processes, registry, starter, monitor>>,
         watcher.hand = NoRunner, watcher'.hand = NoRunner,
         \A a \in Agents \ Alike : Has(watcher', a) => Has(watcher, a)
  PROVE  SupervisionInv'
<1>1. StarterOK' /\ MonitorOK'
  BY InvParts, ProcessesKept
<1>2. PlacesOK'
  BY InvParts DEF PlacesOK, Has
<1>3. LiveOK'
  BY InvParts DEF LiveOK, Live, Tracked, processes
<1>. QED BY <1>1, <1>2, <1>3, InvParts

\* The scan takes the silent agents of Alike.
LEMMA WatcherScanOK ==
  ASSUME SupervisionInv, WatcherScan
  PROVE  SupervisionInv'
<1>. USE SupervisionConstantsOK DEF SupervisionConstantsOK
<1>. DEFINE silent == {a \in Alike : Silent(a)}
<1>1. /\ TablesOK /\ watcher.hand = NoRunner
      /\ UNCHANGED <<processes, registry, record, starter, monitor>>
  BY InvParts DEF WatcherScan, WatcherOK, ProcessOK
<1>2. watcher' = [pc |-> "check", left |-> silent, at |-> None,
                  attempt |-> 0, hand |-> NoRunner]
  BY DEF WatcherScan, Resting
<1>3. silent \subseteq Alike
  OBVIOUS
<1>. HIDE DEF silent
<1>4. WatcherOK'
  BY <1>2, <1>3 DEF WatcherOK, ProcessOK, Process
<1>5. TablesOK' /\ RunnersKept
  BY <1>1 DEF TablesOK, RunnersOK, RegistryOK, processes, RunnersKept
<1>. QED BY <1>1, <1>2, <1>3, <1>4, <1>5, WatcherMoveOK DEF Has

\* A silent agent is left to the next cycle, or taken up.
LEMMA WatcherCheckOK ==
  ASSUME SupervisionInv, WatcherCheck
  PROVE  SupervisionInv'
<1>. DEFINE rest(a) == [watcher EXCEPT !.left = watcher.left \ {a}]
<1>1. PICK a \in watcher.left :
        watcher' = IF registry[a] # NoRunner THEN NextAgent(rest(a), "check")
                   ELSE [rest(a) EXCEPT !.pc = "spawn", !.at = a]
  BY DEF WatcherCheck
<1>2. /\ TablesOK /\ watcher \in Process /\ watcher.hand = NoRunner
      /\ a \in Agents
      /\ UNCHANGED <<processes, registry, record, starter, monitor>>
  BY InvParts DEF WatcherCheck, WatcherOK, ProcessOK, Process
<1>3. rest(a) \in Process /\ rest(a).left = watcher.left \ {a}
      /\ rest(a).hand = NoRunner
  BY <1>2 DEF Process
<1>4. TablesOK' /\ RunnersKept
  BY <1>2 DEF TablesOK, RunnersOK, RegistryOK, processes, RunnersKept
<1>5. CASE registry[a] # NoRunner
  <2>1. /\ watcher' \in Process /\ watcher'.at = None
        /\ watcher'.pc \in {"idle", "check"}
        /\ watcher'.left = watcher.left \ {a} /\ watcher'.hand = NoRunner
    BY <1>1, <1>3, <1>5, NextAgentOK
  <2>2. WatcherOK'
    BY <2>1, SupervisionConstantsOK
       DEF WatcherOK, ProcessOK, Process, SupervisionConstantsOK
  <2>. QED BY <1>2, <1>4, <2>1, <2>2, WatcherMoveOK, SupervisionConstantsOK
           DEF Has, SupervisionConstantsOK
<1>6. CASE registry[a] = NoRunner
  <2>1. /\ watcher' \in Process /\ watcher'.pc = "spawn" /\ watcher'.at = a
        /\ watcher'.left = watcher.left \ {a} /\ watcher'.hand = NoRunner
    BY <1>1, <1>2, <1>3, <1>6 DEF Process
  <2>2. WatcherOK'
    BY <1>2, <2>1 DEF WatcherOK, ProcessOK
  <2>. QED BY <1>2, <1>4, <2>1, <2>2, WatcherMoveOK DEF Has
<1>. QED BY <1>5, <1>6

\* A new runner is in the hand of the watcher, or its agent is given up.
LEMMA WatcherSpawnOK ==
  ASSUME SupervisionInv, WatcherSpawn
  PROVE  SupervisionInv'
<1>. USE SupervisionConstantsOK DEF SupervisionConstantsOK
<1>1. /\ TablesOK /\ StarterOK /\ MonitorOK /\ WatcherOK /\ PlacesOK /\ LiveOK
      /\ watcher \in Process /\ watcher.pc = "spawn" /\ watcher.hand = NoRunner
      /\ watcher.at \in Agents /\ watcher.at \notin watcher.left
      /\ UNCHANGED <<registry, record, starter, monitor>>
  BY InvParts DEF WatcherSpawn, WatcherOK, ProcessOK
<1>2. CASE /\ NewRunner(watcher.at)
           /\ watcher' = [watcher EXCEPT !.pc = "register", !.hand = nrunners + 1]
  <2>1. /\ TablesOK' /\ RunnersKept
        /\ nrunners' = nrunners + 1 /\ nrunners' \in Runner
        /\ runner'[nrunners'].agent = watcher.at
        /\ \A r \in Runner \ {nrunners'} : runner'[r] = runner[r]
    BY <1>1, <1>2, NewRunnerOK
  <2>2. /\ watcher' \in Process /\ watcher'.pc = "register"
        /\ watcher'.at = watcher.at /\ watcher'.left = watcher.left
        /\ watcher'.hand = nrunners'
    BY <1>1, <1>2, <2>1 DEF Process
  <2>3. WatcherOK'
    BY <1>1, <2>1, <2>2 DEF WatcherOK, ProcessOK, Runner
  <2>4. StarterOK' /\ MonitorOK'
    BY <1>1, <2>1, ProcessesKept
  <2>5. PlacesOK'
    BY <1>1, <2>2 DEF PlacesOK, Has
  <2>6. LiveOK'
    BY <1>1, <2>1, <2>2 DEF LiveOK, Live, Tracked, NoRunner, Runner
  <2>. QED BY <2>1, <2>3, <2>4, <2>5, <2>6, InvParts
<1>3. CASE watcher' = [watcher EXCEPT !.pc = "give_up"] /\ UNCHANGED processes
  <2>1. TablesOK' /\ RunnersKept
    BY <1>1, <1>3 DEF TablesOK, RunnersOK, RegistryOK, processes, RunnersKept
  <2>2. /\ watcher' \in Process /\ watcher'.pc = "give_up"
        /\ watcher'.at = watcher.at /\ watcher'.left = watcher.left
        /\ watcher'.hand = NoRunner
    BY <1>1, <1>3 DEF Process
  <2>3. WatcherOK'
    BY <1>1, <2>2 DEF WatcherOK, ProcessOK
  <2>. QED BY <1>1, <1>3, <2>1, <2>2, <2>3, WatcherMoveOK DEF Has
<1>. QED BY <1>2, <1>3 DEF WatcherSpawn

\* The watcher may overwrite an entry, but only one of an agent of Alike.
LEMMA WatcherRegisterOK ==
  ASSUME SupervisionInv, WatcherRegister
  PROVE  SupervisionInv'
<1>1. /\ TablesOK /\ StarterOK /\ MonitorOK /\ WatcherOK /\ PlacesOK /\ LiveOK
      /\ watcher \in Process /\ watcher.hand \in 1 .. nrunners
      /\ watcher.at = runner[watcher.hand].agent
      /\ watcher.at \notin watcher.left
      /\ Enter(watcher.at, watcher.hand)
      /\ UNCHANGED <<processes, record, starter, monitor>>
  BY InvParts DEF WatcherRegister, WatcherOK, ProcessOK
<1>2. watcher.at \in Agents
  BY <1>1, SupervisionConstantsOK
     DEF TablesOK, RunnersOK, Runner, SupervisionConstantsOK
<1>3. /\ TablesOK' /\ RunnersKept /\ registry'[watcher.at] = watcher.hand
      /\ \A b \in Agents \ {watcher.at} : registry'[b] = registry[b]
  BY <1>1, <1>2, EnterOK
<1>4. /\ watcher' \in Process /\ watcher'.at = None
      /\ watcher'.pc \in {"idle", "check"}
      /\ watcher'.left = watcher.left /\ watcher'.hand = NoRunner
  BY <1>1, NextAgentOK DEF WatcherRegister
<1>5. WatcherOK'
  BY <1>4, SupervisionConstantsOK
     DEF WatcherOK, ProcessOK, Process, SupervisionConstantsOK
<1>6. StarterOK' /\ MonitorOK'
  BY <1>1, <1>3, ProcessesKept
<1>7. watcher.at \in Alike
  BY <1>1, <1>2 DEF PlacesOK, Has
<1>8. PlacesOK'
  BY <1>1, <1>2, <1>3, <1>4, <1>7, SupervisionConstantsOK
     DEF PlacesOK, Has, SupervisionConstantsOK
<1>9. LiveOK'
  BY <1>1, <1>2, <1>3, <1>4, <1>7, LiveEntered
<1>. QED BY <1>3, <1>5, <1>6, <1>8, <1>9, InvParts

\* The watcher lets an agent go.
LEMMA WatcherGiveUpOK ==
  ASSUME SupervisionInv, WatcherGiveUp
  PROVE  SupervisionInv'
<1>1. /\ watcher \in Process /\ watcher.hand = NoRunner
      /\ TablesOK /\ UNCHANGED <<processes, registry, starter, monitor>>
      /\ Mark(RecordsByRole(watcher.at), "failed")
      /\ watcher' = NextAgent(watcher, "check")
  BY InvParts DEF WatcherGiveUp, WatcherOK, ProcessOK
<1>2. TablesOK' /\ RunnersKept
  BY <1>1, MarkOK
<1>3. /\ watcher' \in Process /\ watcher'.at = None
      /\ watcher'.pc \in {"idle", "check"}
      /\ watcher'.left = watcher.left /\ watcher'.hand = NoRunner
  BY <1>1, NextAgentOK
<1>4. WatcherOK'
  BY <1>3, SupervisionConstantsOK
     DEF WatcherOK, ProcessOK, Process, SupervisionConstantsOK
<1>. QED BY <1>1, <1>2, <1>3, <1>4, WatcherMoveOK, SupervisionConstantsOK
         DEF Has, SupervisionConstantsOK

-----------------------------------------------------------------------------
(* The runners, and the theorems.                                          *)

\* A step of a runner or of time: no process moves, and no runner that was
\* not alive comes to life.
LEMMA OutsideOK ==
  ASSUME SupervisionInv, TablesOK', nrunners' = nrunners,
         UNCHANGED <<registry, starter, monitor, watcher>>,
         \A r \in Runner : /\ runner'[r].agent = runner[r].agent
                           /\ Live(r)' => Live(r)
  PROVE  SupervisionInv'
<1>1. RunnersKept
  BY InvParts, SupervisionConstantsOK
     DEF RunnersKept, TablesOK, Runner, SupervisionConstantsOK
<1>2. StarterOK' /\ MonitorOK' /\ WatcherOK'
  BY <1>1, InvParts, ProcessesKept
<1>3. PlacesOK'
  BY InvParts DEF PlacesOK, Has
<1>4. LiveOK'
  BY InvParts DEF LiveOK, Tracked
<1>. QED BY <1>2, <1>3, <1>4, InvParts

\* A runner that exits stays in its place.
LEMMA ExitOK ==
  ASSUME SupervisionInv, NEW r \in Runner, Exit(r)
  PROVE  SupervisionInv'
<1>1. /\ TablesOK /\ runner[r].state = "up"
      /\ runner' = [runner EXCEPT ![r].state = "exited"]
      /\ UNCHANGED <<nrunners, registry, record, starter, monitor, watcher>>
  BY InvParts DEF Exit
<1>2. /\ runner' \in [Runner -> [agent : Agents \cup {None}, state : RunnerState]]
      /\ runner'[r].agent = runner[r].agent /\ runner'[r].state = "exited"
      /\ \A q \in Runner \ {r} : runner'[q] = runner[q]
  BY <1>1 DEF TablesOK, RunnerState
<1>3. RunnersOK' /\ RegistryOK'
  BY <1>1, <1>2 DEF TablesOK, RunnersOK, RegistryOK, Runner, NoRunner
<1>4. TablesOK'
  BY <1>1, <1>2, <1>3 DEF TablesOK
<1>5. \A q \in Runner : /\ runner'[q].agent = runner[q].agent
                        /\ Live(q)' => Live(q)
  BY <1>1, <1>2 DEF Live
<1>. QED BY <1>1, <1>4, <1>5, OutsideOK

\* A message of an agent, or its absence, only concerns agent_status.
LEMMA RecordChangesOK ==
  ASSUME SupervisionInv,
         (\E r \in Runner : Heard(r)) \/ (\E a \in Agents : FallSilent(a))
  PROVE  SupervisionInv'
<1>1. /\ TablesOK
      /\ UNCHANGED <<processes, registry, starter, monitor, watcher>>
  BY InvParts DEF Heard, FallSilent
<1>2. record' \in [Agents -> Record]
  <2>1. CASE \E r \in Runner : Heard(r)
    <3>1. PICK r \in Runner : Heard(r)
      BY <2>1
    <3>. DEFINE renewed == [status |-> "online", beat |-> "fresh"]
    <3>2. renewed \in Record
      BY DEF Record
    <3>3. record \in [Agents -> Record]
      BY <1>1 DEF TablesOK
    <3>4. record' = [record EXCEPT ![runner[r].agent] = renewed]
      BY <3>1 DEF Heard
    <3>. HIDE DEF renewed
    <3>. QED BY <3>2, <3>3, <3>4
  <2>2. CASE \E a \in Agents : FallSilent(a)
    BY <1>1, <2>2 DEF FallSilent, TablesOK, Record
  <2>. QED BY <2>1, <2>2
<1>3. TablesOK'
  <2>1. /\ UNCHANGED <<runner, nrunners>> /\ registry' = registry
        /\ RunnersOK /\ RegistryOK
    BY <1>1 DEF TablesOK, processes
  <2>2. RunnersOK' /\ RegistryOK'
    BY <2>1 DEF RunnersOK, RegistryOK
  <2>. QED BY <1>1, <1>2, <2>1, <2>2 DEF TablesOK
<1>. QED BY <1>1, <1>3, OutsideOK DEF processes, Live

\* Before the start-up has begun no runner is there.
LEMMA InitSupervision == Init => SupervisionInv
<1>. USE SupervisionConstantsOK DEF SupervisionConstantsOK
<1>. SUFFICES ASSUME Init PROVE SupervisionInv
  OBVIOUS
<1>1. Resting \in Process
  BY DEF Resting, Process, NoRunner
<1>2. TablesOK
  BY DEF Init, TablesOK, RunnersOK, RegistryOK, RunnerState, Record, Runner
<1>3. MonitorOK /\ WatcherOK
  BY <1>1 DEF Init, MonitorOK, WatcherOK, ProcessOK, Resting
<1>4. StarterOK /\ PlacesOK
  <2>1. CASE Agents = {}
    BY <1>1, <2>1 DEF Init, StarterOK, ProcessOK, PlacesOK, Resting
  <2>2. CASE Agents # {}
    <3>1. starter = [pc |-> "spawn", left |-> Agents, at |-> None,
                     attempt |-> 0, hand |-> NoRunner]
      BY <2>2 DEF Init, Resting
    <3>2. starter \in Process
      BY <3>1 DEF Process
    <3>. QED BY <3>1, <3>2 DEF Init, StarterOK, ProcessOK, PlacesOK, Has, Resting
  <2>. QED BY <2>1, <2>2
<1>5. LiveOK
  BY DEF Init, LiveOK, Live
<1>. QED BY <1>2, <1>3, <1>4, <1>5, InvParts

\* The invariant is inductive.
LEMMA SupervisionStep == SupervisionInv /\ [Next]_vars => SupervisionInv'
<1>. SUFFICES ASSUME SupervisionInv, [Next]_vars PROVE SupervisionInv'
  OBVIOUS
<1>1. CASE StarterStep
  BY <1>1, StarterSpawnOK, StarterRegisterOK DEF StarterStep
<1>2. CASE MonitorStep
  BY <1>2, MonitorScanOK, MonitorMarkOK, MonitorSpawnOK, MonitorRegisterOK,
     MonitorGiveUpOK DEF MonitorStep
<1>3. CASE WatcherStep
  BY <1>3, WatcherScanOK, WatcherCheckOK, WatcherSpawnOK, WatcherRegisterOK,
     WatcherGiveUpOK DEF WatcherStep
<1>4. CASE \E r \in Runner : Exit(r)
  BY <1>4, ExitOK
<1>5. CASE (\E r \in Runner : Heard(r)) \/ (\E a \in Agents : FallSilent(a))
  BY <1>5, RecordChangesOK
<1>6. CASE UNCHANGED vars
  <2>1. TablesOK'
    BY <1>6, InvParts DEF vars, TablesOK, RunnersOK, RegistryOK
  <2>. QED BY <1>6, <2>1, OutsideOK DEF vars, Live
<1>. QED BY <1>1, <1>2, <1>3, <1>4, <1>5, <1>6 DEF Next

\* Every reachable state of the supervision satisfies the invariant that says
\* where each agent is and where its live runner is.
THEOREM SupervisionInvariant == Spec => []SupervisionInv
BY InitSupervision, SupervisionStep, PTL DEF Spec

\* spawn_all_kernel_agents and monitor_processes never leave an agent with two
\* runners, nor a runner the registry has lost, if the watcher lets it alone.
THEOREM OneRunnerEach == Spec => []SoleRunner
<1>1. SupervisionInv => SoleRunner
  <2>1. SUFFICES ASSUME SupervisionInv, NEW r \in Runner, Live(r),
                        runner[r].agent \notin Alike
        PROVE  /\ Tracked(r)
               /\ \A s \in Runner \ {r} :
                    Live(s) => runner[s].agent # runner[r].agent
    BY DEF SoleRunner
  <2>. DEFINE a == runner[r].agent
  <2>2. /\ TablesOK /\ StarterOK /\ MonitorOK /\ WatcherOK /\ PlacesOK /\ LiveOK
    BY <2>1, InvParts
  <2>3. a \in Agents
    BY <2>1, <2>2 DEF TablesOK, RunnersOK, Live
  <2>4. ASSUME NEW q \in Runner, Live(q), runner[q].agent = a
        PROVE  \/ registry[a] = q
               \/ Has(starter, a) /\ starter.hand = q
               \/ Has(monitor, a) /\ monitor.hand = q
    <3>1. Tracked(q)
      BY <2>1, <2>2, <2>4 DEF LiveOK
    <3>2. CASE \E b \in Agents : registry[b] = q
      BY <2>2, <2>4, <3>2 DEF TablesOK, RegistryOK, Runner, NoRunner
    <3>3. CASE q = starter.hand
      BY <2>2, <2>4, <3>3 DEF StarterOK, ProcessOK, Has, Runner, NoRunner
    <3>4. CASE q = monitor.hand
      BY <2>2, <2>4, <3>4 DEF MonitorOK, ProcessOK, Has, Runner, NoRunner
    <3>5. q # watcher.hand
      <4>1. SUFFICES ASSUME q = watcher.hand PROVE FALSE
        OBVIOUS
      <4>2. Has(watcher, a)
        BY <2>2, <2>4, <4>1 DEF WatcherOK, ProcessOK, Has, Runner, NoRunner
      <4>. QED BY <2>1, <2>2, <2>3, <4>2 DEF PlacesOK
    <3>. QED BY <3>1, <3>2, <3>3, <3>4, <3>5 DEF Tracked
  <2>5. ASSUME NEW s \in Runner, Live(s), runner[s].agent = a
        PROVE  s = r
    <3>. HIDE DEF a
    <3>1. /\ ~(Has(starter, a) /\ Has(monitor, a))
          /\ Has(starter, a) \/ Has(monitor, a) => registry[a] = NoRunner
      BY <2>1, <2>2, <2>3 DEF PlacesOK, a
    <3>2. runner[r].agent = a
      BY DEF a
    <3>3. \/ registry[a] = r
          \/ Has(starter, a) /\ starter.hand = r
          \/ Has(monitor, a) /\ monitor.hand = r
      BY <2>1, <2>4, <3>2
    <3>4. \/ registry[a] = s
          \/ Has(starter, a) /\ starter.hand = s
          \/ Has(monitor, a) /\ monitor.hand = s
      BY <2>4, <2>5
    <3>. QED BY <3>1, <3>3, <3>4 DEF Runner, NoRunner
  <2>. QED BY <2>1, <2>2, <2>5 DEF LiveOK
<1>. QED BY <1>1, SupervisionInvariant, PTL

=============================================================================
