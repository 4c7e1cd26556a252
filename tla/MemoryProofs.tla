----------------------------- MODULE MemoryProofs -----------------------------
(***************************************************************************)
(* Proofs about MemoryStore, for any handlers, tiers, contents and bounds: *)
(* how many rows a tier can have without a unique index, what a write or a *)
(* deletion guarantees when nobody else was at the same rows, that queries *)
(* are counted, and that a calm store stays tidy.                          *)
(***************************************************************************)
EXTENDS MemoryStore, FiniteSetTheorems, WellFoundedInduction, TLAPS

-----------------------------------------------------------------------------
(* The first row                                                           *)

Least(S) ==
  IF S = {} THEN NoRow ELSE CHOOSE r \in S : \A q \in S : r <= q

LEMMA HasMin ==
  ASSUME NEW S \in SUBSET Nat, S # {}
  PROVE  \E x \in S : \A y \in S : x <= y
<1>. DEFINE R == {p \in Nat \X Nat : p[1] < p[2]}
<1>1. IsWellFoundedOn(R, Nat)
  BY NatLessThanWellFounded DEF OpToRel
<1>. HIDE DEF R
<1>2. \E x \in S : \A y \in S : <<y, x>> \notin R
  BY <1>1, WFMin
<1>3. \A x, y \in S : <<y, x>> \notin R => x <= y
  BY DEF R
<1>. QED BY <1>2, <1>3

LEMMA LeastOK ==
  ASSUME NEW S \in SUBSET (Nat \ {0})
  PROVE  /\ S = {} <=> Least(S) = NoRow
         /\ S # {} => Least(S) \in S /\ \A q \in S : Least(S) <= q
<1>1. ASSUME S # {}
      PROVE  Least(S) \in S /\ \A q \in S : Least(S) <= q
  <2>1. \E r \in S : \A q \in S : r <= q
    BY <1>1, HasMin
  <2>. QED BY <1>1, <2>1 DEF Least
<1>2. S = {} => Least(S) = 0
  BY DEF Least, NoRow
<1>. QED BY <1>1, <1>2 DEF NoRow

LEMMA FirstRowIs ==
  ASSUME NEW m, NEW t
  PROVE  /\ FirstRow(m, t) = Least(Copies(m, t))
         /\ FirstRow(m, t)' = Least(Copies(m, t)')
BY DEF FirstRow, Least

LEMMA CopiesOK ==
  ASSUME TypeOK, NEW m, NEW t
  PROVE  /\ Copies(m, t) \subseteq 1 .. nrows
         /\ Copies(m, t) \in SUBSET (Nat \ {0})
         /\ IsFiniteSet(Copies(m, t))
<1>1. Copies(m, t) \subseteq 1 .. nrows
  <2>1. DOMAIN tiers \subseteq 1 .. nrows
    BY DEF TypeOK
  <2>2. Copies(m, t) \subseteq DOMAIN tiers
    BY DEF Copies
  <2>. QED BY <2>1, <2>2
<1>2. IsFiniteSet(1 .. nrows)
  <2>1. 1 \in Int /\ nrows \in Int
    BY DEF TypeOK
  <2>. QED BY <2>1, FS_Interval
<1>3. IsFiniteSet(Copies(m, t))
  BY <1>1, <1>2, FS_Subset
<1>. QED BY <1>1, <1>3 DEF TypeOK

LEMMA FirstRowOK ==
  ASSUME TypeOK, NEW m, NEW t
  PROVE  /\ Copies(m, t) = {} <=> FirstRow(m, t) = NoRow
         /\ Copies(m, t) # {} => FirstRow(m, t) \in Copies(m, t)
         /\ FirstRow(m, t) \in Rows \cup {NoRow}
<1>1. /\ Copies(m, t) = {} <=> FirstRow(m, t) = NoRow
      /\ Copies(m, t) # {} => FirstRow(m, t) \in Copies(m, t)
  BY CopiesOK, LeastOK, FirstRowIs
<1>2. Copies(m, t) \subseteq Rows
  BY CopiesOK, MemoryConstantsOK DEF TypeOK, Rows
<1>. QED BY <1>1, <1>2

-----------------------------------------------------------------------------
(* The handlers                                                            *)

Pcs == {"idle", "tier", "write", "bind", "update", "get", "drop_tier",
        "drop_tiers", "unbind", "drop_memory", "touch", "unbind_task",
        "drop_task"}

LEMMA IdleOK == Idle \in Job /\ Idle.pc = "idle" /\ Idle.puts = {}
BY DEF Idle, Job, NoMemory, NoRow, NoPut

\* What is known of a handler that has just made a call, n memories being
\* issued: the ids it carries are those of its request.
Good(j, n) ==
  /\ j \in Job
  /\ j.pc \notin {"idle", "touch", "unbind_task", "drop_task"} => j.memory \in 1 .. n
  /\ j.pc = "write" => j.put \in Put
  /\ j.pc = "bind" => j.task \in Tasks

JobsGood == job \in [Handlers -> Job] /\ \A h \in Handlers : Good(job[h], nmemories)

LEMMA NextPutOK ==
  ASSUME NEW j \in Job, NEW n, j.memory \in 1 .. n
  PROVE  /\ Good(NextPut(j), n)
         /\ NextPut(j).pc \in {"tier", "bind", "idle"}
<1>. DEFINE rest == [j EXCEPT !.put = NoPut, !.row = NoRow]
<1>1. rest \in Job /\ rest.memory = j.memory /\ rest.task = j.task
  BY DEF Job
<1>. HIDE DEF rest
<1>2. /\ [rest EXCEPT !.pc = "tier"] \in Job /\ [rest EXCEPT !.pc = "tier"].pc = "tier"
      /\ [rest EXCEPT !.pc = "tier"].memory = j.memory
  BY <1>1 DEF Job
<1>3. /\ [rest EXCEPT !.pc = "bind"] \in Job /\ [rest EXCEPT !.pc = "bind"].pc = "bind"
      /\ [rest EXCEPT !.pc = "bind"].memory = j.memory
      /\ [rest EXCEPT !.pc = "bind"].task = j.task
  BY <1>1 DEF Job
<1>4. \/ NextPut(j) = [rest EXCEPT !.pc = "tier"]
      \/ NextPut(j) = Idle
      \/ NextPut(j) = [rest EXCEPT !.pc = "bind"] /\ j.task # None
  BY DEF NextPut, rest
<1>5. j.task \in Tasks \cup {None}
  BY DEF Job
<1>. QED BY <1>2, <1>3, <1>4, <1>5, IdleOK DEF Good

LEMMA JobStep ==
  ASSUME JobsGood, NEW h \in Handlers, NEW j, Good(j, nmemories'),
         job' = [job EXCEPT ![h] = j], nmemories \in Nat, nmemories' \in Nat,
         nmemories <= nmemories'
  PROVE  /\ JobsGood' /\ job'[h] = j
         /\ \A g \in Handlers \ {h} : job'[g] = job[g]
<1>0. j \in Job
  BY DEF Good
<1>1. /\ job' \in [Handlers -> Job] /\ job'[h] = j
      /\ \A g \in Handlers \ {h} : job'[g] = job[g]
  BY <1>0 DEF JobsGood
<1>2. \A g \in Handlers \ {h} : Good(job[g], nmemories')
  BY DEF JobsGood, Good
<1>. QED BY <1>1, <1>2 DEF JobsGood

\* The steps of a handler that leave the tiers alone.
Plain(h) ==
  \/ UpdateRow(h) \/ GetUpdated(h) \/ Bind(h) \/ Unbind(h) \/ DropMemory(h)
  \/ UnbindTask(h) \/ DropTask(h) \/ Touch(h) \/ FailedCall(h) \/ Receive(h)

\* The next call of h is one of j, which is no upsert under way.
Turns(h, j) ==
  /\ Good(j, nmemories') /\ job' = [job EXCEPT ![h] = j]
  /\ j.pc # "write"

LEMMA EditOK ==
  ASSUME NEW j \in Job, NEW pc \in Pcs
  PROVE  /\ [j EXCEPT !.pc = pc] \in Job
         /\ [j EXCEPT !.pc = pc].pc = pc
         /\ [j EXCEPT !.pc = pc].memory = j.memory
         /\ [j EXCEPT !.pc = pc].task = j.task
BY DEF Job, Pcs

-----------------------------------------------------------------------------
(* The steps that leave the tiers alone                                    *)

LEMMA JobsTyped == JobsGood => job \in [Handlers -> Job]
BY DEF JobsGood, Good

\* A request taken up by h.
LEMMA RequestTurns ==
  ASSUME TypeOK, NEW h \in Handlers, NEW pc \in Pcs \ {"write"},
         NEW puts \in SUBSET Put, NEW task \in Tasks \cup {None},
         pc = "bind" => task \in Tasks, Request(h, pc, puts, task)
  PROVE  /\ \E j : Turns(h, j) /\ j.pc = pc
         /\ UNCHANGED <<memoryTable, tierTable, links, history>>
         /\ calm' \in BOOLEAN /\ crossed' = crossed \ {h}
<1>1. PICK m \in Issued :
        Begin(h, [Idle EXCEPT !.pc = pc, !.memory = m, !.puts = puts, !.task = task],
              m \in memories /\ task \in tasks \cup {None})
  BY DEF Request
<1>. DEFINE j == [Idle EXCEPT !.pc = pc, !.memory = m, !.puts = puts, !.task = task]
<1>2. UNCHANGED <<memoryTable, tierTable, links, history>>
  BY DEF Request
<1>3. nmemories' = nmemories
  BY <1>2 DEF memoryTable
<1>4. m \in 1 .. nmemories /\ m \in Memories
  BY MemoryConstantsOK DEF Issued, Memories, TypeOK
<1>5. j \in Job /\ j.pc = pc /\ j.memory = m /\ j.task = task
  BY <1>4 DEF Idle, Job, Pcs, NoRow, NoPut
<1>6. job' = [job EXCEPT ![h] = j] /\ crossed' = crossed \ {h} /\ calm' \in BOOLEAN
  BY <1>1 DEF Begin
<1>. HIDE DEF j
<1>7. Good(j, nmemories')
  BY <1>3, <1>4, <1>5 DEF Good
<1>. QED BY <1>2, <1>5, <1>6, <1>7 DEF Turns

\* The requests, Store and Query apart.
LEMMA AnyRequestTurns ==
  ASSUME TypeOK, NEW h \in Handlers,
         \/ UpdateRequest(h) \/ DeleteRequest(h) \/ PutTierRequest(h)
         \/ DropTierRequest(h) \/ BindRequest(h)
  PROVE  /\ \E j : Turns(h, j) /\ j.pc \notin {"unbind", "drop_memory"}
         /\ UNCHANGED <<memoryTable, tierTable, links, history>>
         /\ calm' \in BOOLEAN /\ crossed' = crossed \ {h}
<1>1. CASE UpdateRequest(h)
  <2>1. \E puts \in SUBSET Put : Request(h, "update", puts, None)
    BY <1>1 DEF UpdateRequest, Requests
  <2>. QED BY <2>1, RequestTurns DEF Pcs
<1>2. CASE DeleteRequest(h)
  BY <1>2, RequestTurns DEF DeleteRequest, Pcs
<1>3. CASE PutTierRequest(h)
  BY <1>3, RequestTurns DEF PutTierRequest, Pcs
<1>4. CASE DropTierRequest(h)
  <2>1. \E p \in Put : Request(h, "drop_tier", {p}, None)
    BY <1>4 DEF DropTierRequest, Put
  <2>. QED BY <2>1, RequestTurns DEF Pcs
<1>5. CASE BindRequest(h)
  <2>1. PICK task \in Tasks : Request(h, "bind", {}, task)
    BY <1>5 DEF BindRequest
  <2>. QED BY <2>1, RequestTurns DEF Pcs
<1>. QED BY <1>1, <1>2, <1>3, <1>4, <1>5

LEMMA StoreTurns ==
  ASSUME TypeOK, NEW h \in Handlers, Store(h)
  PROVE  /\ \E j : Turns(h, j) /\ j.pc \notin {"unbind", "drop_memory"}
         /\ UNCHANGED <<access, tierTable, links, history>>
         /\ nmemories' = nmemories + 1 /\ nmemories < MaxMemories
         /\ memories' = memories \cup {nmemories + 1}
         /\ calm' \in BOOLEAN /\ crossed' = crossed \ {h}
<1>1. PICK puts \in Requests, task \in Tasks \cup {None} :
        Begin(h, NextPut([Idle EXCEPT !.memory = nmemories + 1, !.puts = puts,
                                      !.task = task]),
              task \in tasks \cup {None})
  BY DEF Store
<1>. DEFINE i == [Idle EXCEPT !.memory = nmemories + 1, !.puts = puts, !.task = task]
<1>2. nmemories + 1 \in Memories /\ nmemories + 1 \in 1 .. nmemories + 1
  BY MemoryConstantsOK DEF Store, TypeOK, Memories
<1>3. i \in Job /\ i.memory = nmemories + 1
  BY <1>2 DEF Idle, Job, NoRow, NoPut, Requests
<1>4. job' = [job EXCEPT ![h] = NextPut(i)] /\ crossed' = crossed \ {h}
      /\ calm' \in BOOLEAN
  BY <1>1 DEF Begin
<1>. HIDE DEF i
<1>5. /\ UNCHANGED <<access, tierTable, links, history>>
      /\ nmemories' = nmemories + 1 /\ nmemories < MaxMemories
      /\ memories' = memories \cup {nmemories + 1}
  BY DEF Store
<1>6. Good(NextPut(i), nmemories + 1) /\ NextPut(i).pc \in {"tier", "bind", "idle"}
  BY <1>2, <1>3, NextPutOK
<1>7. Turns(h, NextPut(i))
  BY <1>4, <1>5, <1>6 DEF Turns
<1>. QED BY <1>4, <1>5, <1>6, <1>7

\* The variables other than the tiers and the handlers.
Tables ==
  /\ nmemories \in Nat /\ nmemories <= MaxMemories
  /\ memories \subseteq 1 .. nmemories
  /\ access \in [Memories -> Nat]
  /\ bindings \subseteq Tasks \X (1 .. nmemories)
  /\ tasks \subseteq Tasks
  /\ crossed \subseteq Handlers
  /\ listed \in [Memories -> Nat]
  /\ queries \in Nat /\ faults \in Nat
  /\ calm \in BOOLEAN

TierTable ==
  /\ nrows \in Nat /\ nrows <= MaxRows
  /\ DOMAIN tiers \subseteq 1 .. nrows
  /\ tiers \in [DOMAIN tiers -> TierRow]

LEMMA TypeParts ==
  /\ TypeOK <=> Tables /\ TierTable /\ job \in [Handlers -> Job]
  /\ TypeOK' <=> Tables' /\ TierTable' /\ job' \in [Handlers -> Job]
BY DEF TypeOK, Tables, TierTable, Issued

\* A call that leaves the tables alone, but for what it says.
Calls(h) ==
  /\ \E j : Turns(h, j) /\ (j.pc \in {"unbind", "drop_memory"} => Unbind(h))
  /\ UNCHANGED tierTable /\ Tables'
  /\ nmemories <= nmemories'
  /\ crossed \ {h} \subseteq crossed'
  /\ bindings' \subseteq bindings \/ Bind(h)

LEMMA RequestCalls ==
  ASSUME TypeOK, NEW h \in Handlers, Receive(h)
  PROVE  Calls(h)
<1>. USE TypeParts
<1>0. Tables
  OBVIOUS
<1>1. CASE Store(h)
  <2>1. Tables' /\ nmemories <= nmemories'
    <3>1. /\ nmemories' \in Nat /\ nmemories' <= MaxMemories
          /\ nmemories <= nmemories' /\ 1 .. nmemories \subseteq 1 .. nmemories'
      <4>1. nmemories \in Nat /\ MaxMemories \in Nat
        BY <1>0, MemoryConstantsOK DEF Tables
      <4>2. nmemories' = nmemories + 1 /\ nmemories < MaxMemories
        BY <1>1, StoreTurns
      <4>. QED BY <4>1, <4>2
    <3>2. memories' \subseteq 1 .. nmemories'
      <4>1. memories' = memories \cup {nmemories'}
        BY <1>1, StoreTurns
      <4>2. nmemories' \in 1 .. nmemories'
        BY <1>0, <1>1, StoreTurns DEF Tables
      <4>. QED BY <1>0, <3>1, <4>1, <4>2 DEF Tables
    <3>3. /\ UNCHANGED <<access, bindings, tasks, listed, queries, faults>>
          /\ calm' \in BOOLEAN /\ crossed' \subseteq Handlers
      BY <1>0, <1>1, StoreTurns DEF Tables, links, history
    <3>. QED BY <1>0, <3>1, <3>2, <3>3 DEF Tables
  <2>2. UNCHANGED tierTable /\ bindings' = bindings /\ crossed' = crossed \ {h}
    BY <1>1, StoreTurns DEF links
  <2>. QED BY <1>1, <2>1, <2>2, StoreTurns DEF Calls
<1>2. ASSUME UNCHANGED <<memoryTable, tierTable, links, listed, faults>>,
             queries' \in Nat, calm' \in BOOLEAN, crossed' = crossed \ {h},
             \E j : Turns(h, j) /\ j.pc \notin {"unbind", "drop_memory"}
      PROVE  Calls(h)
  <2>1. UNCHANGED <<memories, nmemories, access, bindings, tasks, listed, faults>>
    BY <1>2 DEF memoryTable, links
  <2>2. Tables' /\ nmemories <= nmemories'
    BY <1>0, <1>2, <2>1 DEF Tables
  <2>. QED BY <1>2, <2>1, <2>2 DEF Calls
<1>3. CASE \/ UpdateRequest(h) \/ DeleteRequest(h) \/ PutTierRequest(h)
           \/ DropTierRequest(h) \/ BindRequest(h)
  <2>1. UNCHANGED <<listed, queries, faults>>
    BY <1>3, AnyRequestTurns DEF history
  <2>2. queries' \in Nat
    BY <1>0, <2>1 DEF Tables
  <2>. QED BY <1>2, <1>3, <2>1, <2>2, AnyRequestTurns
<1>4. CASE DeleteTaskRequest(h)
  <2>1. PICK task \in tasks : Begin(h, [Idle EXCEPT !.pc = "unbind_task",
                                                    !.task = task], TRUE)
    BY <1>4 DEF DeleteTaskRequest
  <2>. DEFINE j == [Idle EXCEPT !.pc = "unbind_task", !.task = task]
  <2>2. j \in Job /\ j.pc = "unbind_task"
    BY <1>0, IdleOK DEF Job, Tables
  <2>3. job' = [job EXCEPT ![h] = j] /\ crossed' = crossed \ {h} /\ calm' \in BOOLEAN
    BY <2>1 DEF Begin
  <2>. HIDE DEF j
  <2>4. Turns(h, j)
    BY <2>2, <2>3 DEF Turns, Good
  <2>5. UNCHANGED <<memoryTable, tierTable, links, history>>
    BY <1>4 DEF DeleteTaskRequest
  <2>6. UNCHANGED <<listed, queries, faults>>
    BY <2>5 DEF history
  <2>7. queries' \in Nat
    BY <1>0, <2>6 DEF Tables
  <2>. QED BY <1>2, <2>2, <2>3, <2>4, <2>5, <2>6, <2>7
<1>5. CASE Query(h)
  <2>1. PICK found \in SUBSET memories \ {{}} :
          /\ Begin(h, [Idle EXCEPT !.pc = "touch", !.found = found], TRUE)
          /\ listed' = [m \in Memories |-> IF m \in found THEN listed[m] + 1
                                                          ELSE listed[m]]
    BY <1>5 DEF Query
  <2>. DEFINE j == [Idle EXCEPT !.pc = "touch", !.found = found]
  <2>2. found \subseteq Memories
    BY <1>0, MemoryConstantsOK DEF Tables, Memories
  <2>3. j \in Job /\ j.pc = "touch"
    BY <2>2, IdleOK DEF Job
  <2>4. job' = [job EXCEPT ![h] = j] /\ crossed' = crossed \ {h} /\ calm' \in BOOLEAN
    BY <2>1 DEF Begin
  <2>. HIDE DEF j
  <2>5. Turns(h, j)
    BY <2>3, <2>4 DEF Turns, Good
  <2>6. UNCHANGED <<memoryTable, tierTable, links, faults>> /\ queries' = queries + 1
    BY <1>5 DEF Query
  <2>7. UNCHANGED <<memories, nmemories, access, bindings, tasks, faults>>
    BY <2>6 DEF memoryTable, links
  <2>8. listed' \in [Memories -> Nat]
    BY <1>0, <2>1 DEF Tables
  <2>9. Tables' /\ nmemories <= nmemories'
    BY <1>0, <2>4, <2>6, <2>7, <2>8 DEF Tables
  <2>. QED BY <2>3, <2>4, <2>5, <2>6, <2>7, <2>9 DEF Calls
<1>. QED BY <1>1, <1>3, <1>4, <1>5 DEF Receive

\* A call of h that changes no more than the handler itself.
LEMMA QuietCall ==
  ASSUME TypeOK, NEW h \in Handlers, NEW j, Turns(h, j),
         j.pc \in {"unbind", "drop_memory"} => Unbind(h),
         UNCHANGED <<nmemories, tierTable>>, crossed \ {h} \subseteq crossed',
         crossed' \subseteq Handlers, memories' \subseteq memories,
         access' \in [Memories -> Nat], bindings' \subseteq bindings,
         tasks' \subseteq tasks, listed' = listed, queries' = queries,
         faults' \in Nat, calm' = calm
  PROVE  Calls(h)
<1>1. Tables' /\ nmemories <= nmemories'
  BY TypeParts DEF Tables
<1>. QED BY <1>1 DEF Calls

LEMMA PlainCalls ==
  ASSUME TypeOK, JobsGood, NEW h \in Handlers, Plain(h)
  PROVE  Calls(h)
<1>. USE TypeParts
<1>0. Tables
  OBVIOUS
<1>1. job[h] \in Job /\ Good(job[h], nmemories)
  BY DEF JobsGood
<1>2. \A j, n : j = Idle => Good(j, n) /\ j.pc = "idle"
  BY IdleOK DEF Good
\* The frame of a call that keeps to the handler.
<1>3. ASSUME NEW j, Good(j, nmemories), Step(h, j), j.pc # "write",
             j.pc \in {"unbind", "drop_memory"} => Unbind(h),
             UNCHANGED <<nmemories, tierTable>>, crossed' = crossed,
             memories' \subseteq memories, access' \in [Memories -> Nat],
             bindings' \subseteq bindings, tasks' \subseteq tasks,
             listed' = listed, queries' = queries, faults' \in Nat
      PROVE  Calls(h)
  <2>1. Turns(h, j) /\ calm' = calm
    BY <1>3 DEF Turns, Step
  <2>2. crossed \subseteq Handlers
    BY <1>0 DEF Tables
  <2>. QED BY <1>3, <2>1, <2>2, QuietCall
<1>4. access \in [Memories -> Nat] /\ faults \in Nat
  BY <1>0 DEF Tables
<1>5. CASE UpdateRow(h)
  <2>. DEFINE j == [job[h] EXCEPT !.pc = "get"]
  <2>1. Good(j, nmemories) /\ j.pc = "get"
    BY <1>1, <1>5, EditOK DEF UpdateRow, Good, Pcs
  <2>. HIDE DEF j
  <2>2. Step(h, j) /\ UNCHANGED <<memoryTable, tierTable, links, crossed, history>>
    BY <1>5 DEF UpdateRow, j
  <2>. QED BY <1>3, <1>4, <2>1, <2>2 DEF memoryTable, links, history
<1>6. CASE GetUpdated(h)
  <2>1. PICK j : /\ j \in {NextPut(job[h]), Idle} /\ Step(h, j)
    BY <1>6 DEF GetUpdated
  <2>2. job[h].memory \in 1 .. nmemories
    BY <1>1, <1>6 DEF GetUpdated, Good
  <2>3. Good(j, nmemories) /\ j.pc \in {"tier", "bind", "idle"}
    BY <1>1, <1>2, <2>1, <2>2, NextPutOK
  <2>4. UNCHANGED <<memoryTable, tierTable, links, crossed, history>>
    BY <1>6 DEF GetUpdated
  <2>. QED BY <1>3, <1>4, <2>1, <2>3, <2>4 DEF memoryTable, links, history
<1>7. CASE Unbind(h)
  <2>. DEFINE j == [job[h] EXCEPT !.pc = "drop_memory"]
  <2>1. Good(j, nmemories) /\ j.pc = "drop_memory"
    BY <1>1, <1>7, EditOK DEF Unbind, Good, Pcs
  <2>. HIDE DEF j
  <2>2. Step(h, j) /\ UNCHANGED <<memoryTable, tierTable, tasks, crossed, history>>
    BY <1>7 DEF Unbind, j
  <2>3. bindings' \subseteq bindings
    BY <1>7 DEF Unbind
  <2>. QED BY <1>3, <1>4, <1>7, <2>1, <2>2, <2>3 DEF memoryTable, history
<1>8. CASE DropMemory(h)
  <2>1. Step(h, Idle) /\ UNCHANGED <<nmemories, tierTable, links, crossed, history>>
    BY <1>8 DEF DropMemory
  <2>2. access' \in [Memories -> Nat] /\ memories' \subseteq memories
    BY <1>4, <1>8 DEF DropMemory
  <2>. QED BY <1>2, <1>3, <1>4, <2>1, <2>2 DEF links, history
<1>9. CASE UnbindTask(h)
  <2>. DEFINE j == [job[h] EXCEPT !.pc = "drop_task"]
  <2>1. Good(j, nmemories) /\ j.pc = "drop_task"
    BY <1>1, <1>9, EditOK DEF UnbindTask, Good, Pcs
  <2>. HIDE DEF j
  <2>2. Step(h, j) /\ UNCHANGED <<memoryTable, tierTable, tasks, crossed, history>>
    BY <1>9 DEF UnbindTask, j
  <2>3. bindings' \subseteq bindings
    BY <1>9 DEF UnbindTask
  <2>. QED BY <1>3, <1>4, <2>1, <2>2, <2>3 DEF memoryTable, history
<1>10. CASE DropTask(h)
  <2>1. Step(h, Idle) /\ UNCHANGED <<memoryTable, tierTable, bindings, crossed, history>>
    BY <1>10 DEF DropTask
  <2>2. tasks' \subseteq tasks
    BY <1>10 DEF DropTask
  <2>. QED BY <1>2, <1>3, <1>4, <2>1, <2>2 DEF memoryTable, history
\* What remains to be touched.
<1>11. ASSUME NEW j, NEW m, job[h].pc = "touch",
              j \in {Idle, [job[h] EXCEPT !.found = @ \ {m}]}
       PROVE  Good(j, nmemories) /\ j.pc \in {"idle", "touch"}
  <2>1. /\ [job[h] EXCEPT !.found = @ \ {m}] \in Job
        /\ [job[h] EXCEPT !.found = @ \ {m}].pc = "touch"
    BY <1>1, <1>11 DEF Job
  <2>. QED BY <1>2, <1>11, <2>1 DEF Good
<1>12. CASE Touch(h)
  <2>1. PICK m \in job[h].found :
          /\ access' = IF m \in memories THEN [access EXCEPT ![m] = @ + 1] ELSE access
          /\ Step(h, IF job[h].found = {m} THEN Idle
                     ELSE [job[h] EXCEPT !.found = @ \ {m}])
    BY <1>12 DEF Touch
  <2>2. access' \in [Memories -> Nat]
    <3>1. m \in Memories
      BY <1>1 DEF Job
    <3>2. access' \in {access, [access EXCEPT ![m] = @ + 1]}
      BY <2>1
    <3>3. [access EXCEPT ![m] = @ + 1] \in [Memories -> Nat]
      BY <1>4, <3>1
    <3>. QED BY <1>4, <3>2, <3>3
  <2>3. PICK j : j \in {Idle, [job[h] EXCEPT !.found = @ \ {m}]} /\ Step(h, j)
    BY <2>1
  <2>4. /\ job[h].pc = "touch"
        /\ UNCHANGED <<memories, nmemories, tierTable, links, crossed, history>>
    BY <1>12 DEF Touch
  <2>5. Good(j, nmemories) /\ j.pc \in {"idle", "touch"}
    BY <1>11, <2>3, <2>4
  <2>. QED BY <1>3, <1>4, <2>2, <2>3, <2>4, <2>5 DEF links, history
<1>13. CASE FailedCall(h)
  <2>1. PICK j : Step(h, j) /\ Good(j, nmemories)
                 /\ j.pc \in {"tier", "bind", "idle", "touch", "drop_task"}
    <3>1. CASE job[h].pc = "tier"
      <4>1. PICK p \in job[h].puts : Step(h, NextPut([job[h] EXCEPT !.puts = @ \ {p}]))
        BY <1>13, <3>1 DEF FailedCall
      <4>2. /\ [job[h] EXCEPT !.puts = @ \ {p}] \in Job
            /\ [job[h] EXCEPT !.puts = @ \ {p}].memory \in 1 .. nmemories
        BY <1>1, <3>1 DEF Job, Good
      <4>. QED BY <4>1, <4>2, NextPutOK
    <3>2. CASE job[h].pc = "write"
      <4>1. job[h].memory \in 1 .. nmemories
        BY <1>1, <3>2 DEF Good
      <4>. QED BY <1>1, <1>13, <3>2, <4>1, NextPutOK DEF FailedCall
    <3>3. CASE job[h].pc = "touch"
      <4>1. PICK m \in job[h].found :
              Step(h, IF job[h].found = {m} THEN Idle
                      ELSE [job[h] EXCEPT !.found = @ \ {m}])
        BY <1>13, <3>3 DEF FailedCall
      <4>2. PICK j : j \in {Idle, [job[h] EXCEPT !.found = @ \ {m}]} /\ Step(h, j)
        BY <4>1
      <4>. QED BY <1>11, <3>3, <4>2
    <3>4. CASE job[h].pc = "unbind_task"
      <4>. DEFINE j == [job[h] EXCEPT !.pc = "drop_task"]
      <4>1. Good(j, nmemories) /\ j.pc = "drop_task"
        BY <1>1, <3>4, EditOK DEF Good, Pcs
      <4>2. Step(h, j)
        BY <1>13, <3>4 DEF FailedCall
      <4>. HIDE DEF j
      <4>. QED BY <4>1, <4>2
    <3>5. CASE job[h].pc \notin {"tier", "write", "touch", "unbind_task"}
      BY <1>2, <1>13, <3>5 DEF FailedCall
    <3>. QED BY <3>1, <3>2, <3>3, <3>4, <3>5
  <2>2. /\ UNCHANGED <<memoryTable, tierTable, links, crossed, listed, queries>>
        /\ faults' = faults + 1
    BY <1>13 DEF FailedCall
  <2>. QED BY <1>3, <1>4, <2>1, <2>2 DEF memoryTable, links
<1>14. CASE Bind(h)
  <2>1. /\ Step(h, Idle) /\ UNCHANGED <<memoryTable, tierTable, tasks, history>>
        /\ bindings' = bindings \cup {<<job[h].task, job[h].memory>>}
        /\ crossed \ {h} \subseteq crossed' /\ crossed' \subseteq Handlers
    BY <1>0, <1>14 DEF Bind, Cross, Tables
  <2>2. UNCHANGED <<memories, nmemories, access, tasks, listed, queries, faults, calm>>
    BY <2>1 DEF memoryTable, history, Step
  <2>3. job[h].task \in Tasks /\ job[h].memory \in 1 .. nmemories
    BY <1>1, <1>14 DEF Good, Bind
  <2>4. Tables' /\ nmemories <= nmemories'
    BY <1>0, <2>1, <2>2, <2>3 DEF Tables
  <2>5. Turns(h, Idle) /\ Idle.pc = "idle"
    BY <1>2, <2>1 DEF Turns, Step
  <2>. QED BY <1>14, <2>1, <2>4, <2>5 DEF Calls
<1>. QED
  BY <1>5, <1>6, <1>7, <1>8, <1>9, <1>10, <1>12, <1>13, <1>14, RequestCalls DEF Plain

-----------------------------------------------------------------------------
(* Type correctness                                                        *)

\* The steps that look up, write or delete the rows of a tier.
Finds(h, p) ==
  /\ job[h].pc = "tier" /\ p \in job[h].puts
  /\ job' = [job EXCEPT ![h] = [job[h] EXCEPT !.pc = "write", !.puts = @ \ {p},
                                 !.put = p, !.row = FirstRow(job[h].memory, p.tier)]]
  /\ crossed' = crossed \ {h}
  /\ UNCHANGED <<memoryTable, tierTable, links, history, calm>>

LEMMA FindIs ==
  ASSUME NEW h, FindTier(h)
  PROVE  \E p \in job[h].puts : Finds(h, p)
BY DEF FindTier, Finds, Step

LEMMA FindOK ==
  ASSUME TypeOK, JobsGood, NEW h \in Handlers, NEW p, Finds(h, p)
  PROVE  /\ TypeOK' /\ JobsGood' /\ p \in Put
         /\ \A g \in Handlers \ {h} : job'[g] = job[g]
         /\ job'[h].pc = "write" /\ job'[h].memory = job[h].memory
         /\ job'[h].put = p /\ job'[h].row = FirstRow(job[h].memory, p.tier)
<1>. DEFINE j == [job[h] EXCEPT !.pc = "write", !.puts = @ \ {p}, !.put = p,
                                !.row = FirstRow(job[h].memory, p.tier)]
<1>1. job[h] \in Job /\ Good(job[h], nmemories) /\ job[h].pc = "tier" /\ p \in Put
  <2>1. job[h] \in Job /\ Good(job[h], nmemories)
    BY DEF JobsGood
  <2>2. job[h].pc = "tier" /\ p \in job[h].puts
    BY DEF Finds
  <2>. QED BY <2>1, <2>2 DEF Job
<1>2. FirstRow(job[h].memory, p.tier) \in Rows \cup {NoRow}
  BY FirstRowOK
<1>3. j \in Job /\ j.pc = "write" /\ j.put = p /\ j.memory = job[h].memory
      /\ j.row = FirstRow(job[h].memory, p.tier)
  BY <1>1, <1>2 DEF Job
<1>4. job' = [job EXCEPT ![h] = j] /\ crossed' = crossed \ {h}
      /\ UNCHANGED <<memoryTable, tierTable, links, history, calm>>
  BY DEF Finds
<1>. HIDE DEF j
<1>5. UNCHANGED <<memories, nmemories, access, tiers, nrows, bindings, tasks,
                  listed, queries, faults, calm>>
  BY <1>4 DEF memoryTable, tierTable, links, history
<1>6. Good(j, nmemories')
  BY <1>1, <1>3, <1>5 DEF Good
<1>7. nmemories \in Nat /\ Tables /\ TierTable
  BY TypeParts DEF Tables
<1>8. Tables' /\ TierTable'
  BY <1>4, <1>5, <1>7 DEF Tables, TierTable
<1>9. JobsGood' /\ job'[h] = j /\ \A g \in Handlers \ {h} : job'[g] = job[g]
  <2>1. nmemories' \in Nat /\ nmemories <= nmemories'
    BY <1>5, <1>7
  <2>. QED BY <1>4, <1>6, <1>7, <2>1, JobStep
<1>. QED BY <1>1, <1>3, <1>8, <1>9, JobsTyped, TypeParts DEF JobsGood

LEMMA WriteOK ==
  ASSUME TypeOK, JobsGood, NEW h \in Handlers, WriteTier(h)
  PROVE  /\ TypeOK' /\ JobsGood'
         /\ \A g \in Handlers \ {h} : job'[g] = job[g]
         /\ job'[h].pc \in {"tier", "bind", "idle"}
         /\ UNCHANGED bindings
<1>1. /\ job[h] \in Job /\ job[h].put \in Put /\ job[h].memory \in 1 .. nmemories
  BY DEF JobsGood, Good, WriteTier
<1>2. /\ Tables /\ TierTable /\ nmemories \in Nat /\ MaxMemories \in Nat
      /\ nmemories <= MaxMemories
  BY TypeParts, MemoryConstantsOK DEF Tables
<1>3. job[h].memory \in Memories
  BY <1>1, <1>2 DEF Memories
<1>4. TierTable'
  <2>1. CASE InsertTier(job[h].memory, job[h].put)
    <3>1. [memory |-> job[h].memory, tier |-> job[h].put.tier,
           content |-> job[h].put.content] \in TierRow
      BY <1>1, <1>3 DEF TierRow, Put
    <3>2. nrows \in Nat /\ nrows < MaxRows /\ nrows' = nrows + 1 /\ MaxRows \in Nat
      BY <1>2, <2>1, MemoryConstantsOK DEF TierTable, InsertTier
    <3>3. DOMAIN tiers' = DOMAIN tiers \cup {nrows + 1}
      BY <2>1 DEF InsertTier
    <3>4. tiers' \in [DOMAIN tiers' -> TierRow]
      BY <1>2, <2>1, <3>1 DEF TierTable, InsertTier
    <3>5. DOMAIN tiers' \subseteq 1 .. nrows'
      <4>1. DOMAIN tiers \subseteq 1 .. nrows
        BY <1>2 DEF TierTable
      <4>. QED BY <3>2, <3>3, <4>1
    <3>. QED BY <3>2, <3>4, <3>5 DEF TierTable
  <2>2. CASE /\ tiers' = [r \in DOMAIN tiers |->
                            IF r = job[h].row
                            THEN [tiers[r] EXCEPT !.content = job[h].put.content]
                            ELSE tiers[r]]
             /\ nrows' = nrows
    <3>1. \A r \in DOMAIN tiers :
            [tiers[r] EXCEPT !.content = job[h].put.content] \in TierRow
      BY <1>1, <1>2 DEF TierTable, TierRow, Put
    <3>. QED BY <1>2, <2>2, <3>1 DEF TierTable
  <2>. QED BY <2>1, <2>2 DEF WriteTier
<1>5. UNCHANGED <<memories, nmemories, access, bindings, tasks, listed, queries, faults>>
  BY DEF WriteTier, memoryTable, links, history
<1>6. /\ crossed' \subseteq Handlers /\ calm' = calm
      /\ job' = [job EXCEPT ![h] = NextPut(job[h])]
  BY <1>2 DEF WriteTier, Cross, Step, Tables
<1>7. Tables'
  BY <1>2, <1>5, <1>6 DEF Tables
<1>8. Good(NextPut(job[h]), nmemories') /\ NextPut(job[h]).pc \in {"tier", "bind", "idle"}
  BY <1>1, <1>5, NextPutOK
<1>9. /\ JobsGood' /\ job'[h] = NextPut(job[h])
      /\ \A g \in Handlers \ {h} : job'[g] = job[g]
  <2>1. nmemories' \in Nat /\ nmemories <= nmemories'
    BY <1>2, <1>5
  <2>. QED BY <1>2, <1>6, <1>8, <2>1, JobStep
<1>. QED BY <1>4, <1>5, <1>7, <1>8, <1>9, JobsTyped, TypeParts DEF JobsGood

\* The rows that a deletion by h removes.
Drops(h, gone) ==
  /\ DeleteRows(gone)
  /\ \/ /\ job[h].pc = "drop_tier"
        /\ \E p \in job[h].puts : /\ gone = Copies(job[h].memory, p.tier)
                                  /\ Cross(h, job[h].memory, p.tier)
        /\ job' = [job EXCEPT ![h] = Idle]
     \/ /\ job[h].pc = "drop_tiers"
        /\ gone = RowsOf(job[h].memory)
        /\ Cross(h, job[h].memory, None)
        /\ job' = [job EXCEPT ![h] = [job[h] EXCEPT !.pc = "unbind"]]
  /\ UNCHANGED <<memoryTable, nrows, links, history, calm>>

LEMMA DropIs ==
  ASSUME NEW h, DropTier(h) \/ DropTiers(h)
  PROVE  \E gone : Drops(h, gone)
<1>1. CASE DropTier(h)
  <2>1. PICK p \in job[h].puts : /\ DeleteRows(Copies(job[h].memory, p.tier))
                                /\ Cross(h, job[h].memory, p.tier)
    BY <1>1 DEF DropTier
  <2>2. Drops(h, Copies(job[h].memory, p.tier))
    BY <1>1, <2>1 DEF DropTier, Drops, Step
  <2>. QED BY <2>2
<1>2. CASE DropTiers(h)
  <2>1. Drops(h, RowsOf(job[h].memory))
    BY <1>2 DEF DropTiers, Drops, Step
  <2>. QED BY <2>1
<1>. QED BY <1>1, <1>2

LEMMA DropOK ==
  ASSUME TypeOK, JobsGood, NEW h \in Handlers, NEW gone, Drops(h, gone)
  PROVE  /\ TypeOK' /\ JobsGood'
         /\ \A g \in Handlers \ {h} : job'[g] = job[g]
         /\ job'[h].pc \in {"idle", "unbind"}
         /\ job'[h].pc = "unbind" =>
              job[h].pc = "drop_tiers" /\ job'[h].memory = job[h].memory
         /\ UNCHANGED <<nmemories, bindings>>
<1>1. job[h] \in Job /\ Good(job[h], nmemories)
  BY DEF JobsGood
<1>2. Tables /\ TierTable /\ nmemories \in Nat
  BY TypeParts DEF Tables
<1>3. UNCHANGED <<memories, nmemories, access, bindings, tasks, listed, queries,
                  faults, nrows, calm>>
  BY DEF Drops, memoryTable, links, history
<1>4. TierTable'
  BY <1>2, <1>3 DEF Drops, DeleteRows, TierTable
<1>5. crossed' \subseteq Handlers
  BY <1>2 DEF Drops, Cross, Tables
<1>6. Tables'
  BY <1>2, <1>3, <1>5 DEF Tables
<1>7. PICK j : /\ job' = [job EXCEPT ![h] = j]
               /\ \/ j = Idle
                  \/ job[h].pc = "drop_tiers" /\ j = [job[h] EXCEPT !.pc = "unbind"]
  BY DEF Drops
<1>8. /\ Good(j, nmemories') /\ j.pc \in {"idle", "unbind"}
      /\ j.pc = "unbind" => job[h].pc = "drop_tiers" /\ j.memory = job[h].memory
  <2>1. CASE j = Idle
    BY <2>1, IdleOK DEF Good
  <2>2. CASE job[h].pc = "drop_tiers" /\ j = [job[h] EXCEPT !.pc = "unbind"]
    BY <1>1, <1>3, <2>2, EditOK DEF Good, Pcs
  <2>. QED BY <1>7, <2>1, <2>2
<1>9. /\ JobsGood' /\ job'[h] = j /\ \A g \in Handlers \ {h} : job'[g] = job[g]
  <2>1. nmemories' \in Nat /\ nmemories <= nmemories'
    BY <1>2, <1>3
  <2>. QED BY <1>2, <1>7, <1>8, <2>1, JobStep
<1>. QED BY <1>3, <1>4, <1>6, <1>8, <1>9, JobsTyped, TypeParts DEF JobsGood

LEMMA CallOK ==
  ASSUME TypeOK, JobsGood, NEW h \in Handlers, Calls(h)
  PROVE  /\ TypeOK' /\ JobsGood'
         /\ \A g \in Handlers \ {h} : job'[g] = job[g]
         /\ job'[h].pc # "write"
         /\ job'[h].pc \in {"unbind", "drop_memory"} => Unbind(h)
         /\ UNCHANGED <<tiers, nrows>>
<1>1. PICK j : Turns(h, j) /\ (j.pc \in {"unbind", "drop_memory"} => Unbind(h))
  BY DEF Calls
<1>2. /\ UNCHANGED <<tiers, nrows>> /\ Tables' /\ nmemories <= nmemories'
      /\ nmemories \in Nat /\ nmemories' \in Nat
  BY TypeParts DEF Calls, tierTable, Tables
<1>3. JobsGood' /\ job'[h] = j /\ \A g \in Handlers \ {h} : job'[g] = job[g]
  BY <1>1, <1>2, JobStep DEF Turns
<1>4. TierTable'
  BY <1>2, TypeParts DEF TierTable
<1>. QED BY <1>1, <1>2, <1>3, <1>4, JobsTyped, TypeParts DEF Turns, JobsGood

LEMMA CrashOK ==
  ASSUME TypeOK, JobsGood, Crash
  PROVE  /\ TypeOK' /\ JobsGood' /\ \A h \in Handlers : job'[h] = Idle
         /\ UNCHANGED <<tiers, nrows>>
<1>1. /\ UNCHANGED <<memories, nmemories, access, tiers, nrows, bindings, tasks,
                     listed, queries, calm>>
      /\ crossed' = {} /\ faults' = faults + 1
      /\ job' = [h \in Handlers |-> Idle]
  BY DEF Crash, memoryTable, tierTable, links
<1>2. Tables' /\ TierTable'
  BY <1>1, TypeParts DEF Tables, TierTable
<1>3. \A n : Good(Idle, n)
  BY IdleOK DEF Good
<1>4. JobsGood'
  BY <1>1, <1>3, IdleOK DEF JobsGood
<1>. QED BY <1>1, <1>2, <1>4, JobsTyped, TypeParts DEF JobsGood

\* Every step is one of these.
LEMMA Steps ==
  ASSUME TypeOK, JobsGood, [Next]_vars
  PROVE  \/ \E h \in Handlers : \/ Calls(h)
                               \/ \E p : Finds(h, p)
                               \/ WriteTier(h)
                               \/ \E gone : Drops(h, gone)
         \/ Crash
         \/ UNCHANGED vars
<1>1. ASSUME NEW h \in Handlers, Receive(h) \/ HandlerStep(h) \/ FailedCall(h)
      PROVE  \/ Plain(h) \/ \E p : Finds(h, p)
             \/ WriteTier(h) \/ \E gone : Drops(h, gone)
  <2>1. Plain(h) \/ FindTier(h) \/ WriteTier(h) \/ DropTier(h) \/ DropTiers(h)
    BY <1>1 DEF HandlerStep, Plain
  <2>. QED BY <2>1, FindIs, DropIs
<1>. QED BY <1>1, PlainCalls DEF Next

LEMMA UnchangedOK ==
  ASSUME UNCHANGED vars
  PROVE  UNCHANGED <<memories, nmemories, access, tiers, nrows, bindings, tasks, job,
                     crossed, listed, queries, faults, calm>>
BY DEF vars, memoryTable, tierTable, links, history

LEMMA TypeStep ==
  ASSUME TypeOK, JobsGood, [Next]_vars
  PROVE  TypeOK' /\ JobsGood'
<1>1. CASE UNCHANGED vars
  <2>1. Tables' /\ TierTable' /\ JobsGood'
    BY <1>1, UnchangedOK, TypeParts DEF Tables, TierTable, JobsGood
  <2>. QED BY <2>1, TypeParts DEF JobsGood
<1>. QED BY <1>1, Steps, CallOK, FindOK, WriteOK, DropOK, CrashOK

LEMMA TypeInit == Init => TypeOK /\ JobsGood
<1>. SUFFICES ASSUME Init PROVE TypeOK /\ JobsGood
  OBVIOUS
<1>1. Tables
  <2>1. /\ access \in [Memories -> Nat] /\ listed \in [Memories -> Nat]
        /\ MaxMemories \in Nat
    BY MemoryConstantsOK DEF Init
  <2>2. nmemories = 0 /\ memories = {} /\ bindings = {} /\ tasks = Tasks
        /\ crossed = {} /\ queries = 0 /\ faults = 0 /\ calm = TRUE
    BY DEF Init
  <2>. QED BY <2>1, <2>2 DEF Tables
<1>2. TierTable
  <2>1. DOMAIN tiers = {} /\ tiers \in [DOMAIN tiers -> TierRow] /\ nrows = 0
    BY DEF Init
  <2>. QED BY <2>1, MemoryConstantsOK DEF TierTable
<1>3. JobsGood
  <2>1. \A n : Good(Idle, n)
    BY IdleOK DEF Good
  <2>. QED BY <2>1, IdleOK DEF Init, JobsGood
<1>. QED BY <1>1, <1>2, <1>3, TypeParts DEF JobsGood

LEMMA TypeInvariant == Spec => [](TypeOK /\ JobsGood)
<1>. QED BY TypeInit, TypeStep, PTL DEF Spec

\* The variables of the memory store have their types, so that no row of a
\* tier and no binding names a memory that was never created.
THEOREM TypeCorrect == Spec => []TypeOK
<1>. QED BY TypeInvariant, PTL

-----------------------------------------------------------------------------
(* The rows of a tier                                                      *)

LEMMA KeepsCopies ==
  ASSUME UNCHANGED tiers, NEW m, NEW t
  PROVE  Copies(m, t)' = Copies(m, t) /\ RowsOf(m)' = RowsOf(m)
BY DEF Copies, RowsOf

\* A write adds a row to the tier, if none was found.
LEMMA WriteCopies ==
  ASSUME TypeOK, NEW h, WriteTier(h), NEW m, NEW t
  PROVE  /\ job[h].row # NoRow \/ job[h].memory # m \/ job[h].put.tier # t =>
              Copies(m, t)' = Copies(m, t)
         /\ job[h].row = NoRow /\ job[h].memory = m /\ job[h].put.tier = t =>
              Copies(m, t)' = Copies(m, t) \cup {nrows + 1}
         /\ job[h].row # NoRow \/ job[h].memory # m => RowsOf(m)' = RowsOf(m)
<1>1. /\ nrows \in Nat /\ DOMAIN tiers \subseteq 1 .. nrows
      /\ tiers \in [DOMAIN tiers -> TierRow]
  BY DEF TypeOK
<1>2. CASE job[h].row = NoRow
  <2>1. InsertTier(job[h].memory, job[h].put)
    BY <1>2 DEF WriteTier
  <2>2. nrows + 1 \notin DOMAIN tiers
    BY <1>1
  <2>3. /\ DOMAIN tiers' = DOMAIN tiers \cup {nrows + 1}
        /\ \A r \in DOMAIN tiers : tiers'[r] = tiers[r]
        /\ tiers'[nrows + 1].memory = job[h].memory
        /\ tiers'[nrows + 1].tier = job[h].put.tier
    BY <2>1, <2>2 DEF InsertTier
  <2>. QED BY <1>2, <2>2, <2>3 DEF Copies, RowsOf
<1>3. CASE job[h].row # NoRow
  <2>1. tiers' = [r \in DOMAIN tiers |->
                    IF r = job[h].row
                    THEN [tiers[r] EXCEPT !.content = job[h].put.content]
                    ELSE tiers[r]]
    BY <1>3 DEF WriteTier
  <2>2. \A r \in DOMAIN tiers :
          tiers'[r].memory = tiers[r].memory /\ tiers'[r].tier = tiers[r].tier
    BY <1>1, <2>1 DEF TierRow
  <2>. QED BY <1>3, <2>1, <2>2 DEF Copies, RowsOf
<1>. QED BY <1>2, <1>3

LEMMA DropCopies ==
  ASSUME NEW h, NEW gone, Drops(h, gone), NEW m, NEW t
  PROVE  Copies(m, t)' = Copies(m, t) \ gone /\ RowsOf(m)' = RowsOf(m) \ gone
<1>1. tiers' = [r \in DOMAIN tiers \ gone |-> tiers[r]]
  BY DEF Drops, DeleteRows
<1>. QED BY <1>1 DEF Copies, RowsOf

LEMMA InsertingOK ==
  ASSUME NEW m, NEW t
  PROVE  /\ Inserting(m, t) \subseteq Handlers /\ IsFiniteSet(Inserting(m, t))
         /\ Inserting(m, t)' \subseteq Handlers /\ IsFiniteSet(Inserting(m, t)')
<1>1. Inserting(m, t) \subseteq Handlers /\ Inserting(m, t)' \subseteq Handlers
  BY DEF Inserting
<1>. QED BY <1>1, FS_Subset, MemoryConstantsOK

\* Handlers that have looked in vain are counted with the rows there are.
LEMMA CopiesStep ==
  ASSUME TypeOK, JobsGood, CopiesInv, [Next]_vars
  PROVE  CopiesInv'
<1>. SUFFICES ASSUME NEW m \in Memories, NEW t \in Tiers
              PROVE  Cardinality(Copies(m, t)') + Cardinality(Inserting(m, t)')
                       <= Cardinality(Handlers)
  BY DEF CopiesInv
<1>1. /\ Cardinality(Copies(m, t)) + Cardinality(Inserting(m, t))
           <= Cardinality(Handlers)
      /\ Cardinality(Copies(m, t)) \in Nat /\ Cardinality(Inserting(m, t)) \in Nat
      /\ Cardinality(Handlers) \in Nat
      /\ IsFiniteSet(Copies(m, t)) /\ IsFiniteSet(Inserting(m, t))
  BY CopiesOK, InsertingOK, FS_CardinalityType, MemoryConstantsOK DEF CopiesInv
<1>2. ASSUME Copies(m, t)' \subseteq Copies(m, t), Inserting(m, t)' \subseteq Inserting(m, t)
      PROVE  Cardinality(Copies(m, t)') + Cardinality(Inserting(m, t)')
               <= Cardinality(Handlers)
  <2>1. /\ Cardinality(Copies(m, t)') <= Cardinality(Copies(m, t))
        /\ Cardinality(Inserting(m, t)') <= Cardinality(Inserting(m, t))
        /\ Cardinality(Copies(m, t)') \in Nat /\ Cardinality(Inserting(m, t)') \in Nat
    BY <1>1, <1>2, FS_Subset, FS_CardinalityType
  <2>. QED BY <1>1, <2>1
<1>3. ASSUME NEW h \in Handlers, job'[h].pc # "write",
             \A g \in Handlers \ {h} : job'[g] = job[g]
      PROVE  Inserting(m, t)' \subseteq Inserting(m, t) \ {h}
  BY <1>3 DEF Inserting
<1>4. ASSUME NEW h \in Handlers, Calls(h)
      PROVE  Copies(m, t)' \subseteq Copies(m, t) /\ Inserting(m, t)' \subseteq Inserting(m, t)
  BY <1>3, <1>4, CallOK, KeepsCopies
<1>5. ASSUME NEW h \in Handlers, NEW gone, Drops(h, gone)
      PROVE  Copies(m, t)' \subseteq Copies(m, t) /\ Inserting(m, t)' \subseteq Inserting(m, t)
  BY <1>3, <1>5, DropOK, DropCopies
<1>6. ASSUME NEW h \in Handlers, NEW p, Finds(h, p)
      PROVE  Cardinality(Copies(m, t)') + Cardinality(Inserting(m, t)')
               <= Cardinality(Handlers)
  <2>1. Copies(m, t)' = Copies(m, t)
    BY <1>6, KeepsCopies DEF Finds, tierTable
  <2>2. CASE h \in Inserting(m, t)'
    <3>1. Copies(m, t) = {}
      <4>1. job'[h].row = NoRow /\ job'[h].memory = m /\ job'[h].put.tier = t
        BY <2>2 DEF Inserting
      <4>2. FirstRow(m, t) = NoRow
        BY <1>6, <4>1, FindOK
      <4>. QED BY <4>2, FirstRowOK
    <3>2. Cardinality(Copies(m, t)') = 0
      BY <2>1, <3>1, FS_EmptySet
    <3>3. /\ Cardinality(Inserting(m, t)') <= Cardinality(Handlers)
          /\ Cardinality(Inserting(m, t)') \in Nat
      BY InsertingOK, FS_Subset, FS_CardinalityType, MemoryConstantsOK
    <3>. QED BY <3>2, <3>3
  <2>3. CASE h \notin Inserting(m, t)'
    <3>1. Inserting(m, t)' \subseteq Inserting(m, t)
      BY <1>6, <2>3, FindOK DEF Inserting
    <3>. QED BY <1>2, <2>1, <3>1
  <2>. QED BY <2>2, <2>3
<1>7. ASSUME NEW h \in Handlers, WriteTier(h)
      PROVE  Cardinality(Copies(m, t)') + Cardinality(Inserting(m, t)')
               <= Cardinality(Handlers)
  <2>1. Inserting(m, t)' \subseteq Inserting(m, t) \ {h}
    <3>1. job'[h].pc # "write" /\ \A g \in Handlers \ {h} : job'[g] = job[g]
      BY <1>7, WriteOK
    <3>. QED BY <1>3, <3>1
  <2>2. CASE job[h].row # NoRow \/ job[h].memory # m \/ job[h].put.tier # t
    <3>1. Copies(m, t)' = Copies(m, t)
      BY <1>7, <2>2, WriteCopies
    <3>. QED BY <1>2, <2>1, <3>1
  <2>3. CASE job[h].row = NoRow /\ job[h].memory = m /\ job[h].put.tier = t
    <3>1. h \in Inserting(m, t)
      BY <1>7, <2>3 DEF Inserting, WriteTier
    <3>2. Copies(m, t)' = Copies(m, t) \cup {nrows + 1}
      BY <1>7, <2>3, WriteCopies
    <3>3. Cardinality(Copies(m, t)') <= Cardinality(Copies(m, t)) + 1
          /\ Cardinality(Copies(m, t)') \in Nat
      <4>1. /\ IsFiniteSet(Copies(m, t) \cup {nrows + 1})
            /\ \/ Cardinality(Copies(m, t) \cup {nrows + 1}) = Cardinality(Copies(m, t))
               \/ Cardinality(Copies(m, t) \cup {nrows + 1}) = Cardinality(Copies(m, t)) + 1
        BY <1>1, FS_AddElement
      <4>. QED BY <1>1, <3>2, <4>1
    <3>4. /\ IsFiniteSet(Inserting(m, t) \ {h})
          /\ Cardinality(Inserting(m, t) \ {h}) = Cardinality(Inserting(m, t)) - 1
      BY <1>1, <3>1, FS_RemoveElement
    <3>5. /\ Cardinality(Inserting(m, t)') <= Cardinality(Inserting(m, t) \ {h})
          /\ Cardinality(Inserting(m, t)') \in Nat
      BY <2>1, <3>4, FS_Subset, InsertingOK, FS_CardinalityType
    <3>. QED BY <1>1, <3>3, <3>4, <3>5
  <2>. QED BY <2>2, <2>3
<1>8. CASE Crash
  <2>1. Copies(m, t)' = Copies(m, t) /\ Inserting(m, t)' = {}
    BY <1>8, CrashOK, KeepsCopies, IdleOK DEF Inserting
  <2>. QED BY <1>2, <2>1
<1>9. CASE UNCHANGED vars
  <2>1. Copies(m, t)' = Copies(m, t) /\ Inserting(m, t)' = Inserting(m, t)
    BY <1>9, UnchangedOK, KeepsCopies DEF Inserting
  <2>. QED BY <1>2, <2>1
<1>. QED BY <1>2, <1>4, <1>5, <1>6, <1>7, <1>8, <1>9, Steps

\* Without a unique index a tier never has more rows than there are handlers
\* (memory_db.rs, upsert_tier): each must have looked before the first wrote.
THEOREM CopiesAreBounded == Spec => []CopiesBounded
<1>1. Init => CopiesInv
  <2>1. ASSUME Init, NEW m, NEW t
        PROVE  Copies(m, t) = {} /\ Inserting(m, t) = {}
    BY <2>1, IdleOK DEF Init, Copies, Inserting
  <2>2. Cardinality({}) = 0 /\ Cardinality(Handlers) \in Nat
    BY FS_EmptySet, FS_CardinalityType, MemoryConstantsOK
  <2>. QED BY <2>1, <2>2 DEF CopiesInv
<1>2. TypeOK /\ CopiesInv => CopiesBounded
  <2>. SUFFICES ASSUME TypeOK, CopiesInv, NEW m \in Memories, NEW t \in Tiers
                PROVE  Cardinality(Copies(m, t)) <= Cardinality(Handlers)
    BY DEF CopiesBounded
  <2>1. /\ Cardinality(Copies(m, t)) + Cardinality(Inserting(m, t))
             <= Cardinality(Handlers)
        /\ Cardinality(Copies(m, t)) \in Nat /\ Cardinality(Inserting(m, t)) \in Nat
        /\ Cardinality(Handlers) \in Nat
    BY CopiesOK, InsertingOK, FS_CardinalityType, MemoryConstantsOK DEF CopiesInv
  <2>. QED BY <2>1
<1>. QED BY <1>1, <1>2, CopiesStep, TypeInvariant, PTL DEF Spec

-----------------------------------------------------------------------------
(* Writes                                                                  *)

\* Between the two calls of upsert_tier the row found stays the first one,
\* unless the handler is crossed.
WritingInv ==
  \A h \in Handlers, m \in Memories, p \in Put :
    job[h].pc = "write" /\ h \notin crossed /\ job[h].memory = m /\ job[h].put = p =>
      job[h].row = FirstRow(m, p.tier)

LEMMA KeepsFirst ==
  ASSUME NEW m, NEW t, Copies(m, t)' = Copies(m, t)
  PROVE  FirstRow(m, t)' = FirstRow(m, t)
<1>1. FirstRow(m, t) = Least(Copies(m, t)) /\ FirstRow(m, t)' = Least(Copies(m, t)')
  BY FirstRowIs
<1>. QED BY <1>1

\* Whoever writes or deletes rows of the tier crosses g.
LEMMA CrossedBy ==
  ASSUME NEW h, NEW g \in Handlers \ {h}, NEW m, NEW t, Cross(h, m, t),
         g \notin crossed', job[g].memory = m
  PROVE  /\ job[g].pc = "write" => t # None /\ t # job[g].put.tier
         /\ job[g].pc \notin {"unbind", "drop_memory"}
BY DEF Cross

LEMMA WritingStep ==
  ASSUME TypeOK, JobsGood, WritingInv, [Next]_vars
  PROVE  WritingInv'
<1>. SUFFICES ASSUME NEW g \in Handlers, NEW m \in Memories, NEW p \in Put,
                     job'[g].pc = "write", g \notin crossed',
                     job'[g].memory = m, job'[g].put = p
              PROVE  job'[g].row = FirstRow(m, p.tier)'
  BY DEF WritingInv
<1>1. ASSUME job'[g] = job[g], g \notin crossed,
             Copies(m, p.tier)' = Copies(m, p.tier)
      PROVE  job'[g].row = FirstRow(m, p.tier)'
  <2>1. job[g].row = FirstRow(m, p.tier)
    BY <1>1 DEF WritingInv
  <2>. QED BY <1>1, <2>1, KeepsFirst
<1>2. ASSUME NEW h \in Handlers, Calls(h)
      PROVE  job'[g].row = FirstRow(m, p.tier)'
  <2>1. g # h /\ job'[g] = job[g] /\ tiers' = tiers
    BY <1>2, CallOK
  <2>2. g \notin crossed
    BY <1>2, <2>1 DEF Calls
  <2>. QED BY <1>1, <2>1, <2>2, KeepsCopies
<1>3. ASSUME NEW h \in Handlers, NEW q, Finds(h, q)
      PROVE  job'[g].row = FirstRow(m, p.tier)'
  <2>1. Copies(m, p.tier)' = Copies(m, p.tier)
    BY <1>3, KeepsCopies DEF Finds, tierTable
  <2>2. CASE g = h
    BY <1>3, <2>1, <2>2, FindOK, KeepsFirst
  <2>3. CASE g # h
    <3>1. job'[g] = job[g] /\ g \notin crossed
      <4>1. job'[g] = job[g]
        BY <1>3, <2>3, FindOK
      <4>2. crossed' = crossed \ {h}
        BY <1>3 DEF Finds
      <4>. QED BY <2>3, <4>1, <4>2
    <3>. QED BY <1>1, <2>1, <3>1
  <2>. QED BY <2>2, <2>3
<1>4. ASSUME NEW h \in Handlers, WriteTier(h)
      PROVE  job'[g].row = FirstRow(m, p.tier)'
  <2>1. g # h /\ job'[g] = job[g]
    BY <1>4, WriteOK
  <2>2. Cross(h, job[h].memory, job[h].put.tier)
    BY <1>4 DEF WriteTier
  <2>3. job[h].memory # m \/ job[h].put.tier # p.tier
    BY <2>1, <2>2, CrossedBy
  <2>4. Copies(m, p.tier)' = Copies(m, p.tier)
    BY <1>4, <2>3, WriteCopies
  <2>5. g \notin crossed
    BY <2>1, <2>2 DEF Cross
  <2>. QED BY <1>1, <2>1, <2>4, <2>5
<1>5. ASSUME NEW h \in Handlers, NEW gone, Drops(h, gone)
      PROVE  job'[g].row = FirstRow(m, p.tier)'
  <2>1. g # h /\ job'[g] = job[g]
    BY <1>5, DropOK
  <2>2. g \notin crossed
    BY <1>5, <2>1 DEF Drops, Cross
  <2>3. Copies(m, p.tier) \cap gone = {}
    <3>1. CASE gone = RowsOf(job[h].memory) /\ Cross(h, job[h].memory, None)
      <4>1. job[h].memory # m
        BY <2>1, <3>1, CrossedBy
      <4>. QED BY <3>1, <4>1 DEF RowsOf, Copies
    <3>2. ASSUME NEW q, gone = Copies(job[h].memory, q.tier),
                 Cross(h, job[h].memory, q.tier)
          PROVE  Copies(m, p.tier) \cap gone = {}
      <4>1. job[h].memory # m \/ q.tier # p.tier
        BY <2>1, <3>2, CrossedBy
      <4>. QED BY <3>2, <4>1 DEF Copies
    <3>. QED BY <1>5, <3>1, <3>2 DEF Drops
  <2>4. Copies(m, p.tier)' = Copies(m, p.tier)
    BY <1>5, <2>3, DropCopies
  <2>. QED BY <1>1, <2>1, <2>2, <2>4
<1>6. ~Crash
  BY CrashOK, IdleOK
<1>7. CASE UNCHANGED vars
  BY <1>1, <1>7, UnchangedOK, KeepsCopies
<1>. QED BY <1>2, <1>3, <1>4, <1>5, <1>6, <1>7, Steps

LEMMA WriteSeen ==
  ASSUME TypeOK, JobsGood, WritingInv, NEW h \in Handlers, NEW m \in Memories,
         NEW p \in Put, WriteTier(h), h \notin crossed,
         job[h].memory = m, job[h].put = p
  PROVE  View(m, p.tier)' = p.content
<1>1. TypeOK' /\ FirstRow(m, p.tier)' = Least(Copies(m, p.tier)')
      /\ FirstRow(m, p.tier) = Least(Copies(m, p.tier))
  BY WriteOK, FirstRowIs
<1>2. job[h].row = FirstRow(m, p.tier)
  BY DEF WritingInv, WriteTier
<1>3. CASE job[h].row = NoRow
  <2>1. Copies(m, p.tier)' = {nrows + 1}
    <3>1. Copies(m, p.tier) = {}
      BY <1>2, <1>3, FirstRowOK
    <3>2. Copies(m, p.tier)' = Copies(m, p.tier) \cup {nrows + 1}
      BY <1>3, WriteCopies
    <3>. QED BY <3>1, <3>2
  <2>2. nrows + 1 \in Nat \ {0}
    BY DEF TypeOK
  <2>3. Least({nrows + 1}) = nrows + 1
    BY <2>2, LeastOK
  <2>4. tiers'[nrows + 1].content = p.content
    BY <1>3 DEF WriteTier, InsertTier
  <2>. QED BY <1>1, <2>1, <2>3, <2>4 DEF View
<1>4. CASE job[h].row # NoRow
  <2>1. Copies(m, p.tier)' = Copies(m, p.tier) /\ Copies(m, p.tier) # {}
    BY <1>2, <1>4, FirstRowOK, WriteCopies
  <2>2. FirstRow(m, p.tier)' = job[h].row /\ job[h].row \in Copies(m, p.tier)
    BY <1>2, <2>1, KeepsFirst, FirstRowOK
  <2>3. job[h].row \in DOMAIN tiers /\ tiers[job[h].row] \in TierRow
    <3>1. job[h].row \in DOMAIN tiers
      BY <2>2 DEF Copies
    <3>. QED BY <3>1 DEF TypeOK
  <2>4. tiers'[job[h].row].content = p.content
    BY <1>4, <2>3 DEF WriteTier, TierRow
  <2>. QED BY <2>1, <2>2, <2>4 DEF View
<1>. QED BY <1>3, <1>4

\* A tier written by upsert_tier is what readers get from then on, unless
\* another handler wrote or deleted that tier between its two calls.
THEOREM WritesAreSeen == Spec => WritesSeen
<1>1. Init => WritingInv
  BY IdleOK DEF Init, WritingInv
<1>2. TypeOK /\ JobsGood /\ WritingInv /\ [Next]_vars =>
        [\A h \in Handlers, m \in Memories, p \in Put :
           /\ WriteTier(h) /\ h \notin crossed
           /\ job[h].memory = m /\ job[h].put = p
           => View(m, p.tier)' = p.content]_vars
  BY WriteSeen
<1>3. TypeOK /\ JobsGood /\ WritingInv /\ [Next]_vars => WritingInv'
  BY WritingStep
<1>. QED BY <1>1, <1>2, <1>3, TypeInvariant, PTL DEF Spec, WritesSeen

-----------------------------------------------------------------------------
(* Deletions                                                               *)

\* What delete_memory has removed stays removed, unless it is crossed.
DeletionInv ==
  \A h \in Handlers, m \in Memories :
    job[h].memory = m /\ h \notin crossed =>
      /\ job[h].pc \in {"unbind", "drop_memory"} => RowsOf(m) = {}
      /\ job[h].pc = "drop_memory" => \A b \in bindings : b[2] # m

LEMMA DeletionStep ==
  ASSUME TypeOK, JobsGood, DeletionInv, [Next]_vars
  PROVE  DeletionInv'
<1>. SUFFICES ASSUME NEW g \in Handlers, NEW m \in Memories,
                     job'[g].memory = m, g \notin crossed',
                     job'[g].pc \in {"unbind", "drop_memory"}
              PROVE  /\ RowsOf(m)' = {}
                     /\ job'[g].pc = "drop_memory" => \A b \in bindings' : b[2] # m
  BY DEF DeletionInv
\* Steps of others that add nothing.
<1>1. ASSUME job'[g] = job[g], g \notin crossed,
             RowsOf(m)' \subseteq RowsOf(m), bindings' \subseteq bindings
      PROVE  /\ RowsOf(m)' = {}
             /\ job'[g].pc = "drop_memory" => \A b \in bindings' : b[2] # m
  BY <1>1 DEF DeletionInv
<1>2. ASSUME NEW h \in Handlers, Calls(h)
      PROVE  /\ RowsOf(m)' = {}
             /\ job'[g].pc = "drop_memory" => \A b \in bindings' : b[2] # m
  <2>1. RowsOf(m)' = RowsOf(m)
    BY <1>2, CallOK, KeepsCopies
  <2>2. CASE g = h
    <3>1. Unbind(g)
      BY <1>2, <2>2, CallOK
    <3>2. job[g] \in Job
      BY DEF JobsGood
    <3>3. /\ job[g].pc = "unbind" /\ crossed' = crossed
          /\ job' = [job EXCEPT ![g] = [job[g] EXCEPT !.pc = "drop_memory"]]
          /\ bindings' = {b \in bindings : b[2] # job[g].memory}
      BY <3>1 DEF Unbind, Step
    <3>4. job[g].memory = m
      BY <3>2, <3>3 DEF JobsGood, Job
    <3>. QED BY <2>1, <3>3, <3>4 DEF DeletionInv
  <2>3. CASE g # h
    <3>1. job'[g] = job[g] /\ g \notin crossed
      BY <1>2, <2>3, CallOK DEF Calls
    <3>2. CASE bindings' \subseteq bindings
      BY <1>1, <2>1, <3>1, <3>2
    <3>3. CASE Bind(h)
      <4>1. /\ bindings' = bindings \cup {<<job[h].task, job[h].memory>>}
            /\ Cross(h, job[h].memory, None)
        BY <3>3 DEF Bind
      <4>2. job[h].memory # m
        BY <2>3, <3>1, <4>1, CrossedBy
      <4>. QED BY <2>1, <3>1, <4>1, <4>2 DEF DeletionInv
    <3>. QED BY <1>2, <3>2, <3>3 DEF Calls
  <2>. QED BY <2>2, <2>3
<1>3. ASSUME NEW h \in Handlers, NEW q, Finds(h, q)
      PROVE  /\ RowsOf(m)' = {}
             /\ job'[g].pc = "drop_memory" => \A b \in bindings' : b[2] # m
  <2>1. g # h /\ job'[g] = job[g]
    BY <1>3, FindOK
  <2>2. UNCHANGED <<tiers, bindings>> /\ g \notin crossed
    BY <1>3, <2>1 DEF Finds, tierTable, links
  <2>. QED BY <1>1, <2>1, <2>2, KeepsCopies
<1>4. ASSUME NEW h \in Handlers, WriteTier(h)
      PROVE  /\ RowsOf(m)' = {}
             /\ job'[g].pc = "drop_memory" => \A b \in bindings' : b[2] # m
  <2>1. g # h /\ job'[g] = job[g] /\ bindings' = bindings
    BY <1>4, WriteOK
  <2>2. Cross(h, job[h].memory, job[h].put.tier)
    BY <1>4 DEF WriteTier
  <2>3. job[h].memory # m /\ g \notin crossed
    BY <2>1, <2>2, CrossedBy DEF Cross
  <2>4. RowsOf(m)' = RowsOf(m)
    BY <1>4, <2>3, WriteCopies
  <2>. QED BY <1>1, <2>1, <2>3, <2>4
<1>5. ASSUME NEW h \in Handlers, NEW gone, Drops(h, gone)
      PROVE  /\ RowsOf(m)' = {}
             /\ job'[g].pc = "drop_memory" => \A b \in bindings' : b[2] # m
  <2>1. RowsOf(m)' = RowsOf(m) \ gone /\ bindings' = bindings
    BY <1>5, DropCopies, DropOK
  <2>2. CASE g = h
    <3>1. job'[h].pc = "unbind" /\ job[h].pc = "drop_tiers" /\ job[h].memory = m
      BY <1>5, <2>2, DropOK
    <3>2. gone = RowsOf(m)
      BY <1>5, <3>1 DEF Drops
    <3>. QED BY <2>1, <2>2, <3>1, <3>2
  <2>3. CASE g # h
    <3>1. job'[g] = job[g] /\ g \notin crossed
      BY <1>5, <2>3, DropOK DEF Drops, Cross
    <3>. QED BY <1>1, <2>1, <3>1
  <2>. QED BY <2>2, <2>3
<1>6. ~Crash
  BY CrashOK, IdleOK
<1>7. CASE UNCHANGED vars
  BY <1>1, <1>7, UnchangedOK, KeepsCopies
<1>. QED BY <1>2, <1>3, <1>4, <1>5, <1>6, <1>7, Steps

LEMMA DeletionDone ==
  ASSUME TypeOK, JobsGood, DeletionInv, NEW h \in Handlers, NEW m \in Memories,
         DropMemory(h), h \notin crossed, job[h].memory = m
  PROVE  RowsOf(m)' = {} /\ \A b \in bindings' : b[2] # m
<1>1. job[h].pc = "drop_memory" /\ UNCHANGED <<tiers, bindings>>
  BY DEF DropMemory, tierTable, links
<1>2. RowsOf(m)' = RowsOf(m)
  BY <1>1, KeepsCopies
<1>. QED BY <1>1, <1>2 DEF DeletionInv

\* When delete_memory ends nothing refers to the memory any more, unless
\* another handler wrote a tier or a binding of it between the calls.
THEOREM DeletionsAreComplete == Spec => DeletionComplete
<1>1. Init => DeletionInv
  BY IdleOK DEF Init, DeletionInv
<1>2. TypeOK /\ JobsGood /\ DeletionInv /\ [Next]_vars =>
        [\A h \in Handlers, m \in Memories :
           DropMemory(h) /\ h \notin crossed /\ job[h].memory = m =>
             RowsOf(m)' = {} /\ \A b \in bindings' : b[2] # m]_vars
  BY DeletionDone
<1>3. TypeOK /\ JobsGood /\ DeletionInv /\ [Next]_vars => DeletionInv'
  BY DeletionStep
<1>. QED BY <1>1, <1>2, <1>3, TypeInvariant, PTL DEF Spec, DeletionComplete
-----------------------------------------------------------------------------
(* What queries count                                                      *)

\* The queries that have still to touch m.
Pending(m) == {h \in Handlers : m \in job[h].found}

\* Only a query has memories to touch.
FoundInv == \A h \in Handlers : job[h].pc # "touch" => job[h].found = {}

Counted(m) ==
  /\ access[m] + Cardinality(Pending(m)) <= listed[m]
  /\ faults = 0 => access[m] + Cardinality(Pending(m)) = listed[m]

\* An id that was never issued has not been counted either: it starts at 0.
AccessInv ==
  \A m \in Memories :
    /\ m \notin Issued => access[m] = 0 /\ listed[m] = 0 /\ Pending(m) = {}
    /\ m \in memories => Counted(m)

LEMMA PendingOK ==
  ASSUME NEW m
  PROVE  /\ IsFiniteSet(Pending(m)) /\ Cardinality(Pending(m)) \in Nat
         /\ IsFiniteSet(Pending(m)') /\ Cardinality(Pending(m)') \in Nat
<1>1. Pending(m) \subseteq Handlers /\ Pending(m)' \subseteq Handlers
  BY DEF Pending
<1>. QED BY <1>1, FS_Subset, FS_CardinalityType, MemoryConstantsOK

LEMMA NextPutKeeps ==
  ASSUME NEW j \in Job
  PROVE  /\ j.found = {} => NextPut(j).found = {}
         /\ NextPut(j).pc # "idle" =>
              NextPut(j).memory = j.memory /\ NextPut(j).task = j.task
<1>. DEFINE rest == [j EXCEPT !.put = NoPut, !.row = NoRow]
<1>1. /\ rest \in Job
      /\ rest.found = j.found /\ rest.memory = j.memory /\ rest.task = j.task
  BY DEF Job
<1>. HIDE DEF rest
<1>2. /\ [rest EXCEPT !.pc = "tier"].found = rest.found
      /\ [rest EXCEPT !.pc = "tier"].memory = rest.memory
      /\ [rest EXCEPT !.pc = "tier"].task = rest.task
      /\ [rest EXCEPT !.pc = "bind"].found = rest.found
      /\ [rest EXCEPT !.pc = "bind"].memory = rest.memory
      /\ [rest EXCEPT !.pc = "bind"].task = rest.task
  BY <1>1 DEF Job
<1>3. Idle.found = {} /\ Idle.pc = "idle"
  BY DEF Idle
<1>4. NextPut(j) \in {[rest EXCEPT !.pc = "tier"], [rest EXCEPT !.pc = "bind"], Idle}
  BY DEF NextPut, rest
<1>. QED BY <1>1, <1>2, <1>3, <1>4

\* The steps that neither list nor touch a memory.
Uncounted(h) ==
  \/ UpdateRow(h) \/ GetUpdated(h) \/ FindTier(h) \/ WriteTier(h) \/ Bind(h)
  \/ DropTier(h) \/ DropTiers(h) \/ Unbind(h) \/ DropMemory(h)
  \/ UnbindTask(h) \/ DropTask(h)
  \/ Store(h) \/ UpdateRequest(h) \/ DeleteRequest(h) \/ PutTierRequest(h)
  \/ DropTierRequest(h) \/ BindRequest(h) \/ DeleteTaskRequest(h)
  \/ FailedCall(h) /\ job[h].pc # "touch"

LEMMA UncountedJob ==
  ASSUME TypeOK, JobsGood, FoundInv, NEW h \in Handlers, Uncounted(h)
  PROVE  \E j : j.found = {} /\ job' = [job EXCEPT ![h] = j] /\ job[h].pc # "touch"
<1>1. job[h] \in Job
  BY DEF JobsGood
<1>2. job[h].pc # "touch" => job[h].found = {}
  BY DEF FoundInv
<1>3. Idle.found = {} /\ Idle \in Job
  BY IdleOK DEF Idle
<1>4. CASE UpdateRow(h) \/ Unbind(h) \/ UnbindTask(h) \/ DropTiers(h)
  <2>1. \A pc \in Pcs : [job[h] EXCEPT !.pc = pc].found = job[h].found
    BY <1>1 DEF Job
  <2>2. PICK pc \in Pcs :
          job' = [job EXCEPT ![h] = [job[h] EXCEPT !.pc = pc]] /\ job[h].pc # "touch"
    BY <1>4 DEF UpdateRow, Unbind, UnbindTask, DropTiers, Step, Pcs
  <2> QED BY <1>2, <2>1, <2>2
<1>5. CASE GetUpdated(h) \/ WriteTier(h)
  <2>1. /\ job[h].pc # "touch"
        /\ \E j \in {NextPut(job[h]), Idle} : job' = [job EXCEPT ![h] = j]
    BY <1>5 DEF GetUpdated, WriteTier, Step
  <2> QED BY <1>1, <1>2, <1>3, <2>1, NextPutKeeps
<1>6. CASE FindTier(h)
  <2>1. PICK p : Finds(h, p)
    BY <1>6, FindIs
  <2>. DEFINE j == [job[h] EXCEPT !.pc = "write", !.puts = @ \ {p}, !.put = p,
                                  !.row = FirstRow(job[h].memory, p.tier)]
  <2>2. j.found = job[h].found
    BY <1>1 DEF Job
  <2>3. job' = [job EXCEPT ![h] = j] /\ job[h].pc = "tier"
    BY <2>1 DEF Finds
  <2>. HIDE DEF j
  <2> QED BY <1>2, <2>2, <2>3
<1>7. CASE Bind(h) \/ DropTier(h) \/ DropMemory(h) \/ DropTask(h)
  <2>1. job' = [job EXCEPT ![h] = Idle] /\ job[h].pc # "touch"
    BY <1>7 DEF Bind, DropTier, DropMemory, DropTask, Step
  <2> QED BY <1>3, <2>1
<1>8. CASE Store(h)
  <2>1. PICK puts \in Requests, task \in Tasks \cup {None} :
          Begin(h, NextPut([Idle EXCEPT !.memory = nmemories + 1, !.puts = puts,
                                        !.task = task]),
                task \in tasks \cup {None})
    BY <1>8 DEF Store
  <2>. DEFINE i == [Idle EXCEPT !.memory = nmemories + 1, !.puts = puts, !.task = task]
  <2>2. nmemories + 1 \in Memories
    BY <1>8, MemoryConstantsOK DEF Store, TypeOK, Memories
  <2>3. i \in Job /\ i.found = {}
    BY <2>2 DEF Idle, Job, NoRow, NoPut, Requests
  <2>4. job' = [job EXCEPT ![h] = NextPut(i)] /\ job[h].pc = "idle"
    BY <2>1 DEF Begin
  <2>. HIDE DEF i
  <2> QED BY <2>3, <2>4, NextPutKeeps
<1>9. ASSUME NEW pc, NEW puts, NEW task, Request(h, pc, puts, task)
      PROVE  \E j : j.found = {} /\ job' = [job EXCEPT ![h] = j] /\ job[h].pc # "touch"
  <2>1. PICK m : /\ job' = [job EXCEPT ![h] = [Idle EXCEPT !.pc = pc, !.memory = m,
                                                !.puts = puts, !.task = task]]
                 /\ job[h].pc = "idle"
    BY <1>9 DEF Request, Begin
  <2>. DEFINE j == [Idle EXCEPT !.pc = pc, !.memory = m, !.puts = puts, !.task = task]
  <2>2. j.found = {}
    BY DEF Idle
  <2>3. job' = [job EXCEPT ![h] = j]
    BY <2>1
  <2>. HIDE DEF j
  <2> QED BY <2>1, <2>2, <2>3
<1>10. CASE \/ UpdateRequest(h) \/ DeleteRequest(h) \/ PutTierRequest(h)
            \/ DropTierRequest(h) \/ BindRequest(h)
  BY <1>9, <1>10 DEF UpdateRequest, DeleteRequest, PutTierRequest,
                     DropTierRequest, BindRequest
<1>11. CASE DeleteTaskRequest(h)
  <2>1. PICK task : /\ job' = [job EXCEPT ![h] = [Idle EXCEPT !.pc = "unbind_task",
                                                             !.task = task]]
                    /\ job[h].pc = "idle"
    BY <1>11 DEF DeleteTaskRequest, Begin
  <2>. DEFINE j == [Idle EXCEPT !.pc = "unbind_task", !.task = task]
  <2>2. j.found = {}
    BY DEF Idle
  <2>3. job' = [job EXCEPT ![h] = j]
    BY <2>1
  <2>. HIDE DEF j
  <2> QED BY <2>1, <2>2, <2>3
<1>12. CASE FailedCall(h) /\ job[h].pc # "touch"
  <2>1. CASE job[h].pc = "tier"
    <3>1. PICK p \in job[h].puts :
            job' = [job EXCEPT ![h] = NextPut([job[h] EXCEPT !.puts = @ \ {p}])]
      BY <1>12, <2>1 DEF FailedCall, Step
    <3>2. /\ [job[h] EXCEPT !.puts = @ \ {p}] \in Job
          /\ [job[h] EXCEPT !.puts = @ \ {p}].found = job[h].found
      BY <1>1 DEF Job
    <3> QED BY <1>2, <1>12, <3>1, <3>2, NextPutKeeps
  <2>2. CASE job[h].pc = "write"
    <3>1. job' = [job EXCEPT ![h] = NextPut(job[h])]
      BY <1>12, <2>2 DEF FailedCall, Step
    <3> QED BY <1>1, <1>2, <1>12, <3>1, NextPutKeeps
  <2>3. CASE job[h].pc = "unbind_task"
    <3>1. job' = [job EXCEPT ![h] = [job[h] EXCEPT !.pc = "drop_task"]]
      BY <1>12, <2>3 DEF FailedCall, Step
    <3>2. [job[h] EXCEPT !.pc = "drop_task"].found = job[h].found
      BY <1>1 DEF Job
    <3> QED BY <1>2, <1>12, <3>1, <3>2
  <2>4. CASE job[h].pc \notin {"tier", "write", "touch", "unbind_task"}
    <3>1. job' = [job EXCEPT ![h] = Idle]
      BY <1>12, <2>4 DEF FailedCall, Step
    <3> QED BY <1>3, <1>12, <3>1
  <2> QED BY <1>12, <2>1, <2>2, <2>3, <2>4
<1> QED BY <1>4, <1>5, <1>6, <1>7, <1>8, <1>10, <1>11, <1>12 DEF Uncounted

\* A step after which every listing stands where it stood.
Keeps ==
  /\ \A g \in Handlers : job'[g].found = job[g].found
  /\ listed' = listed /\ faults' \in {faults, faults + 1}
  /\ \A m \in Memories : \/ access'[m] = access[m]
                         \/ access'[m] = 0 /\ m \notin memories'
  /\ nmemories' \in {nmemories, nmemories + 1}
  /\ \A m \in memories' : m \in memories \/ m \notin Issued

LEMMA UncountedKeeps ==
  ASSUME TypeOK, JobsGood, FoundInv, NEW h \in Handlers, Uncounted(h)
  PROVE  Keeps /\ FoundInv'
<1>1. PICK j : j.found = {} /\ job' = [job EXCEPT ![h] = j] /\ job[h].pc # "touch"
  BY UncountedJob
<1>2. /\ FoundInv' /\ \A g \in Handlers : job'[g].found = job[g].found
  BY <1>1 DEF FoundInv, TypeOK
<1>3. CASE Store(h)
  <2>1. /\ UNCHANGED <<access, listed, faults>> /\ nmemories' = nmemories + 1
        /\ memories' = memories \cup {nmemories + 1}
    BY <1>3 DEF Store, history
  <2>2. nmemories + 1 \notin Issued
    BY DEF Issued, TypeOK
  <2> QED BY <1>2, <2>1, <2>2 DEF Keeps
<1>4. CASE DropMemory(h)
  <2>1. /\ UNCHANGED <<nmemories, listed, faults>>
        /\ memories' = memories \ {job[h].memory}
        /\ access' = [access EXCEPT ![job[h].memory] = 0]
    BY <1>4 DEF DropMemory, history
  <2>2. \A m \in Memories : \/ access'[m] = access[m]
                            \/ access'[m] = 0 /\ m \notin memories'
    BY <2>1 DEF TypeOK
  <2> QED BY <1>2, <2>1, <2>2 DEF Keeps
<1>5. CASE UNCHANGED <<memoryTable, listed>> /\ faults' \in {faults, faults + 1}
  BY <1>2, <1>5 DEF Keeps, memoryTable
<1>6. CASE FailedCall(h)
  BY <1>5, <1>6 DEF FailedCall
<1>7. CASE ~Store(h) /\ ~DropMemory(h) /\ ~FailedCall(h)
  <2>1. UNCHANGED <<memoryTable, history>>
    BY <1>7 DEF Uncounted, UpdateRow, GetUpdated, FindTier, WriteTier, Bind, DropTier,
       DropTiers, Unbind, UnbindTask, DropTask, UpdateRequest, DeleteRequest,
       PutTierRequest, DropTierRequest, BindRequest, DeleteTaskRequest, Request
  <2> QED BY <1>5, <2>1 DEF history
<1> QED BY <1>3, <1>4, <1>6, <1>7

LEMMA KeepsCounted ==
  ASSUME TypeOK, AccessInv, Keeps
  PROVE  AccessInv'
<1>. SUFFICES ASSUME NEW m \in Memories
              PROVE  /\ m \notin Issued' =>
                          access'[m] = 0 /\ listed'[m] = 0 /\ Pending(m)' = {}
                     /\ m \in memories' => Counted(m)'
  BY DEF AccessInv
<1>1. Pending(m)' = Pending(m)
  BY DEF Keeps, Pending
<1>2. PICK c \in Nat : c = Cardinality(Pending(m))
  BY PendingOK
<1>3. /\ access[m] \in Nat /\ listed[m] \in Nat /\ nmemories \in Nat /\ faults \in Nat
  BY DEF TypeOK
<1>4. m \notin Issued' => m \notin Issued
  BY <1>3 DEF Keeps, Issued
<1>5. ASSUME m \notin Issued'
      PROVE  access'[m] = 0 /\ listed'[m] = 0 /\ Pending(m)' = {}
  BY <1>1, <1>4, <1>5 DEF AccessInv, Keeps
<1>6. ASSUME m \in memories'
      PROVE  Counted(m)'
  <2>1. access'[m] = access[m] /\ listed'[m] = listed[m] /\ (faults' = 0 => faults = 0)
    BY <1>3, <1>6 DEF Keeps
  <2>2. CASE m \in memories
    <3>1. Counted(m)
      BY <2>2 DEF AccessInv
    <3> QED BY <1>1, <2>1, <3>1 DEF Counted
  <2>3. CASE m \notin Issued
    <3>1. access[m] = 0 /\ listed[m] = 0 /\ Pending(m) = {}
      BY <2>3 DEF AccessInv
    <3>2. Cardinality(Pending(m)') = 0
      BY <1>1, <3>1, FS_EmptySet
    <3> QED BY <2>1, <3>1, <3>2 DEF Counted
  <2> QED BY <1>6, <2>2, <2>3 DEF Keeps
<1> QED BY <1>5, <1>6

\* A query lists each memory it found, and has it to touch.
LEMMA QueryCounted ==
  ASSUME TypeOK, FoundInv, AccessInv, NEW h \in Handlers, Query(h)
  PROVE  FoundInv' /\ AccessInv'
<1>1. PICK found \in SUBSET memories \ {{}} :
        /\ Begin(h, [Idle EXCEPT !.pc = "touch", !.found = found], TRUE)
        /\ listed' = [m \in Memories |-> IF m \in found THEN listed[m] + 1
                                                        ELSE listed[m]]
  BY DEF Query
<1>2. PICK j : j = [Idle EXCEPT !.pc = "touch", !.found = found]
  OBVIOUS
<1>3. /\ j.pc = "touch" /\ j.found = found
      /\ job' = [job EXCEPT ![h] = j] /\ job[h].pc = "idle"
  BY <1>1, <1>2 DEF Idle, Begin
<1>4. UNCHANGED <<memories, nmemories, access, faults>>
  BY DEF Query, memoryTable
<1>5. /\ job'[h].found = found /\ job[h].found = {}
      /\ \A g \in Handlers \ {h} : job'[g] = job[g]
      /\ job'[h].pc = "touch"
  BY <1>3 DEF FoundInv, TypeOK
<1>6. FoundInv'
  BY <1>5 DEF FoundInv
<1>7. ASSUME NEW m \in Memories
      PROVE  /\ m \notin Issued' =>
                  access'[m] = 0 /\ listed'[m] = 0 /\ Pending(m)' = {}
             /\ m \in memories' => Counted(m)'
  <2>1. access[m] \in Nat /\ listed[m] \in Nat
    BY DEF TypeOK
  <2>2. CASE m \in found
    <3>1. Pending(m)' = Pending(m) \cup {h} /\ h \notin Pending(m)
      BY <1>5, <2>2 DEF Pending
    <3>2. Cardinality(Pending(m)') = Cardinality(Pending(m)) + 1
      BY <3>1, PendingOK, FS_AddElement
    <3>3. m \in memories /\ m \in Issued' /\ Counted(m)
      BY <1>4, <2>2 DEF TypeOK, Issued, AccessInv
    <3>4. listed'[m] = listed[m] + 1
      BY <1>1, <2>2
    <3>5. PICK c \in Nat, d \in Nat :
            c = Cardinality(Pending(m)) /\ d = Cardinality(Pending(m)') /\ d = c + 1
      BY <3>2, PendingOK
    <3> QED BY <1>4, <2>1, <3>3, <3>4, <3>5 DEF Counted
  <2>3. CASE m \notin found
    <3>1. Pending(m)' = Pending(m) /\ listed'[m] = listed[m]
      BY <1>1, <1>5, <2>3 DEF Pending
    <3> QED BY <1>4, <3>1 DEF AccessInv, Counted, Issued
  <2> QED BY <2>2, <2>3
<1> QED BY <1>6, <1>7 DEF AccessInv

\* One memory less to touch, or none of the query's.
Touched(h, m, j) ==
  /\ job[h].pc = "touch" /\ m \in job[h].found
  /\ j.found = job[h].found \ {m}
  /\ j.pc = "touch" \/ j.found = {}
  /\ job' = [job EXCEPT ![h] = j]

LEMMA TouchIs ==
  ASSUME TypeOK, NEW h \in Handlers, NEW m \in job[h].found, job[h].pc = "touch",
         Step(h, IF job[h].found = {m} THEN Idle
                 ELSE [job[h] EXCEPT !.found = @ \ {m}])
  PROVE  \E j : Touched(h, m, j)
<1>1. job[h] \in Job /\ Idle.found = {}
  BY DEF TypeOK, Idle
<1>2. CASE job[h].found = {m}
  <2>1. Touched(h, m, Idle)
    BY <1>1, <1>2 DEF Step, Touched
  <2> QED BY <2>1
<1>3. CASE job[h].found # {m}
  <2>1. PICK j : j = [job[h] EXCEPT !.found = @ \ {m}]
    OBVIOUS
  <2>2. j.found = job[h].found \ {m} /\ j.pc = "touch"
    BY <1>1, <2>1 DEF Job
  <2>3. Touched(h, m, j)
    BY <1>3, <2>1, <2>2 DEF Step, Touched
  <2> QED BY <2>3
<1> QED BY <1>2, <1>3

\* Touching a memory turns a pending listing into a counted one; a failure
\* loses the listing.
LEMMA TouchCounted ==
  ASSUME TypeOK, FoundInv, AccessInv, NEW h \in Handlers, NEW n, NEW j,
         Touched(h, n, j), UNCHANGED <<memories, nmemories, listed>>,
         \/ /\ access' = IF n \in memories THEN [access EXCEPT ![n] = @ + 1] ELSE access
            /\ faults' = faults
         \/ access' = access /\ faults' = faults + 1
  PROVE  FoundInv' /\ AccessInv'
<1>1. /\ job'[h] = j /\ \A g \in Handlers \ {h} : job'[g] = job[g]
      /\ n \in job[h].found /\ j.found = job[h].found \ {n}
      /\ j.pc = "touch" \/ j.found = {}
  BY DEF Touched, TypeOK
<1>2. FoundInv'
  BY <1>1 DEF FoundInv
<1>3. ASSUME NEW m \in Memories
      PROVE  /\ m \notin Issued' =>
                  access'[m] = 0 /\ listed'[m] = 0 /\ Pending(m)' = {}
             /\ m \in memories' => Counted(m)'
  <2>1. access[m] \in Nat /\ listed[m] \in Nat /\ faults \in Nat
    BY DEF TypeOK
  <2>2. CASE m = n
    <3>1. h \in Pending(m) /\ Pending(m)' = Pending(m) \ {h}
      BY <1>1, <2>2 DEF Pending
    <3>2. Cardinality(Pending(m)') = Cardinality(Pending(m)) - 1
      BY <3>1, PendingOK, FS_RemoveElement
    <3>3. m \in Issued /\ (m \in memories => Counted(m))
      BY <3>1 DEF AccessInv
    <3>4. PICK c \in Nat, d \in Nat :
            c = Cardinality(Pending(m)) /\ d = Cardinality(Pending(m)') /\ d = c - 1
      BY <3>2, PendingOK
    <3>5. m \in memories => \/ access'[m] = access[m] + 1 /\ faults' = faults
                            \/ access'[m] = access[m] /\ faults' = faults + 1
      BY <2>2 DEF TypeOK
    <3> QED BY <2>1, <3>3, <3>4, <3>5 DEF Counted, Issued
  <2>3. CASE m # n
    <3>1. Pending(m)' = Pending(m) /\ access'[m] = access[m]
      BY <1>1, <2>3 DEF Pending, TypeOK
    <3> QED BY <2>1, <3>1 DEF AccessInv, Counted, Issued
  <2> QED BY <2>2, <2>3
<1> QED BY <1>2, <1>3 DEF AccessInv

LEMMA AccessStep ==
  ASSUME TypeOK, JobsGood, FoundInv, AccessInv, [Next]_vars
  PROVE  FoundInv' /\ AccessInv'
<1>1. ASSUME NEW h \in Handlers, Uncounted(h) PROVE FoundInv' /\ AccessInv'
  BY <1>1, UncountedKeeps, KeepsCounted
<1>2. ASSUME NEW h \in Handlers, Query(h) PROVE FoundInv' /\ AccessInv'
  BY <1>2, QueryCounted
<1>3. ASSUME NEW h \in Handlers, Touch(h) PROVE FoundInv' /\ AccessInv'
  <2>1. PICK m \in job[h].found :
          /\ access' = IF m \in memories THEN [access EXCEPT ![m] = @ + 1] ELSE access
          /\ Step(h, IF job[h].found = {m} THEN Idle
                     ELSE [job[h] EXCEPT !.found = @ \ {m}])
    BY <1>3 DEF Touch
  <2>2. /\ job[h].pc = "touch"
        /\ UNCHANGED <<memories, nmemories, listed, faults>>
    BY <1>3 DEF Touch, history
  <2>3. PICK j : Touched(h, m, j)
    BY <2>1, <2>2, TouchIs
  <2> QED BY <2>1, <2>2, <2>3, TouchCounted
<1>4. ASSUME NEW h \in Handlers, FailedCall(h), job[h].pc = "touch"
      PROVE  FoundInv' /\ AccessInv'
  <2>1. PICK m \in job[h].found :
          Step(h, IF job[h].found = {m} THEN Idle
                  ELSE [job[h] EXCEPT !.found = @ \ {m}])
    BY <1>4 DEF FailedCall
  <2>2. /\ UNCHANGED <<memories, nmemories, access, listed>> /\ faults' = faults + 1
    BY <1>4 DEF FailedCall, memoryTable
  <2>3. PICK j : Touched(h, m, j)
    BY <1>4, <2>1, TouchIs
  <2> QED BY <2>2, <2>3, TouchCounted
<1>5. CASE Crash
  <2>1. /\ UNCHANGED <<memories, nmemories, access, listed>> /\ faults' = faults + 1
        /\ \A h \in Handlers : job'[h].found = {}
    BY <1>5 DEF Crash, memoryTable, Idle
  <2>2. \A m : Pending(m)' = {}
    BY <2>1 DEF Pending
  <2>3. ASSUME NEW m \in memories PROVE Counted(m)'
    <3>1. /\ Cardinality(Pending(m)') = 0 /\ Cardinality(Pending(m)) \in Nat
          /\ faults \in Nat /\ m \in Memories
      BY <2>2, FS_EmptySet, PendingOK, MemoryConstantsOK DEF TypeOK, Issued, Memories
    <3>2. /\ Counted(m) /\ access[m] \in Nat /\ listed[m] \in Nat
      BY <3>1 DEF AccessInv, TypeOK
    <3> QED BY <2>1, <3>1, <3>2 DEF Counted
  <2> QED BY <2>1, <2>2, <2>3 DEF AccessInv, FoundInv, Issued
<1>6. CASE UNCHANGED vars
  BY <1>6 DEF vars, memoryTable, history, FoundInv, AccessInv, Counted, Pending, Issued
<1> QED BY <1>1, <1>2, <1>3, <1>4, <1>5, <1>6
     DEF Next, Receive, HandlerStep, Uncounted

\* Every listing of a memory by a query is counted once in its access_count
\* or is still to be, whoever else queries, writes or deletes; a failure may
\* only lose some (socket_server.rs, the touch_memory calls of memory:query).
THEOREM AccessIsCounted == Spec => []AccessCounted
<1>1. Init => FoundInv /\ AccessInv
  <2>. SUFFICES ASSUME Init PROVE FoundInv /\ AccessInv
    OBVIOUS
  <2>1. \A h \in Handlers : job[h].found = {}
    BY DEF Init, Idle
  <2>2. \A m : Pending(m) = {}
    BY <2>1 DEF Pending
  <2> QED BY <2>1, <2>2 DEF Init, FoundInv, AccessInv
<1>2. TypeOK /\ AccessInv => AccessCounted
  <2>. SUFFICES ASSUME TypeOK, AccessInv, NEW m \in memories
                PROVE  /\ access[m] + Cardinality({h \in Handlers : m \in job[h].found})
                            <= listed[m]
                       /\ faults = 0 =>
                            access[m] + Cardinality({h \in Handlers : m \in job[h].found})
                              = listed[m]
    BY DEF AccessCounted
  <2>1. m \in Memories
    BY MemoryConstantsOK DEF TypeOK, Issued, Memories
  <2> QED BY <2>1 DEF AccessInv, Counted, Pending
<1> QED BY <1>1, <1>2, AccessStep, TypeInvariant, PTL DEF Spec

-----------------------------------------------------------------------------
(* A calm store                                                            *)

\* No tier has two rows.
Single ==
  \A m \in Memories, t \in Tiers : \A r, q \in Copies(m, t) : r = q

\* Rows and bindings refer to what is there.
RowsReferTo(m) == RowsOf(m) # {} => m \in memories

Linked == \A b \in bindings : b[2] \in memories /\ (faults = 0 => b[1] \in tasks)

\* What the handler of h refers to is there, and what it has found or removed
\* is still so.
Apt(h) ==
  /\ job[h].pc \notin {"idle", "touch", "unbind_task", "drop_task"} =>
       job[h].memory \in memories /\ job[h].task \in tasks \cup {None}
  /\ job[h].pc = "write" /\ job[h].row = NoRow =>
       Copies(job[h].memory, job[h].put.tier) = {}
  /\ job[h].pc \in {"unbind", "drop_memory"} => RowsOf(job[h].memory) = {}
  /\ job[h].pc = "drop_memory" => \A b \in bindings : b[2] # job[h].memory
  /\ job[h].pc = "drop_task" /\ faults = 0 => \A b \in bindings : b[1] # job[h].task

Tidy ==
  /\ Single /\ Linked
  /\ \A m \in Memories : RowsReferTo(m)

CalmInv ==
  calm =>
    /\ Tidy
    /\ \A g, h \in Handlers : job[g].pc # "idle" /\ job[h].pc # "idle" => g = h
    /\ \A h \in Handlers : Apt(h)

\* The handler that makes a calm step is the only one at work.
LEMMA AloneCalm ==
  ASSUME TypeOK, CalmInv, NEW h \in Handlers,
         Receive(h) \/ HandlerStep(h) \/ FailedCall(h), calm'
  PROVE  /\ calm /\ Tidy /\ Apt(h)
         /\ \A g \in Handlers \ {h} : job[g].pc = "idle" /\ job'[g] = job[g]
<1>1. CASE Receive(h)
  <2>1. /\ calm /\ \A g \in Handlers \ {h} : job[g].pc = "idle"
        /\ \E j : job' = [job EXCEPT ![h] = j]
    BY <1>1 DEF Receive, Store, UpdateRequest, DeleteRequest, PutTierRequest,
       DropTierRequest, BindRequest, DeleteTaskRequest, Query, Request, Begin
  <2> QED BY <2>1 DEF CalmInv, TypeOK
<1>2. CASE HandlerStep(h) \/ FailedCall(h)
  <2>1. /\ calm /\ job[h].pc # "idle"
        /\ \E j : job' = [job EXCEPT ![h] = j]
    BY <1>2 DEF HandlerStep, FailedCall, UpdateRow, GetUpdated, FindTier, WriteTier,
       Bind, DropTier, DropTiers, Unbind, DropMemory, UnbindTask, DropTask, Touch, Step
  <2> QED BY <2>1 DEF CalmInv, TypeOK
<1> QED BY <1>1, <1>2

\* What is left to show of such a step.
LEMMA CalmOf ==
  ASSUME NEW h \in Handlers, Tidy', Apt(h)',
         \A g \in Handlers \ {h} : job[g].pc = "idle" /\ job'[g] = job[g]
  PROVE  CalmInv'
<1>1. \A g \in Handlers \ {h} : Apt(g)'
  BY DEF Apt
<1> QED BY <1>1 DEF CalmInv

\* A step that changes no table keeps them tidy; a failure only asks for less.
LEMMA TidyKept ==
  ASSUME TypeOK, Tidy, UNCHANGED <<memoryTable, tierTable, links>>,
         faults' \in {faults, faults + 1}
  PROVE  /\ Tidy' /\ (faults' = 0 => faults = 0)
         /\ UNCHANGED <<memories, tiers, bindings, tasks>>
         /\ \A m, t : Copies(m, t)' = Copies(m, t) /\ RowsOf(m)' = RowsOf(m)
<1>1. faults \in Nat
  BY DEF TypeOK
<1>2. UNCHANGED <<memories, tiers, bindings, tasks>>
  BY DEF memoryTable, tierTable, links
<1> QED BY <1>1, <1>2 DEF Tidy, Single, Linked, RowsReferTo, Copies, RowsOf

\* The job a step leaves behind.
LEMMA NextIs ==
  ASSUME TypeOK, NEW h \in Handlers, NEW j, job' = [job EXCEPT ![h] = j]
  PROVE  job'[h] = j
BY DEF TypeOK

LEMMA IdleApt ==
  ASSUME TypeOK, NEW h \in Handlers,
         \/ job' = [job EXCEPT ![h] = Idle] \/ job'[h].pc \in {"touch", "unbind_task"}
  PROVE  Apt(h)'
<1>1. job'[h].pc \in {"idle", "touch", "unbind_task"}
  BY NextIs, IdleOK
<1> QED BY <1>1 DEF Apt

LEMMA CalmRequest ==
  ASSUME TypeOK, JobsGood, CalmInv, NEW h \in Handlers, Receive(h), calm'
  PROVE  Tidy' /\ Apt(h)'
<1>1. Tidy
  BY AloneCalm
<1>2. CASE Store(h)
  <2>1. PICK puts \in Requests, task \in Tasks \cup {None} :
          Begin(h, NextPut([Idle EXCEPT !.memory = nmemories + 1, !.puts = puts,
                                        !.task = task]),
                task \in tasks \cup {None})
    BY <1>2 DEF Store
  <2>. DEFINE i == [Idle EXCEPT !.memory = nmemories + 1, !.puts = puts, !.task = task]
  <2>2. nmemories + 1 \in Memories /\ nmemories + 1 \in 1 .. nmemories + 1
    BY <1>2, MemoryConstantsOK DEF Store, TypeOK, Memories
  <2>3. i \in Job /\ i.memory = nmemories + 1 /\ i.task = task
    BY <2>2 DEF Idle, Job, NoRow, NoPut, Requests
  <2>4. job' = [job EXCEPT ![h] = NextPut(i)] /\ task \in tasks \cup {None}
    BY <2>1 DEF Begin
  <2>. HIDE DEF i
  <2>5. /\ memories' = memories \cup {nmemories + 1}
        /\ UNCHANGED <<tiers, bindings, tasks, faults>>
    BY <1>2 DEF Store, tierTable, links, history
  <2>6. Tidy'
    BY <1>1, <2>5 DEF Tidy, Single, Linked, RowsReferTo, Copies, RowsOf
  <2>7. /\ NextPut(i).pc \in {"tier", "bind", "idle"}
        /\ NextPut(i).pc # "idle" =>
             NextPut(i).memory = nmemories + 1 /\ NextPut(i).task = task
    BY <2>2, <2>3, NextPutOK, NextPutKeeps
  <2>8. job'[h] = NextPut(i)
    BY <2>4, NextIs
  <2>9. Apt(h)'
    BY <2>4, <2>5, <2>7, <2>8 DEF Apt
  <2> QED BY <2>6, <2>9
<1>3. CASE ~Store(h)
  <2>1. UNCHANGED <<memoryTable, tierTable, links, faults>>
    BY <1>3 DEF Receive, UpdateRequest, DeleteRequest, PutTierRequest, DropTierRequest,
       BindRequest, DeleteTaskRequest, Query, Request, history
  <2>2. Tidy' /\ UNCHANGED <<memories, tasks>>
    BY <1>1, <2>1, TidyKept
  <2>3. ASSUME NEW pc \in {"update", "drop_tiers", "tier", "drop_tier", "bind"},
               NEW puts, NEW task, Request(h, pc, puts, task)
        PROVE  Apt(h)'
    <3>1. PICK m : /\ job' = [job EXCEPT ![h] = [Idle EXCEPT !.pc = pc, !.memory = m,
                                                  !.puts = puts, !.task = task]]
                   /\ m \in memories /\ task \in tasks \cup {None}
      BY <2>3 DEF Request, Begin
    <3>2. PICK j : j = [Idle EXCEPT !.pc = pc, !.memory = m, !.puts = puts, !.task = task]
      OBVIOUS
    <3>3. j.pc = pc /\ j.memory = m /\ j.task = task
      BY <3>2 DEF Idle
    <3>4. job'[h] = j
      BY <3>1, <3>2, NextIs
    <3> QED BY <2>2, <3>1, <3>3, <3>4 DEF Apt
  <2>4. CASE DeleteTaskRequest(h) \/ Query(h)
    <3>1. ASSUME DeleteTaskRequest(h) PROVE job'[h].pc = "unbind_task"
      <4>1. PICK task : job'[h] = [Idle EXCEPT !.pc = "unbind_task", !.task = task]
        BY <3>1, NextIs DEF DeleteTaskRequest, Begin
      <4> QED BY <4>1 DEF Idle
    <3>2. ASSUME Query(h) PROVE job'[h].pc = "touch"
      <4>1. PICK found : job'[h] = [Idle EXCEPT !.pc = "touch", !.found = found]
        BY <3>2, NextIs DEF Query, Begin
      <4> QED BY <4>1 DEF Idle
    <3> QED BY <2>2, <2>4, <3>1, <3>2, IdleApt
  <2>5. CASE \/ UpdateRequest(h) \/ DeleteRequest(h) \/ PutTierRequest(h)
             \/ DropTierRequest(h) \/ BindRequest(h)
    <3>1. \E pc \in {"update", "drop_tiers", "tier", "drop_tier", "bind"} : \E puts, task :
            Request(h, pc, puts, task)
      BY <2>5 DEF UpdateRequest, DeleteRequest, PutTierRequest, DropTierRequest,
                  BindRequest
    <3> QED BY <2>2, <2>3, <3>1
  <2> QED BY <1>3, <2>2, <2>4, <2>5 DEF Receive
<1> QED BY <1>2, <1>3

\* The calls that change no table.
LEMMA CalmLookup ==
  ASSUME TypeOK, JobsGood, CalmInv, NEW h \in Handlers, calm',
         UpdateRow(h) \/ GetUpdated(h) \/ FindTier(h) \/ Touch(h)
  PROVE  Tidy' /\ Apt(h)'
<1>1. Tidy /\ Apt(h) /\ job[h] \in Job /\ Good(job[h], nmemories)
  BY AloneCalm DEF HandlerStep, JobsGood
<1>2. CASE Touch(h)
  <2>1. PICK m \in job[h].found :
          Step(h, IF job[h].found = {m} THEN Idle
                  ELSE [job[h] EXCEPT !.found = @ \ {m}])
    BY <1>2 DEF Touch
  <2>2. PICK j : Touched(h, m, j)
    BY <1>2, <2>1, TouchIs DEF Touch
  <2>3. UNCHANGED <<memories, tierTable, links, faults>>
    BY <1>2 DEF Touch, history
  <2>4. Tidy'
    BY <1>1, <2>3 DEF Tidy, Single, Linked, RowsReferTo, Copies, RowsOf, tierTable, links
  <2>5. job' = [job EXCEPT ![h] = Idle] \/ job'[h].pc = "touch"
    <3>1. CASE job[h].found = {m}
      BY <2>1, <3>1 DEF Step
    <3>2. CASE job[h].found # {m}
      <4>1. job'[h] = [job[h] EXCEPT !.found = @ \ {m}]
        BY <2>1, <3>2, NextIs DEF Step
      <4> QED BY <1>1, <1>2, <4>1 DEF Touch, Job
    <3> QED BY <3>1, <3>2
  <2> QED BY <2>4, <2>5, IdleApt
<1>3. CASE UpdateRow(h) \/ GetUpdated(h) \/ FindTier(h)
  <2>1. UNCHANGED <<memoryTable, tierTable, links, faults>>
    BY <1>3 DEF UpdateRow, GetUpdated, FindTier, history
  <2>2. /\ Tidy' /\ UNCHANGED <<memories, tasks>>
        /\ \A m, t : Copies(m, t)' = Copies(m, t)
    BY <1>1, <2>1, TidyKept
  <2>3. job[h].memory \in memories /\ job[h].task \in tasks \cup {None}
    BY <1>1, <1>3 DEF Apt, UpdateRow, GetUpdated, FindTier
  <2>4. CASE UpdateRow(h)
    <3>1. PICK j : j = [job[h] EXCEPT !.pc = "get"]
      OBVIOUS
    <3>2. job'[h] = j
      BY <2>4, <3>1, NextIs DEF UpdateRow, Step
    <3>3. j.pc = "get" /\ j.memory = job[h].memory /\ j.task = job[h].task
      BY <1>1, <3>1, EditOK DEF Pcs
    <3> QED BY <2>2, <2>3, <3>2, <3>3 DEF Apt
  <2>5. CASE GetUpdated(h)
    <3>1. PICK j \in {NextPut(job[h]), Idle} : job' = [job EXCEPT ![h] = j]
      BY <2>5 DEF GetUpdated, Step
    <3>2. /\ j.pc \in {"tier", "bind", "idle"}
          /\ j.pc # "idle" => j.memory = job[h].memory /\ j.task = job[h].task
      <4>1. job[h].memory \in 1 .. nmemories
        BY <1>1, <2>5 DEF Good, GetUpdated
      <4> QED BY <1>1, <3>1, <4>1, NextPutOK, NextPutKeeps, IdleOK
    <3>3. job'[h] = j
      BY <3>1, NextIs
    <3> QED BY <2>2, <2>3, <3>2, <3>3 DEF Apt
  <2>6. CASE FindTier(h)
    <3>1. PICK p : Finds(h, p)
      BY <2>6, FindIs
    <3>2. PICK j : j = [job[h] EXCEPT !.pc = "write", !.puts = @ \ {p}, !.put = p,
                                      !.row = FirstRow(job[h].memory, p.tier)]
      OBVIOUS
    <3>3. job'[h] = j
      BY <3>1, <3>2, NextIs DEF Finds
    <3>4. /\ j.pc = "write" /\ j.memory = job[h].memory /\ j.task = job[h].task
          /\ j.put = p /\ j.row = FirstRow(job[h].memory, p.tier)
      BY <1>1, <3>2 DEF Job
    <3>5. j.row = NoRow => Copies(job[h].memory, p.tier) = {}
      BY <3>4, FirstRowOK
    <3> QED BY <2>2, <2>3, <3>3, <3>4, <3>5 DEF Apt
  <2> QED BY <1>3, <2>2, <2>4, <2>5, <2>6
<1> QED BY <1>2, <1>3

LEMMA CalmWrite ==
  ASSUME TypeOK, JobsGood, CalmInv, NEW h \in Handlers, calm', WriteTier(h)
  PROVE  Tidy' /\ Apt(h)'
<1>1. Tidy /\ Apt(h) /\ job[h] \in Job /\ Good(job[h], nmemories)
  BY AloneCalm DEF HandlerStep, JobsGood
<1>2. /\ UNCHANGED <<memories, bindings, tasks, faults>>
      /\ job' = [job EXCEPT ![h] = NextPut(job[h])] /\ job[h].pc = "write"
  BY DEF WriteTier, memoryTable, links, history, Step
<1>3. job[h].memory \in memories /\ job[h].task \in tasks \cup {None}
  BY <1>1, <1>2 DEF Apt
<1>4. ASSUME NEW m \in Memories, NEW t \in Tiers
      PROVE  \A r, q \in Copies(m, t)' : r = q
  <2>1. CASE job[h].row # NoRow \/ job[h].memory # m \/ job[h].put.tier # t
    <3>1. Copies(m, t)' = Copies(m, t)
      BY <2>1, WriteCopies
    <3> QED BY <1>1, <3>1 DEF Tidy, Single
  <2>2. CASE job[h].row = NoRow /\ job[h].memory = m /\ job[h].put.tier = t
    <3>1. Copies(m, t)' = Copies(m, t) \cup {nrows + 1}
      BY <2>2, WriteCopies
    <3>2. Copies(m, t) = {}
      BY <1>1, <1>2, <2>2 DEF Apt
    <3> QED BY <3>1, <3>2
  <2> QED BY <2>1, <2>2
<1>5. ASSUME NEW m \in Memories PROVE RowsReferTo(m)'
  <2>1. CASE m = job[h].memory
    BY <1>2, <1>3, <2>1 DEF RowsReferTo
  <2>2. CASE m # job[h].memory
    <3>1. RowsOf(m)' = RowsOf(m)
      BY <2>2, WriteCopies
    <3> QED BY <1>1, <1>2, <3>1 DEF RowsReferTo, Tidy
  <2> QED BY <2>1, <2>2
<1>6. Linked'
  BY <1>1, <1>2 DEF Linked, Tidy
<1>7. Apt(h)'
  <2>1. job[h].memory \in 1 .. nmemories
    BY <1>1, <1>2 DEF Good
  <2>2. /\ NextPut(job[h]).pc \in {"tier", "bind", "idle"}
        /\ NextPut(job[h]).pc # "idle" =>
             /\ NextPut(job[h]).memory = job[h].memory
             /\ NextPut(job[h]).task = job[h].task
    BY <1>1, <2>1, NextPutOK, NextPutKeeps
  <2>3. job'[h] = NextPut(job[h])
    BY <1>2, NextIs
  <2> QED BY <1>2, <1>3, <2>2, <2>3 DEF Apt
<1> QED BY <1>4, <1>5, <1>6, <1>7 DEF Tidy, Single

LEMMA CalmDrop ==
  ASSUME TypeOK, JobsGood, CalmInv, NEW h \in Handlers, calm',
         DropTier(h) \/ DropTiers(h)
  PROVE  Tidy' /\ Apt(h)'
<1>1. Tidy /\ Apt(h) /\ job[h] \in Job
  BY AloneCalm DEF HandlerStep, JobsGood
<1>2. PICK gone : Drops(h, gone)
  BY DropIs
<1>3. UNCHANGED <<memories, bindings, tasks, faults>>
  BY <1>2 DEF Drops, memoryTable, links, history
<1>4. \A m, t : Copies(m, t)' = Copies(m, t) \ gone /\ RowsOf(m)' = RowsOf(m) \ gone
  BY <1>2, DropCopies
<1>5. Tidy'
  BY <1>1, <1>3, <1>4 DEF Tidy, Single, Linked, RowsReferTo
<1>6. Apt(h)'
  <2>1. CASE job' = [job EXCEPT ![h] = Idle]
    BY <2>1, IdleApt
  <2>2. CASE /\ job[h].pc = "drop_tiers" /\ gone = RowsOf(job[h].memory)
             /\ job' = [job EXCEPT ![h] = [job[h] EXCEPT !.pc = "unbind"]]
    <3>1. PICK j : j = [job[h] EXCEPT !.pc = "unbind"]
      OBVIOUS
    <3>2. j.pc = "unbind" /\ j.memory = job[h].memory /\ j.task = job[h].task
      BY <1>1, <3>1, EditOK DEF Pcs
    <3>3. job'[h] = j
      BY <2>2, <3>1, NextIs
    <3>4. PICK m : m = job[h].memory
      OBVIOUS
    <3>5. RowsOf(m)' = {} /\ job'[h].memory = m
      BY <1>4, <2>2, <3>2, <3>3, <3>4
    <3>6. m \in memories /\ job[h].task \in tasks \cup {None}
      BY <1>1, <2>2, <3>4 DEF Apt
    <3> QED BY <1>3, <3>2, <3>3, <3>5, <3>6 DEF Apt
  <2> QED BY <1>2, <2>1, <2>2 DEF Drops
<1> QED BY <1>5, <1>6

LEMMA CalmLinks ==
  ASSUME TypeOK, JobsGood, CalmInv, NEW h \in Handlers, calm',
         Bind(h) \/ Unbind(h) \/ DropMemory(h) \/ UnbindTask(h) \/ DropTask(h)
  PROVE  Tidy' /\ Apt(h)'
<1>1. Tidy /\ Apt(h) /\ job[h] \in Job /\ Good(job[h], nmemories)
  BY AloneCalm DEF HandlerStep, JobsGood
<1>2. UNCHANGED <<tiers, faults>>
  BY DEF Bind, Unbind, DropMemory, UnbindTask, DropTask, tierTable, history
<1>3. \A m, t : Copies(m, t)' = Copies(m, t) /\ RowsOf(m)' = RowsOf(m)
  BY <1>2, KeepsCopies
<1>4. Single'
  BY <1>1, <1>3 DEF Tidy, Single
<1>5. ASSUME memories' = memories
      PROVE  \A m \in Memories : RowsReferTo(m)'
  BY <1>1, <1>3, <1>5 DEF Tidy, RowsReferTo
<1>6. CASE Bind(h)
  <2>1. /\ bindings' = bindings \cup {<<job[h].task, job[h].memory>>}
        /\ UNCHANGED <<memories, tasks>> /\ job[h].pc = "bind"
        /\ job' = [job EXCEPT ![h] = Idle]
    BY <1>6 DEF Bind, memoryTable, Step
  <2>2. job[h].memory \in memories /\ job[h].task \in tasks
    BY <1>1, <2>1, MemoryConstantsOK DEF Apt, Good
  <2>3. Linked'
    BY <1>1, <1>2, <2>1, <2>2 DEF Linked, Tidy
  <2> QED BY <1>4, <1>5, <2>1, <2>3, IdleApt DEF Tidy
<1>7. CASE Unbind(h)
  <2>1. /\ bindings' = {b \in bindings : b[2] # job[h].memory}
        /\ UNCHANGED <<memories, tasks>> /\ job[h].pc = "unbind"
        /\ job' = [job EXCEPT ![h] = [job[h] EXCEPT !.pc = "drop_memory"]]
    BY <1>7 DEF Unbind, memoryTable, Step
  <2>2. PICK j : j = [job[h] EXCEPT !.pc = "drop_memory"]
    OBVIOUS
  <2>3. j.pc = "drop_memory" /\ j.memory = job[h].memory /\ j.task = job[h].task
    BY <1>1, <2>2, EditOK DEF Pcs
  <2>4. job'[h] = j
    BY <2>1, <2>2, NextIs
  <2>5. /\ RowsOf(job[h].memory) = {} /\ job[h].memory \in memories
        /\ job[h].task \in tasks \cup {None}
    BY <1>1, <2>1 DEF Apt
  <2>6. PICK m : m = job[h].memory
    OBVIOUS
  <2>7. RowsOf(m)' = {} /\ \A b \in bindings' : b[2] # m
    BY <1>3, <2>1, <2>5, <2>6
  <2>8. Apt(h)'
    BY <2>1, <2>3, <2>4, <2>5, <2>6, <2>7 DEF Apt
  <2>9. Linked'
    BY <1>1, <1>2, <2>1 DEF Linked, Tidy
  <2> QED BY <1>4, <1>5, <2>1, <2>8, <2>9 DEF Tidy
<1>8. CASE DropMemory(h)
  <2>1. /\ memories' = memories \ {job[h].memory}
        /\ UNCHANGED <<bindings, tasks>> /\ job[h].pc = "drop_memory"
        /\ job' = [job EXCEPT ![h] = Idle]
    BY <1>8 DEF DropMemory, links, Step
  <2>2. /\ RowsOf(job[h].memory) = {}
        /\ \A b \in bindings : b[2] # job[h].memory
    BY <1>1, <2>1 DEF Apt
  <2>3. Linked' /\ \A m \in Memories : RowsReferTo(m)'
    BY <1>1, <1>2, <1>3, <2>1, <2>2 DEF Linked, RowsReferTo, Tidy
  <2> QED BY <1>4, <2>1, <2>3, IdleApt DEF Tidy
<1>9. CASE UnbindTask(h)
  <2>1. /\ bindings' = {b \in bindings : b[1] # job[h].task}
        /\ UNCHANGED <<memories, tasks>>
        /\ job' = [job EXCEPT ![h] = [job[h] EXCEPT !.pc = "drop_task"]]
    BY <1>9 DEF UnbindTask, memoryTable, Step
  <2>2. PICK j : j = [job[h] EXCEPT !.pc = "drop_task"]
    OBVIOUS
  <2>3. j.pc = "drop_task" /\ j.task = job[h].task
    BY <1>1, <2>2, EditOK DEF Pcs
  <2>4. job'[h] = j
    BY <2>1, <2>2, NextIs
  <2>5. Apt(h)'
    BY <2>1, <2>3, <2>4 DEF Apt
  <2>6. Linked'
    BY <1>1, <1>2, <2>1 DEF Linked, Tidy
  <2> QED BY <1>4, <1>5, <2>1, <2>5, <2>6 DEF Tidy
<1>10. CASE DropTask(h)
  <2>1. /\ tasks' = tasks \ {job[h].task}
        /\ UNCHANGED <<memories, bindings>> /\ job[h].pc = "drop_task"
        /\ job' = [job EXCEPT ![h] = Idle]
    BY <1>10 DEF DropTask, memoryTable, Step
  <2>2. faults = 0 => \A b \in bindings : b[1] # job[h].task
    BY <1>1, <2>1 DEF Apt
  <2>3. Linked'
    BY <1>1, <1>2, <2>1, <2>2 DEF Linked, Tidy
  <2> QED BY <1>4, <1>5, <2>1, <2>3, IdleApt DEF Tidy
<1> QED BY <1>6, <1>7, <1>8, <1>9, <1>10

LEMMA CalmFailure ==
  ASSUME TypeOK, JobsGood, CalmInv, NEW h \in Handlers, calm', FailedCall(h)
  PROVE  Tidy' /\ Apt(h)'
<1>1. Tidy /\ Apt(h) /\ job[h] \in Job /\ Good(job[h], nmemories)
  BY AloneCalm DEF JobsGood
<1>2. UNCHANGED <<memoryTable, tierTable, links>> /\ faults' = faults + 1
  BY DEF FailedCall
<1>3. Tidy' /\ UNCHANGED <<memories, tasks>> /\ faults' # 0
  BY <1>1, <1>2, TidyKept DEF TypeOK
<1>4. ASSUME NEW j \in Job, j.memory = job[h].memory, j.task = job[h].task,
             job[h].pc \in {"tier", "write"}, job' = [job EXCEPT ![h] = NextPut(j)]
      PROVE  Apt(h)'
  <2>1. /\ job[h].memory \in 1 .. nmemories /\ job[h].memory \in memories
        /\ job[h].task \in tasks \cup {None}
    BY <1>1, <1>4 DEF Good, Apt
  <2>2. /\ NextPut(j).pc \in {"tier", "bind", "idle"}
        /\ NextPut(j).pc # "idle" =>
             NextPut(j).memory = job[h].memory /\ NextPut(j).task = job[h].task
    BY <1>4, <2>1, NextPutOK, NextPutKeeps
  <2>3. job'[h] = NextPut(j)
    BY <1>4, NextIs
  <2> QED BY <1>3, <2>1, <2>2, <2>3 DEF Apt
<1>5. CASE job[h].pc = "tier"
  <2>1. PICK p \in job[h].puts :
          job' = [job EXCEPT ![h] = NextPut([job[h] EXCEPT !.puts = @ \ {p}])]
    BY <1>5 DEF FailedCall, Step
  <2>2. PICK j : j = [job[h] EXCEPT !.puts = @ \ {p}]
    OBVIOUS
  <2>3. j \in Job /\ j.memory = job[h].memory /\ j.task = job[h].task
    BY <1>1, <2>2 DEF Job
  <2> QED BY <1>3, <1>4, <1>5, <2>1, <2>2, <2>3
<1>6. CASE job[h].pc = "write"
  <2>1. job' = [job EXCEPT ![h] = NextPut(job[h])]
    BY <1>6 DEF FailedCall, Step
  <2> QED BY <1>1, <1>3, <1>4, <1>6, <2>1
<1>7. CASE job[h].pc = "touch"
  <2>1. PICK m \in job[h].found :
          Step(h, IF job[h].found = {m} THEN Idle
                  ELSE [job[h] EXCEPT !.found = @ \ {m}])
    BY <1>7 DEF FailedCall
  <2>2. CASE job[h].found = {m}
    BY <1>3, <2>1, <2>2, IdleApt DEF Step
  <2>3. CASE job[h].found # {m}
    <3>1. job'[h] = [job[h] EXCEPT !.found = @ \ {m}]
      BY <2>1, <2>3, NextIs DEF Step
    <3>2. job'[h].pc = "touch"
      BY <1>1, <1>7, <3>1 DEF Job
    <3> QED BY <1>3, <3>2, IdleApt
  <2> QED BY <2>2, <2>3
<1>8. CASE job[h].pc = "unbind_task"
  <2>1. job'[h] = [job[h] EXCEPT !.pc = "drop_task"]
    BY <1>8, NextIs DEF FailedCall, Step
  <2>2. job'[h].pc = "drop_task"
    BY <1>1, <2>1 DEF Job
  <2> QED BY <1>3, <2>2 DEF Apt
<1>9. CASE job[h].pc \notin {"tier", "write", "touch", "unbind_task"}
  BY <1>3, <1>9, IdleApt DEF FailedCall, Step
<1> QED BY <1>5, <1>6, <1>7, <1>8, <1>9

LEMMA CalmStep ==
  ASSUME TypeOK, JobsGood, CalmInv, [Next]_vars
  PROVE  CalmInv'
<1>. SUFFICES ASSUME calm' PROVE CalmInv'
  BY DEF CalmInv
<1>1. ASSUME NEW h \in Handlers, Receive(h) \/ HandlerStep(h) \/ FailedCall(h)
      PROVE  CalmInv'
  <2>1. Tidy' /\ Apt(h)'
    BY <1>1, CalmRequest, CalmLookup, CalmWrite, CalmDrop, CalmLinks, CalmFailure
       DEF HandlerStep
  <2> QED BY <1>1, <2>1, AloneCalm, CalmOf
<1>2. CASE Crash
  <2>1. /\ UNCHANGED <<memoryTable, tierTable, links, calm>> /\ faults' = faults + 1
        /\ \A h \in Handlers : job'[h].pc = "idle"
    BY <1>2, IdleOK DEF Crash
  <2>2. Tidy'
    BY <2>1, TidyKept DEF CalmInv
  <2> QED BY <2>1, <2>2 DEF CalmInv, Apt
<1>3. CASE UNCHANGED vars
  <2>1. UNCHANGED <<memoryTable, tierTable, links, calm, faults, job>>
    BY <1>3 DEF vars, history
  <2>2. UNCHANGED <<memories, tiers, bindings, tasks>>
    BY <2>1 DEF memoryTable, tierTable, links
  <2> QED BY <2>1, <2>2
       DEF CalmInv, Tidy, Single, Linked, RowsReferTo, Apt, Copies, RowsOf
<1> QED BY <1>1, <1>2, <1>3 DEF Next

\* As long as requests come one by one and name what is there, a tier has one
\* row and nothing refers to a memory that is gone, wherever a call fails or
\* king stops (memory_db.rs, the order of the statements of delete_memory;
\* task_db.rs, delete_task_cascade).
THEOREM CalmIsTidy == Spec => []CalmStore
<1>1. Init => CalmInv
  <2>. SUFFICES ASSUME Init PROVE CalmInv
    OBVIOUS
  <2>1. /\ DOMAIN tiers = {} /\ bindings = {}
        /\ \A h \in Handlers : job[h].pc = "idle"
    BY IdleOK DEF Init
  <2> QED BY <2>1 DEF CalmInv, Tidy, Single, Linked, RowsReferTo, Apt, Copies, RowsOf
<1>2. TypeOK /\ CalmInv => CalmStore
  <2>. SUFFICES ASSUME TypeOK, CalmInv, calm PROVE CalmStore
    BY DEF CalmStore
  <2>1. Tidy
    BY DEF CalmInv
  <2>2. ASSUME NEW m \in Memories, NEW t \in Tiers
        PROVE  Cardinality(Copies(m, t)) <= 1
    <3>1. \A r, q \in Copies(m, t) : r = q
      BY <2>1 DEF Tidy, Single
    <3>2. CASE Copies(m, t) = {}
      BY <3>2, FS_EmptySet
    <3>3. CASE Copies(m, t) # {}
      <4>1. PICK r : Copies(m, t) = {r}
        BY <3>1, <3>3
      <4> QED BY <4>1, FS_Singleton
    <3> QED BY <3>2, <3>3
  <2>3. ASSUME NEW r \in DOMAIN tiers PROVE tiers[r].memory \in memories
    <3>1. tiers[r].memory \in Memories /\ r \in RowsOf(tiers[r].memory)
      BY DEF TypeOK, TierRow, RowsOf
    <3> QED BY <2>1, <3>1 DEF Tidy, RowsReferTo
  <2> QED BY <2>1, <2>2, <2>3 DEF CalmStore, Tidy, Linked
<1> QED BY <1>1, <1>2, CalmStep, TypeInvariant, PTL DEF Spec
=============================================================================
