----------------------------- MODULE MemoryStore -----------------------------
(***************************************************************************)
(* The memories of the agents (memory_db.rs) and the handlers that use     *)
(* them: memory:store, memory:update, memory:delete, memory:query and      *)
(* task:summary over Socket.IO, their HTTP counterparts, the memory the    *)
(* coordinator extracts from a stage, and the deletion of tasks.           *)
(*                                                                         *)
(* Each handler is a tokio task of its own and makes one database call at  *)
(* a time; nothing groups the calls.  A row of memory_tiers is looked up   *)
(* in one call and written in the next, and no unique index forbids a      *)
(* second row of the same memory and tier.                                 *)
(***************************************************************************)
EXTENDS Naturals, FiniteSets

CONSTANTS
  Handlers, Tiers, Contents, Tasks,
  None,          \* no content, no task
  MaxMemories,   \* bound: memories ever created
  MaxRows,       \* bound: tier rows ever inserted
  MaxPuts,       \* bound: tiers named in one request
  MaxQueries,    \* bound: queries ever made
  MaxFaults      \* bound: failed calls and crashes

ASSUME MemoryConstantsOK ==
  /\ IsFiniteSet(Handlers)
  /\ None \notin Contents \cup Tasks
  /\ {MaxMemories, MaxRows, MaxPuts, MaxQueries, MaxFaults} \subseteq Nat

Memories == 1 .. MaxMemories
Rows     == 1 .. MaxRows
NoMemory == 0
NoRow    == 0

\* A row of memory_tiers, and a tier as a request names it.
TierRow == [memory : Memories, tier : Tiers, content : Contents]
Put     == [tier : Tiers, content : Contents]
NoPut   == [tier |-> None, content |-> None]

\* A handler under way: the next call, the memory and task it was given, the
\* tiers it has still to write, and, between the two calls of upsert_tier,
\* the one it is writing and the row it found.
Job == [pc : {"idle", "tier", "write", "bind", "update", "get", "drop_tier",
              "drop_tiers", "unbind", "drop_memory", "touch", "unbind_task",
              "drop_task"},
        memory : Memories \cup {NoMemory}, task : Tasks \cup {None},
        puts : SUBSET Put, put : Put \cup {NoPut}, row : Rows \cup {NoRow},
        found : SUBSET Memories]

VARIABLES
  memories, nmemories,  \* table memories, and the ids ever made
  access,               \* memories.access_count
  tiers, nrows,         \* table memory_tiers, rows numbered as inserted
  bindings,             \* table task_memories
  tasks,                \* the ids in table tasks
  job,                  \* the handlers
  crossed,              \* those whose rows another has touched meanwhile
  listed,               \* how often a query has listed each memory
  queries, faults,      \* counted for the bounds
  calm                  \* requests came one by one and named what is there

memoryTable == <<memories, nmemories, access>>
tierTable   == <<tiers, nrows>>
links       == <<bindings, tasks>>
history     == <<listed, queries, faults>>
vars == <<memoryTable, tierTable, links, job, crossed, history, calm>>

Idle == [pc |-> "idle", memory |-> NoMemory, task |-> None, puts |-> {},
         put |-> NoPut, row |-> NoRow, found |-> {}]

Init ==
  /\ memories = {}
  /\ nmemories = 0
  /\ access = [m \in Memories |-> 0]
  /\ tiers = [r \in {} |-> NoPut]
  /\ nrows = 0
  /\ bindings = {}
  /\ tasks = Tasks
  /\ job = [h \in Handlers |-> Idle]
  /\ crossed = {}
  /\ listed = [m \in Memories |-> 0]
  /\ queries = 0
  /\ faults = 0
  /\ calm = TRUE

-----------------------------------------------------------------------------
(* The rows of a tier                                                      *)

Copies(m, t) == {r \in DOMAIN tiers : tiers[r].memory = m /\ tiers[r].tier = t}
RowsOf(m)    == {r \in DOMAIN tiers : tiers[r].memory = m}

\* The row a query without ORDER BY returns first.
FirstRow(m, t) ==
  IF Copies(m, t) = {} THEN NoRow
  ELSE CHOOSE r \in Copies(m, t) : \A q \in Copies(m, t) : r <= q

\* What get_tier answers.
View(m, t) ==
  IF Copies(m, t) = {} THEN None ELSE tiers[FirstRow(m, t)].content

DeleteRows(gone) == tiers' = [r \in DOMAIN tiers \ gone |-> tiers[r]]

\* h touches rows of m (of tier t, or of every tier when t is None): those in
\* the middle of an upsert or a deletion of them are crossed.
Cross(h, m, t) ==
  crossed' = (crossed \ {h}) \cup
    {g \in Handlers \ {h} :
       /\ job[g].memory = m
       /\ \/ job[g].pc = "write" /\ t \in {None, job[g].put.tier}
          \/ job[g].pc \in {"unbind", "drop_memory"}}

-----------------------------------------------------------------------------
(* Requests                                                                *)

\* A request is taken up by an idle handler; the ids it names may be gone.
Begin(h, j, named) ==
  /\ job[h].pc = "idle"
  /\ job' = [job EXCEPT ![h] = j]
  /\ calm' = (calm /\ named /\ \A g \in Handlers \ {h} : job[g].pc = "idle")
  /\ crossed' = crossed \ {h}

Step(h, j) ==
  /\ job' = [job EXCEPT ![h] = j]
  /\ UNCHANGED calm

\* The ids clients can know of.
Issued == 1 .. nmemories

Requests == {p \in SUBSET Put : Cardinality(p) <= MaxPuts}

\* What follows a tier of a request: the next, or the task it is bound to.
NextPut(j) ==
  LET rest == [j EXCEPT !.put = NoPut, !.row = NoRow] IN
  IF j.puts # {} THEN [rest EXCEPT !.pc = "tier"]
  ELSE IF j.task # None THEN [rest EXCEPT !.pc = "bind"] ELSE Idle

\* create_memory, with the tiers and the task of the request.
Store(h) ==
  /\ nmemories < MaxMemories
  /\ \E puts \in Requests, task \in Tasks \cup {None} :
       Begin(h, NextPut([Idle EXCEPT !.memory = nmemories + 1, !.puts = puts,
                                     !.task = task]),
             task \in tasks \cup {None})
  /\ nmemories' = nmemories + 1
  /\ memories' = memories \cup {nmemories + 1}
  /\ UNCHANGED <<access, tierTable, links, history>>

\* A request about one memory: the call it starts with and what it carries.
Request(h, pc, puts, task) ==
  /\ \E m \in Issued :
       Begin(h, [Idle EXCEPT !.pc = pc, !.memory = m, !.puts = puts,
                             !.task = task],
             m \in memories /\ task \in tasks \cup {None})
  /\ UNCHANGED <<memoryTable, tierTable, links, history>>

UpdateRequest(h)   == \E puts \in Requests : Request(h, "update", puts, None)
DeleteRequest(h)   == Request(h, "drop_tiers", {}, None)
PutTierRequest(h)  == \E p \in Put : Request(h, "tier", {p}, None)
DropTierRequest(h) == \E t \in Tiers, c \in Contents :
                        Request(h, "drop_tier", {[tier |-> t, content |-> c]}, None)
BindRequest(h)     == \E task \in Tasks : Request(h, "bind", {}, task)

-----------------------------------------------------------------------------
(* update_memory                                                           *)

\* The UPDATE; it changes none of the columns kept here.
UpdateRow(h) ==
  /\ job[h].pc = "update"
  /\ Step(h, [job[h] EXCEPT !.pc = "get"])
  /\ UNCHANGED <<memoryTable, tierTable, links, crossed, history>>

\* get_memory finds it or the handler answers "not found".
GetUpdated(h) ==
  /\ job[h].pc = "get"
  /\ Step(h, IF job[h].memory \in memories THEN NextPut(job[h]) ELSE Idle)
  /\ UNCHANGED <<memoryTable, tierTable, links, crossed, history>>

-----------------------------------------------------------------------------
(* upsert_tier                                                             *)

\* Mutant: nothing is looked up.
FindNothing(h) ==
  /\ job[h].pc = "tier"
  /\ \E p \in job[h].puts :
       Step(h, [job[h] EXCEPT !.pc = "write", !.puts = @ \ {p}, !.put = p])
  /\ crossed' = crossed \ {h}
  /\ UNCHANGED <<memoryTable, tierTable, links, history>>

\* Mutant: the lookup does not ask for the tier.
FindAnyTier(h) ==
  /\ job[h].pc = "tier"
  /\ \E p \in job[h].puts, t \in Tiers :
       Step(h, [job[h] EXCEPT !.pc = "write", !.puts = @ \ {p}, !.put = p,
                              !.row = FirstRow(job[h].memory, t)])
  /\ crossed' = crossed \ {h}
  /\ UNCHANGED <<memoryTable, tierTable, links, history>>

FindTier(h) ==
  /\ job[h].pc = "tier"
  /\ \E p \in job[h].puts :
       Step(h, [job[h] EXCEPT !.pc = "write", !.puts = @ \ {p}, !.put = p,
                              !.row = FirstRow(job[h].memory, p.tier)])
  /\ crossed' = crossed \ {h}
  /\ UNCHANGED <<memoryTable, tierTable, links, history>>

\* Mutant: the number of the last row is used again.
InsertTierAgain(m, p) ==
  /\ nrows < MaxRows
  /\ tiers' = [r \in DOMAIN tiers \cup {nrows + 1} |->
                 IF r = nrows + 1
                 THEN [memory |-> m, tier |-> p.tier, content |-> p.content]
                 ELSE tiers[r]]
  /\ UNCHANGED nrows

InsertTier(m, p) ==
  /\ nrows < MaxRows
  /\ nrows' = nrows + 1
  /\ tiers' = [r \in DOMAIN tiers \cup {nrows + 1} |->
                 IF r = nrows + 1
                 THEN [memory |-> m, tier |-> p.tier, content |-> p.content]
                 ELSE tiers[r]]

\* The row found may be gone by now: the UPDATE then changes nothing.
WriteTier(h) ==
  LET m == job[h].memory
      p == job[h].put
  IN
  /\ job[h].pc = "write"
  /\ \/ /\ job[h].row = NoRow
        /\ InsertTier(m, p)
     \/ /\ job[h].row # NoRow
        /\ tiers' = [r \in DOMAIN tiers |->
                       IF r = job[h].row
                       THEN [tiers[r] EXCEPT !.content = p.content]
                       ELSE tiers[r]]
        /\ UNCHANGED nrows
  /\ Cross(h, m, p.tier)
  /\ Step(h, NextPut(job[h]))
  /\ UNCHANGED <<memoryTable, links, history>>

\* bind_task_memory: INSERT OR IGNORE, neither id is looked up.
Bind(h) ==
  /\ job[h].pc = "bind"
  /\ bindings' = bindings \cup {<<job[h].task, job[h].memory>>}
  /\ Cross(h, job[h].memory, None)
  /\ Step(h, Idle)
  /\ UNCHANGED <<memoryTable, tierTable, tasks, history>>

-----------------------------------------------------------------------------
(* Deletions                                                               *)

\* Mutant: only the row that is found is deleted.
DropOneTier(h) ==
  /\ job[h].pc = "drop_tier"
  /\ \E p \in job[h].puts :
       /\ DeleteRows({FirstRow(job[h].memory, p.tier)})
       /\ Cross(h, job[h].memory, p.tier)
  /\ Step(h, Idle)
  /\ UNCHANGED <<memoryTable, nrows, links, history>>

\* delete_tier deletes every copy.
DropTier(h) ==
  /\ job[h].pc = "drop_tier"
  /\ \E p \in job[h].puts :
       /\ DeleteRows(Copies(job[h].memory, p.tier))
       /\ Cross(h, job[h].memory, p.tier)
  /\ Step(h, Idle)
  /\ UNCHANGED <<memoryTable, nrows, links, history>>

\* Mutant: the bindings are forgotten.
DropTiersOnly(h) ==
  /\ job[h].pc = "drop_tiers"
  /\ DeleteRows(RowsOf(job[h].memory))
  /\ Cross(h, job[h].memory, None)
  /\ Step(h, [job[h] EXCEPT !.pc = "drop_memory"])
  /\ UNCHANGED <<memoryTable, nrows, links, history>>

\* delete_memory: its tiers, its bindings, and the row itself.
DropTiers(h) ==
  /\ job[h].pc = "drop_tiers"
  /\ DeleteRows(RowsOf(job[h].memory))
  /\ Cross(h, job[h].memory, None)
  /\ Step(h, [job[h] EXCEPT !.pc = "unbind"])
  /\ UNCHANGED <<memoryTable, nrows, links, history>>

Unbind(h) ==
  /\ job[h].pc = "unbind"
  /\ bindings' = {b \in bindings : b[2] # job[h].memory}
  /\ Step(h, [job[h] EXCEPT !.pc = "drop_memory"])
  /\ UNCHANGED <<memoryTable, tierTable, tasks, crossed, history>>

DropMemory(h) ==
  /\ job[h].pc = "drop_memory"
  /\ memories' = memories \ {job[h].memory}
  /\ access' = [access EXCEPT ![job[h].memory] = 0]
  /\ Step(h, Idle)
  /\ UNCHANGED <<nmemories, tierTable, links, crossed, history>>

\* Mutant: the bindings of the task stay.
DeleteTaskOnly(h) ==
  /\ \E task \in tasks : Begin(h, [Idle EXCEPT !.pc = "drop_task",
                                               !.task = task], TRUE)
  /\ UNCHANGED <<memoryTable, tierTable, links, history>>

\* delete_task_cascade: the bindings of the task, then the task.
DeleteTaskRequest(h) ==
  /\ \E task \in tasks : Begin(h, [Idle EXCEPT !.pc = "unbind_task",
                                               !.task = task], TRUE)
  /\ UNCHANGED <<memoryTable, tierTable, links, history>>

UnbindTask(h) ==
  /\ job[h].pc = "unbind_task"
  /\ bindings' = {b \in bindings : b[1] # job[h].task}
  /\ Step(h, [job[h] EXCEPT !.pc = "drop_task"])
  /\ UNCHANGED <<memoryTable, tierTable, tasks, crossed, history>>

DropTask(h) ==
  /\ job[h].pc = "drop_task"
  /\ tasks' = tasks \ {job[h].task}
  /\ Step(h, Idle)
  /\ UNCHANGED <<memoryTable, tierTable, bindings, crossed, history>>

-----------------------------------------------------------------------------
(* memory:query                                                            *)

\* The filters, the words and the limit leave any of the memories.
Query(h) ==
  /\ queries < MaxQueries
  /\ \E found \in SUBSET memories \ {{}} :
       /\ Begin(h, [Idle EXCEPT !.pc = "touch", !.found = found], TRUE)
       /\ listed' = [m \in Memories |-> IF m \in found THEN listed[m] + 1
                                                       ELSE listed[m]]
  /\ queries' = queries + 1
  /\ UNCHANGED <<memoryTable, tierTable, links, faults>>

\* Mutant: the count is read in one statement and written in another.
TouchReadThenWrite(h) ==
  /\ job[h].pc = "touch"
  /\ \E m \in job[h].found :
       \/ /\ job[h].row = NoRow
          /\ Step(h, [job[h] EXCEPT !.memory = m, !.row = access[m] + 1])
          /\ UNCHANGED access
       \/ /\ job[h].memory = m
          /\ access' = IF m \in memories THEN [access EXCEPT ![m] = job[h].row]
                                         ELSE access
          /\ Step(h, IF job[h].found = {m} THEN Idle
                     ELSE [job[h] EXCEPT !.memory = NoMemory, !.row = NoRow,
                                         !.found = @ \ {m}])
  /\ UNCHANGED <<memories, nmemories, tierTable, links, crossed, history>>

\* touch_memory for each row of the answer: one statement adds one.
Touch(h) ==
  /\ job[h].pc = "touch"
  /\ \E m \in job[h].found :
       /\ access' = IF m \in memories THEN [access EXCEPT ![m] = @ + 1]
                                      ELSE access
       /\ Step(h, IF job[h].found = {m} THEN Idle
                  ELSE [job[h] EXCEPT !.found = @ \ {m}])
  /\ UNCHANGED <<memories, nmemories, tierTable, links, crossed, history>>

-----------------------------------------------------------------------------
(* Failures                                                                *)

\* A call fails.  Inside upsert_tier the error is dropped and the handler goes
\* on with the next tier; a touch is dropped alike, and delete_task_cascade
\* goes on to the task; elsewhere the handler ends.
FailedCall(h) ==
  /\ job[h].pc # "idle" /\ faults < MaxFaults
  /\ faults' = faults + 1
  /\ \/ /\ job[h].pc = "tier"
        /\ \E p \in job[h].puts :
             Step(h, NextPut([job[h] EXCEPT !.puts = @ \ {p}]))
     \/ /\ job[h].pc = "write"
        /\ Step(h, NextPut(job[h]))
     \/ /\ job[h].pc = "touch"
        /\ \E m \in job[h].found :
             Step(h, IF job[h].found = {m} THEN Idle
                     ELSE [job[h] EXCEPT !.found = @ \ {m}])
     \/ /\ job[h].pc = "unbind_task"
        /\ Step(h, [job[h] EXCEPT !.pc = "drop_task"])
     \/ /\ job[h].pc \notin {"tier", "write", "touch", "unbind_task"}
        /\ Step(h, Idle)
  /\ UNCHANGED <<memoryTable, tierTable, links, crossed, listed, queries>>

\* King stops; the tables stay.
Crash ==
  /\ faults < MaxFaults
  /\ faults' = faults + 1
  /\ \E h \in Handlers : job[h].pc # "idle"
  /\ job' = [h \in Handlers |-> Idle]
  /\ crossed' = {}
  /\ UNCHANGED <<memoryTable, tierTable, links, listed, queries, calm>>

-----------------------------------------------------------------------------
HandlerStep(h) ==
  \/ UpdateRow(h) \/ GetUpdated(h) \/ FindTier(h) \/ WriteTier(h) \/ Bind(h)
  \/ DropTier(h) \/ DropTiers(h) \/ Unbind(h) \/ DropMemory(h)
  \/ UnbindTask(h) \/ DropTask(h) \/ Touch(h)

Receive(h) ==
  \/ Store(h) \/ UpdateRequest(h) \/ DeleteRequest(h) \/ PutTierRequest(h)
  \/ DropTierRequest(h) \/ BindRequest(h) \/ DeleteTaskRequest(h) \/ Query(h)

Next == (\E h \in Handlers : Receive(h) \/ HandlerStep(h) \/ FailedCall(h)) \/ Crash

Spec == Init /\ [][Next]_vars

-----------------------------------------------------------------------------
(* Properties                                                              *)

TypeOK ==
  /\ nmemories \in Nat /\ nmemories <= MaxMemories
  /\ memories \subseteq Issued
  /\ access \in [Memories -> Nat]
  /\ nrows \in Nat /\ nrows <= MaxRows
  /\ DOMAIN tiers \subseteq 1 .. nrows
  /\ tiers \in [DOMAIN tiers -> TierRow]
  /\ bindings \subseteq Tasks \X Issued
  /\ tasks \subseteq Tasks
  /\ job \in [Handlers -> Job]
  /\ crossed \subseteq Handlers
  /\ listed \in [Memories -> Nat]
  /\ queries \in Nat /\ faults \in Nat
  /\ calm \in BOOLEAN

\* Without a unique index a tier can have several rows, but never more than
\* there are handlers: each of them must have looked before the first was
\* inserted (the lookup and the insertion of upsert_tier).
Inserting(m, t) == {h \in Handlers : /\ job[h].pc = "write" /\ job[h].row = NoRow
                                     /\ job[h].memory = m /\ job[h].put.tier = t}

CopiesBounded ==
  \A m \in Memories, t \in Tiers :
    Cardinality(Copies(m, t)) <= Cardinality(Handlers)

CopiesInv ==
  \A m \in Memories, t \in Tiers :
    Cardinality(Copies(m, t)) + Cardinality(Inserting(m, t))
      <= Cardinality(Handlers)

\* As long as requests come one by one and name what is there, a tier has one
\* row, and no row or binding outlives its memory, wherever a call fails or
\* king stops: every operation writes what is referred to first and removes it
\* last.  A binding may only outlive its task, and only after a failure, since
\* delete_task_cascade goes on when a statement of it fails.
CalmStore ==
  calm =>
    /\ \A m \in Memories, t \in Tiers : Cardinality(Copies(m, t)) <= 1
    /\ \A r \in DOMAIN tiers : tiers[r].memory \in memories
    /\ \A b \in bindings : /\ b[2] \in memories
                            /\ faults = 0 => b[1] \in tasks

\* Every listing of a memory by a query is counted once in its access_count,
\* or is still to be, whoever else queries or writes; a failure may only lose
\* some.
AccessCounted ==
  \A m \in memories :
    LET pending == Cardinality({h \in Handlers : m \in job[h].found}) IN
    /\ access[m] + pending <= listed[m]
    /\ faults = 0 => access[m] + pending = listed[m]

\* A tier written by upsert_tier is what readers get from then on, unless
\* another handler wrote or deleted that tier between its two calls.
WritesSeen ==
  [][\A h \in Handlers, m \in Memories, p \in Put :
       /\ WriteTier(h) /\ h \notin crossed
       /\ job[h].memory = m /\ job[h].put = p
       => View(m, p.tier)' = p.content]_vars

\* When delete_memory ends nothing refers to the memory any more, unless
\* another handler wrote a tier or a binding of it between the calls.
DeletionComplete ==
  [][\A h \in Handlers, m \in Memories :
       DropMemory(h) /\ h \notin crossed /\ job[h].memory = m =>
         RowsOf(m)' = {} /\ \A b \in bindings' : b[2] # m]_vars

-----------------------------------------------------------------------------
(* What the store promises                                                 *)

\* The effects a handler has still to bring about.
Todo(h) ==
  LET j == job[h]
      put(p) == [kind |-> "put", memory |-> j.memory, tier |-> p.tier,
                 content |-> p.content]
  IN CASE j.pc = "tier"  -> {put(p) : p \in j.puts}
       [] j.pc = "write" -> {put(p) : p \in j.puts \cup {j.put}}
       [] j.pc = "drop_tier" ->
            {[kind |-> "drop", memory |-> j.memory, tier |-> p.tier] : p \in j.puts}
       [] j.pc = "drop_tiers" -> {[kind |-> "remove", memory |-> j.memory]}
       [] OTHER -> {}

Map == INSTANCE MemoryMap WITH
  Clients <- Handlers,
  known   <- memories,
  content <- [m \in Memories |-> [t \in Tiers |-> View(m, t)]],
  todo    <- [h \in Handlers |-> Todo(h)]

\* Races, duplicate rows, failures and crashes included, a reader of a tier
\* sees the content of a request that was under way when it appeared, and
\* what a finished request wrote or removed never comes back by itself.
ImplementsMap == Map!MapSpec
=============================================================================
