--------------------------- MODULE MemoryMapProofs ---------------------------
(***************************************************************************)
(* The proof that MemoryStore implements MemoryMap: in spite of duplicate  *)
(* rows, races between the two calls of upsert_tier, failed calls and      *)
(* crashes, a reader only ever sees the effects that requests asked for,   *)
(* each of them at most once.                                              *)
(***************************************************************************)
EXTENDS MemoryProofs

-----------------------------------------------------------------------------
(* What a handler has still to do                                          *)

PutOf(m, p) == [kind |-> "put", memory |-> m, tier |-> p.tier, content |-> p.content]

\* Todo as a function of the handler's job alone.
TodoOf(j) ==
  CASE j.pc = "tier"  -> {PutOf(j.memory, p) : p \in j.puts}
    [] j.pc = "write" -> {PutOf(j.memory, p) : p \in j.puts \cup {j.put}}
    [] j.pc = "drop_tier" ->
         {[kind |-> "drop", memory |-> j.memory, tier |-> p.tier] : p \in j.puts}
    [] j.pc = "drop_tiers" -> {[kind |-> "remove", memory |-> j.memory]}
    [] OTHER -> {}

LEMMA TodoIs ==
  ASSUME NEW h
  PROVE  Todo(h) = TodoOf(job[h]) /\ Todo(h)' = TodoOf(job'[h])
BY DEF Todo, TodoOf, PutOf

LEMMA TodoCases ==
  ASSUME NEW j
  PROVE  /\ j.pc = "tier" => TodoOf(j) = {PutOf(j.memory, p) : p \in j.puts}
         /\ j.pc = "write" =>
              TodoOf(j) = {PutOf(j.memory, p) : p \in j.puts \cup {j.put}}
         /\ j.pc = "drop_tier" =>
              TodoOf(j) = {[kind |-> "drop", memory |-> j.memory, tier |-> p.tier] :
                             p \in j.puts}
         /\ j.pc = "drop_tiers" => TodoOf(j) = {[kind |-> "remove", memory |-> j.memory]}
         /\ j.pc \notin {"tier", "write", "drop_tier", "drop_tiers"} => TodoOf(j) = {}
BY DEF TodoOf

\* What a handler has to do are effects of the map.
LEMMA GoodTodo ==
  ASSUME NEW j, NEW n \in Nat, n <= MaxMemories, Good(j, n)
  PROVE  TodoOf(j) \subseteq Map!Effects
<1>1. j \in Job
  BY DEF Good
<1>2. j.pc \in {"tier", "write", "drop_tier", "drop_tiers"} => j.memory \in Memories
  BY MemoryConstantsOK DEF Good, Memories
<1>3. ASSUME j.memory \in Memories, NEW p \in Put
      PROVE  /\ PutOf(j.memory, p) \in Map!Effects
             /\ [kind |-> "drop", memory |-> j.memory, tier |-> p.tier] \in Map!Effects
             /\ [kind |-> "remove", memory |-> j.memory] \in Map!Effects
  BY <1>3 DEF PutOf, Put, Map!Effects
<1>4. j.memory \in Memories => [kind |-> "remove", memory |-> j.memory] \in Map!Effects
  BY DEF Map!Effects
<1>5. j.puts \subseteq Put
  BY <1>1 DEF Job
<1>6. j.pc = "write" => j.put \in Put
  BY DEF Good
<1>7. CASE j.pc = "tier"
  <2>1. \A p \in j.puts : PutOf(j.memory, p) \in Map!Effects
    BY <1>2, <1>3, <1>5, <1>7
  <2>2. TodoOf(j) = {PutOf(j.memory, p) : p \in j.puts}
    BY <1>7, TodoCases
  <2> QED BY <2>1, <2>2
<1>8. CASE j.pc = "write"
  <2>1. \A p \in j.puts \cup {j.put} : PutOf(j.memory, p) \in Map!Effects
    BY <1>2, <1>3, <1>5, <1>6, <1>8
  <2>2. TodoOf(j) = {PutOf(j.memory, p) : p \in j.puts \cup {j.put}}
    BY <1>8, TodoCases
  <2> QED BY <2>1, <2>2
<1>9. CASE j.pc = "drop_tier"
  BY <1>2, <1>3, <1>5, <1>9, TodoCases
<1>10. CASE j.pc = "drop_tiers"
  BY <1>2, <1>4, <1>10, TodoCases
<1>11. CASE j.pc \notin {"tier", "write", "drop_tier", "drop_tiers"}
  BY <1>11, TodoCases
<1> QED BY <1>7, <1>8, <1>9, <1>10, <1>11

LEMMA NextPutTodo ==
  ASSUME NEW j \in Job
  PROVE  TodoOf(NextPut(j)) = {PutOf(j.memory, p) : p \in j.puts}
<1>. DEFINE rest == [j EXCEPT !.put = NoPut, !.row = NoRow]
<1>1. rest \in Job /\ rest.memory = j.memory /\ rest.puts = j.puts
  BY DEF Job
<1>2. NextPut(j) = IF j.puts # {} THEN [rest EXCEPT !.pc = "tier"]
                   ELSE IF j.task # None THEN [rest EXCEPT !.pc = "bind"] ELSE Idle
  BY DEF NextPut
<1>. HIDE DEF rest
<1>3. /\ [rest EXCEPT !.pc = "tier"].pc = "tier"
      /\ [rest EXCEPT !.pc = "tier"].memory = j.memory
      /\ [rest EXCEPT !.pc = "tier"].puts = j.puts
      /\ [rest EXCEPT !.pc = "bind"].pc = "bind"
  BY <1>1 DEF Job
<1>4. CASE j.puts # {}
  <2>1. PICK k : k = NextPut(j) /\ k.pc = "tier" /\ k.memory = j.memory
                 /\ k.puts = j.puts
    BY <1>2, <1>3, <1>4
  <2>2. TodoOf(k) = {PutOf(k.memory, p) : p \in k.puts}
    BY <2>1, TodoCases
  <2> QED BY <2>1, <2>2
<1>5. CASE j.puts = {}
  <2>1. NextPut(j).pc \in {"bind", "idle"}
    BY <1>2, <1>3, <1>5, IdleOK
  <2>2. TodoOf(NextPut(j)) = {}
    BY <2>1, TodoCases
  <2> QED BY <1>5, <2>2
<1> QED BY <1>4, <1>5

-----------------------------------------------------------------------------
(* The steps of the map                                                    *)

\* What readers see.
SameViews == \A m \in Memories, t \in Tiers : View(m, t)' = View(m, t)

OthersWait(h) == \A g \in Handlers \ {h} : Todo(g)' = Todo(g)

LEMMA MapStutter ==
  ASSUME SameViews, memories' = memories, \A g \in Handlers : Todo(g)' = Todo(g)
  PROVE  UNCHANGED Map!mapVars
BY DEF SameViews, Map!mapVars

LEMMA MapAsk ==
  ASSUME NEW h \in Handlers, SameViews, OthersWait(h), Todo(h) = {},
         Todo(h)' \subseteq Map!Effects,
         memories' = memories \/ \E m \in Memories : memories' = memories \cup {m}
  PROVE  [Map!MapNext]_Map!mapVars
<1>1. CASE \E m \in Memories : memories' \in {memories, memories \cup {m}}
  <2>1. [g \in Handlers |-> Todo(g)'] =
          [[g \in Handlers |-> Todo(g)] EXCEPT ![h] = Todo(h)']
    BY DEF OthersWait
  <2>2. Map!Ask(h)
    BY <1>1, <2>1 DEF SameViews, Map!Ask
  <2> QED BY <2>2 DEF Map!MapNext
<1>2. CASE ~\E m \in Memories : memories' \in {memories, memories \cup {m}}
  <2>1. Memories = {} /\ memories' = memories
    BY <1>2
  <2>2. Todo(h)' = {}
    BY <2>1 DEF Map!Effects
  <2> QED BY <2>1, <2>2, MapStutter DEF OthersWait
<1> QED BY <1>1, <1>2

LEMMA MapForget ==
  ASSUME SameViews, memories' = memories,
         \A g \in Handlers : Todo(g)' \subseteq Todo(g)
  PROVE  Map!MapNext
BY DEF SameViews, Map!MapNext, Map!Forget

LEMMA MapDisappear ==
  ASSUME SameViews, NEW m \in memories, memories' = memories \ {m},
         \A g \in Handlers : Todo(g)' = Todo(g)
  PROVE  Map!MapNext
BY DEF SameViews, Map!MapNext, Map!Disappear

\* An effect happens: the views it is about change by it and no others do.
LEMMA MapHappen ==
  ASSUME NEW h \in Handlers, NEW e \in Todo(h), OthersWait(h),
         Todo(h)' = Todo(h) \ {e}, memories' = memories,
         Map!Apply(e)
  PROVE  Map!MapNext
<1>1. [g \in Handlers |-> Todo(g)'] =
        [[g \in Handlers |-> Todo(g)] EXCEPT ![h] = @ \ {e}]
  BY DEF OthersWait
<1>2. Map!Happen(h)
  BY <1>1 DEF Map!Happen
<1> QED BY <1>2 DEF Map!MapNext

-----------------------------------------------------------------------------
(* What readers see when a row is written                                  *)

\* The row an upsert has found is a row of its tier as long as it is there; a
\* tier is taken off those still to be written; a request to delete a tier
\* names one.
Aimed(h) ==
  /\ job[h].pc = "write" =>
       /\ job[h].put \notin job[h].puts /\ job[h].row \in 0 .. nrows
       /\ job[h].row \in DOMAIN tiers =>
            job[h].row \in Copies(job[h].memory, job[h].put.tier)
  /\ job[h].pc = "drop_tier" => \E p \in Put : job[h].puts = {p}

MapInv == \A h \in Handlers : Aimed(h)

LEMMA LeastIs ==
  ASSUME NEW S \in SUBSET (Nat \ {0}), NEW x \in S, \A q \in S : x <= q
  PROVE  Least(S) = x
<1>1. PICK y \in Nat : y = Least(S) /\ y <= x /\ x <= y
  BY LeastOK
<1> QED BY <1>1

\* A reader sees the same where the rows of the tier are the same and the
\* first of them is not written.
LEMMA ViewKept ==
  ASSUME TypeOK, NEW m, NEW t, Copies(m, t)' = Copies(m, t),
         FirstRow(m, t) # NoRow => tiers'[FirstRow(m, t)].content
                                     = tiers[FirstRow(m, t)].content
  PROVE  View(m, t)' = View(m, t)
<1>1. FirstRow(m, t)' = FirstRow(m, t)
  BY KeepsFirst
<1>2. CASE Copies(m, t) = {}
  BY <1>2 DEF View
<1>3. CASE Copies(m, t) # {} /\ FirstRow(m, t) # NoRow
  BY <1>1, <1>3 DEF View
<1> QED BY <1>2, <1>3, FirstRowOK

LEMMA SameTiers ==
  ASSUME UNCHANGED tiers
  PROVE  SameViews
BY DEF SameViews, View, FirstRow, Copies

\* An upsert shows in its tier or nowhere.
LEMMA WriteViews ==
  ASSUME TypeOK, JobsGood, NEW h \in Handlers, Aimed(h), WriteTier(h),
         NEW m \in Memories, NEW t \in Tiers
  PROVE  \/ View(m, t)' = View(m, t)
         \/ /\ m = job[h].memory /\ t = job[h].put.tier
            /\ View(m, t)' = job[h].put.content
<1>1. /\ nrows \in Nat /\ DOMAIN tiers \subseteq 1 .. nrows
      /\ tiers \in [DOMAIN tiers -> TierRow]
  BY DEF TypeOK
<1>2. /\ Copies(m, t) \in SUBSET (Nat \ {0}) /\ Copies(m, t) \subseteq 1 .. nrows
      /\ Copies(m, t) # {} => FirstRow(m, t) \in Copies(m, t)
      /\ Copies(m, t) = {} <=> FirstRow(m, t) = NoRow
  BY CopiesOK, FirstRowOK
<1>3. Copies(m, t) \subseteq DOMAIN tiers
  BY DEF Copies
<1>4. CASE job[h].row = NoRow
  <2>1. /\ tiers' = [r \in DOMAIN tiers \cup {nrows + 1} |->
                       IF r = nrows + 1
                       THEN [memory |-> job[h].memory, tier |-> job[h].put.tier,
                             content |-> job[h].put.content]
                       ELSE tiers[r]]
    BY <1>4 DEF WriteTier, InsertTier
  <2>2. \A r \in DOMAIN tiers : tiers'[r] = tiers[r]
    BY <1>1, <2>1
  <2>3. CASE job[h].memory # m \/ job[h].put.tier # t
    <3>1. Copies(m, t)' = Copies(m, t)
      BY <2>3, WriteCopies
    <3> QED BY <1>2, <1>3, <2>2, <3>1, ViewKept
  <2>4. CASE job[h].memory = m /\ job[h].put.tier = t
    <3>1. Copies(m, t)' = Copies(m, t) \cup {nrows + 1}
      BY <1>4, <2>4, WriteCopies
    <3>2. nrows + 1 \in Nat \ {0}
      BY <1>1
    <3>3. CASE Copies(m, t) = {}
      <4>1. FirstRow(m, t)' = nrows + 1
        <5>1. Least({nrows + 1}) = nrows + 1
          BY <3>2, LeastIs
        <5> QED BY <3>1, <3>3, <5>1, FirstRowIs
      <4>2. tiers'[nrows + 1].content = job[h].put.content
        BY <2>1
      <4>3. View(m, t)' = job[h].put.content
        BY <3>1, <4>1, <4>2 DEF View
      <4> QED BY <2>4, <4>3
    <3>4. CASE Copies(m, t) # {}
      <4>1. PICK r \in Copies(m, t) : r = FirstRow(m, t)
        BY <1>2, <3>4
      <4>2. \A q \in Copies(m, t) \cup {nrows + 1} : r <= q
        <5>1. \A q \in Copies(m, t) : r <= q
          BY <1>2, <4>1, LeastOK, FirstRowIs
        <5>2. r \in 1 .. nrows
          BY <1>2
        <5> QED BY <1>1, <5>1, <5>2
      <4>3. Least(Copies(m, t) \cup {nrows + 1}) = r
        BY <1>2, <3>2, <4>2, LeastIs
      <4>4. FirstRow(m, t)' = r
        BY <3>1, <4>3, FirstRowIs
      <4>5. tiers'[r] = tiers[r]
        BY <1>3, <2>2
      <4>6. View(m, t)' = tiers[r].content /\ View(m, t) = tiers[r].content
        BY <3>1, <3>4, <4>1, <4>4, <4>5 DEF View
      <4> QED BY <4>6
    <3> QED BY <3>3, <3>4
  <2> QED BY <2>3, <2>4
<1>5. CASE job[h].row # NoRow
  <2>1. tiers' = [r \in DOMAIN tiers |->
                    IF r = job[h].row
                    THEN [tiers[r] EXCEPT !.content = job[h].put.content]
                    ELSE tiers[r]]
    BY <1>5 DEF WriteTier
  <2>2. Copies(m, t)' = Copies(m, t)
    BY <1>5, WriteCopies
  <2>3. CASE FirstRow(m, t) = NoRow \/ FirstRow(m, t) # job[h].row
    <3>1. FirstRow(m, t) # NoRow => tiers'[FirstRow(m, t)] = tiers[FirstRow(m, t)]
      BY <1>2, <1>3, <2>1, <2>3
    <3> QED BY <2>2, <3>1, ViewKept
  <2>4. CASE FirstRow(m, t) # NoRow /\ FirstRow(m, t) = job[h].row
    <3>1. job[h].row \in Copies(m, t) /\ job[h].row \in DOMAIN tiers
      BY <1>2, <1>3, <2>4
    <3>2. job[h].row \in Copies(job[h].memory, job[h].put.tier)
      BY <3>1 DEF Aimed, WriteTier
    <3>3. m = job[h].memory /\ t = job[h].put.tier
      BY <3>1, <3>2 DEF Copies
    <3>4. tiers'[job[h].row].content = job[h].put.content
      BY <1>1, <2>1, <3>1 DEF TierRow
    <3>5. FirstRow(m, t)' = job[h].row
      BY <2>2, <2>4, KeepsFirst
    <3>6. View(m, t)' = job[h].put.content
      BY <2>2, <3>1, <3>4, <3>5 DEF View
    <3> QED BY <3>3, <3>6
  <2> QED BY <2>3, <2>4
<1> QED BY <1>4, <1>5

\* A deletion empties the tiers whose rows it removes.
LEMMA DropViews ==
  ASSUME TypeOK, NEW h, NEW gone, Drops(h, gone), NEW m, NEW t
  PROVE  /\ Copies(m, t) \subseteq gone => View(m, t)' = None
         /\ Copies(m, t) \cap gone = {} => View(m, t)' = View(m, t)
<1>1. Copies(m, t)' = Copies(m, t) \ gone
  BY DropCopies
<1>2. tiers' = [r \in DOMAIN tiers \ gone |-> tiers[r]]
  BY DEF Drops, DeleteRows
<1>3. ASSUME Copies(m, t) \cap gone = {} PROVE View(m, t)' = View(m, t)
  <2>1. Copies(m, t)' = Copies(m, t)
    BY <1>1, <1>3
  <2>2. FirstRow(m, t) # NoRow => FirstRow(m, t) \in DOMAIN tiers \ gone
    BY <1>3, FirstRowOK DEF Copies
  <2> QED BY <1>2, <2>1, <2>2, ViewKept
<1> QED BY <1>1, <1>3 DEF View

-----------------------------------------------------------------------------
(* The handlers' aims                                                      *)

LEMMA AimKept ==
  ASSUME NEW g, Aimed(g), job'[g] = job[g], nrows \in Nat, nrows' \in Nat,
         nrows <= nrows', \A r \in DOMAIN tiers' : r <= nrows => r \in DOMAIN tiers,
         \A r \in DOMAIN tiers \cap DOMAIN tiers' :
           tiers'[r].memory = tiers[r].memory /\ tiers'[r].tier = tiers[r].tier
  PROVE  Aimed(g)'
<1>1. ASSUME job[g].pc = "write"
      PROVE  /\ job[g].put \notin job[g].puts /\ job[g].row \in 0 .. nrows'
             /\ job[g].row \in DOMAIN tiers' =>
                  job[g].row \in Copies(job[g].memory, job[g].put.tier)'
  <2>1. /\ job[g].put \notin job[g].puts /\ job[g].row \in 0 .. nrows
        /\ job[g].row \in DOMAIN tiers =>
             job[g].row \in Copies(job[g].memory, job[g].put.tier)
    BY <1>1 DEF Aimed
  <2>2. PICK r \in 0 .. nrows : r = job[g].row
    BY <2>1
  <2>3. r \in 0 .. nrows' /\ r <= nrows
    OBVIOUS
  <2>4. ASSUME r \in DOMAIN tiers'
        PROVE  r \in {q \in DOMAIN tiers' : /\ tiers'[q].memory = job[g].memory
                                            /\ tiers'[q].tier = job[g].put.tier}
    BY <2>1, <2>2, <2>3, <2>4 DEF Copies
  <2> QED BY <2>1, <2>2, <2>3, <2>4 DEF Copies
<1> QED BY <1>1 DEF Aimed

\* How the rows change in a step.
LEMMA RowsKept ==
  ASSUME TypeOK, JobsGood, [Next]_vars
  PROVE  /\ nrows \in Nat /\ nrows' \in Nat /\ nrows <= nrows'
         /\ \A r \in DOMAIN tiers' : r <= nrows => r \in DOMAIN tiers
         /\ \A r \in DOMAIN tiers \cap DOMAIN tiers' :
              tiers'[r].memory = tiers[r].memory /\ tiers'[r].tier = tiers[r].tier
<1>1. nrows \in Nat /\ tiers \in [DOMAIN tiers -> TierRow]
      /\ DOMAIN tiers \subseteq 1 .. nrows
  BY DEF TypeOK
<1>2. CASE UNCHANGED <<tiers, nrows>>
  BY <1>1, <1>2
<1>3. ASSUME NEW h \in Handlers, WriteTier(h)
      PROVE  /\ nrows' \in Nat /\ nrows <= nrows'
             /\ \A r \in DOMAIN tiers' : r <= nrows => r \in DOMAIN tiers
             /\ \A r \in DOMAIN tiers \cap DOMAIN tiers' :
                  tiers'[r].memory = tiers[r].memory /\ tiers'[r].tier = tiers[r].tier
  <2>1. CASE job[h].row = NoRow
    BY <1>1, <1>3, <2>1 DEF WriteTier, InsertTier
  <2>2. CASE job[h].row # NoRow
    <3>1. /\ nrows' = nrows /\ DOMAIN tiers' = DOMAIN tiers
          /\ \A r \in DOMAIN tiers :
               tiers'[r] \in {tiers[r], [tiers[r] EXCEPT !.content = job[h].put.content]}
      BY <1>3, <2>2 DEF WriteTier
    <3>2. \A r \in DOMAIN tiers :
            tiers'[r].memory = tiers[r].memory /\ tiers'[r].tier = tiers[r].tier
      BY <1>1, <3>1 DEF TierRow
    <3> QED BY <1>1, <3>1, <3>2
  <2> QED BY <2>1, <2>2
<1>4. ASSUME NEW h \in Handlers, NEW gone, Drops(h, gone)
      PROVE  /\ nrows' \in Nat /\ nrows <= nrows'
             /\ \A r \in DOMAIN tiers' : r <= nrows => r \in DOMAIN tiers
             /\ \A r \in DOMAIN tiers \cap DOMAIN tiers' :
                  tiers'[r].memory = tiers[r].memory /\ tiers'[r].tier = tiers[r].tier
  BY <1>1, <1>4 DEF Drops, DeleteRows
<1>5. \A h \in Handlers : \A p : Finds(h, p) => UNCHANGED <<tiers, nrows>>
  BY DEF Finds, tierTable
<1> QED BY <1>1, <1>2, <1>3, <1>4, <1>5, Steps, CallOK, CrashOK, UnchangedOK

\* The next call of h is neither the write of an upsert nor a deletion of tiers.
LEMMA Aimless ==
  ASSUME NEW h, job'[h].pc \notin {"write", "drop_tier"}
  PROVE  Aimed(h)'
BY DEF Aimed

LEMMA AimRequest ==
  ASSUME TypeOK, JobsGood, NEW h \in Handlers, Receive(h)
  PROVE  Aimed(h)'
<1>1. CASE DropTierRequest(h)
  <2>1. PICK p \in Put : Request(h, "drop_tier", {p}, None)
    BY <1>1 DEF DropTierRequest, Put
  <2>2. PICK m : job'[h] = [Idle EXCEPT !.pc = "drop_tier", !.memory = m,
                                        !.puts = {p}, !.task = None]
    BY <2>1, NextIs DEF Request, Begin
  <2>3. job'[h].pc = "drop_tier" /\ job'[h].puts = {p}
    BY <2>2 DEF Idle
  <2> QED BY <2>3 DEF Aimed
<1>2. CASE Store(h)
  <2>1. PICK j : Turns(h, j) /\ j.pc # "write"
    BY <1>2, StoreTurns DEF Turns
  <2>2. PICK puts \in Requests, task \in Tasks \cup {None} :
          job' = [job EXCEPT ![h] =
                    NextPut([Idle EXCEPT !.memory = nmemories + 1, !.puts = puts,
                                         !.task = task])]
    BY <1>2 DEF Store, Begin
  <2>3. PICK i : i = [Idle EXCEPT !.memory = nmemories + 1, !.puts = puts, !.task = task]
    OBVIOUS
  <2>4. nmemories + 1 \in Memories /\ nmemories + 1 \in 1 .. nmemories + 1
    BY <1>2, MemoryConstantsOK DEF Store, TypeOK, Memories
  <2>5. i \in Job /\ i.memory = nmemories + 1
    BY <2>3, <2>4 DEF Idle, Job, NoRow, NoPut, Requests
  <2>6. job'[h].pc \in {"tier", "bind", "idle"}
    BY <2>2, <2>3, <2>4, <2>5, NextPutOK, NextIs
  <2> QED BY <2>6, Aimless
<1>3. CASE DeleteTaskRequest(h)
  <2>1. PICK task : job'[h] = [Idle EXCEPT !.pc = "unbind_task", !.task = task]
    BY <1>3, NextIs DEF DeleteTaskRequest, Begin
  <2>2. job'[h].pc = "unbind_task"
    BY <2>1 DEF Idle
  <2> QED BY <2>2, Aimless
<1>4. CASE Query(h)
  <2>1. PICK found : job'[h] = [Idle EXCEPT !.pc = "touch", !.found = found]
    BY <1>4, NextIs DEF Query, Begin
  <2>2. job'[h].pc = "touch"
    BY <2>1 DEF Idle
  <2> QED BY <2>2, Aimless
<1>5. ASSUME NEW pc \in {"update", "drop_tiers", "tier", "bind"}, NEW puts, NEW task,
             Request(h, pc, puts, task)
      PROVE  Aimed(h)'
  <2>1. PICK m : job'[h] = [Idle EXCEPT !.pc = pc, !.memory = m, !.puts = puts,
                                        !.task = task]
    BY <1>5, NextIs DEF Request, Begin
  <2>2. job'[h].pc = pc
    BY <2>1 DEF Idle
  <2> QED BY <2>2, Aimless
<1>6. CASE UpdateRequest(h) \/ DeleteRequest(h) \/ PutTierRequest(h) \/ BindRequest(h)
  <2>1. \E pc \in {"update", "drop_tiers", "tier", "bind"} : \E puts, task :
          Request(h, pc, puts, task)
    BY <1>6 DEF UpdateRequest, DeleteRequest, PutTierRequest, BindRequest
  <2> QED BY <1>5, <2>1
<1> QED BY <1>1, <1>2, <1>3, <1>4, <1>6 DEF Receive

LEMMA AimCall ==
  ASSUME TypeOK, JobsGood, NEW h \in Handlers, HandlerStep(h) \/ FailedCall(h)
  PROVE  Aimed(h)'
<1>1. job[h] \in Job /\ Good(job[h], nmemories)
  BY DEF JobsGood
<1>2. CASE FindTier(h)
  <2>1. PICK p \in job[h].puts : Finds(h, p)
    BY <1>2, FindIs
  <2>2. PICK j : j = [job[h] EXCEPT !.pc = "write", !.puts = @ \ {p}, !.put = p,
                                    !.row = FirstRow(job[h].memory, p.tier)]
    OBVIOUS
  <2>3. job'[h] = j /\ UNCHANGED <<tiers, nrows>>
    BY <2>1, <2>2, NextIs DEF Finds, tierTable
  <2>4. /\ j.pc = "write" /\ j.memory = job[h].memory /\ j.put = p
        /\ j.puts = job[h].puts \ {p} /\ j.row = FirstRow(job[h].memory, p.tier)
    BY <1>1, <2>2 DEF Job
  <2>5. /\ Copies(job[h].memory, p.tier) \subseteq 1 .. nrows
        /\ DOMAIN tiers \subseteq 1 .. nrows /\ nrows \in Nat
        /\ j.row = NoRow \/ j.row \in Copies(job[h].memory, p.tier)
    BY <2>4, CopiesOK, FirstRowOK DEF TypeOK
  <2>6. j.row \in 0 .. nrows /\ (j.row = NoRow => j.row \notin DOMAIN tiers)
    BY <2>5 DEF NoRow
  <2>7. PICK m, t : m = job[h].memory /\ t = p.tier
    OBVIOUS
  <2>8. Copies(m, t)' = Copies(m, t)
    BY <2>3, KeepsCopies
  <2>9. j.row \in DOMAIN tiers' => j.row \in Copies(m, t)'
    BY <2>3, <2>5, <2>6, <2>7, <2>8
  <2> QED BY <2>3, <2>4, <2>6, <2>7, <2>9 DEF Aimed
<1>3. ASSUME NEW j \in Job, j.memory \in 1 .. nmemories,
             job' = [job EXCEPT ![h] = NextPut(j)]
      PROVE  Aimed(h)'
  BY <1>3, NextPutOK, NextIs, Aimless
<1>4. ASSUME NEW pc \in Pcs \ {"write", "drop_tier"},
             job' = [job EXCEPT ![h] = [job[h] EXCEPT !.pc = pc]]
      PROVE  Aimed(h)'
  <2>1. PICK k : k = [job[h] EXCEPT !.pc = pc]
    OBVIOUS
  <2>2. k.pc = pc
    BY <1>1, <2>1, EditOK
  <2>3. job'[h] = k
    BY <1>4, <2>1, NextIs
  <2> QED BY <2>2, <2>3, Aimless
<1>5. ASSUME job' = [job EXCEPT ![h] = Idle] PROVE Aimed(h)'
  BY <1>5, IdleOK, NextIs, Aimless
<1>6. ASSUME job[h].pc = "touch", NEW m \in job[h].found,
             Step(h, IF job[h].found = {m} THEN Idle
                     ELSE [job[h] EXCEPT !.found = @ \ {m}])
      PROVE  Aimed(h)'
  <2>1. CASE job[h].found = {m}
    BY <1>5, <1>6, <2>1 DEF Step
  <2>2. CASE job[h].found # {m}
    <3>1. job'[h] = [job[h] EXCEPT !.found = @ \ {m}]
      BY <1>6, <2>2, NextIs DEF Step
    <3>2. job'[h].pc = "touch"
      BY <1>1, <1>6, <3>1 DEF Job
    <3> QED BY <3>2, Aimless
  <2> QED BY <2>1, <2>2
<1>7. CASE UpdateRow(h) \/ DropTiers(h) \/ Unbind(h) \/ UnbindTask(h)
  BY <1>4, <1>7 DEF UpdateRow, DropTiers, Unbind, UnbindTask, Step, Pcs
<1>8. CASE Bind(h) \/ DropTier(h) \/ DropMemory(h) \/ DropTask(h)
  BY <1>5, <1>8 DEF Bind, DropTier, DropMemory, DropTask, Step
<1>9. CASE GetUpdated(h) \/ WriteTier(h)
  <2>1. /\ job[h].memory \in 1 .. nmemories
        /\ \/ job' = [job EXCEPT ![h] = NextPut(job[h])]
           \/ job' = [job EXCEPT ![h] = Idle]
    BY <1>1, <1>9 DEF GetUpdated, WriteTier, Step, Good
  <2> QED BY <1>1, <1>3, <1>5, <2>1
<1>10. CASE Touch(h)
  BY <1>6, <1>10 DEF Touch
<1>11. CASE FailedCall(h)
  <2>1. CASE job[h].pc = "tier"
    <3>1. PICK p \in job[h].puts :
            job' = [job EXCEPT ![h] = NextPut([job[h] EXCEPT !.puts = @ \ {p}])]
      BY <1>11, <2>1 DEF FailedCall, Step
    <3>2. /\ [job[h] EXCEPT !.puts = @ \ {p}] \in Job
          /\ [job[h] EXCEPT !.puts = @ \ {p}].memory \in 1 .. nmemories
      BY <1>1, <2>1 DEF Job, Good
    <3> QED BY <1>3, <3>1, <3>2
  <2>2. CASE job[h].pc = "write"
    BY <1>1, <1>3, <1>11, <2>2 DEF FailedCall, Step, Good
  <2>3. CASE job[h].pc = "touch"
    BY <1>6, <1>11, <2>3 DEF FailedCall
  <2>4. CASE job[h].pc = "unbind_task"
    BY <1>4, <1>11, <2>4 DEF FailedCall, Step, Pcs
  <2>5. CASE job[h].pc \notin {"tier", "write", "touch", "unbind_task"}
    BY <1>5, <1>11, <2>5 DEF FailedCall, Step
  <2> QED BY <2>1, <2>2, <2>3, <2>4, <2>5
<1> QED BY <1>2, <1>7, <1>8, <1>9, <1>10, <1>11 DEF HandlerStep

LEMMA MapInvStep ==
  ASSUME TypeOK, JobsGood, MapInv, [Next]_vars
  PROVE  MapInv'
<1>1. ASSUME NEW g \in Handlers, job'[g] = job[g] PROVE Aimed(g)'
  BY <1>1, AimKept, RowsKept DEF MapInv
<1>2. ASSUME NEW h \in Handlers, Receive(h) \/ HandlerStep(h) \/ FailedCall(h)
      PROVE  MapInv'
  <2>1. Aimed(h)'
    BY <1>2, AimRequest, AimCall
  <2>2. \A g \in Handlers \ {h} : job'[g] = job[g]
    <3>1. \E j : job' = [job EXCEPT ![h] = j]
      BY <1>2 DEF Receive, Store, UpdateRequest, DeleteRequest, PutTierRequest,
         DropTierRequest, BindRequest, DeleteTaskRequest, Query, Request, Begin,
         HandlerStep, FailedCall, UpdateRow, GetUpdated, FindTier, WriteTier, Bind,
         DropTier, DropTiers, Unbind, DropMemory, UnbindTask, DropTask, Touch, Step
    <3> QED BY <3>1 DEF TypeOK
  <2> QED BY <1>1, <2>1, <2>2 DEF MapInv
<1>3. CASE Crash
  BY <1>3, CrashOK, IdleOK, Aimless DEF MapInv
<1>4. CASE UNCHANGED vars
  BY <1>1, <1>4, UnchangedOK DEF MapInv
<1> QED BY <1>2, <1>3, <1>4 DEF Next

-----------------------------------------------------------------------------
(* Every step is a step of the map, or none                                *)

\* A step of h in which no row of a tier is written or deleted, while h has
\* nothing to do for the map: what it does from now on is asked for.
LEMMA AskingMaps ==
  ASSUME TypeOK, JobsGood, [Next]_vars, NEW h \in Handlers, UNCHANGED tiers,
         Todo(h) = {}, \A g \in Handlers \ {h} : job'[g] = job[g],
         memories' = memories \/ \E m \in Memories : memories' = memories \cup {m}
  PROVE  [Map!MapNext]_Map!mapVars
<1>1. TypeOK' /\ JobsGood'
  BY TypeStep
<1>2. Todo(h)' \subseteq Map!Effects
  <2>1. /\ nmemories' \in Nat /\ nmemories' <= MaxMemories
        /\ Good(job'[h], nmemories')
    BY <1>1 DEF TypeOK, JobsGood
  <2>2. TodoOf(job'[h]) \subseteq Map!Effects
    BY <2>1, GoodTodo
  <2> QED BY <2>2, TodoIs
<1>3. OthersWait(h)
  BY TodoIs DEF OthersWait
<1> QED BY <1>2, <1>3, SameTiers, MapAsk

LEMMA RequestMaps ==
  ASSUME TypeOK, JobsGood, [Next]_vars, NEW h \in Handlers, Receive(h)
  PROVE  [Map!MapNext]_Map!mapVars
<1>1. /\ job[h].pc = "idle" /\ \E j : job' = [job EXCEPT ![h] = j]
  BY DEF Receive, Store, UpdateRequest, DeleteRequest, PutTierRequest,
     DropTierRequest, BindRequest, DeleteTaskRequest, Query, Request, Begin
<1>2. Todo(h) = {} /\ \A g \in Handlers \ {h} : job'[g] = job[g]
  BY <1>1, TodoIs, TodoCases DEF TypeOK
<1>3. UNCHANGED tiers
  BY DEF Receive, Store, UpdateRequest, DeleteRequest, PutTierRequest,
     DropTierRequest, BindRequest, DeleteTaskRequest, Query, Request, tierTable
<1>4. memories' = memories \/ \E m \in Memories : memories' = memories \cup {m}
  <2>1. CASE Store(h)
    <3>1. nmemories + 1 \in Memories /\ memories' = memories \cup {nmemories + 1}
      BY <2>1, MemoryConstantsOK DEF Store, TypeOK, Memories
    <3> QED BY <3>1
  <2>2. CASE ~Store(h)
    BY <2>2 DEF Receive, UpdateRequest, DeleteRequest, PutTierRequest,
       DropTierRequest, BindRequest, DeleteTaskRequest, Query, Request, memoryTable
  <2> QED BY <2>1, <2>2
<1> QED BY <1>2, <1>3, <1>4, AskingMaps

\* An upsert is the effect asked for, or comes to nothing.
LEMMA WriteMaps ==
  ASSUME TypeOK, JobsGood, MapInv, NEW h \in Handlers, WriteTier(h)
  PROVE  Map!MapNext
<1>1. PICK m, p : m = job[h].memory /\ p = job[h].put
  OBVIOUS
<1>2. /\ job[h] \in Job /\ p \in Put /\ m \in Memories
      /\ job[h].pc = "write" /\ Aimed(h) /\ p \notin job[h].puts /\ job[h].puts \subseteq Put
  <2>1. job[h] \in Job /\ job[h].pc = "write" /\ Good(job[h], nmemories) /\ Aimed(h)
    BY DEF JobsGood, WriteTier, MapInv
  <2>2. job[h].memory \in 1 .. nmemories
    BY <2>1 DEF Good
  <2>3. job[h].memory \in Memories
    BY <2>2, MemoryConstantsOK DEF TypeOK, Memories
  <2> QED BY <1>1, <2>1, <2>3 DEF Good, Aimed, Job
<1>3. /\ OthersWait(h) /\ memories' = memories
      /\ job'[h] = NextPut(job[h])
  <2>1. OthersWait(h)
    BY WriteOK, TodoIs DEF OthersWait
  <2>2. memories' = memories /\ job' = [job EXCEPT ![h] = NextPut(job[h])]
    BY DEF WriteTier, Step, memoryTable
  <2> QED BY <2>1, <2>2, NextIs
<1>. DEFINE e == PutOf(m, p)
<1>4. Todo(h) = {PutOf(m, q) : q \in job[h].puts \cup {p}}
  BY <1>1, <1>2, TodoIs, TodoCases
<1>5. Todo(h)' = {PutOf(m, q) : q \in job[h].puts}
  BY <1>1, <1>2, <1>3, TodoIs, NextPutTodo
<1>6. \A q \in job[h].puts : PutOf(m, q) # e
  BY <1>2 DEF PutOf, Put
<1>7. e \in Todo(h) /\ Todo(h)' = Todo(h) \ {e}
  BY <1>4, <1>5, <1>6
<1>8. CASE View(m, p.tier)' = p.content
  <2>1. \A n \in Memories, t \in Tiers :
          View(n, t)' = IF n = m /\ t = p.tier THEN p.content ELSE View(n, t)
    BY <1>1, <1>2, <1>8, WriteViews
  <2>2. e.kind = "put" /\ e.memory = m /\ e.tier = p.tier /\ e.content = p.content
    BY DEF PutOf
  <2>. HIDE DEF e
  <2>3. [n \in Memories |-> [t \in Tiers |-> View(n, t)']] =
          [[n \in Memories |-> [t \in Tiers |-> View(n, t)]] EXCEPT
             ![m] = [@ EXCEPT ![p.tier] = p.content]]
    BY <1>2, <2>1 DEF Put
  <2>4. Map!Apply(e)
    BY <2>2, <2>3 DEF Map!Apply
  <2> QED BY <1>3, <1>7, <2>4, MapHappen
<1>9. CASE View(m, p.tier)' # p.content
  <2>1. SameViews
    BY <1>1, <1>2, <1>9, WriteViews DEF SameViews
  <2>2. \A g \in Handlers : Todo(g)' \subseteq Todo(g)
    BY <1>3, <1>7 DEF OthersWait
  <2> QED BY <1>3, <2>1, <2>2, MapForget
<1> QED BY <1>8, <1>9

\* A deletion of tiers is the effect asked for.
LEMMA DropMaps ==
  ASSUME TypeOK, JobsGood, MapInv, NEW h \in Handlers, DropTier(h) \/ DropTiers(h)
  PROVE  Map!MapNext
<1>1. PICK gone : Drops(h, gone)
  BY DropIs
<1>2. PICK m : m = job[h].memory
  OBVIOUS
<1>3. m \in Memories /\ job[h] \in Job /\ Aimed(h)
  <2>1. job[h] \in Job /\ Good(job[h], nmemories) /\ Aimed(h)
    BY DEF JobsGood, MapInv
  <2>2. job[h].memory \in 1 .. nmemories
    BY <2>1 DEF Good, DropTier, DropTiers
  <2> QED BY <1>2, <2>1, <2>2, MemoryConstantsOK DEF TypeOK, Memories
<1>4. OthersWait(h) /\ memories' = memories
  BY <1>1, DropOK, TodoIs DEF OthersWait, Drops, memoryTable
<1>5. CASE DropTier(h)
  <2>1. PICK p \in Put : job[h].puts = {p}
    BY <1>3, <1>5 DEF Aimed, DropTier
  <2>2. gone = Copies(m, p.tier) /\ job' = [job EXCEPT ![h] = Idle]
    BY <1>1, <1>2, <1>5, <2>1 DEF Drops, DropTier
  <2>. DEFINE e == [kind |-> "drop", memory |-> m, tier |-> p.tier]
  <2>3. Todo(h) = {e}
    BY <1>2, <1>5, <2>1, TodoIs, TodoCases DEF DropTier
  <2>4. Todo(h)' = {}
    BY <2>2, IdleOK, NextIs, TodoIs, TodoCases
  <2>5. \A n, t : View(n, t)' = IF n = m /\ t = p.tier THEN None ELSE View(n, t)
    <3>1. ASSUME NEW n, NEW t, ~(n = m /\ t = p.tier)
          PROVE  Copies(n, t) \cap gone = {}
      BY <2>2, <3>1 DEF Copies
    <3> QED BY <1>1, <2>2, <3>1, DropViews
  <2>6. [n \in Memories |-> [t \in Tiers |-> View(n, t)']] =
          [[n \in Memories |-> [t \in Tiers |-> View(n, t)]] EXCEPT
             ![m] = [@ EXCEPT ![p.tier] = None]]
    BY <1>3, <2>1, <2>5 DEF Put
  <2>7. e.kind = "drop" /\ e.memory = m /\ e.tier = p.tier
    OBVIOUS
  <2>. HIDE DEF e
  <2>8. Map!Apply(e)
    BY <2>6, <2>7 DEF Map!Apply
  <2>9. e \in Todo(h) /\ Todo(h)' = Todo(h) \ {e}
    BY <2>3, <2>4
  <2> QED BY <1>4, <2>8, <2>9, MapHappen
<1>6. CASE DropTiers(h)
  <2>1. gone = RowsOf(m) /\ job' = [job EXCEPT ![h] = [job[h] EXCEPT !.pc = "unbind"]]
    BY <1>1, <1>2, <1>6 DEF Drops, DropTiers
  <2>. DEFINE e == [kind |-> "remove", memory |-> m]
  <2>2. Todo(h) = {e}
    BY <1>2, <1>6, TodoIs, TodoCases DEF DropTiers
  <2>3. Todo(h)' = {}
    <3>1. job'[h] = [job[h] EXCEPT !.pc = "unbind"]
      BY <2>1, NextIs
    <3>2. job'[h].pc = "unbind"
      BY <1>3, <3>1, EditOK DEF Pcs
    <3> QED BY <3>2, TodoIs, TodoCases
  <2>4. \A n, t : View(n, t)' = IF n = m THEN None ELSE View(n, t)
    <3>1. ASSUME NEW n, NEW t
          PROVE  /\ n = m => Copies(n, t) \subseteq gone
                 /\ n # m => Copies(n, t) \cap gone = {}
      BY <2>1 DEF Copies, RowsOf
    <3> QED BY <1>1, <3>1, DropViews
  <2>5. [n \in Memories |-> [t \in Tiers |-> View(n, t)']] =
          [[n \in Memories |-> [t \in Tiers |-> View(n, t)]] EXCEPT
             ![m] = [t \in Tiers |-> None]]
    BY <1>3, <2>4
  <2>6. e.kind = "remove" /\ e.memory = m
    OBVIOUS
  <2>. HIDE DEF e
  <2>7. Map!Apply(e)
    BY <2>5, <2>6 DEF Map!Apply, Map!Empty
  <2>8. e \in Todo(h) /\ Todo(h)' = Todo(h) \ {e}
    BY <2>2, <2>3
  <2> QED BY <1>4, <2>7, <2>8, MapHappen
<1> QED BY <1>5, <1>6

\* A failed call gives up what it was about.
LEMMA FailureMaps ==
  ASSUME TypeOK, JobsGood, [Next]_vars, NEW h \in Handlers, FailedCall(h)
  PROVE  [Map!MapNext]_Map!mapVars
<1>1. job[h] \in Job
  BY DEF JobsGood
<1>2. /\ UNCHANGED <<memories, tiers>>
      /\ \A g \in Handlers \ {h} : job'[g] = job[g]
  <2>1. \E j : job' = [job EXCEPT ![h] = j]
    BY DEF FailedCall, Step
  <2> QED BY <2>1 DEF FailedCall, memoryTable, tierTable, TypeOK
<1>3. CASE job[h].pc \notin {"tier", "write", "drop_tier", "drop_tiers"}
  <2>1. Todo(h) = {}
    BY <1>3, TodoIs, TodoCases
  <2> QED BY <1>2, <2>1, AskingMaps
<1>4. ASSUME Todo(h)' \subseteq Todo(h) PROVE Map!MapNext
  <2>1. \A g \in Handlers : Todo(g)' \subseteq Todo(g)
    BY <1>2, <1>4, TodoIs
  <2> QED BY <1>2, <2>1, SameTiers, MapForget
<1>5. CASE job[h].pc = "tier"
  <2>1. PICK p \in job[h].puts :
          job' = [job EXCEPT ![h] = NextPut([job[h] EXCEPT !.puts = @ \ {p}])]
    BY <1>5 DEF FailedCall, Step
  <2>2. PICK j : j = [job[h] EXCEPT !.puts = @ \ {p}]
    OBVIOUS
  <2>3. j \in Job /\ j.memory = job[h].memory /\ j.puts = job[h].puts \ {p}
    BY <1>1, <2>2 DEF Job
  <2>4. job'[h] = NextPut(j)
    BY <2>1, <2>2, NextIs
  <2>5. Todo(h)' = {PutOf(j.memory, q) : q \in j.puts}
    BY <2>3, <2>4, TodoIs, NextPutTodo
  <2>6. Todo(h) = {PutOf(job[h].memory, q) : q \in job[h].puts}
    BY <1>5, TodoIs, TodoCases
  <2> QED BY <1>4, <2>3, <2>5, <2>6
<1>6. CASE job[h].pc = "write"
  <2>1. job'[h] = NextPut(job[h])
    BY <1>6, NextIs DEF FailedCall, Step
  <2>2. Todo(h)' = {PutOf(job[h].memory, q) : q \in job[h].puts}
    BY <1>1, <2>1, TodoIs, NextPutTodo
  <2>3. Todo(h) = {PutOf(job[h].memory, q) : q \in job[h].puts \cup {job[h].put}}
    BY <1>6, TodoIs, TodoCases
  <2> QED BY <1>4, <2>2, <2>3
<1>7. CASE job[h].pc \in {"drop_tier", "drop_tiers"}
  <2>1. job'[h] = Idle
    BY <1>7, NextIs DEF FailedCall, Step
  <2>2. Todo(h)' = {}
    BY <2>1, IdleOK, TodoIs, TodoCases
  <2> QED BY <1>4, <2>2
<1> QED BY <1>3, <1>4, <1>5, <1>6, <1>7

LEMMA MapStep ==
  ASSUME TypeOK, JobsGood, MapInv, [Next]_vars
  PROVE  [Map!MapNext]_Map!mapVars
<1>1. ASSUME NEW h \in Handlers,
             \/ UpdateRow(h) \/ GetUpdated(h) \/ Bind(h) \/ Unbind(h)
             \/ UnbindTask(h) \/ DropTask(h) \/ Touch(h)
      PROVE  [Map!MapNext]_Map!mapVars
  <2>1. /\ UNCHANGED <<memories, tiers>>
        /\ job[h].pc \notin {"tier", "write", "drop_tier", "drop_tiers"}
        /\ \E j : job' = [job EXCEPT ![h] = j]
    BY <1>1 DEF UpdateRow, GetUpdated, Bind, Unbind, UnbindTask, DropTask, Touch,
       memoryTable, tierTable, Step
  <2>2. Todo(h) = {} /\ \A g \in Handlers \ {h} : job'[g] = job[g]
    BY <2>1, TodoIs, TodoCases DEF TypeOK
  <2> QED BY <2>1, <2>2, AskingMaps
<1>2. ASSUME NEW h \in Handlers, DropMemory(h)
      PROVE  [Map!MapNext]_Map!mapVars
  <2>1. /\ UNCHANGED tiers /\ memories' = memories \ {job[h].memory}
        /\ job[h].pc = "drop_memory" /\ job' = [job EXCEPT ![h] = Idle]
    BY <1>2 DEF DropMemory, tierTable, Step
  <2>2. \A g \in Handlers : Todo(g)' = Todo(g)
    <3>1. Todo(h) = {} /\ Todo(h)' = {}
      BY <2>1, IdleOK, NextIs, TodoIs, TodoCases
    <3>2. \A g \in Handlers \ {h} : job'[g] = job[g]
      BY <2>1 DEF TypeOK
    <3> QED BY <3>1, <3>2, TodoIs
  <2>3. PICK m : m = job[h].memory
    OBVIOUS
  <2>4. CASE m \in memories
    BY <2>1, <2>2, <2>3, <2>4, SameTiers, MapDisappear
  <2>5. CASE m \notin memories
    BY <2>1, <2>2, <2>3, <2>5, SameTiers, MapStutter
  <2> QED BY <2>4, <2>5
<1>3. ASSUME NEW h \in Handlers, FindTier(h)
      PROVE  [Map!MapNext]_Map!mapVars
  <2>1. PICK p \in job[h].puts : Finds(h, p)
    BY <1>3, FindIs
  <2>2. PICK j : j = [job[h] EXCEPT !.pc = "write", !.puts = @ \ {p}, !.put = p,
                                    !.row = FirstRow(job[h].memory, p.tier)]
    OBVIOUS
  <2>3. /\ job'[h] = j /\ UNCHANGED <<memories, tiers>> /\ job[h].pc = "tier"
        /\ \A g \in Handlers \ {h} : job'[g] = job[g]
    BY <2>1, <2>2, NextIs, FindOK DEF Finds, memoryTable, tierTable
  <2>4. /\ j.pc = "write" /\ j.memory = job[h].memory /\ j.put = p
        /\ j.puts = job[h].puts \ {p}
    BY <2>2 DEF JobsGood, Job
  <2>5. Todo(h)' = {PutOf(job[h].memory, q) : q \in j.puts \cup {j.put}}
    BY <2>3, <2>4, TodoIs, TodoCases
  <2>6. Todo(h) = {PutOf(job[h].memory, q) : q \in job[h].puts}
    BY <2>3, TodoIs, TodoCases
  <2>7. j.puts \cup {j.put} = job[h].puts
    BY <2>4
  <2>8. \A g \in Handlers : Todo(g)' = Todo(g)
    BY <2>3, <2>5, <2>6, <2>7, TodoIs
  <2> QED BY <2>3, <2>8, SameTiers, MapStutter
<1>4. CASE Crash
  <2>1. UNCHANGED <<memories, tiers>> /\ \A g \in Handlers : job'[g] = Idle
    BY <1>4 DEF Crash, memoryTable, tierTable
  <2>2. \A g \in Handlers : Todo(g)' \subseteq Todo(g)
    BY <2>1, IdleOK, TodoIs, TodoCases
  <2> QED BY <2>1, <2>2, SameTiers, MapForget
<1>5. CASE UNCHANGED vars
  BY <1>5, UnchangedOK, SameTiers, TodoIs, MapStutter
<1> QED BY <1>1, <1>2, <1>3, <1>4, <1>5, RequestMaps, WriteMaps, DropMaps, FailureMaps
     DEF Next, HandlerStep

\* The store implements the map its users see (memory_db.rs: get_tier after
\* upsert_tier, delete_tier and delete_memory of any number of handlers).
THEOREM StoreImplementsMap == Spec => ImplementsMap
<1>1. Init => Map!MapInit
  <2>. SUFFICES ASSUME Init PROVE Map!MapInit
    OBVIOUS
  <2>1. \A m, t : View(m, t) = None
    BY DEF Init, View, Copies
  <2>2. \A h \in Handlers : Todo(h) = {}
    BY IdleOK, TodoIs, TodoCases DEF Init
  <2> QED BY <2>1, <2>2 DEF Init, Map!MapInit, Map!Empty
<1>2. Init => MapInv
  BY IdleOK DEF Init, MapInv, Aimed
<1> QED BY <1>1, <1>2, MapInvStep, MapStep, TypeInvariant, PTL
     DEF Spec, ImplementsMap, Map!MapSpec
=============================================================================
