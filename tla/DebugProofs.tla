---------------------------- MODULE DebugProofs ----------------------------
(***************************************************************************)
(* What TLAPS proves of DebugTask: its type invariant, and the three        *)
(* invariants on the output, its evaluation and the status.  The first part *)
(* has the facts about numbers and sequences they need and the library     *)
(* does not state: induction over the natural numbers without an operator  *)
(* as parameter, and what FlattenSeq does to a sequence that grows at its  *)
(* end or loses its head.                                                  *)
(***************************************************************************)
EXTENDS DebugTask, WellFoundedInduction, SequenceTheorems, TLAPS

-----------------------------------------------------------------------------
(* Numbers and sequences.                                                  *)

Below == {p \in Nat \X Nat : p[1] < p[2]}

LEMMA BelowIsWellFounded == IsWellFoundedOn(Below, Nat)
BY NatLessThanWellFounded DEF OpToRel, Below

\* A set of natural numbers that is not empty has a least element.
LEMMA Least ==
  ASSUME NEW T \in SUBSET Nat, T # {}
  PROVE  \E n \in T : \A m \in T : n <= m
<1>1. PICK x \in T : \A y \in T : <<y, x>> \notin Below
  BY BelowIsWellFounded, WFMin
<1>2. \A y \in T : x <= y
  <2>. SUFFICES ASSUME NEW y \in T, ~ (x <= y) PROVE FALSE
    OBVIOUS
  <2>1. <<y, x>> \in Below
    BY DEF Below
  <2> QED BY <1>1, <2>1
<1> QED BY <1>2

\* Induction: the predicate is the set of the numbers it holds of.
LEMMA SetInduction ==
  ASSUME NEW S, 0 \in S, \A n \in Nat : n \in S => n + 1 \in S
  PROVE  Nat \subseteq S
<1>. DEFINE T == Nat \ S
<1>. SUFFICES ASSUME T # {} PROVE FALSE
  OBVIOUS
<1>1. PICK x \in T : \A y \in T : x <= y
  BY Least
<1>2. x # 0 /\ x - 1 \in Nat
  BY <1>1
<1>3. x - 1 \in S
  BY <1>1, <1>2
<1> QED BY <1>2, <1>3

-----------------------------------------------------------------------------
(* Concatenation                                                           *)

\* The concatenation by a name: the provers rewrite an equality with \o to one
\* of the elements, which is rarely what a step needs.
Cat(s, t) == s \o t

LEMMA CatType ==
  ASSUME NEW A, NEW s \in Seq(A), NEW t \in Seq(A)
  PROVE  Cat(s, t) \in Seq(A) /\ Len(Cat(s, t)) = Len(s) + Len(t)
BY ConcatProperties DEF Cat

LEMMA CatEmpty ==
  ASSUME NEW A, NEW s \in Seq(A)
  PROVE  Cat(s, <<>>) = s /\ Cat(<<>>, s) = s
BY ConcatEmptySeq DEF Cat

LEMMA CatAssociative ==
  ASSUME NEW A, NEW s \in Seq(A), NEW t \in Seq(A), NEW u \in Seq(A)
  PROVE  Cat(Cat(s, t), u) = Cat(s, Cat(t, u))
BY ConcatAssociative DEF Cat

LEMMA CatPrefix ==
  ASSUME NEW A, NEW s \in Seq(A), NEW t \in Seq(A)
  PROVE  IsPrefix(s, Cat(s, t))
BY ConcatProperties DEF Cat, IsPrefix

-----------------------------------------------------------------------------
(* FlattenSeq                                                              *)

\* f[i] is the concatenation of the first i elements of s.
Flat(s, n, f) ==
  f = [i \in 1 .. n |-> IF i = 1 THEN s[i] ELSE f[i - 1] \o s[i]]

LEMMA FlatExists ==
  ASSUME NEW s, NEW n \in Nat
  PROVE  \E f : Flat(s, n, f)
<1>. DEFINE S == {m \in Nat : \E f : Flat(s, m, f)}
<1>1. 0 \in S
  <2>. DEFINE f == [i \in 1 .. 0 |-> 0]
  <2>1. Flat(s, 0, f)
    BY DEF Flat
  <2> QED BY <2>1
<1>2. ASSUME NEW m \in Nat, m \in S PROVE m + 1 \in S
  <2>1. PICK f : Flat(s, m, f)
    BY <1>2
  <2>. DEFINE g == [i \in 1 .. m + 1 |->
                      IF i = m + 1 THEN IF i = 1 THEN s[i] ELSE f[i - 1] \o s[i]
                      ELSE f[i]]
              h == [i \in 1 .. m + 1 |-> IF i = 1 THEN s[i] ELSE g[i - 1] \o s[i]]
  <2>2. ASSUME NEW i \in 1 .. m + 1 PROVE g[i] = h[i]
    <3>1. CASE i = m + 1
      <4>1. g[i] = IF i = 1 THEN s[i] ELSE f[i - 1] \o s[i]
        BY <3>1
      <4>2. i # 1 => i - 1 \in 1 .. m + 1 /\ i - 1 # m + 1
        BY <3>1
      <4>3. i # 1 => g[i - 1] = f[i - 1]
        BY <4>2
      <4> QED BY <4>1, <4>3
    <3>2. CASE i # m + 1
      <4>1. i \in 1 .. m
        BY <3>2
      <4>2. g[i] = f[i]
        BY <3>2
      <4>3. f[i] = IF i = 1 THEN s[i] ELSE f[i - 1] \o s[i]
        BY <2>1, <4>1 DEF Flat
      <4>4. i # 1 => i - 1 \in 1 .. m + 1 /\ i - 1 # m + 1
        BY <4>1
      <4>5. i # 1 => g[i - 1] = f[i - 1]
        BY <4>4
      <4> QED BY <4>2, <4>3, <4>5
    <3> QED BY <3>1, <3>2
  <2>3. g = h
    BY <2>2
  <2>4. Flat(s, m + 1, g)
    BY <2>3 DEF Flat
  <2> QED BY <2>4
<1>3. Nat \subseteq S
  <2>. HIDE DEF S
  <2> QED BY <1>1, <1>2, SetInduction
<1> QED BY <1>3

\* The partial results are determined by the elements they are made of.
LEMMA FlatUnique ==
  ASSUME NEW s, NEW t, NEW n \in Nat, NEW m \in Nat, n <= m,
         \A i \in 1 .. n : s[i] = t[i],
         NEW f, NEW g, Flat(s, n, f), Flat(t, m, g)
  PROVE  \A i \in 1 .. n : f[i] = g[i]
<1>. DEFINE S == {k \in Nat : k \in 1 .. n => f[k] = g[k]}
<1>1. 0 \in S
  OBVIOUS
<1>2. ASSUME NEW k \in Nat, k \in S PROVE k + 1 \in S
  <2>. SUFFICES ASSUME k + 1 \in 1 .. n PROVE f[k + 1] = g[k + 1]
    OBVIOUS
  <2>1. f[k + 1] = IF k + 1 = 1 THEN s[k + 1] ELSE f[k] \o s[k + 1]
    <3>1. (k + 1) - 1 = k
      OBVIOUS
    <3> QED BY <3>1 DEF Flat
  <2>2. g[k + 1] = IF k + 1 = 1 THEN t[k + 1] ELSE g[k] \o t[k + 1]
    <3>1. (k + 1) - 1 = k /\ k + 1 \in 1 .. m
      OBVIOUS
    <3> QED BY <3>1 DEF Flat
  <2>3. k + 1 # 1 => f[k] = g[k]
    BY <1>2
  <2> QED BY <2>1, <2>2, <2>3
<1>3. Nat \subseteq S
  <2>. HIDE DEF S
  <2> QED BY <1>1, <1>2, SetInduction
<1> QED BY <1>3

LEMMA FlattenIsFlat ==
  ASSUME NEW s, NEW n \in Nat \ {0}, Len(s) = n, NEW f, Flat(s, n, f)
  PROVE  FlattenSeq(s) = f[n]
<1>. DEFINE g == CHOOSE h : h = [i \in 1 .. Len(s) |->
                               IF i = 1 THEN s[i] ELSE h[i - 1] \o s[i]]
<1>1. FlattenSeq(s) = g[Len(s)]
  BY DEF FlattenSeq
<1>2. Flat(s, n, g)
  <2>1. \E h : h = [i \in 1 .. Len(s) |->
                      IF i = 1 THEN s[i] ELSE h[i - 1] \o s[i]]
    BY DEF Flat
  <2>2. g = [i \in 1 .. Len(s) |-> IF i = 1 THEN s[i] ELSE g[i - 1] \o s[i]]
    BY <2>1
  <2> QED BY <2>2 DEF Flat
<1>3. \A i \in 1 .. n : f[i] = g[i]
  <2>. HIDE DEF g
  <2> QED BY <1>2, FlatUnique
<1>4. n \in 1 .. n
  OBVIOUS
<1> QED BY <1>1, <1>3, <1>4

LEMMA FlattenEmpty == FlattenSeq(<<>>) = <<>>
BY DEF FlattenSeq

LEMMA FlatType ==
  ASSUME NEW A, NEW s \in Seq(Seq(A)), NEW f, Flat(s, Len(s), f)
  PROVE  \A i \in 1 .. Len(s) : f[i] \in Seq(A)
<1>. DEFINE S == {k \in Nat : k \in 1 .. Len(s) => f[k] \in Seq(A)}
<1>1. 0 \in S
  OBVIOUS
<1>2. ASSUME NEW k \in Nat, k \in S PROVE k + 1 \in S
  <2>. SUFFICES ASSUME k + 1 \in 1 .. Len(s) PROVE f[k + 1] \in Seq(A)
    OBVIOUS
  <2>1. f[k + 1] = IF k + 1 = 1 THEN s[k + 1] ELSE f[k] \o s[k + 1]
    <3>1. (k + 1) - 1 = k
      OBVIOUS
    <3> QED BY <3>1 DEF Flat
  <2>2. s[k + 1] \in Seq(A)
    OBVIOUS
  <2>3. k + 1 # 1 => f[k] \in Seq(A)
    BY <1>2
  <2> QED BY <2>1, <2>2, <2>3, ConcatProperties
<1>3. Nat \subseteq S
  <2>. HIDE DEF S
  <2> QED BY <1>1, <1>2, SetInduction
<1> QED BY <1>3

LEMMA FlattenType ==
  ASSUME NEW A, NEW s \in Seq(Seq(A))
  PROVE  FlattenSeq(s) \in Seq(A)
<1>1. CASE s = <<>>
  <2>1. FlattenSeq(s) = <<>>
    BY <1>1, FlattenEmpty
  <2> QED BY <2>1, EmptySeq
<1>2. CASE s # <<>>
  <2>1. PICK n \in Nat \ {0} : Len(s) = n
    BY <1>2
  <2>2. PICK f : Flat(s, n, f)
    BY <2>1, FlatExists
  <2>3. n \in 1 .. Len(s) /\ Flat(s, Len(s), f)
    BY <2>1, <2>2
  <2>4. f[n] \in Seq(A)
    BY <2>3, FlatType
  <2> QED BY <2>1, <2>2, <2>4, FlattenIsFlat
<1> QED BY <1>1, <1>2

LEMMA FlattenLonger ==
  ASSUME NEW s, NEW t, NEW n \in Nat \ {0}, Len(s) = n, Len(t) = n + 1,
         \A i \in 1 .. n : s[i] = t[i]
  PROVE  FlattenSeq(t) = FlattenSeq(s) \o t[n + 1]
<1>. n + 1 \in Nat \ {0}
  OBVIOUS
<1>1. PICK f : Flat(t, n + 1, f)
  BY FlatExists
<1>2. PICK g : Flat(s, n, g)
  BY FlatExists
<1>3. FlattenSeq(t) = f[n + 1] /\ FlattenSeq(s) = g[n]
  BY <1>1, <1>2, FlattenIsFlat
<1>4. f[n + 1] = f[n] \o t[n + 1]
  <2>1. (n + 1) - 1 = n /\ n + 1 \in 1 .. n + 1 /\ n + 1 # 1
    OBVIOUS
  <2> QED BY <1>1, <2>1 DEF Flat
<1>5. g[n] = f[n]
  <2>1. n <= n + 1 /\ n \in 1 .. n /\ n \in Nat /\ n + 1 \in Nat
    OBVIOUS
  <2>2. \A i \in 1 .. n : g[i] = f[i]
    BY <1>1, <1>2, <2>1, FlatUnique, SMTT(30)
  <2> QED BY <2>1, <2>2
<1> QED BY <1>3, <1>4, <1>5

LEMMA FlattenOne ==
  ASSUME NEW s, Len(s) = 1
  PROVE  FlattenSeq(s) = s[1]
<1>1. PICK f : Flat(s, 1, f)
  BY FlatExists
<1>2. FlattenSeq(s) = f[1]
  <2>1. 1 \in Nat \ {0}
    OBVIOUS
  <2> QED BY <1>1, <2>1, FlattenIsFlat
<1> QED BY <1>1, <1>2 DEF Flat

\* What is appended to the sequence comes at the end of the concatenation.
LEMMA FlattenAppend ==
  ASSUME NEW A, NEW s \in Seq(Seq(A)), NEW e \in Seq(A)
  PROVE  FlattenSeq(Append(s, e)) = Cat(FlattenSeq(s), e)
<1>. USE DEF Cat
<1>1. CASE s = <<>>
  <2>1. Len(Append(s, e)) = 1 /\ Append(s, e)[1] = e
    BY <1>1
  <2>2. FlattenSeq(s) = <<>>
    BY <1>1, FlattenEmpty
  <2>3. <<>> \o e = e
    BY ConcatEmptySeq
  <2> QED BY <2>1, <2>2, <2>3, FlattenOne
<1>2. CASE s # <<>>
  <2>1. PICK n \in Nat \ {0} : Len(s) = n
    BY <1>2
  <2>2. /\ Len(Append(s, e)) = n + 1 /\ Append(s, e)[n + 1] = e
        /\ \A i \in 1 .. n : s[i] = Append(s, e)[i]
    BY <2>1
  <2> QED BY <2>1, <2>2, FlattenLonger
<1> QED BY <1>1, <1>2

\* t is s without its first element, and its partial results are sequences.
Shifted(A, s, t, n, g) ==
  \A i \in 1 .. n : s[i + 1] = t[i] /\ t[i] \in Seq(A) /\ g[i] \in Seq(A)

LEMMA FlatShift ==
  ASSUME NEW A, NEW n \in Nat, NEW m \in Nat, m = n + 1, NEW x \in Seq(A),
         NEW s, NEW t, NEW f, NEW g,
         Flat(s, m, f), Flat(t, n, g), s[1] = x,
         Shifted(A, s, t, n, g)
  PROVE  \A i \in 1 .. n : f[i + 1] = x \o g[i]
<1>. DEFINE P(k) == k \in 1 .. n => f[k + 1] = x \o g[k]
            S == {k \in Nat : P(k)}
<1>1. f[1] = x
  <2>1. 1 \in 1 .. n + 1
    OBVIOUS
  <2> QED BY <2>1 DEF Flat
<1>2. ASSUME NEW k \in Nat, P(k), k + 1 \in 1 .. n
      PROVE  f[(k + 1) + 1] = x \o g[k + 1]
  <2>1. f[(k + 1) + 1] = f[k + 1] \o s[(k + 1) + 1]
    <3>1. /\ (k + 1) + 1 \in 1 .. n + 1 /\ (k + 1) + 1 # 1
          /\ ((k + 1) + 1) - 1 = k + 1
      BY <1>2
    <3> QED BY <3>1 DEF Flat
  <2>2. PICK e \in Seq(A) : s[(k + 1) + 1] = e /\ t[k + 1] = e
    BY <1>2 DEF Shifted
  <2>3. g[k + 1] = IF k + 1 = 1 THEN t[k + 1] ELSE g[k] \o t[k + 1]
    <3>1. (k + 1) - 1 = k
      OBVIOUS
    <3> QED BY <1>2, <3>1 DEF Flat
  <2>4. CASE k = 0
    <3>1. f[k + 1] = x /\ k + 1 = 1
      BY <1>1, <2>4
    <3>2. g[k + 1] = e
      BY <3>1, <2>2, <2>3
    <3>3. f[(k + 1) + 1] = x \o e
      BY <3>1, <2>1, <2>2
    <3> QED BY <3>2, <3>3
  <2>5. CASE k # 0
    <3>1. k \in 1 .. n /\ k + 1 # 1
      BY <1>2, <2>5
    <3>2. PICK y \in Seq(A) : g[k] = y
      BY <3>1 DEF Shifted
    <3>3. f[k + 1] = x \o y
      BY <1>2, <3>1, <3>2
    <3>4. f[(k + 1) + 1] = (x \o y) \o e
      BY <2>1, <2>2, <3>3
    <3>5. g[k + 1] = y \o e
      BY <2>2, <2>3, <3>1, <3>2
    <3>6. (x \o y) \o e = x \o (y \o e)
      BY ConcatAssociative
    <3> QED BY <3>4, <3>5, <3>6
  <2> QED BY <2>4, <2>5
<1>3. Nat \subseteq S
  <2>1. 0 \in S
    OBVIOUS
  <2>2. ASSUME NEW k \in Nat, k \in S PROVE k + 1 \in S
    <3>1. P(k)
      BY <2>2
    <3>2. P(k + 1)
      BY <1>2, <3>1
    <3>. HIDE DEF P
    <3> QED BY <3>2
  <2>. HIDE DEF S
  <2> QED BY <2>1, <2>2, SetInduction
<1>4. ASSUME NEW i \in 1 .. n PROVE f[i + 1] = x \o g[i]
  <2>1. P(i)
    <3>. HIDE DEF P
    <3> QED BY <1>3
  <2> QED BY <2>1
<1> QED BY <1>4

LEMMA FlattenShift ==
  ASSUME NEW A, NEW n \in Nat, NEW m \in Nat, n # 0, m = n + 1, NEW x \in Seq(A),
         NEW s, NEW t, Len(t) = n, Len(s) = m, s[1] = x,
         NEW f, NEW g, Flat(s, m, f), Flat(t, n, g), Shifted(A, s, t, n, g)
  PROVE  FlattenSeq(s) = Cat(x, FlattenSeq(t))
<1>1. FlattenSeq(s) = f[m] /\ FlattenSeq(t) = g[n]
  BY FlattenIsFlat
<1>2. \A i \in 1 .. n : f[i + 1] = x \o g[i]
  BY FlatShift
<1>3. n \in 1 .. n
  OBVIOUS
<1> QED BY <1>1, <1>2, <1>3 DEF Cat

\* The concatenation begins with the head.
LEMMA FlattenHeadTail ==
  ASSUME NEW A, NEW s \in Seq(Seq(A)), s # <<>>
  PROVE  FlattenSeq(s) = Cat(Head(s), FlattenSeq(Tail(s)))
<1>1. Tail(s) \in Seq(Seq(A)) /\ Head(s) = s[1] /\ s[1] \in Seq(A)
  OBVIOUS
<1>2. CASE Len(s) = 1
  <2>1. Tail(s) = <<>>
    <3>1. Len(Tail(s)) = 0
      BY <1>2, HeadTailProperties
    <3> QED BY <1>1, <3>1, EmptySeq
  <2>2. FlattenSeq(Tail(s)) = <<>>
    BY <2>1, FlattenEmpty
  <2>3. s[1] \o <<>> = s[1]
    BY <1>1, ConcatEmptySeq
  <2> QED BY <1>1, <1>2, <2>2, <2>3, FlattenOne DEF Cat
<1>3. CASE Len(s) # 1
  <2>1. PICK n \in Nat : n # 0 /\ Len(s) = n + 1
    <3>1. Len(s) \in Nat /\ Len(s) # 0
      OBVIOUS
    <3>2. Len(s) - 1 \in Nat /\ Len(s) - 1 # 0 /\ (Len(s) - 1) + 1 = Len(s)
      BY <1>3, <3>1
    <3> QED BY <3>2
  <2>2. PICK m \in Nat : m = n + 1
    OBVIOUS
  <2>3. Len(Tail(s)) = n /\ \A i \in 1 .. n : Tail(s)[i] = s[i + 1]
    BY <2>1
  <2>4. PICK f : Flat(s, m, f)
    BY FlatExists
  <2>5. PICK g : Flat(Tail(s), n, g)
    BY FlatExists
  <2>6. Shifted(A, s, Tail(s), n, g)
    <3>1. Flat(Tail(s), Len(Tail(s)), g)
      BY <2>3, <2>5
    <3>2. \A i \in 1 .. n : g[i] \in Seq(A)
      BY <1>1, <2>3, <3>1, FlatType
    <3> QED BY <1>1, <2>3, <3>2 DEF Shifted
  <2>7. PICK x \in Seq(A) : x = s[1]
    BY <1>1
  <2>11. PICK r, t : r = s /\ t = Tail(s)
    OBVIOUS
  <2>8. Len(t) = n /\ Len(r) = m /\ r[1] = x
    BY <2>1, <2>2, <2>3, <2>7, <2>11
  <2>9. Flat(r, m, f) /\ Flat(t, n, g) /\ Shifted(A, r, t, n, g)
    BY <2>4, <2>5, <2>6, <2>11
  <2>10. FlattenSeq(r) = Cat(x, FlattenSeq(t))
    BY <2>1, <2>2, <2>8, <2>9, FlattenShift
  <2> QED BY <1>1, <2>7, <2>10, <2>11
<1> QED BY <1>2, <1>3

-----------------------------------------------------------------------------
(* The debug task.                                                         *)

Pcs == {"off", "recv", "flush", "done", "panicked"}

\* TypeOK in parts, with the fields the emitter has.
RowT ==
  /\ kind \in {"none", "bash", "prompt"}
  /\ status \in {"none", "running", "completed", "failed", "evaluated", "gone"}
  /\ logs \in Seq(Text)
  /\ evaluations \in Seq(Text)

PtyT ==
  /\ child \in [state : {"none", "up", "ended"}, open : BOOLEAN,
                written : 0 .. MaxOutput, success : BOOLEAN]
  /\ reader \in [pc : {"off", "open", "read", "wait", "done"},
                 pos : 0 .. child.written, half : BOOLEAN, success : BOOLEAN]
  /\ channel \in Seq(Text) /\ sent \in Text

EmitterT ==
  /\ emitter \in [pc : Pcs, accumulated : Text, buffer : Text]
  /\ Len(emitter.accumulated) <= MAX_ACCUMULATED

TasksT ==
  /\ runner \in [pc : {"off", "join", "settle", "evaluate", "done"},
                 success : BOOLEAN, preview : Text]
  /\ answer \in [Responders -> {"off", "asked", "evaluate", "done"}]
  /\ deleter \in {"idle", "abort", "drop_logs", "drop_task", "done"}
  /\ faults \in 0 .. MaxFaults

Typed == RowT /\ PtyT /\ EmitterT /\ TasksT

LEMMA TypedOK == Typed <=> TypeOK /\ emitter \in [pc : Pcs, accumulated : Text, buffer : Text]
BY DEF Typed, RowT, PtyT, EmitterT, TasksT, TypeOK, Pcs

LEMMA RowSame == RowT /\ UNCHANGED <<kind, status, logs, evaluations>> => RowT'
BY DEF RowT

LEMMA PtySame == PtyT /\ UNCHANGED <<child, reader, channel, sent>> => PtyT'
BY DEF PtyT

LEMMA EmitterSame == EmitterT /\ UNCHANGED emitter => EmitterT'
BY DEF EmitterT

LEMMA TasksSame ==
  TasksT /\ UNCHANGED <<runner, answer, deleter, faults>> => TasksT'
BY DEF TasksT

-----------------------------------------------------------------------------
(* Types                                                                   *)

LEMMA FirstType ==
  ASSUME NEW n \in Nat, NEW t \in Text
  PROVE  First(n, t) \in Text /\ Len(First(n, t)) <= n
BY DEF First, Text

\* What a read returns between two positions of the output.
LEMMA WholeType ==
  ASSUME NEW from \in Nat, NEW to \in 0 .. MaxOutput, from <= to
  PROVE  [i \in 1 .. to - from |-> from + i] \in Text
<1>. DEFINE w == [i \in 1 .. to - from |-> from + i]
<1>1. to - from \in Nat
  BY DebugConstantsOK
<1>2. \A i \in 1 .. to - from : from + i \in Char
  BY DebugConstantsOK DEF Char
<1>3. w \in [1 .. to - from -> Char]
  BY <1>2
<1> QED BY <1>1, <1>3, IsASeq DEF Text

LEMMA TypeInit == Init => Typed
BY DebugConstantsOK DEF Init, Typed, RowT, PtyT, EmitterT, TasksT, Pcs, Text

LEMMA SendType ==
  ASSUME Typed, NEW text \in Text, Send(text)
  PROVE  channel' \in Seq(Text) /\ sent' \in Text
BY DEF Send, Typed, RowT, PtyT, EmitterT, TasksT, Text

\* A read sends a text, unless the receiver is gone, and goes forward to what the
\* child has written.
LEMMA ReadSends ==
  ASSUME Typed, Read
  PROVE  /\ \/ emitter.pc = "panicked" /\ UNCHANGED <<channel, sent>>
            \/ emitter.pc # "panicked" /\ \E text \in Text : Send(text)
         /\ \E next \in 0 .. child.written, half \in BOOLEAN :
              reader' = [reader EXCEPT !.pos = next, !.half = half,
                !.pc = IF emitter.pc = "panicked" THEN "wait" ELSE "read"]
<1>1. PICK n \in 0 .. MaxRead, half \in BOOLEAN :
        LET next == reader.pos + n
            start == IF reader.half THEN reader.pos + 1 ELSE reader.pos
            whole == [i \in 1 .. next - start |-> start + i]
            text == (IF reader.half THEN <<Garbled>> ELSE <<>>) \o whole
                       \o (IF half THEN <<Garbled>> ELSE <<>>)
        IN
        /\ next <= child.written
        /\ n = 0 => half /\ ~reader.half
        /\ half => next < child.written
        /\ reader' = [reader EXCEPT !.pos = next, !.half = half,
                        !.pc = IF emitter.pc = "panicked" THEN "wait" ELSE "read"]
        /\ IF emitter.pc = "panicked" THEN UNCHANGED <<channel, sent>>
                                      ELSE Send(text)
  BY DEF Read
<1>. DEFINE next == reader.pos + n
            start == IF reader.half THEN reader.pos + 1 ELSE reader.pos
            whole == [i \in 1 .. next - start |-> start + i]
            before == IF reader.half THEN <<Garbled>> ELSE <<>>
            after == IF half THEN <<Garbled>> ELSE <<>>
            text == before \o whole \o after
<1>2. /\ reader.pos \in Nat /\ reader.half \in BOOLEAN /\ n \in Nat
      /\ child.written \in 0 .. MaxOutput
  BY DebugConstantsOK DEF Typed, RowT, PtyT, EmitterT, TasksT
<1>3. start \in Nat /\ next \in 0 .. MaxOutput /\ start <= next
      /\ next \in 0 .. child.written
  <2>1. next <= child.written /\ (n = 0 => ~reader.half)
    BY <1>1
  <2> QED BY <1>2, <2>1, DebugConstantsOK
<1>4. text \in Text
  <2>. HIDE DEF next, start
  <2>1. whole \in Text
    BY <1>3, WholeType
  <2>2. before \in Text /\ after \in Text
    <3>1. Garbled \in Char
      BY DebugConstantsOK DEF Char, Garbled
    <3>2. <<Garbled>> \in Text /\ <<>> \in Text
      BY <3>1 DEF Text
    <3> QED BY <3>2
  <2>. HIDE DEF whole, before, after
  <2> QED BY <2>1, <2>2, ConcatProperties DEF Text
<1>5. CASE emitter.pc = "panicked"
  BY <1>1, <1>3, <1>5
<1>6. CASE emitter.pc # "panicked"
  <2>1. Send(text)
    BY <1>1, <1>6
  <2>2. reader' = [reader EXCEPT !.pos = next, !.half = half,
                     !.pc = IF emitter.pc = "panicked" THEN "wait" ELSE "read"]
    BY <1>1
  <2>. HIDE DEF text, next
  <2> QED BY <1>3, <1>4, <1>6, <2>1, <2>2
<1> QED BY <1>5, <1>6

LEMMA ReadType == Typed /\ Read => Typed'
<1>. SUFFICES ASSUME Typed, Read PROVE Typed'
  OBVIOUS
<1>1. channel' \in Seq(Text) /\ sent' \in Text
  <2>1. CASE emitter.pc = "panicked"
    BY <2>1, ReadSends DEF Typed, PtyT
  <2>2. CASE emitter.pc # "panicked"
    <3>1. PICK text \in Text : Send(text)
      BY <2>2, ReadSends
    <3> QED BY <3>1, SendType
  <2> QED BY <2>1, <2>2
<1>2. PtyT'
  <2>1. PICK next \in 0 .. child.written, half \in BOOLEAN :
          reader' = [reader EXCEPT !.pos = next, !.half = half,
            !.pc = IF emitter.pc = "panicked" THEN "wait" ELSE "read"]
    BY ReadSends
  <2>2. UNCHANGED child
    BY DEF Read
  <2> QED BY <1>1, <2>1, <2>2 DEF Typed, PtyT
<1> QED BY <1>2, RowSame, EmitterSame, TasksSame DEF Typed, Read, row, tasks

LEMMA ReceiveType == Typed /\ Receive => Typed'
<1>. SUFFICES ASSUME Typed, Receive PROVE Typed'
  OBVIOUS
<1>. DEFINE text == Head(channel)
            room == MAX_ACCUMULATED - Len(emitter.accumulated)
<1>1. text \in Text /\ Tail(channel) \in Seq(Text)
  BY DEF Typed, RowT, PtyT, EmitterT, TasksT, Receive
<1>2. room \in Nat /\ MAX_ACCUMULATED \in Nat
  BY DebugConstantsOK DEF Typed, RowT, PtyT, EmitterT, TasksT, Text
<1>3. channel' = Tail(channel)
  BY DEF Receive
<1>4. /\ emitter' \in [pc : Pcs, accumulated : Text, buffer : Text]
      /\ Len(emitter'.accumulated) <= MAX_ACCUMULATED
  <2>1. CASE emitter' = [emitter EXCEPT !.pc = "panicked"]
    BY <2>1 DEF Typed, RowT, PtyT, EmitterT, TasksT, Pcs
  <2>2. CASE emitter' = [emitter EXCEPT
               !.accumulated = @ \o First(room, text),
               !.buffer = IF HasTask THEN @ \o text ELSE @,
               !.pc = "flush"]
    <3>1. First(room, text) \in Text /\ Len(First(room, text)) <= room
      <4>. HIDE DEF room, text
      <4> QED BY <1>1, <1>2, FirstType
    <3>2. emitter.accumulated \in Text /\ emitter.buffer \in Text
      BY DEF Typed, EmitterT
    <3>. DEFINE acc == emitter.accumulated \o First(room, text)
                buf == emitter.buffer \o text
    <3>3. acc \in Text /\ Len(acc) = Len(emitter.accumulated) + Len(First(room, text))
      BY <3>1, <3>2, ConcatProperties DEF Text
    <3>4. buf \in Text
      BY <1>1, <3>2, ConcatProperties DEF Text
    <3>5. Len(acc) <= MAX_ACCUMULATED
      <4>1. PICK a \in Nat : a = Len(emitter.accumulated)
        BY <3>2 DEF Text
      <4>2. PICK b \in Nat : b = Len(First(room, text))
        BY <3>1 DEF Text
      <4>3. a + b <= MAX_ACCUMULATED
        <5>1. room = MAX_ACCUMULATED - a
          BY <4>1
        <5>. HIDE DEF room
        <5>2. b <= room
          BY <3>1, <4>2
        <5> QED BY <1>2, <5>1, <5>2
      <4>4. Len(acc) = a + b
        BY <3>3, <4>1, <4>2
      <4>. HIDE DEF acc
      <4> QED BY <4>3, <4>4
    <3>6. emitter' = [emitter EXCEPT !.accumulated = acc,
                        !.buffer = IF HasTask THEN buf ELSE emitter.buffer,
                        !.pc = "flush"]
      BY <2>2 DEF Typed, EmitterT
    <3>. HIDE DEF acc, buf
    <3> QED BY <3>2, <3>3, <3>4, <3>5, <3>6 DEF Typed, RowT, PtyT, EmitterT, TasksT, Pcs
  <2> QED BY <2>1, <2>2 DEF Receive
<1>5. UNCHANGED <<kind, row, child, reader, sent, runner, answer, deleter, faults>>
  BY DEF Receive
<1>. HIDE DEF text, room
<1>6. EmitterT'
  BY <1>4 DEF EmitterT
<1>7. PtyT'
  BY <1>1, <1>3, <1>5 DEF Typed, PtyT
<1> QED BY <1>5, <1>6, <1>7, RowSame, TasksSame DEF Typed, row

LEMMA LogBufferType ==
  ASSUME Typed, NEW next \in {"recv", "done"}, LogBuffer(next)
  PROVE  /\ logs' \in Seq(Text)
         /\ emitter' \in [pc : Pcs, accumulated : Text, buffer : Text]
         /\ Len(emitter'.accumulated) <= MAX_ACCUMULATED
         /\ faults' \in 0 .. MaxFaults
<1>1. /\ emitter' = [emitter EXCEPT !.pc = next, !.buffer = <<>>]
      /\ \/ logs' = Append(logs, emitter.buffer) /\ UNCHANGED faults
         \/ UNCHANGED logs /\ Fault
  BY DEF LogBuffer
<1>2. <<>> \in Text
  BY DEF Text
<1>3. /\ emitter' \in [pc : Pcs, accumulated : Text, buffer : Text]
      /\ Len(emitter'.accumulated) <= MAX_ACCUMULATED
  BY <1>1, <1>2 DEF Typed, RowT, PtyT, EmitterT, TasksT, Pcs
<1>4. logs' \in Seq(Text)
  <2>1. logs \in Seq(Text) /\ emitter.buffer \in Text
    BY DEF Typed, RowT, PtyT, EmitterT, TasksT
  <2>2. Append(logs, emitter.buffer) \in Seq(Text)
    BY <2>1, AppendProperties
  <2> QED BY <1>1, <2>1, <2>2
<1>5. faults' \in 0 .. MaxFaults
  BY <1>1, DebugConstantsOK DEF Typed, RowT, PtyT, EmitterT, TasksT, Fault
<1> QED BY <1>3, <1>4, <1>5

LEMMA FaultType ==
  ASSUME Typed, UNCHANGED faults \/ Fault
  PROVE  faults' \in 0 .. MaxFaults
BY DebugConstantsOK DEF Fault, Typed, TasksT

LEMMA TypeStep == Typed /\ [Next]_vars => Typed'
<1>. SUFFICES ASSUME Typed, [Next]_vars PROVE Typed'
  OBVIOUS
<1>a. RowT /\ PtyT /\ EmitterT /\ TasksT
  BY DEF Typed
<1>. USE DEF row, pty, tasks
<1>1. CASE DebugBash
  <2>1. RowT'
    BY <1>a, <1>1 DEF DebugBash, CreateTask, RowT
  <2>2. PtyT'
    BY <1>a, <1>1 DEF DebugBash, PtyT
  <2>3. EmitterT'
    BY <1>a, <1>1 DEF DebugBash, EmitterT, Pcs
  <2>4. TasksT'
    BY <1>a, <1>1, FaultType DEF DebugBash, CreateTask, TasksT
  <2> QED BY <2>1, <2>2, <2>3, <2>4 DEF Typed
<1>2. CASE DebugPrompt
  <2>1. RowT'
    BY <1>a, <1>2 DEF DebugPrompt, CreateTask, RowT
  <2>2. answer' \in [Responders -> {"off", "asked", "evaluate", "done"}]
    BY <1>2 DEF DebugPrompt
  <2>3. TasksT'
    BY <1>a, <1>2, <2>2, FaultType DEF DebugPrompt, CreateTask, TasksT
  <2> QED BY <1>a, <1>2, <2>1, <2>3, PtySame, EmitterSame DEF Typed, DebugPrompt
<1>3. CASE OpenFails
  <2>1. <<Message>> \in Text
    <3>1. Message \in Char
      BY DebugConstantsOK DEF Char, Message
    <3> QED BY <3>1 DEF Text
  <2>2. Send(<<Message>>)
    BY <1>3 DEF OpenFails
  <2>3. channel' \in Seq(Text) /\ sent' \in Text
    BY <2>1, <2>2, SendType
  <2>4. PtyT'
    BY <1>a, <1>3, <2>3 DEF OpenFails, PtyT
  <2>5. TasksT'
    BY <1>a, <1>3, FaultType DEF OpenFails, TasksT
  <2> QED BY <1>a, <1>3, <2>4, <2>5, RowSame, EmitterSame DEF Typed, OpenFails
<1>4. CASE ChildWrites
  <2>1. PtyT'
    BY <1>a, <1>4, DebugConstantsOK DEF ChildWrites, PtyT
  <2> QED BY <1>a, <1>4, <2>1, RowSame, EmitterSame, TasksSame DEF Typed, ChildWrites
<1>5. CASE ChildExits
  <2>1. PtyT'
    BY <1>a, <1>5 DEF ChildExits, PtyT
  <2> QED BY <1>a, <1>5, <2>1, RowSame, EmitterSame, TasksSame DEF Typed, ChildExits
<1>25. CASE LetGo
  <2>1. PtyT'
    BY <1>a, <1>25 DEF LetGo, PtyT
  <2> QED BY <1>a, <1>25, <2>1, RowSame, EmitterSame, TasksSame DEF Typed, LetGo
<1>6. CASE Open
  <2>1. PtyT'
    BY <1>a, <1>6 DEF Open, PtyT
  <2> QED BY <1>a, <1>6, <2>1, RowSame, EmitterSame, TasksSame DEF Typed, Open
<1>7. CASE Read
  BY <1>7, ReadType
<1>8. CASE ReadEnds
  <2>1. PtyT'
    BY <1>a, <1>8 DEF ReadEnds, PtyT
  <2>2. TasksT'
    BY <1>a, <1>8, FaultType DEF ReadEnds, TasksT
  <2> QED BY <1>a, <1>8, <2>1, <2>2, RowSame, EmitterSame DEF Typed, ReadEnds
<1>9. CASE WaitChild
  <2>1. PtyT'
    BY <1>a, <1>9 DEF WaitChild, PtyT
  <2>2. TasksT'
    BY <1>a, <1>9, FaultType DEF WaitChild, TasksT
  <2> QED BY <1>a, <1>9, <2>1, <2>2, RowSame, EmitterSame DEF Typed, WaitChild
<1>10. CASE Receive
  BY <1>10, ReceiveType
<1>11. CASE Flush
  <2>1. CASE LogBuffer("recv")
    <3>1. RowT' /\ EmitterT' /\ TasksT'
      BY <1>a, <1>11, <2>1, LogBufferType DEF Flush, RowT, EmitterT, TasksT
    <3> QED BY <1>a, <1>11, <3>1, PtySame DEF Typed, Flush
  <2>2. CASE ~ LogBuffer("recv")
    <3>1. EmitterT'
      BY <1>a, <1>11, <2>2 DEF Flush, EmitterT, Pcs
    <3> QED BY <1>a, <1>11, <2>2, <3>1, RowSame, PtySame, TasksSame DEF Typed, Flush
  <2> QED BY <2>1, <2>2
<1>12. CASE Drain
  <2>1. CASE emitter.buffer # <<>>
    <3>1. LogBuffer("done")
      BY <1>12, <2>1 DEF Drain
    <3>2. RowT' /\ EmitterT' /\ TasksT'
      BY <1>a, <1>12, <3>1, LogBufferType DEF Drain, RowT, EmitterT, TasksT
    <3> QED BY <1>a, <1>12, <3>2, PtySame DEF Typed, Drain
  <2>2. CASE emitter.buffer = <<>>
    <3>1. EmitterT'
      BY <1>a, <1>12, <2>2 DEF Drain, EmitterT, Pcs
    <3> QED BY <1>a, <1>12, <2>2, <3>1, RowSame, PtySame, TasksSame DEF Typed, Drain
  <2> QED BY <2>1, <2>2
<1>13. CASE Join
  <2>1. <<>> \in Text /\ emitter.accumulated \in Text
    BY <1>a DEF Text, EmitterT
  <2>3. reader.success \in BOOLEAN
    BY <1>a DEF PtyT
  <2>4. runner' \in [pc : {"off", "join", "settle", "evaluate", "done"},
                     success : BOOLEAN, preview : Text]
    BY <1>13, <2>1, <2>3 DEF Join
  <2>2. TasksT'
    BY <1>a, <1>13, <2>4 DEF Join, TasksT
  <2> QED BY <1>a, <1>13, <2>2, RowSame, PtySame, EmitterSame DEF Typed, Join
<1>14. CASE Settle
  <2>1. RowT'
    BY <1>a, <1>14 DEF Settle, SetStatus, RowT
  <2>2. TasksT'
    BY <1>a, <1>14, FaultType DEF Settle, TasksT
  <2> QED BY <1>a, <1>14, <2>1, <2>2, PtySame, EmitterSame DEF Typed, Settle
<1>15. CASE Evaluate
  <2>1. runner.preview \in Text
    BY <1>a DEF TasksT
  <2>2. Append(evaluations, runner.preview) \in Seq(Text)
    BY <1>a, <2>1, AppendProperties DEF RowT
  <2>3. RowT'
    BY <1>a, <1>15, <2>2 DEF Evaluate, RowT
  <2>4. TasksT'
    BY <1>a, <1>15 DEF Evaluate, TasksT
  <2> QED BY <1>a, <1>15, <2>3, <2>4, PtySame, EmitterSame DEF Typed, Evaluate
<1>16. CASE \E r \in Responders : Respond(r)
  <2>1. PICK r \in Responders : Respond(r)
    BY <1>16
  <2>2. RowT'
    BY <1>a, <2>1 DEF Respond, SetStatus, RowT
  <2>3. TasksT'
    BY <1>a, <2>1, FaultType DEF Respond, TasksT
  <2> QED BY <1>a, <2>1, <2>2, <2>3, PtySame, EmitterSame DEF Typed, Respond
<1>17. CASE \E r \in Responders : EvaluateResponse(r)
  <2>1. PICK r \in Responders : EvaluateResponse(r)
    BY <1>17
  <2>2. Append(evaluations, <<>>) \in Seq(Text)
    <3>1. <<>> \in Text
      BY DEF Text
    <3> QED BY <1>a, <3>1, AppendProperties DEF RowT
  <2>3. RowT'
    BY <1>a, <2>1, <2>2 DEF EvaluateResponse, RowT
  <2>4. TasksT'
    BY <1>a, <2>1 DEF EvaluateResponse, TasksT
  <2> QED BY <1>a, <2>1, <2>3, <2>4, PtySame, EmitterSame DEF Typed, EvaluateResponse
<1>18. CASE Summarise
  <2>1. RowT'
    BY <1>a, <1>18 DEF Summarise, SetStatus, RowT
  <2> QED BY <1>a, <1>18, <2>1, PtySame, EmitterSame, TasksSame DEF Typed, Summarise
<1>19. CASE BeginDelete
  <2>1. TasksT'
    BY <1>a, <1>19, FaultType DEF BeginDelete, TasksT
  <2> QED BY <1>a, <1>19, <2>1, RowSame, PtySame, EmitterSame DEF Typed, BeginDelete
<1>20. CASE DeleteAbort
  <2>1. RowT'
    BY <1>a, <1>20 DEF DeleteAbort, SetStatus, RowT
  <2>2. TasksT'
    BY <1>a, <1>20, FaultType DEF DeleteAbort, TasksT
  <2> QED BY <1>a, <1>20, <2>1, <2>2, PtySame, EmitterSame DEF Typed, DeleteAbort
<1>21. CASE DeleteLogs
  <2>1. <<>> \in Seq(Text)
    OBVIOUS
  <2>2. RowT'
    BY <1>a, <1>21, <2>1 DEF DeleteLogs, RowT
  <2>3. TasksT'
    BY <1>a, <1>21, FaultType DEF DeleteLogs, TasksT
  <2> QED BY <1>a, <1>21, <2>2, <2>3, PtySame, EmitterSame DEF Typed, DeleteLogs
<1>22. CASE DeleteRow
  <2>1. RowT'
    BY <1>a, <1>22 DEF DeleteRow, RowT
  <2>2. TasksT'
    BY <1>a, <1>22, FaultType DEF DeleteRow, TasksT
  <2> QED BY <1>a, <1>22, <2>1, <2>2, PtySame, EmitterSame DEF Typed, DeleteRow
<1>23. CASE Crash
  <2>1. <<>> \in Seq(Text)
    OBVIOUS
  <2>2. PtyT'
    BY <1>a, <1>23, <2>1 DEF Crash, PtyT
  <2>3. EmitterT'
    BY <1>a, <1>23 DEF Crash, EmitterT, Pcs
  <2>4. TasksT'
    BY <1>a, <1>23, FaultType DEF Crash, TasksT
  <2> QED BY <1>a, <1>23, <2>2, <2>3, <2>4, RowSame DEF Typed, Crash
<1>24. CASE UNCHANGED vars
  BY <1>a, <1>24, RowSame, PtySame, EmitterSame, TasksSame DEF Typed, vars
<1> QED BY <1>1, <1>2, <1>3, <1>4, <1>5, <1>6, <1>7, <1>8, <1>9, <1>10, <1>11,
           <1>12, <1>13, <1>14, <1>15, <1>16, <1>17, <1>18, <1>19, <1>20, <1>21,
           <1>22, <1>23, <1>24, <1>25
        DEF Next, ReaderStep, EmitterStep, RunnerStep

\* TypeOK: every variable has its type, the reader is never ahead of the child
\* and what is kept for the evaluations never exceeds its limit.
THEOREM DebugTypes == Spec => []TypeOK
<1>1. Spec => []Typed
  BY TypeInit, TypeStep, PTL DEF Spec
<1>2. Typed => TypeOK
  BY TypedOK
<1> QED BY <1>1, <1>2, PTL
-----------------------------------------------------------------------------
(* The order of the activities                                             *)

\* Who is at work: nobody before the request, and never the activities of the
\* other kind of task.
Engaged ==
  /\ kind # "bash" =>
       reader.pc = "off" /\ emitter.pc = "off" /\ runner.pc = "off"
  /\ kind # "prompt" => \A r \in Responders : answer[r] = "off"
  /\ kind = "none" =>
       /\ status = "none" /\ logs = <<>> /\ evaluations = <<>>
       /\ channel = <<>> /\ sent = <<>> /\ child.state = "none"
       /\ emitter.accumulated = <<>> /\ emitter.buffer = <<>>

\* The order in which the activities end, and what is left when they have.
Ordered ==
  /\ runner.pc \in {"settle", "evaluate", "done"} =>
       reader.pc = "done" /\ emitter.pc \in {"done", "panicked"}
  /\ emitter.pc = "done" =>
       reader.pc = "done" /\ channel = <<>> /\ emitter.buffer = <<>>
  /\ reader.pc = "open" => child.state = "none"

\* What is settled, evaluated or deleted is a task that has a row.
Rowed ==
  /\ runner.pc \in {"settle", "evaluate"} => HasTask
  /\ \A r \in Responders : answer[r] = "evaluate" => HasTask
  /\ evaluations # <<>> => HasTask
  /\ deleter # "idle" => HasTask

\* A success is that of bash, and the end of the output was read.
Truthful ==
  /\ reader.success \/ runner.success => child.state = "ended" /\ child.success
  /\ (faults = 0 /\ emitter.pc # "panicked" /\ reader.pc \in {"wait", "done"}) =>
       ~child.open /\ reader.pos = child.written
  /\ (kind = "bash" /\ status = "completed") =>
       /\ child.state = "ended" /\ child.success
       /\ faults = 0 => reader.pc = "done"

\* The evaluation follows the settling, with what the emitter has kept.
Settled ==
  /\ (kind = "bash" /\ HasTask /\ faults = 0) =>
       /\ runner.pc \in {"evaluate", "done"} => status # "running"
       /\ evaluations = IF runner.pc = "done" THEN <<runner.preview>> ELSE <<>>
  /\ (runner.pc \in {"settle", "evaluate", "done"} /\ emitter.pc = "done") =>
       runner.preview = emitter.accumulated

Control == Engaged /\ Ordered /\ Rowed /\ Truthful /\ Settled

LEMMA EngagedStep == Typed /\ Control /\ [Next]_vars => Engaged'
<1>. SUFFICES ASSUME Typed, Control, [Next]_vars PROVE Engaged'
  OBVIOUS
<1>a. RowT /\ PtyT /\ EmitterT /\ TasksT
  BY DEF Typed
<1>b. Engaged /\ Ordered /\ Rowed /\ Truthful /\ Settled
  BY DEF Control
<1>. USE <1>a, <1>b DEF row, pty, tasks, HasTask, Fault, RowT, PtyT, EmitterT, TasksT, Engaged, Ordered, Rowed, Truthful, Settled
<1>1. CASE DebugBash
  BY <1>1 DEF DebugBash, CreateTask
<1>2. CASE DebugPrompt
  BY <1>2 DEF DebugPrompt, CreateTask
<1>3. CASE OpenFails
  BY <1>3 DEF OpenFails, Send
<1>4. CASE ChildWrites
  BY <1>4 DEF ChildWrites
<1>5. CASE ChildExits
  BY <1>5 DEF ChildExits
<1>25. CASE LetGo
  BY <1>25 DEF LetGo
<1>6. CASE Open
  BY <1>6 DEF Open
<1>7. CASE Read
  BY <1>7 DEF Read, Send
<1>8. CASE ReadEnds
  BY <1>8 DEF ReadEnds
<1>9. CASE WaitChild
  BY <1>9 DEF WaitChild
<1>10. CASE Receive
  BY <1>10 DEF Receive
<1>11. CASE Flush
  BY <1>11 DEF Flush, LogBuffer
<1>12. CASE Drain
  BY <1>12 DEF Drain, LogBuffer
<1>13. CASE Join
  BY <1>13 DEF Join
<1>14. CASE Settle
  BY <1>14 DEF Settle, SetStatus
<1>15. CASE Evaluate
  BY <1>15 DEF Evaluate
<1>16. CASE \E r \in Responders : Respond(r)
  BY <1>16 DEF Respond, SetStatus
<1>17. CASE \E r \in Responders : EvaluateResponse(r)
  BY <1>17 DEF EvaluateResponse, SetStatus
<1>18. CASE Summarise
  BY <1>18 DEF Summarise, SetStatus
<1>19. CASE BeginDelete
  BY <1>19 DEF BeginDelete
<1>20. CASE DeleteAbort
  BY <1>20 DEF DeleteAbort, SetStatus
<1>21. CASE DeleteLogs
  BY <1>21 DEF DeleteLogs
<1>22. CASE DeleteRow
  BY <1>22 DEF DeleteRow
<1>23. CASE Crash
  BY <1>23 DEF Crash
<1>24. CASE UNCHANGED vars
  BY <1>24 DEF vars
<1> QED BY <1>1, <1>2, <1>3, <1>4, <1>5, <1>6, <1>7, <1>8, <1>9, <1>10, <1>11, <1>12, <1>13, <1>14, <1>15, <1>16, <1>17, <1>18, <1>19, <1>20, <1>21, <1>22, <1>23, <1>24, <1>25
        DEF Next, ReaderStep, EmitterStep, RunnerStep

LEMMA OrderedStep == Typed /\ Control /\ [Next]_vars => Ordered'
<1>. SUFFICES ASSUME Typed, Control, [Next]_vars PROVE Ordered'
  OBVIOUS
<1>a. RowT /\ PtyT /\ EmitterT /\ TasksT
  BY DEF Typed
<1>b. Engaged /\ Ordered /\ Rowed /\ Truthful /\ Settled
  BY DEF Control
<1>. USE <1>a, <1>b DEF row, pty, tasks, HasTask, Fault, RowT, PtyT, EmitterT, TasksT, Engaged, Ordered, Rowed, Truthful, Settled
<1>1. CASE DebugBash
  BY <1>1 DEF DebugBash, CreateTask
<1>2. CASE DebugPrompt
  BY <1>2 DEF DebugPrompt, CreateTask
<1>3. CASE OpenFails
  BY <1>3 DEF OpenFails, Send
<1>4. CASE ChildWrites
  BY <1>4 DEF ChildWrites
<1>5. CASE ChildExits
  BY <1>5 DEF ChildExits
<1>25. CASE LetGo
  BY <1>25 DEF LetGo
<1>6. CASE Open
  BY <1>6 DEF Open
<1>7. CASE Read
  BY <1>7 DEF Read, Send
<1>8. CASE ReadEnds
  BY <1>8 DEF ReadEnds
<1>9. CASE WaitChild
  BY <1>9 DEF WaitChild
<1>10. CASE Receive
  BY <1>10 DEF Receive
<1>11. CASE Flush
  BY <1>11 DEF Flush, LogBuffer
<1>12. CASE Drain
  BY <1>12 DEF Drain, LogBuffer
<1>13. CASE Join
  BY <1>13 DEF Join
<1>14. CASE Settle
  BY <1>14 DEF Settle, SetStatus
<1>15. CASE Evaluate
  BY <1>15 DEF Evaluate
<1>16. CASE \E r \in Responders : Respond(r)
  BY <1>16 DEF Respond, SetStatus
<1>17. CASE \E r \in Responders : EvaluateResponse(r)
  BY <1>17 DEF EvaluateResponse, SetStatus
<1>18. CASE Summarise
  BY <1>18 DEF Summarise, SetStatus
<1>19. CASE BeginDelete
  BY <1>19 DEF BeginDelete
<1>20. CASE DeleteAbort
  BY <1>20 DEF DeleteAbort, SetStatus
<1>21. CASE DeleteLogs
  BY <1>21 DEF DeleteLogs
<1>22. CASE DeleteRow
  BY <1>22 DEF DeleteRow
<1>23. CASE Crash
  BY <1>23 DEF Crash
<1>24. CASE UNCHANGED vars
  BY <1>24 DEF vars
<1> QED BY <1>1, <1>2, <1>3, <1>4, <1>5, <1>6, <1>7, <1>8, <1>9, <1>10, <1>11, <1>12, <1>13, <1>14, <1>15, <1>16, <1>17, <1>18, <1>19, <1>20, <1>21, <1>22, <1>23, <1>24, <1>25
        DEF Next, ReaderStep, EmitterStep, RunnerStep

LEMMA RowedStep == Typed /\ Control /\ [Next]_vars => Rowed'
<1>. SUFFICES ASSUME Typed, Control, [Next]_vars PROVE Rowed'
  OBVIOUS
<1>a. RowT /\ PtyT /\ EmitterT /\ TasksT
  BY DEF Typed
<1>b. Engaged /\ Ordered /\ Rowed /\ Truthful /\ Settled
  BY DEF Control
<1>. USE <1>a, <1>b DEF row, pty, tasks, HasTask, Fault, RowT, PtyT, EmitterT, TasksT, Engaged, Ordered, Rowed, Truthful, Settled
<1>1. CASE DebugBash
  BY <1>1 DEF DebugBash, CreateTask
<1>2. CASE DebugPrompt
  BY <1>2 DEF DebugPrompt, CreateTask
<1>3. CASE OpenFails
  BY <1>3 DEF OpenFails, Send
<1>4. CASE ChildWrites
  BY <1>4 DEF ChildWrites
<1>5. CASE ChildExits
  BY <1>5 DEF ChildExits
<1>25. CASE LetGo
  BY <1>25 DEF LetGo
<1>6. CASE Open
  BY <1>6 DEF Open
<1>7. CASE Read
  BY <1>7 DEF Read, Send
<1>8. CASE ReadEnds
  BY <1>8 DEF ReadEnds
<1>9. CASE WaitChild
  BY <1>9 DEF WaitChild
<1>10. CASE Receive
  BY <1>10 DEF Receive
<1>11. CASE Flush
  BY <1>11 DEF Flush, LogBuffer
<1>12. CASE Drain
  BY <1>12 DEF Drain, LogBuffer
<1>13. CASE Join
  BY <1>13 DEF Join
<1>14. CASE Settle
  BY <1>14 DEF Settle, SetStatus
<1>15. CASE Evaluate
  BY <1>15 DEF Evaluate
<1>16. CASE \E r \in Responders : Respond(r)
  BY <1>16 DEF Respond, SetStatus
<1>17. CASE \E r \in Responders : EvaluateResponse(r)
  BY <1>17 DEF EvaluateResponse, SetStatus
<1>18. CASE Summarise
  BY <1>18 DEF Summarise, SetStatus
<1>19. CASE BeginDelete
  BY <1>19 DEF BeginDelete
<1>20. CASE DeleteAbort
  BY <1>20 DEF DeleteAbort, SetStatus
<1>21. CASE DeleteLogs
  BY <1>21 DEF DeleteLogs
<1>22. CASE DeleteRow
  BY <1>22 DEF DeleteRow
<1>23. CASE Crash
  BY <1>23 DEF Crash
<1>24. CASE UNCHANGED vars
  BY <1>24 DEF vars
<1> QED BY <1>1, <1>2, <1>3, <1>4, <1>5, <1>6, <1>7, <1>8, <1>9, <1>10, <1>11, <1>12, <1>13, <1>14, <1>15, <1>16, <1>17, <1>18, <1>19, <1>20, <1>21, <1>22, <1>23, <1>24, <1>25
        DEF Next, ReaderStep, EmitterStep, RunnerStep

LEMMA TruthfulStep == Typed /\ Control /\ [Next]_vars => Truthful'
<1>. SUFFICES ASSUME Typed, Control, [Next]_vars PROVE Truthful'
  OBVIOUS
<1>a. RowT /\ PtyT /\ EmitterT /\ TasksT
  BY DEF Typed
<1>b. Engaged /\ Ordered /\ Rowed /\ Truthful /\ Settled
  BY DEF Control
<1>. USE <1>a, <1>b DEF row, pty, tasks, HasTask, Fault, RowT, PtyT, EmitterT, TasksT, Engaged, Ordered, Rowed, Truthful, Settled
<1>1. CASE DebugBash
  BY <1>1 DEF DebugBash, CreateTask
<1>2. CASE DebugPrompt
  BY <1>2 DEF DebugPrompt, CreateTask
<1>3. CASE OpenFails
  BY <1>3 DEF OpenFails, Send
<1>4. CASE ChildWrites
  BY <1>4 DEF ChildWrites
<1>5. CASE ChildExits
  BY <1>5 DEF ChildExits
<1>25. CASE LetGo
  BY <1>25 DEF LetGo
<1>6. CASE Open
  BY <1>6 DEF Open
<1>7. CASE Read
  BY <1>7 DEF Read, Send
<1>8. CASE ReadEnds
  BY <1>8 DEF ReadEnds
<1>9. CASE WaitChild
  <2>1. /\ reader.pc = "wait" /\ reader'.pc = "done" /\ reader'.pos = reader.pos
        /\ UNCHANGED <<kind, status, child, emitter, runner>>
    BY <1>9 DEF WaitChild
  <2>2. faults' = 0 => faults = 0
    BY <1>9, DebugConstantsOK DEF WaitChild
  <2>3. reader'.success => child.state = "ended" /\ child.success
    BY <1>9 DEF WaitChild
  <2> QED BY <2>1, <2>2, <2>3
<1>10. CASE Receive
  BY <1>10 DEF Receive
<1>11. CASE Flush
  BY <1>11 DEF Flush, LogBuffer
<1>12. CASE Drain
  BY <1>12 DEF Drain, LogBuffer
<1>13. CASE Join
  BY <1>13 DEF Join
<1>14. CASE Settle
  BY <1>14 DEF Settle, SetStatus
<1>15. CASE Evaluate
  BY <1>15 DEF Evaluate
<1>16. CASE \E r \in Responders : Respond(r)
  BY <1>16 DEF Respond, SetStatus
<1>17. CASE \E r \in Responders : EvaluateResponse(r)
  BY <1>17 DEF EvaluateResponse, SetStatus
<1>18. CASE Summarise
  BY <1>18 DEF Summarise, SetStatus
<1>19. CASE BeginDelete
  BY <1>19 DEF BeginDelete
<1>20. CASE DeleteAbort
  BY <1>20 DEF DeleteAbort, SetStatus
<1>21. CASE DeleteLogs
  BY <1>21 DEF DeleteLogs
<1>22. CASE DeleteRow
  BY <1>22 DEF DeleteRow
<1>23. CASE Crash
  BY <1>23 DEF Crash
<1>24. CASE UNCHANGED vars
  BY <1>24 DEF vars
<1> QED BY <1>1, <1>2, <1>3, <1>4, <1>5, <1>6, <1>7, <1>8, <1>9, <1>10, <1>11, <1>12, <1>13, <1>14, <1>15, <1>16, <1>17, <1>18, <1>19, <1>20, <1>21, <1>22, <1>23, <1>24, <1>25
        DEF Next, ReaderStep, EmitterStep, RunnerStep

LEMMA SettledStep == Typed /\ Control /\ [Next]_vars => Settled'
<1>. SUFFICES ASSUME Typed, Control, [Next]_vars PROVE Settled'
  OBVIOUS
<1>a. RowT /\ PtyT /\ EmitterT /\ TasksT
  BY DEF Typed
<1>b. Engaged /\ Ordered /\ Rowed /\ Truthful /\ Settled
  BY DEF Control
<1>. USE <1>a, <1>b DEF row, pty, tasks, HasTask, Fault, RowT, PtyT, EmitterT, TasksT, Engaged, Ordered, Rowed, Truthful, Settled
<1>1. CASE DebugBash
  BY <1>1 DEF DebugBash, CreateTask
<1>2. CASE DebugPrompt
  BY <1>2 DEF DebugPrompt, CreateTask
<1>3. CASE OpenFails
  BY <1>3 DEF OpenFails, Send
<1>4. CASE ChildWrites
  BY <1>4 DEF ChildWrites
<1>5. CASE ChildExits
  BY <1>5 DEF ChildExits
<1>25. CASE LetGo
  BY <1>25 DEF LetGo
<1>6. CASE Open
  BY <1>6 DEF Open
<1>7. CASE Read
  BY <1>7 DEF Read, Send
<1>8. CASE ReadEnds
  BY <1>8 DEF ReadEnds
<1>9. CASE WaitChild
  BY <1>9 DEF WaitChild
<1>10. CASE Receive
  BY <1>10 DEF Receive
<1>11. CASE Flush
  BY <1>11 DEF Flush, LogBuffer
<1>12. CASE Drain
  BY <1>12 DEF Drain, LogBuffer
<1>13. CASE Join
  BY <1>13 DEF Join
<1>14. CASE Settle
  BY <1>14 DEF Settle, SetStatus
<1>15. CASE Evaluate
  <2>1. runner.pc = "evaluate" /\ runner'.pc = "done" /\ runner'.preview = runner.preview
    BY <1>15 DEF Evaluate
  <2>2. evaluations = <<>> => evaluations' = <<runner.preview>>
    BY <1>15 DEF Evaluate
  <2>3. UNCHANGED <<kind, status, emitter, faults>>
    BY <1>15 DEF Evaluate
  <2> QED BY <2>1, <2>2, <2>3
<1>16. CASE \E r \in Responders : Respond(r)
  BY <1>16 DEF Respond, SetStatus
<1>17. CASE \E r \in Responders : EvaluateResponse(r)
  BY <1>17 DEF EvaluateResponse, SetStatus
<1>18. CASE Summarise
  BY <1>18 DEF Summarise, SetStatus
<1>19. CASE BeginDelete
  BY <1>19 DEF BeginDelete
<1>20. CASE DeleteAbort
  BY <1>20 DEF DeleteAbort, SetStatus
<1>21. CASE DeleteLogs
  BY <1>21 DEF DeleteLogs
<1>22. CASE DeleteRow
  BY <1>22 DEF DeleteRow
<1>23. CASE Crash
  BY <1>23 DEF Crash
<1>24. CASE UNCHANGED vars
  BY <1>24 DEF vars
<1> QED BY <1>1, <1>2, <1>3, <1>4, <1>5, <1>6, <1>7, <1>8, <1>9, <1>10, <1>11, <1>12, <1>13, <1>14, <1>15, <1>16, <1>17, <1>18, <1>19, <1>20, <1>21, <1>22, <1>23, <1>24, <1>25
        DEF Next, ReaderStep, EmitterStep, RunnerStep

LEMMA ControlInit == Init => Control
BY DEF Init, Control, Engaged, Ordered, Rowed, Truthful, Settled

LEMMA ControlStep == Typed /\ Control /\ [Next]_vars => Control'
BY EngagedStep, OrderedStep, RowedStep, TruthfulStep, SettledStep DEF Control

-----------------------------------------------------------------------------
(* The text                                                                *)

\* The text that was sent is the log, the buffer and the channel, or the log is
\* the beginning of it; what is kept is the beginning of what was received.
AllText(l, b, c) == Cat(Cat(FlattenSeq(l), b), FlattenSeq(c))
Kept(l, b)       == First(MAX_ACCUMULATED, Cat(FlattenSeq(l), b))

Conserved ==
  Undisturbed =>
    IF emitter.pc = "panicked"
    THEN \E rest \in Text : sent = Cat(FlattenSeq(logs), rest)
    ELSE /\ AllText(logs, emitter.buffer, channel) = sent
         /\ emitter.accumulated = Kept(logs, emitter.buffer)

LEMMA FlattenText ==
  ASSUME NEW l \in Seq(Text)
  PROVE  FlattenSeq(l) \in Text
BY FlattenType DEF Text

LEMMA CatText ==
  ASSUME NEW s \in Text, NEW t \in Text
  PROVE  Cat(s, t) \in Text
BY CatType DEF Text

LEMMA AllTextEmpty == AllText(<<>>, <<>>, <<>>) = <<>> /\ Kept(<<>>, <<>>) = <<>>
<1>1. <<>> \in Seq(Char)
  OBVIOUS
<1>2. Cat(<<>>, <<>>) = <<>>
  BY <1>1, CatEmpty
<1>3. First(MAX_ACCUMULATED, <<>>) = <<>>
  BY DebugConstantsOK DEF First
<1> QED BY <1>2, <1>3, FlattenEmpty DEF AllText, Kept

LEMMA AllTextSend ==
  ASSUME NEW l \in Seq(Text), NEW b \in Text, NEW c \in Seq(Text), NEW t \in Text
  PROVE  AllText(l, b, Append(c, t)) = Cat(AllText(l, b, c), t)
<1>. DEFINE x == Cat(FlattenSeq(l), b)
<1>1. x \in Seq(Char) /\ FlattenSeq(c) \in Seq(Char) /\ t \in Seq(Char)
  BY FlattenText, CatText DEF Text
<1>2. FlattenSeq(Append(c, t)) = Cat(FlattenSeq(c), t)
  BY FlattenAppend DEF Text
<1>. HIDE DEF x
<1>3. Cat(x, Cat(FlattenSeq(c), t)) = Cat(Cat(x, FlattenSeq(c)), t)
  BY <1>1, CatAssociative
<1> QED BY <1>2, <1>3 DEF AllText, x

LEMMA AllTextReceive ==
  ASSUME NEW l \in Seq(Text), NEW b \in Text, NEW c \in Seq(Text), c # <<>>
  PROVE  AllText(l, Cat(b, Head(c)), Tail(c)) = AllText(l, b, c)
<1>. DEFINE x == FlattenSeq(l)
            h == Head(c)
            y == FlattenSeq(Tail(c))
<1>1. x \in Seq(Char) /\ h \in Seq(Char) /\ y \in Seq(Char) /\ b \in Seq(Char)
  <2>1. Tail(c) \in Seq(Text) /\ h \in Text
    OBVIOUS
  <2> QED BY <2>1, FlattenText DEF Text
<1>2. FlattenSeq(c) = Cat(h, y)
  BY FlattenHeadTail DEF Text
<1>. HIDE DEF x, h, y
<1>3. Cat(x, Cat(b, h)) = Cat(Cat(x, b), h)
  BY <1>1, CatAssociative
<1>4. Cat(x, b) \in Seq(Char)
  BY <1>1, CatType
<1>5. Cat(Cat(Cat(x, b), h), y) = Cat(Cat(x, b), Cat(h, y))
  BY <1>1, <1>4, CatAssociative
<1> QED BY <1>2, <1>3, <1>5 DEF AllText, x, h, y

LEMMA AllTextLog ==
  ASSUME NEW l \in Seq(Text), NEW b \in Text, NEW c \in Seq(Text)
  PROVE  /\ AllText(Append(l, b), <<>>, c) = AllText(l, b, c)
         /\ Kept(Append(l, b), <<>>) = Kept(l, b)
<1>1. FlattenSeq(Append(l, b)) = Cat(FlattenSeq(l), b)
  BY FlattenAppend DEF Text
<1>2. Cat(FlattenSeq(l), b) \in Seq(Char)
  BY FlattenText, CatText DEF Text
<1>3. Cat(Cat(FlattenSeq(l), b), <<>>) = Cat(FlattenSeq(l), b)
  BY <1>2, CatEmpty
<1> QED BY <1>1, <1>3 DEF AllText, Kept

\* The beginning of a text that grows: what is kept takes of the new text what
\* there is room for.
LEMMA FirstCat ==
  ASSUME NEW n \in Nat, NEW x \in Text, NEW t \in Text
  PROVE  First(n, Cat(x, t)) = Cat(First(n, x), First(n - Len(First(n, x)), t))
<1>1. PICK a \in Nat, b \in Nat : a = Len(x) /\ b = Len(t)
  BY DEF Text
<1>2. Cat(x, t) \in Text /\ Len(Cat(x, t)) = a + b
  BY <1>1, CatType DEF Text
<1>3. CASE n < a
  <2>1. First(n, x) = SubSeq(x, 1, n)
    BY <1>1, <1>3 DEF First
  <2>2. SubSeq(x, 1, n) \in Seq(Char) /\ Len(SubSeq(x, 1, n)) = n
    BY <1>1, <1>3, SubSeqProperties DEF Text
  <2>3. n - Len(First(n, x)) = 0
    BY <2>1, <2>2
  <2>4. First(0, t) = <<>>
    BY <1>1 DEF First, Text
  <2>5. First(n, Cat(x, t)) = SubSeq(Cat(x, t), 1, n)
    BY <1>1, <1>2, <1>3 DEF First
  <2>6. SubSeq(Cat(x, t), 1, n) = SubSeq(x, 1, n)
    BY <1>1, <1>3, SubSeqOfConcat1 DEF Text, Cat
  <2>7. Cat(SubSeq(x, 1, n), <<>>) = SubSeq(x, 1, n)
    BY <2>2, CatEmpty
  <2> QED BY <2>1, <2>3, <2>4, <2>5, <2>6, <2>7
<1>4. CASE n >= a
  <2>1. First(n, x) = x
    BY <1>1, <1>4, SubSeqFull DEF First, Text
  <2>2. PICK k \in Nat : k = IF n - a < b THEN n - a ELSE b
    <3>1. n - a \in Nat
      BY <1>1, <1>4
    <3> QED BY <1>1, <3>1
  <2>3. First(n - a, t) = SubSeq(t, 1, k)
    BY <1>1, <2>2 DEF First
  <2>4. First(n, Cat(x, t)) = SubSeq(Cat(x, t), 1, a + k)
    <3>1. (IF n < a + b THEN n ELSE a + b) = a + k
      BY <1>1, <1>4, <2>2
    <3> QED BY <1>2, <3>1 DEF First
  <2>5. k <= b
    BY <1>1, <1>4, <2>2
  <2>6. SubSeq(Cat(x, t), 1, a + k) = Cat(x, SubSeq(t, 1, k))
    BY <1>1, <2>5, ConcatProperties, SubSeqProperties DEF Text, Cat
  <2> QED BY <1>1, <2>1, <2>3, <2>4, <2>6
<1> QED BY <1>1, <1>3, <1>4

LEMMA KeptReceive ==
  ASSUME NEW l \in Seq(Text), NEW b \in Text, NEW t \in Text, NEW a, a = Kept(l, b)
  PROVE  Kept(l, Cat(b, t)) = Cat(a, First(MAX_ACCUMULATED - Len(a), t))
<1>. DEFINE x == FlattenSeq(l)
<1>1. x \in Seq(Char) /\ b \in Seq(Char) /\ t \in Seq(Char)
  BY FlattenText DEF Text
<1>. HIDE DEF x
<1>2. Cat(x, Cat(b, t)) = Cat(Cat(x, b), t)
  BY <1>1, CatAssociative
<1>3. Cat(x, b) \in Text /\ t \in Text
  BY <1>1, CatType DEF Text
<1>4. MAX_ACCUMULATED \in Nat
  BY DebugConstantsOK
<1>5. First(MAX_ACCUMULATED, Cat(Cat(x, b), t))
        = Cat(First(MAX_ACCUMULATED, Cat(x, b)),
              First(MAX_ACCUMULATED - Len(First(MAX_ACCUMULATED, Cat(x, b))), t))
  BY <1>3, <1>4, FirstCat
<1> QED BY <1>2, <1>5 DEF Kept, x

\* A task that is undisturbed after a step was so before it, or begins with it.
LEMMA UndisturbedBefore ==
  Typed /\ Control /\ [Next]_vars /\ Undisturbed' => Undisturbed \/ DebugBash
<1>. SUFFICES ASSUME Typed, Control, [Next]_vars, Undisturbed', ~ DebugBash
              PROVE  Undisturbed
  OBVIOUS
<1>a. faults \in Nat /\ (deleter # "idle" => HasTask)
      /\ \A r \in Responders : answer[r] = "evaluate" => HasTask
  BY DebugConstantsOK DEF Typed, TasksT, Control, Rowed
<1>b. /\ runner.pc = "settle" => HasTask
      /\ evaluations # <<>> => HasTask
  BY DEF Control, Rowed
<1>. USE <1>a, <1>b DEF Undisturbed, HasTask, Fault, SetStatus, row, pty, tasks
<1>1. UNCHANGED kind
  <2>1. ~ DebugPrompt
    BY DEF DebugPrompt
  <2> QED BY <2>1 DEF Next, ReaderStep, EmitterStep, RunnerStep, vars, OpenFails,
       ChildWrites, ChildExits, LetGo, Open, Read, ReadEnds, WaitChild, Receive, Flush,
       Drain, Join, Settle, Evaluate, Respond, EvaluateResponse, Summarise,
       BeginDelete, DeleteAbort, DeleteLogs, DeleteRow, Crash
<1>2. faults = 0
  <2>1. UNCHANGED faults \/ Fault
    BY DEF Next, ReaderStep, EmitterStep, RunnerStep, vars, DebugPrompt, CreateTask,
       OpenFails, ChildWrites, ChildExits, LetGo, Open, Read, ReadEnds, WaitChild, Receive,
       Flush, Drain, LogBuffer, Join, Settle, Evaluate, Respond, EvaluateResponse,
       Summarise, BeginDelete, DeleteAbort, DeleteLogs, DeleteRow, Crash
  <2> QED BY <2>1
<1>3. deleter = "idle"
  BY DEF Next, ReaderStep, EmitterStep, RunnerStep, vars, DebugPrompt, CreateTask,
     OpenFails, ChildWrites, ChildExits, LetGo, Open, Read, ReadEnds, WaitChild, Receive,
     Flush, Drain, Join, Settle, Evaluate, Respond, EvaluateResponse, Summarise,
     BeginDelete, DeleteAbort, DeleteLogs, DeleteRow, Crash
<1>4. HasTask
  <2>1. status' # "none"
    OBVIOUS
  <2>2. ~ DebugPrompt
    BY DEF DebugPrompt
  <2> QED BY <1>1, <1>2, <1>3, <2>1, <2>2 DEF Next, ReaderStep, EmitterStep,
     RunnerStep, vars, OpenFails, ChildWrites, ChildExits, LetGo, Open, Read, ReadEnds,
     WaitChild, Receive, Flush, Drain, Join, Settle, Evaluate, Respond,
     EvaluateResponse, Summarise, BeginDelete, DeleteAbort, DeleteLogs, DeleteRow,
     Crash
<1> QED BY <1>1, <1>2, <1>3, <1>4

LEMMA ConservedSame ==
  Conserved /\ Undisturbed /\ UNCHANGED <<logs, channel, sent, emitter>> => Conserved'
BY DEF Conserved

LEMMA ConservedFlush ==
  ASSUME Typed, Conserved, Undisturbed, Undisturbed', emitter.pc # "panicked",
         NEW next \in {"recv", "done"}, LogBuffer(next), UNCHANGED <<channel, sent>>
  PROVE  Conserved'
<1>1. logs \in Seq(Text) /\ emitter.buffer \in Text /\ channel \in Seq(Text)
  BY DEF Typed, RowT, EmitterT, PtyT
<1>2. logs' = Append(logs, emitter.buffer)
  BY DEF LogBuffer, Fault, Undisturbed
<1>3. emitter'.buffer = <<>> /\ emitter'.accumulated = emitter.accumulated
      /\ emitter'.pc = next
  BY DEF LogBuffer, Typed, EmitterT
<1>4. AllText(logs', <<>>, channel) = AllText(logs, emitter.buffer, channel)
      /\ Kept(logs', <<>>) = Kept(logs, emitter.buffer)
  BY <1>1, <1>2, AllTextLog
<1>5. AllText(logs, emitter.buffer, channel) = sent
      /\ emitter.accumulated = Kept(logs, emitter.buffer)
  BY DEF Conserved
<1> QED BY <1>3, <1>4, <1>5 DEF Conserved

LEMMA ConservedRead ==
  ASSUME Typed, Control, Conserved, Undisturbed, Read
  PROVE  Conserved'
<1>1. logs \in Seq(Text) /\ emitter.buffer \in Text /\ channel \in Seq(Text)
  BY DEF Typed, RowT, EmitterT, PtyT
<1>2. UNCHANGED <<kind, logs, emitter, status, faults, deleter>>
  BY DEF Read, row, tasks
<1>3. CASE emitter.pc = "panicked"
  <2>1. UNCHANGED <<channel, sent>>
    BY <1>3 DEF Read
  <2> QED BY <1>2, <2>1, ConservedSame
<1>4. CASE emitter.pc # "panicked"
  <2>1. PICK text : text \in Text /\ Send(text)
    BY <1>4, ReadSends
  <2>2. channel' = Append(channel, text) /\ sent' = Cat(sent, text)
    BY <2>1 DEF Send, Cat
  <2>3. AllText(logs, emitter.buffer, channel')
          = Cat(AllText(logs, emitter.buffer, channel), text)
    BY <1>1, <2>1, <2>2, AllTextSend
  <2> QED BY <1>2, <1>4, <2>2, <2>3 DEF Conserved
<1> QED BY <1>3, <1>4

LEMMA ConservedReceive ==
  ASSUME Typed, Conserved, Undisturbed, Receive
  PROVE  Conserved'
<1>. DEFINE text == Head(channel)
            room == MAX_ACCUMULATED - Len(emitter.accumulated)
<1>1. /\ logs \in Seq(Text) /\ emitter.buffer \in Text /\ channel \in Seq(Text)
      /\ channel # <<>> /\ text \in Text /\ Tail(channel) \in Seq(Text)
  BY DEF Typed, RowT, EmitterT, PtyT, Receive
<1>2. UNCHANGED <<logs, sent>> /\ channel' = Tail(channel)
  BY DEF Receive, row
<1>3. /\ AllText(logs, emitter.buffer, channel) = sent
      /\ emitter.accumulated = Kept(logs, emitter.buffer)
      /\ HasTask
  BY DEF Conserved, Undisturbed, Receive
<1>4. CASE emitter' = [emitter EXCEPT !.pc = "panicked"]
  <2>1. emitter'.pc = "panicked"
    BY <1>4 DEF Typed, EmitterT
  <2>2. PICK rest \in Text : sent = Cat(FlattenSeq(logs), rest)
    <3>. DEFINE rest == Cat(emitter.buffer, FlattenSeq(channel))
    <3>1. FlattenSeq(logs) \in Seq(Char) /\ FlattenSeq(channel) \in Seq(Char)
      BY <1>1, FlattenText DEF Text
    <3>2. rest \in Text
      BY <1>1, <3>1, CatType DEF Text
    <3>3. sent = Cat(FlattenSeq(logs), rest)
      BY <1>1, <1>3, <3>1, CatAssociative DEF AllText, Text
    <3> QED BY <3>2, <3>3
  <2> QED BY <1>2, <2>1, <2>2 DEF Conserved
<1>5. CASE emitter' = [emitter EXCEPT
             !.accumulated = @ \o First(room, text),
             !.buffer = IF HasTask THEN @ \o text ELSE @,
             !.pc = "flush"]
  <2>1. /\ emitter'.buffer = Cat(emitter.buffer, text)
        /\ emitter'.accumulated = Cat(emitter.accumulated, First(room, text))
        /\ emitter'.pc = "flush"
    BY <1>3, <1>5 DEF Typed, EmitterT, Cat
  <2>2. AllText(logs, emitter'.buffer, channel') = sent
    BY <1>1, <1>2, <1>3, <2>1, AllTextReceive
  <2>3. Kept(logs, emitter'.buffer) = emitter'.accumulated
    <3>. HIDE DEF text
    <3> QED BY <1>1, <1>3, <2>1, KeptReceive
  <2> QED BY <1>2, <2>1, <2>2, <2>3 DEF Conserved
<1> QED BY <1>4, <1>5 DEF Receive

LEMMA ConservedStep == Typed /\ Control /\ Conserved /\ [Next]_vars => Conserved'
<1>. SUFFICES ASSUME Typed, Control, Conserved, [Next]_vars, Undisturbed'
              PROVE  Conserved'
  BY DEF Conserved
<1>1. CASE DebugBash
  <2>1. /\ logs' = <<>> /\ sent' = <<>> /\ channel' = <<>>
        /\ emitter'.pc = "recv" /\ emitter'.buffer = <<>> /\ emitter'.accumulated = <<>>
    BY <1>1 DEF DebugBash, Control, Engaged, Typed, EmitterT
  <2> QED BY <2>1, AllTextEmpty DEF Conserved
<1>2. CASE ~ DebugBash
  <2>1. Undisturbed
    BY <1>2, UndisturbedBefore
  <2>2. CASE Read
    BY <2>1, <2>2, ConservedRead
  <2>3. CASE Receive
    BY <2>1, <2>3, ConservedReceive
  <2>4. CASE Flush
    <3>1. emitter.pc = "flush" /\ UNCHANGED <<channel, sent>>
      BY <2>4 DEF Flush, pty
    <3>2. CASE LogBuffer("recv")
      BY <2>1, <3>1, <3>2, ConservedFlush
    <3>3. CASE ~ LogBuffer("recv")
      <4>1. emitter' = [emitter EXCEPT !.pc = "recv"] /\ UNCHANGED logs
        BY <2>4, <3>3 DEF Flush
      <4>2. emitter'.pc = "recv" /\ emitter'.buffer = emitter.buffer
            /\ emitter'.accumulated = emitter.accumulated
        BY <4>1 DEF Typed, EmitterT
      <4> QED BY <2>1, <3>1, <4>1, <4>2 DEF Conserved
    <3> QED BY <3>2, <3>3
  <2>5. CASE Drain
    <3>1. emitter.pc = "recv" /\ UNCHANGED <<channel, sent>>
      BY <2>5 DEF Drain, pty
    <3>2. CASE LogBuffer("done")
      BY <2>1, <3>1, <3>2, ConservedFlush
    <3>3. CASE ~ LogBuffer("done")
      <4>1. emitter' = [emitter EXCEPT !.pc = "done"] /\ UNCHANGED logs
        BY <2>5, <3>3 DEF Drain
      <4>2. emitter'.pc = "done" /\ emitter'.buffer = emitter.buffer
            /\ emitter'.accumulated = emitter.accumulated
        BY <4>1 DEF Typed, EmitterT
      <4> QED BY <2>1, <3>1, <4>1, <4>2 DEF Conserved
    <3> QED BY <3>2, <3>3
  <2>6. CASE ~ (Read \/ Receive \/ Flush \/ Drain)
    <3>1. faults = 0 /\ faults' = 0 /\ deleter' = "idle"
      BY <2>1 DEF Undisturbed
    <3>2. ~ (DebugPrompt \/ OpenFails \/ DeleteLogs \/ Crash)
      BY <2>1, <3>1 DEF Undisturbed, Fault, DebugPrompt, OpenFails, DeleteLogs, Crash
    <3>3. UNCHANGED <<logs, channel, sent, emitter>>
      BY <1>2, <2>6, <3>2 DEF Next, ReaderStep, EmitterStep, RunnerStep, vars, row,
         pty, tasks, ChildWrites, ChildExits, LetGo, Open, ReadEnds, WaitChild, Join, Settle,
         Evaluate, Respond, EvaluateResponse, Summarise, BeginDelete, DeleteAbort,
         DeleteRow
    <3> QED BY <2>1, <3>3, ConservedSame
  <2> QED BY <2>2, <2>3, <2>4, <2>5, <2>6
<1> QED BY <1>1, <1>2

-----------------------------------------------------------------------------
(* The theorems                                                            *)

\* The inductive invariant.
DebugInv == Typed /\ Control /\ Conserved

LEMMA DebugInvariant == Spec => []DebugInv
<1>1. Init => DebugInv
  <2>1. Init => Conserved
    BY DEF Init, Conserved, Undisturbed
  <2> QED BY <2>1, TypeInit, ControlInit DEF DebugInv
<1>2. DebugInv /\ [Next]_vars => DebugInv'
  BY TypeStep, ControlStep, ConservedStep DEF DebugInv
<1> QED BY <1>1, <1>2, PTL DEF Spec

\* OutputConserved: without failures and deletions, what the child's terminal
\* gave is in the log, the buffer and the channel, in order and once.
THEOREM DebugOutput == Spec => []OutputConserved
<1>1. DebugInv => OutputConserved
  <2>. SUFFICES ASSUME DebugInv, Undisturbed
                PROVE  IF emitter.pc = "panicked" THEN IsPrefix(Logged, sent)
                       ELSE Logged \o emitter.buffer \o FlattenSeq(channel) = sent
    BY DEF OutputConserved
  <2>1. CASE emitter.pc = "panicked"
    <3>1. PICK rest \in Text : sent = Cat(FlattenSeq(logs), rest)
      BY <2>1 DEF DebugInv, Conserved
    <3>2. FlattenSeq(logs) \in Seq(Char) /\ rest \in Seq(Char)
      BY FlattenText DEF DebugInv, Typed, RowT, Text
    <3> QED BY <2>1, <3>1, <3>2, CatPrefix DEF Logged
  <2>2. CASE emitter.pc # "panicked"
    <3>1. AllText(logs, emitter.buffer, channel) = sent
      BY <2>2 DEF DebugInv, Conserved
    <3> QED BY <2>2, <3>1 DEF Logged, AllText, Cat
  <2> QED BY <2>1, <2>2
<1> QED BY <1>1, DebugInvariant, PTL

\* EvaluationComplete: without failures and deletions, the evaluation is asked
\* for once, after the task is settled, when the log has all the output, and with
\* the beginning of it (unless the emitter panicked).
THEOREM DebugEvaluation == Spec => []EvaluationComplete
<1>1. DebugInv => EvaluationComplete
  <2>. SUFFICES ASSUME DebugInv, Undisturbed, evaluations # <<>>,
                       emitter.pc # "panicked"
                PROVE  /\ status # "running"
                       /\ Logged = sent
                       /\ evaluations = <<First(MAX_ACCUMULATED, sent)>>
    BY DEF EvaluationComplete
  <2>1. runner.pc = "done" /\ evaluations = <<runner.preview>> /\ status # "running"
    BY DEF DebugInv, Control, Settled, Undisturbed
  <2>2. emitter.pc = "done" /\ channel = <<>> /\ emitter.buffer = <<>>
    BY <2>1 DEF DebugInv, Control, Ordered
  <2>3. runner.preview = emitter.accumulated
    BY <2>1, <2>2 DEF DebugInv, Control, Settled
  <2>4. AllText(logs, <<>>, <<>>) = sent /\ emitter.accumulated = Kept(logs, <<>>)
    BY <2>2 DEF DebugInv, Conserved
  <2>5. FlattenSeq(logs) \in Seq(Char)
    BY FlattenText DEF DebugInv, Typed, RowT, Text
  <2>6. Cat(FlattenSeq(logs), <<>>) = FlattenSeq(logs)
    BY <2>5, CatEmpty
  <2>7. FlattenSeq(logs) = sent
    BY <2>4, <2>6, FlattenEmpty DEF AllText
  <2>8. emitter.accumulated = First(MAX_ACCUMULATED, sent)
    BY <2>4, <2>6, <2>7 DEF Kept
  <2> QED BY <2>1, <2>3, <2>7, <2>8 DEF Logged
<1> QED BY <1>1, DebugInvariant, PTL

\* CompletedIsTrue: only a command that ended with success is completed, and when
\* nothing failed all its output had been read.
THEOREM DebugCompleted == Spec => []CompletedIsTrue
<1>1. DebugInv => CompletedIsTrue
  BY DEF DebugInv, Control, Truthful, CompletedIsTrue
<1> QED BY <1>1, DebugInvariant, PTL
=============================================================================
