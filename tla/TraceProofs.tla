----------------------------- MODULE TraceProofs -----------------------------
(***************************************************************************)
(* Proofs about TraceStore, for any finite sets of writers and spans and   *)
(* any bound: a trace covers the spans a reader finds, its count is never  *)
(* below their number, and it is exactly their sum when nothing is under   *)
(* way and nothing failed.                                                 *)
(***************************************************************************)
EXTENDS TraceStore, FiniteSetTheorems, TLAPS

\* A writer between its two calls has recorded the span in its trace.
Recorded ==
  \A w \in Writers : writer[w].pc = "span" =>
    LET s == Head(writer[w].batch) IN
    s.trace \in DOMAIN traces /\ Covers(traces[s.trace], s)

Known(t) == Stored(t) \cup FirstTime(t)

LEMMA SpanOK ==
  ASSUME NEW s \in Spans
  PROVE  /\ s.start \in Int /\ s.end \in Int /\ s.status \in Nat
         /\ s.trace \in Traces /\ Key(s) \in Keys
         /\ Opened(s) \in Summary /\ Covers(Opened(s), s)
         /\ Opened(s).duration = Opened(s).end - Opened(s).start
         /\ Opened(s).count = 1
<1>1. s.start \in Int /\ s.end \in Int /\ s.status \in Nat
  BY TraceConstantsOK
<1>. QED BY <1>1 DEF Traces, Key, Keys, Opened, Summary, Covers

\* Extending a row never takes back what it says.
LEMMA ExtendedOK ==
  ASSUME NEW s \in Spans, NEW row \in Summary
  PROVE  /\ Extended(row, s) \in Summary /\ Covers(Extended(row, s), s)
         /\ Extended(row, s).start <= row.start
         /\ Extended(row, s).end >= row.end
         /\ Extended(row, s).status >= row.status
         /\ Extended(row, s).duration
              = Extended(row, s).end - Extended(row, s).start
         /\ Extended(row, s).count = row.count + 1
<1>1. s.start \in Int /\ s.end \in Int /\ s.status \in Nat
  BY SpanOK
<1>. QED BY <1>1 DEF Extended, Summary, Covers, Smaller, Larger

\* The span a writer is at.
LEMMA HeadOK ==
  ASSUME TypeOK, NEW w \in Writers, writer[w].pc # "idle"
  PROVE  /\ writer[w].batch \in Seq(Spans) /\ writer[w].batch # <<>>
         /\ Head(writer[w].batch) \in Spans
         /\ Tail(writer[w].batch) \in Seq(Spans)
BY DEF TypeOK

-----------------------------------------------------------------------------
(* Type correctness                                                        *)

LEMMA TypeInit == Init => TypeOK
<1>. SUFFICES ASSUME Init PROVE TypeOK
  OBVIOUS
<1>1. /\ DOMAIN traces \subseteq Traces
      /\ traces \in [DOMAIN traces -> Summary]
      /\ DOMAIN spans \subseteq Keys
      /\ \A k \in DOMAIN spans : spans[k] \in Spans /\ Key(spans[k]) = k
  BY DEF Init
<1>2. /\ writer \in [Writers -> [pc : {"idle", "trace", "span"}, batch : Seq(Spans)]]
      /\ \A w \in Writers : (writer[w].pc = "idle") = (writer[w].batch = <<>>)
  BY DEF Init, Idle
<1>. QED BY <1>1, <1>2 DEF Init, TypeOK

LEMMA TypeStep == TypeOK /\ [Next]_vars => TypeOK'
<1>. SUFFICES ASSUME TypeOK, [Next]_vars PROVE TypeOK'
  OBVIOUS
<1>1. ASSUME NEW w \in Writers, Receive(w) PROVE TypeOK'
  <2>1. PICK n \in 1 .. MaxBatch : \E batch \in [1 .. n -> Spans] :
          /\ writer' = [writer EXCEPT ![w] = [pc |-> "trace", batch |-> batch]]
          /\ received' = received \cup {batch[i] : i \in 1 .. n}
          /\ repeated' = (repeated \/ \E i \in 1 .. n :
                            \/ batch[i] \in received
                            \/ \E j \in 1 .. i - 1 : batch[j] = batch[i])
    BY <1>1 DEF Receive
  <2>2. PICK batch \in [1 .. n -> Spans] :
          /\ writer' = [writer EXCEPT ![w] = [pc |-> "trace", batch |-> batch]]
          /\ received' = received \cup {batch[i] : i \in 1 .. n}
          /\ repeated' = (repeated \/ \E i \in 1 .. n :
                            \/ batch[i] \in received
                            \/ \E j \in 1 .. i - 1 : batch[j] = batch[i])
    BY <2>1
  <2>3. n \in Nat /\ n >= 1 /\ batch \in Seq(Spans) /\ batch # <<>>
    BY TraceConstantsOK
  <2>4. repeated' \in BOOLEAN
    BY <2>2 DEF TypeOK
  <2>5. received' \subseteq Spans
    BY <2>2 DEF TypeOK
  <2>. QED BY <1>1, <2>2, <2>3, <2>4, <2>5 DEF TypeOK, Receive
<1>2. ASSUME NEW w \in Writers, StoreTrace(w) PROVE TypeOK'
  <2>. DEFINE s == Head(writer[w].batch)
  <2>1. s \in Spans
    BY <1>2, HeadOK DEF StoreTrace
  <2>2. /\ s.trace \in Traces /\ Opened(s) \in Summary
        /\ \A row \in Summary : Extended(row, s) \in Summary
    BY <2>1, SpanOK, ExtendedOK
  <2>. HIDE DEF s
  <2>3. /\ DOMAIN traces' = DOMAIN traces \cup {s.trace}
        /\ traces' \in [DOMAIN traces' -> Summary]
    BY <1>2, <2>2 DEF StoreTrace, TypeOK, s
  <2>. QED BY <1>2, <2>2, <2>3 DEF StoreTrace, TypeOK
<1>3. ASSUME NEW w \in Writers, StoreSpan(w) PROVE TypeOK'
  <2>. DEFINE s == Head(writer[w].batch)
              rest == Tail(writer[w].batch)
  <2>1. s \in Spans /\ rest \in Seq(Spans)
    BY <1>3, HeadOK DEF StoreSpan
  <2>2. Key(s) \in Keys
    BY <2>1, SpanOK
  <2>. HIDE DEF s, rest
  <2>3. /\ DOMAIN spans' = DOMAIN spans \cup {Key(s)}
        /\ \A k \in DOMAIN spans' : spans'[k] = IF k = Key(s) THEN s ELSE spans[k]
    BY <1>3 DEF StoreSpan, s
  <2>4. writer' = [writer EXCEPT ![w] = IF rest = <<>> THEN Idle
                                        ELSE [pc |-> "trace", batch |-> rest]]
    BY <1>3 DEF StoreSpan, rest
  <2>5. /\ DOMAIN spans' \subseteq Keys
        /\ \A k \in DOMAIN spans' : spans'[k] \in Spans /\ Key(spans'[k]) = k
    BY <2>1, <2>2, <2>3 DEF TypeOK
  <2>6. /\ writer' \in [Writers -> [pc : {"idle", "trace", "span"}, batch : Seq(Spans)]]
        /\ \A v \in Writers : (writer'[v].pc = "idle") = (writer'[v].batch = <<>>)
    BY <2>1, <2>4 DEF TypeOK, Idle
  <2>. QED BY <1>3, <2>5, <2>6 DEF StoreSpan, TypeOK
<1>4. ASSUME NEW w \in Writers, FailedCall(w) PROVE TypeOK'
  BY <1>4 DEF FailedCall, TypeOK, Idle
<1>5. CASE Crash
  BY <1>5 DEF Crash, TypeOK, Idle
<1>6. CASE UNCHANGED vars
  BY <1>6 DEF vars, TypeOK
<1>. QED BY <1>1, <1>2, <1>3, <1>4, <1>5, <1>6 DEF Next, WriterStep

THEOREM TypeCorrect == Spec => []TypeOK
BY TypeInit, TypeStep, PTL DEF Spec

-----------------------------------------------------------------------------
(* The envelope                                                            *)

EnvelopeInv == TypeOK /\ EnvelopeCovers /\ Recorded

LEMMA EnvelopeInit == Init => EnvelopeInv
<1>. SUFFICES ASSUME Init PROVE EnvelopeInv
  OBVIOUS
<1>1. EnvelopeCovers /\ Recorded
  BY DEF Init, EnvelopeCovers, Recorded, Idle
<1>. QED BY <1>1, TypeInit DEF EnvelopeInv

\* A row that is there stays, and covers whatever it covered.
RowsGrow ==
  \A t \in DOMAIN traces :
    /\ t \in DOMAIN traces'
    /\ traces'[t].start <= traces[t].start
    /\ traces'[t].end >= traces[t].end
    /\ traces'[t].status >= traces[t].status

LEMMA StillCovers ==
  ASSUME TypeOK, TypeOK', RowsGrow, NEW s \in Spans, NEW t \in DOMAIN traces,
         Covers(traces[t], s)
  PROVE  t \in DOMAIN traces' /\ Covers(traces'[t], s)
<1>1. traces[t] \in Summary /\ t \in DOMAIN traces' /\ traces'[t] \in Summary
  BY DEF RowsGrow, TypeOK
<1>2. s.start \in Int /\ s.end \in Int /\ s.status \in Nat
  BY SpanOK
<1>. QED BY <1>1, <1>2 DEF RowsGrow, Covers, Summary

\* What the first call does to the table.
LEMMA StoreTraceOK ==
  ASSUME EnvelopeInv, NEW w \in Writers, StoreTrace(w)
  PROVE  LET s == Head(writer[w].batch) IN
         /\ RowsGrow
         /\ s \in Spans
         /\ DOMAIN traces' = DOMAIN traces \cup {s.trace}
         /\ Covers(traces'[s.trace], s)
         /\ \A t \in DOMAIN traces' :
              traces'[t].duration = traces'[t].end - traces'[t].start
         /\ \A t \in DOMAIN traces \ {s.trace} : traces'[t] = traces[t]
         /\ traces'[s.trace].count =
              IF s.trace \in DOMAIN traces THEN traces[s.trace].count + 1 ELSE 1
<1>. DEFINE s == Head(writer[w].batch)
<1>1. s \in Spans
  BY HeadOK DEF StoreTrace, EnvelopeInv
<1>. HIDE DEF s
<1>2. /\ DOMAIN traces' = DOMAIN traces \cup {s.trace}
      /\ \A t \in DOMAIN traces \cup {s.trace} :
           traces'[t] = IF t # s.trace THEN traces[t]
                        ELSE IF t \in DOMAIN traces THEN Extended(traces[t], s)
                        ELSE Opened(s)
  BY DEF StoreTrace, s
<1>3. \A t \in DOMAIN traces : traces[t] \in Summary
  BY DEF EnvelopeInv, TypeOK
<1>4. \A t \in DOMAIN traces : traces[t].duration = traces[t].end - traces[t].start
  BY DEF EnvelopeInv, EnvelopeCovers
<1>5. \A t \in DOMAIN traces :
        traces[t].start \in Int /\ traces[t].end \in Int /\ traces[t].status \in Nat
  BY <1>3 DEF Summary
<1>6. RowsGrow
  BY <1>1, <1>2, <1>3, <1>5, ExtendedOK DEF RowsGrow
<1>7. /\ Covers(traces'[s.trace], s)
      /\ traces'[s.trace].count =
           IF s.trace \in DOMAIN traces THEN traces[s.trace].count + 1 ELSE 1
      /\ traces'[s.trace].duration = traces'[s.trace].end - traces'[s.trace].start
  BY <1>1, <1>2, <1>3, SpanOK, ExtendedOK
<1>8. \A t \in DOMAIN traces' :
        traces'[t].duration = traces'[t].end - traces'[t].start
  BY <1>2, <1>4, <1>7
<1>. QED BY <1>1, <1>2, <1>6, <1>7, <1>8 DEF s

LEMMA EnvelopeStep == EnvelopeInv /\ [Next]_vars => EnvelopeInv'
<1>. SUFFICES ASSUME EnvelopeInv, [Next]_vars PROVE EnvelopeInv'
  OBVIOUS
<1>1. TypeOK /\ TypeOK'
  BY TypeStep DEF EnvelopeInv
<1>2. ASSUME NEW w \in Writers, Receive(w) PROVE EnvelopeCovers' /\ Recorded'
  <2>1. traces' = traces /\ spans' = spans
    BY <1>2 DEF Receive
  <2>2. \A v \in Writers : writer'[v].pc = "span" => writer'[v] = writer[v]
    BY <1>2 DEF Receive, EnvelopeInv, TypeOK
  <2>. QED BY <2>1, <2>2 DEF EnvelopeInv, EnvelopeCovers, Recorded, Covers
<1>3. ASSUME NEW w \in Writers, StoreTrace(w) PROVE EnvelopeCovers' /\ Recorded'
  <2>. DEFINE s == Head(writer[w].batch)
  <2>1. /\ RowsGrow /\ s \in Spans
        /\ s.trace \in DOMAIN traces' /\ Covers(traces'[s.trace], s)
        /\ \A t \in DOMAIN traces' :
             traces'[t].duration = traces'[t].end - traces'[t].start
    BY <1>3, StoreTraceOK
  <2>2. spans' = spans /\ writer' = [writer EXCEPT ![w].pc = "span"]
    BY <1>3 DEF StoreTrace
  <2>3. ASSUME NEW k \in DOMAIN spans
        PROVE  k[1] \in DOMAIN traces' /\ Covers(traces'[k[1]], spans[k])
    BY <1>1, <2>1, StillCovers DEF EnvelopeInv, EnvelopeCovers, TypeOK
  <2>4. ASSUME NEW v \in Writers, writer'[v].pc = "span"
        PROVE  /\ Head(writer'[v].batch).trace \in DOMAIN traces'
               /\ Covers(traces'[Head(writer'[v].batch).trace],
                         Head(writer'[v].batch))
    <3>1. CASE v = w
      BY <2>1, <2>2, <3>1 DEF EnvelopeInv, TypeOK
    <3>2. CASE v # w
      <4>1. writer'[v] = writer[v] /\ writer[v].pc = "span"
        BY <2>2, <2>4, <3>2 DEF EnvelopeInv, TypeOK
      <4>2. Head(writer[v].batch) \in Spans
        BY <1>1, <4>1, HeadOK
      <4>. QED BY <1>1, <2>1, <4>1, <4>2, StillCovers DEF EnvelopeInv, Recorded
    <3>. QED BY <3>1, <3>2
  <2>. QED BY <2>1, <2>2, <2>3, <2>4 DEF EnvelopeCovers, Recorded, Covers
<1>4. ASSUME NEW w \in Writers, StoreSpan(w) PROVE EnvelopeCovers' /\ Recorded'
  <2>. DEFINE s == Head(writer[w].batch)
  <2>1. s.trace \in DOMAIN traces /\ Covers(traces[s.trace], s)
    BY <1>4 DEF StoreSpan, EnvelopeInv, Recorded
  <2>2. Key(s)[1] = s.trace
    BY DEF Key
  <2>. HIDE DEF s
  <2>3. /\ traces' = traces
        /\ DOMAIN spans' = DOMAIN spans \cup {Key(s)}
        /\ \A k \in DOMAIN spans' : spans'[k] = IF k = Key(s) THEN s ELSE spans[k]
    BY <1>4 DEF StoreSpan, s
  <2>4. \A v \in Writers : writer'[v].pc = "span" => writer'[v] = writer[v]
    BY <1>4 DEF StoreSpan, EnvelopeInv, TypeOK, Idle
  <2>. QED BY <2>1, <2>2, <2>3, <2>4 DEF EnvelopeInv, EnvelopeCovers, Recorded, Covers
<1>5. ASSUME NEW w \in Writers, FailedCall(w) PROVE EnvelopeCovers' /\ Recorded'
  <2>1. traces' = traces /\ spans' = spans
    BY <1>5 DEF FailedCall
  <2>2. \A v \in Writers : writer'[v].pc = "span" => writer'[v] = writer[v]
    BY <1>5 DEF FailedCall, EnvelopeInv, TypeOK, Idle
  <2>. QED BY <2>1, <2>2 DEF EnvelopeInv, EnvelopeCovers, Recorded, Covers
<1>6. ASSUME Crash PROVE EnvelopeCovers' /\ Recorded'
  BY <1>6 DEF Crash, EnvelopeInv, EnvelopeCovers, Recorded, Covers, Idle
<1>7. ASSUME UNCHANGED vars PROVE EnvelopeCovers' /\ Recorded'
  BY <1>7 DEF vars, EnvelopeInv, EnvelopeCovers, Recorded, Covers
<1>8. EnvelopeCovers' /\ Recorded'
  BY <1>2, <1>3, <1>4, <1>5, <1>6, <1>7 DEF Next, WriterStep
<1>. QED BY <1>1, <1>8 DEF EnvelopeInv

\* Whatever is interleaved, repeated or lost, a span a reader finds lies within
\* the interval and the status of its trace.
THEOREM TracesCoverSpans == Spec => []EnvelopeCovers
<1>1. EnvelopeInv => EnvelopeCovers
  BY DEF EnvelopeInv
<1>. QED BY <1>1, EnvelopeInit, EnvelopeStep, PTL DEF Spec

-----------------------------------------------------------------------------
(* The count                                                               *)

\* The keys of the spans of t that are stored or being stored, and what the
\* property counts.
Keyed(t) == {k \in Keys : \/ k \in DOMAIN spans /\ k[1] = t
                          \/ \E w \in Writers : /\ writer[w].pc = "span"
                                                /\ Key(Head(writer[w].batch)) = k
                                                /\ k[1] = t}

LEMMA KnownIsKeyedNow == TypeOK => \A t \in Traces : Known(t) = Keyed(t)
<1>. SUFFICES ASSUME TypeOK, NEW t \in Traces PROVE Known(t) = Keyed(t)
  OBVIOUS
<1>1. \A w \in Writers : writer[w].pc = "span" =>
        /\ Key(Head(writer[w].batch)) \in Keys
        /\ Key(Head(writer[w].batch))[1] = Head(writer[w].batch).trace
  BY HeadOK, SpanOK DEF Key
<1>2. DOMAIN spans \subseteq Keys
  BY DEF TypeOK
<1>. QED BY <1>1, <1>2 DEF Known, Keyed, Stored, FirstTime, UnderWay

LEMMA KnownIsKeyed ==
  /\ TypeOK => \A t \in Traces : Known(t) = Keyed(t)
  /\ TypeOK' => \A t \in Traces : Known(t)' = Keyed(t)'
<1>1. (TypeOK => \A t \in Traces : Known(t) = Keyed(t))'
  BY KnownIsKeyedNow, PTL
<1>. QED BY <1>1, KnownIsKeyedNow

LEMMA KeyedFinite == IsFiniteSet(Keys) /\ \A t : IsFiniteSet(Keyed(t))
<1>1. IsFiniteSet(Keys)
  <2>. DEFINE f == [s \in Spans |-> Key(s)]
  <2>1. f \in Surjection(Spans, Keys)
    BY DEF Keys, Surjection
  <2>. QED BY <2>1, TraceConstantsOK, FS_Surjection
<1>2. \A t : Keyed(t) \subseteq Keys
  BY DEF Keyed
<1>. QED BY <1>1, <1>2, FS_Subset

CountInv == EnvelopeInv /\ CountCovers

\* The number of keys does not grow where no key is added.
LEMMA FewerKeys ==
  ASSUME TypeOK, TypeOK', CountCovers, NEW t \in DOMAIN traces, t \in DOMAIN traces',
         Keyed(t)' \subseteq Keyed(t), traces'[t].count = traces[t].count
  PROVE  traces'[t].count >= Cardinality(Known(t)')
<1>1. Known(t) = Keyed(t) /\ Known(t)' = Keyed(t)'
  BY KnownIsKeyed DEF TypeOK
<1>2. IsFiniteSet(Keyed(t))
  BY KeyedFinite
<1>3. Cardinality(Keyed(t)') <= Cardinality(Keyed(t))
  BY <1>2, FS_Subset
<1>4. Cardinality(Keyed(t)) \in Nat /\ Cardinality(Keyed(t)') \in Nat
  BY <1>2, FS_Subset, FS_CardinalityType
<1>5. traces[t].count \in Nat /\ traces[t].count >= Cardinality(Keyed(t))
  BY <1>1 DEF CountCovers, Known, TypeOK, Summary
<1>. QED BY <1>1, <1>3, <1>4, <1>5

LEMMA CountStep ==
  ASSUME CountInv, [Next]_vars
  PROVE  CountCovers'
<1>1. TypeOK /\ TypeOK' /\ EnvelopeInv
  BY TypeStep DEF CountInv, EnvelopeInv
<1>2. SUFFICES ASSUME NEW t \in DOMAIN traces'
               PROVE  traces'[t].count >= Cardinality(Known(t)')
  BY DEF CountCovers, Known
<1>3. ASSUME NEW w \in Writers, Receive(w)
      PROVE  traces' = traces /\ Keyed(t)' \subseteq Keyed(t)
  <2>1. traces' = traces /\ spans' = spans
    BY <1>3 DEF Receive
  <2>2. \A v \in Writers : writer'[v].pc = "span" => writer'[v] = writer[v]
    BY <1>1, <1>3 DEF Receive, TypeOK
  <2>. QED BY <2>1, <2>2 DEF Keyed
<1>4. ASSUME NEW w \in Writers, FailedCall(w)
      PROVE  traces' = traces /\ Keyed(t)' \subseteq Keyed(t)
  <2>1. traces' = traces /\ spans' = spans
    BY <1>4 DEF FailedCall
  <2>2. \A v \in Writers : writer'[v].pc = "span" => writer'[v] = writer[v]
    BY <1>1, <1>4 DEF FailedCall, TypeOK, Idle
  <2>. QED BY <2>1, <2>2 DEF Keyed
<1>5. ASSUME Crash PROVE traces' = traces /\ Keyed(t)' \subseteq Keyed(t)
  BY <1>5 DEF Crash, Keyed, Idle
<1>6. ASSUME UNCHANGED vars PROVE traces' = traces /\ Keyed(t)' \subseteq Keyed(t)
  BY <1>6 DEF vars, Keyed
<1>7. ASSUME NEW w \in Writers, StoreSpan(w)
      PROVE  traces' = traces /\ Keyed(t)' \subseteq Keyed(t)
  <2>1. traces' = traces
    BY <1>7 DEF StoreSpan
  <2>2. DOMAIN spans' = DOMAIN spans \cup {Key(Head(writer[w].batch))}
    BY <1>7 DEF StoreSpan
  <2>3. writer[w].pc = "span"
    BY <1>7 DEF StoreSpan
  <2>4. \A v \in Writers : writer'[v].pc = "span" => writer'[v] = writer[v]
    BY <1>1, <1>7 DEF StoreSpan, TypeOK, Idle
  <2>. QED BY <2>1, <2>2, <2>3, <2>4 DEF Keyed
<1>8. ASSUME NEW w \in Writers, StoreTrace(w)
      PROVE  traces'[t].count >= Cardinality(Known(t)')
  <2>. DEFINE s == Head(writer[w].batch)
  <2>1. /\ s \in Spans
        /\ DOMAIN traces' = DOMAIN traces \cup {s.trace}
        /\ \A u \in DOMAIN traces \ {s.trace} : traces'[u] = traces[u]
        /\ traces'[s.trace].count =
             IF s.trace \in DOMAIN traces THEN traces[s.trace].count + 1 ELSE 1
    BY <1>1, <1>8, StoreTraceOK
  <2>2. spans' = spans /\ writer' = [writer EXCEPT ![w].pc = "span"]
    BY <1>8 DEF StoreTrace
  <2>3. \A v \in Writers : writer'[v].batch = writer[v].batch
          /\ (v # w => writer'[v].pc = writer[v].pc)
    BY <1>1, <2>2 DEF TypeOK
  <2>4. Key(s)[1] = s.trace
    BY DEF Key
  <2>5. Keyed(t)' \subseteq Keyed(t) \cup {Key(s)}
    BY <2>2, <2>3 DEF Keyed
  <2>6. t # s.trace => Keyed(t)' \subseteq Keyed(t)
    BY <2>4, <2>5 DEF Keyed
  <2>. HIDE DEF s
  <2>7. CASE t # s.trace
    BY <1>1, <1>2, <2>1, <2>6, <2>7, FewerKeys DEF CountInv
  <2>8. CASE t = s.trace /\ t \in DOMAIN traces
    <3>1. Known(t) = Keyed(t) /\ Known(t)' = Keyed(t)'
      BY <1>1, <2>8, KnownIsKeyed DEF TypeOK
    <3>2. IsFiniteSet(Keyed(t))
      BY KeyedFinite
    <3>3. /\ IsFiniteSet(Keyed(t) \cup {Key(s)})
          /\ Cardinality(Keyed(t) \cup {Key(s)}) <= Cardinality(Keyed(t)) + 1
          /\ Cardinality(Keyed(t)) \in Nat
      <4>1. /\ IsFiniteSet(Keyed(t) \cup {Key(s)})
            /\ Cardinality(Keyed(t) \cup {Key(s)})
                 = IF Key(s) \in Keyed(t) THEN Cardinality(Keyed(t))
                   ELSE Cardinality(Keyed(t)) + 1
        BY <3>2, FS_AddElement
      <4>2. Cardinality(Keyed(t)) \in Nat
        BY <3>2, FS_CardinalityType
      <4>. HIDE DEF Keyed
      <4>. QED BY <4>1, <4>2
    <3>4. Cardinality(Keyed(t)') <= Cardinality(Keyed(t) \cup {Key(s)})
      BY <2>5, <3>3, FS_Subset
    <3>5. Cardinality(Keyed(t)') \in Nat /\ Cardinality(Keyed(t) \cup {Key(s)}) \in Nat
      BY <2>5, <3>3, FS_Subset, FS_CardinalityType
    <3>6. traces[t].count \in Nat /\ traces[t].count >= Cardinality(Keyed(t))
      BY <1>1, <2>8, <3>1 DEF CountInv, CountCovers, Known, TypeOK, Summary
    <3>. QED BY <2>1, <2>8, <3>1, <3>3, <3>4, <3>5, <3>6
  <2>9. CASE t = s.trace /\ t \notin DOMAIN traces
    <3>1. Keyed(t) = {}
      <4>1. \A k \in DOMAIN spans : k[1] # t
        BY <1>1, <2>9 DEF EnvelopeInv, EnvelopeCovers
      <4>2. \A v \in Writers : writer[v].pc = "span" =>
              Key(Head(writer[v].batch))[1] # t
        BY <1>1, <2>9 DEF EnvelopeInv, Recorded, Key
      <4>. QED BY <4>1, <4>2 DEF Keyed
    <3>2. Keyed(t)' \subseteq {Key(s)}
      BY <2>5, <3>1
    <3>3. Cardinality(Keyed(t)') \in Nat /\ Cardinality(Keyed(t)') <= 1
      <4>1. IsFiniteSet({Key(s)}) /\ Cardinality({Key(s)}) = 1
        BY FS_Singleton
      <4>2. IsFiniteSet(Keyed(t)') /\ Cardinality(Keyed(t)') <= 1
        BY <3>2, <4>1, FS_Subset
      <4>. QED BY <4>2, FS_CardinalityType
    <3>4. Known(t)' = Keyed(t)'
      BY <1>1, <1>2, KnownIsKeyed DEF TypeOK
    <3>. QED BY <2>1, <2>9, <3>3, <3>4
  <2>. QED BY <2>7, <2>8, <2>9
<1>9. ASSUME traces' = traces, Keyed(t)' \subseteq Keyed(t)
      PROVE  traces'[t].count >= Cardinality(Known(t)')
  BY <1>1, <1>2, <1>9, FewerKeys DEF CountInv
<1>. QED BY <1>3, <1>4, <1>5, <1>6, <1>7, <1>8, <1>9 DEF Next, WriterStep

\* span_count is never below the number of spans a reader finds, although the
\* count and the span are written in two calls.
THEOREM CountsCoverSpans == Spec => []CountCovers
<1>1. Init => CountInv
  BY EnvelopeInit DEF Init, CountInv, CountCovers
<1>2. CountInv /\ [Next]_vars => CountInv'
  BY EnvelopeStep, CountStep DEF CountInv
<1>3. CountInv => CountCovers
  BY DEF CountInv
<1>. QED BY <1>1, <1>2, <1>3, PTL DEF Spec

-----------------------------------------------------------------------------
(* The summary                                                             *)

\* A span has ids of its own: what is exported again is the same span.
OwnIds == \A s1, s2 \in Spans : Key(s1) = Key(s2) => s1 = s2

\* The spans of t the row of the trace has been told of, unless they were lost.
Told(t) == {s \in Spans : /\ s.trace = t
                          /\ \/ \E k \in DOMAIN spans : spans[k] = s
                             \/ \E w \in Writers : /\ writer[w].pc = "span"
                                                   /\ Head(writer[w].batch) = s}

\* What a row says some span says.
Attained ==
  faults = 0 =>
    \A t \in DOMAIN traces :
      /\ \E s \in Told(t) : s.start = traces[t].start
      /\ \E s \in Told(t) : s.end = traces[t].end
      /\ \E s \in Told(t) : s.status = traces[t].status

\* As long as nothing was received twice, what waits in the exports is all
\* different and not yet stored.
Fresh ==
  /\ \A k \in DOMAIN spans : spans[k] \in received
  /\ \A v \in Writers : \A i \in 1 .. Len(writer[v].batch) :
       /\ writer[v].batch[i] \in received
       /\ ~repeated =>
            /\ \A k \in DOMAIN spans : spans[k] # writer[v].batch[i]
            /\ \A u \in Writers : \A j \in 1 .. Len(writer[u].batch) :
                 writer[v].batch[i] = writer[u].batch[j] => u = v /\ i = j

Exact ==
  (faults = 0 /\ ~repeated) =>
    \A t \in DOMAIN traces : traces[t].count = Cardinality(Keyed(t))

SummaryInv == EnvelopeInv /\ Attained /\ Fresh /\ Exact

\* The exports get shorter: d[v] spans of v's are done with.
Shorter(d) ==
  \A v \in Writers : \A i \in 1 .. Len(writer'[v].batch) :
    /\ i + d[v] \in 1 .. Len(writer[v].batch)
    /\ writer'[v].batch[i] = writer[v].batch[i + d[v]]

LEMMA FreshShorter ==
  ASSUME Fresh, TypeOK, TypeOK', NEW d \in [Writers -> Nat], Shorter(d),
         UNCHANGED <<spans, received, repeated>>
  PROVE  Fresh'
<1>1. \A v \in Writers : Len(writer[v].batch) \in Nat /\ Len(writer'[v].batch) \in Nat
  BY DEF TypeOK
<1>2. ASSUME NEW v \in Writers, NEW i \in 1 .. Len(writer'[v].batch)
      PROVE  /\ writer'[v].batch[i] \in received
             /\ ~repeated =>
                  /\ \A k \in DOMAIN spans : spans[k] # writer'[v].batch[i]
                  /\ \A u \in Writers : \A j \in 1 .. Len(writer'[u].batch) :
                       writer'[v].batch[i] = writer'[u].batch[j] => u = v /\ i = j
  <2>1. /\ i + d[v] \in 1 .. Len(writer[v].batch)
        /\ writer'[v].batch[i] = writer[v].batch[i + d[v]]
    BY <1>2 DEF Shorter
  <2>2. ASSUME NEW u \in Writers, NEW j \in 1 .. Len(writer'[u].batch), ~repeated,
               writer'[v].batch[i] = writer'[u].batch[j]
        PROVE  u = v /\ i = j
    <3>1. /\ j + d[u] \in 1 .. Len(writer[u].batch)
          /\ writer'[u].batch[j] = writer[u].batch[j + d[u]]
      BY <2>2 DEF Shorter
    <3>2. u = v /\ i + d[v] = j + d[u]
      <4>1. PICK a \in 1 .. Len(writer[v].batch), b \in 1 .. Len(writer[u].batch) :
              a = i + d[v] /\ b = j + d[u]
        BY <2>1, <3>1
      <4>2. writer[v].batch[a] = writer[u].batch[b]
        BY <2>1, <2>2, <3>1, <4>1
      <4>3. u = v /\ a = b
        BY <2>2, <4>2 DEF Fresh
      <4> QED BY <4>1, <4>3
    <3> QED BY <1>1, <3>2
  <2> QED BY <2>1, <2>2 DEF Fresh
<1> QED BY <1>2 DEF Fresh

LEMMA FreshReceive ==
  ASSUME Fresh, TypeOK, TypeOK', NEW w \in Writers, Receive(w)
  PROVE  Fresh'
<1>1. PICK n \in 1 .. MaxBatch : \E batch \in [1 .. n -> Spans] :
        /\ writer' = [writer EXCEPT ![w] = [pc |-> "trace", batch |-> batch]]
        /\ received' = received \cup {batch[i] : i \in 1 .. n}
        /\ repeated' = (repeated \/ \E i \in 1 .. n :
                          \/ batch[i] \in received
                          \/ \E j \in 1 .. i - 1 : batch[j] = batch[i])
  BY DEF Receive
<1>2. PICK batch \in [1 .. n -> Spans] :
        /\ writer' = [writer EXCEPT ![w] = [pc |-> "trace", batch |-> batch]]
        /\ received' = received \cup {batch[i] : i \in 1 .. n}
        /\ repeated' = (repeated \/ \E i \in 1 .. n :
                          \/ batch[i] \in received
                          \/ \E j \in 1 .. i - 1 : batch[j] = batch[i])
  BY <1>1
<1>3. n \in Nat /\ Len(batch) = n
  BY TraceConstantsOK
<1>4. writer'[w].batch = batch /\ \A v \in Writers \ {w} : writer'[v] = writer[v]
  BY <1>2 DEF TypeOK
<1>5. UNCHANGED spans /\ writer[w].batch = <<>>
  BY DEF Receive, TypeOK
<1>6. ASSUME ~repeated'
      PROVE  /\ ~repeated
             /\ \A i \in 1 .. n : batch[i] \notin received
             /\ \A i, j \in 1 .. n : batch[i] = batch[j] => i = j
  <2>1. /\ ~repeated
        /\ \A i \in 1 .. n : /\ batch[i] \notin received
                             /\ \A j \in 1 .. i - 1 : batch[j] # batch[i]
    BY <1>2, <1>6
  <2>2. ASSUME NEW i \in 1 .. n, NEW j \in 1 .. n, batch[i] = batch[j], i # j
        PROVE  FALSE
    <3>1. i \in 1 .. j - 1 \/ j \in 1 .. i - 1
      BY <1>3, <2>2
    <3> QED BY <2>1, <2>2, <3>1
  <2> QED BY <2>1, <2>2
<1>7. ASSUME NEW v \in Writers, NEW i \in 1 .. Len(writer'[v].batch)
      PROVE  /\ writer'[v].batch[i] \in received'
             /\ ~repeated' =>
                  /\ \A k \in DOMAIN spans : spans[k] # writer'[v].batch[i]
                  /\ \A u \in Writers : \A j \in 1 .. Len(writer'[u].batch) :
                       writer'[v].batch[i] = writer'[u].batch[j] => u = v /\ i = j
  <2>1. CASE v = w
    <3>1. i \in 1 .. n /\ writer'[v].batch[i] = batch[i]
      BY <1>3, <1>4, <1>7, <2>1
    <3>2. ASSUME ~repeated', NEW u \in Writers, NEW j \in 1 .. Len(writer'[u].batch),
                 batch[i] = writer'[u].batch[j]
          PROVE  u = v /\ i = j
      <4>1. CASE u = w
        BY <1>3, <1>4, <1>6, <2>1, <3>1, <3>2, <4>1
      <4>2. CASE u # w
        BY <1>4, <1>6, <3>1, <3>2, <4>2 DEF Fresh
      <4> QED BY <4>1, <4>2
    <3> QED BY <1>2, <1>6, <3>1, <3>2 DEF Fresh
  <2>2. CASE v # w
    <3>1. writer'[v] = writer[v] /\ i \in 1 .. Len(writer[v].batch)
      BY <1>4, <1>7, <2>2
    <3>2. ASSUME ~repeated', NEW u \in Writers, NEW j \in 1 .. Len(writer'[u].batch),
                 writer[v].batch[i] = writer'[u].batch[j]
          PROVE  u = v /\ i = j
      <4>1. CASE u = w
        BY <1>3, <1>4, <1>6, <3>1, <3>2, <4>1 DEF Fresh
      <4>2. CASE u # w
        BY <1>4, <1>6, <3>1, <3>2, <4>2 DEF Fresh
      <4> QED BY <4>1, <4>2
    <3> QED BY <1>2, <1>6, <3>1, <3>2 DEF Fresh
  <2> QED BY <2>1, <2>2
<1>8. \A k \in DOMAIN spans : spans[k] \in received'
  BY <1>2 DEF Fresh
<1> QED BY <1>5, <1>7, <1>8 DEF Fresh

LEMMA FreshStoreSpan ==
  ASSUME Fresh, TypeOK, TypeOK', NEW w \in Writers, StoreSpan(w)
  PROVE  Fresh'
<1>. DEFINE s == Head(writer[w].batch)
            rest == Tail(writer[w].batch)
            d == [v \in Writers |-> IF v = w THEN 1 ELSE 0]
<1>1. /\ DOMAIN spans' = DOMAIN spans \cup {Key(s)}
      /\ \A k \in DOMAIN spans' : spans'[k] = IF k = Key(s) THEN s ELSE spans[k]
      /\ UNCHANGED <<received, repeated>>
  BY DEF StoreSpan
<1>2. /\ writer[w].batch \in Seq(Spans) /\ writer[w].batch # <<>>
      /\ writer[w].batch[1] = s /\ 1 \in 1 .. Len(writer[w].batch)
  BY HeadOK DEF StoreSpan
<1>3. d \in [Writers -> Nat] /\ Shorter(d)
  <2>1. ASSUME NEW v \in Writers, NEW i \in 1 .. Len(writer'[v].batch)
        PROVE  /\ i + d[v] \in 1 .. Len(writer[v].batch)
               /\ writer'[v].batch[i] = writer[v].batch[i + d[v]]
    <3>1. CASE v = w
      <4>1. writer'[v].batch = rest
        BY <3>1 DEF StoreSpan, TypeOK, Idle
      <4> QED BY <1>2, <2>1, <3>1, <4>1
    <3>2. CASE v # w
      <4>1. writer'[v] = writer[v]
        BY <3>2 DEF StoreSpan, TypeOK
      <4>2. d[v] = 0 /\ i + 0 = i
        BY <2>1, <3>2
      <4> QED BY <2>1, <4>1, <4>2
    <3> QED BY <3>1, <3>2
  <2> QED BY <2>1 DEF Shorter
<1>. HIDE DEF s, rest
<1>4. \A v \in Writers : \A i \in 1 .. Len(writer'[v].batch) :
        /\ i + d[v] \in 1 .. Len(writer[v].batch) /\ i \in Nat /\ i # 0
        /\ writer'[v].batch[i] = writer[v].batch[i + d[v]]
  BY <1>3 DEF Shorter
<1>5. \A k \in DOMAIN spans' : spans'[k] \in received
  BY <1>1, <1>2 DEF Fresh
<1>6. ASSUME NEW v \in Writers, NEW i \in 1 .. Len(writer'[v].batch)
      PROVE  /\ writer'[v].batch[i] \in received
             /\ ~repeated =>
                  /\ \A k \in DOMAIN spans' : spans'[k] # writer'[v].batch[i]
                  /\ \A u \in Writers : \A j \in 1 .. Len(writer'[u].batch) :
                       writer'[v].batch[i] = writer'[u].batch[j] => u = v /\ i = j
  <2>1. PICK m \in Nat : m = d[v]
    BY <1>3
  <2>2. /\ i + m \in 1 .. Len(writer[v].batch) /\ i \in Nat /\ i # 0
        /\ writer'[v].batch[i] = writer[v].batch[i + m]
    BY <1>4, <1>6, <2>1
  <2>3. ASSUME ~repeated PROVE s # writer[v].batch[i + m]
    <3>1. s = writer[v].batch[i + m] => v = w /\ i + m = 1
      BY <1>2, <2>2, <2>3 DEF Fresh
    <3>2. v = w => m = 1
      BY <2>1
    <3> QED BY <2>2, <3>1, <3>2
  <2>4. ASSUME ~repeated, NEW u \in Writers, NEW j \in 1 .. Len(writer'[u].batch),
               writer'[v].batch[i] = writer'[u].batch[j]
        PROVE  u = v /\ i = j
    <3>1. PICK l \in Nat : l = d[u]
      BY <1>3
    <3>2. /\ j + l \in 1 .. Len(writer[u].batch) /\ j \in Nat
          /\ writer'[u].batch[j] = writer[u].batch[j + l]
      BY <1>4, <2>4, <3>1
    <3>3. u = v /\ i + m = j + l
      <4>1. PICK a \in 1 .. Len(writer[v].batch), b \in 1 .. Len(writer[u].batch) :
              a = i + m /\ b = j + l
        BY <2>2, <3>2
      <4>2. writer[v].batch[a] = writer[u].batch[b]
        BY <2>2, <2>4, <3>2, <4>1
      <4>3. u = v /\ a = b
        BY <2>4, <4>2 DEF Fresh
      <4> QED BY <4>1, <4>3
    <3> QED BY <2>1, <2>2, <3>1, <3>2, <3>3
  <2> QED BY <1>1, <2>2, <2>3, <2>4 DEF Fresh
<1> QED BY <1>1, <1>5, <1>6 DEF Fresh

LEMMA FreshStep == Fresh /\ TypeOK /\ [Next]_vars => Fresh'
<1>. SUFFICES ASSUME Fresh, TypeOK, [Next]_vars PROVE Fresh'
  OBVIOUS
<1>1. TypeOK'
  BY TypeStep
<1>2. ASSUME NEW w \in Writers, StoreTrace(w) \/ FailedCall(w) PROVE Fresh'
  <2>. DEFINE d == [v \in Writers |-> 0]
  <2>1. UNCHANGED <<spans, received, repeated>>
    BY <1>2 DEF StoreTrace, FailedCall
  <2>2. \A v \in Writers : writer'[v].batch = writer[v].batch \/ writer'[v].batch = <<>>
    BY <1>2 DEF StoreTrace, FailedCall, TypeOK, Idle
  <2>3. Shorter(d)
    BY <2>2 DEF Shorter
  <2>4. d \in [Writers -> Nat]
    OBVIOUS
  <2>. HIDE DEF d
  <2> QED BY <1>1, <2>1, <2>3, <2>4, FreshShorter
<1>3. ASSUME Crash \/ UNCHANGED vars PROVE Fresh'
  <2>. DEFINE d == [v \in Writers |-> 0]
  <2>1. UNCHANGED <<spans, received, repeated>>
    BY <1>3 DEF Crash, vars
  <2>2. \A v \in Writers : writer'[v].batch = writer[v].batch \/ writer'[v].batch = <<>>
    BY <1>3 DEF Crash, vars, Idle
  <2>3. Shorter(d)
    BY <2>2 DEF Shorter
  <2>4. d \in [Writers -> Nat]
    OBVIOUS
  <2>. HIDE DEF d
  <2> QED BY <1>1, <2>1, <2>3, <2>4, FreshShorter
<1> QED BY <1>1, <1>2, <1>3, FreshReceive, FreshStoreSpan DEF Next, WriterStep

\* What the row of a trace has been told of is not lost without a failure.
LEMMA ToldKept ==
  ASSUME TypeOK, OwnIds, [Next]_vars, faults' = 0
  PROVE  /\ \A t : Told(t) \subseteq Told(t)'
         /\ faults = 0
         /\ \/ \E w \in Writers : StoreTrace(w)
            \/ UNCHANGED traces
<1>1. faults \in Nat
  BY DEF TypeOK
<1>2. ASSUME NEW w \in Writers, Receive(w)
      PROVE  UNCHANGED <<traces, faults>> /\ \A t : Told(t) \subseteq Told(t)'
  <2>1. UNCHANGED <<traces, spans, faults>>
    BY <1>2 DEF Receive
  <2>2. \A v \in Writers : writer[v].pc = "span" => writer'[v] = writer[v]
    BY <1>2 DEF Receive, TypeOK
  <2> QED BY <2>1, <2>2 DEF Told
<1>3. ASSUME NEW w \in Writers, StoreTrace(w)
      PROVE  UNCHANGED faults /\ \A t : Told(t) \subseteq Told(t)'
  <2>1. UNCHANGED <<spans, faults>>
    BY <1>3 DEF StoreTrace
  <2>2. \A v \in Writers : writer[v].pc = "span" => writer'[v] = writer[v]
    BY <1>3 DEF StoreTrace, TypeOK
  <2> QED BY <2>1, <2>2 DEF Told
<1>4. ASSUME NEW w \in Writers, StoreSpan(w)
      PROVE  UNCHANGED <<traces, faults>> /\ \A t : Told(t) \subseteq Told(t)'
  <2>. DEFINE s == Head(writer[w].batch)
  <2>1. s \in Spans
    BY <1>4, HeadOK DEF StoreSpan
  <2>2. /\ DOMAIN spans' = DOMAIN spans \cup {Key(s)}
        /\ \A k \in DOMAIN spans' : spans'[k] = IF k = Key(s) THEN s ELSE spans[k]
    BY <1>4 DEF StoreSpan
  <2>3. \A v \in Writers \ {w} : writer'[v] = writer[v]
    BY <1>4 DEF StoreSpan, TypeOK
  <2>4. ASSUME NEW k \in DOMAIN spans PROVE k \in DOMAIN spans' /\ spans'[k] = spans[k]
    <3>1. spans[k] \in Spans /\ Key(spans[k]) = k
      BY DEF TypeOK
    <3>. HIDE DEF s
    <3>2. k = Key(s) => spans[k] = s
      BY <2>1, <3>1 DEF OwnIds
    <3> QED BY <2>2, <3>2
  <2>5. \E k \in DOMAIN spans' : spans'[k] = s
    BY <2>2
  <2>6. UNCHANGED <<traces, faults>>
    BY <1>4 DEF StoreSpan
  <2>. HIDE DEF s
  <2>7. ASSUME NEW t, NEW x \in Told(t) PROVE x \in Told(t)'
    <3>1. x \in Spans /\ x.trace = t
      BY <2>7 DEF Told
    <3>2. CASE \E k \in DOMAIN spans : spans[k] = x
      BY <2>4, <3>1, <3>2 DEF Told
    <3>3. CASE \E v \in Writers : writer[v].pc = "span" /\ Head(writer[v].batch) = x
      <4>1. PICK v \in Writers : writer[v].pc = "span" /\ Head(writer[v].batch) = x
        BY <3>3
      <4>2. CASE v = w
        BY <2>5, <3>1, <4>1, <4>2 DEF Told, s
      <4>3. CASE v # w
        BY <2>3, <3>1, <4>1, <4>3 DEF Told
      <4> QED BY <4>2, <4>3
    <3> QED BY <2>7, <3>2, <3>3 DEF Told
  <2> QED BY <2>6, <2>7
<1>5. ASSUME NEW w \in Writers PROVE ~FailedCall(w)
  BY <1>1 DEF FailedCall
<1>6. ~Crash
  BY <1>1 DEF Crash
<1>7. ASSUME UNCHANGED vars
      PROVE  UNCHANGED <<traces, faults>> /\ \A t : Told(t) \subseteq Told(t)'
  BY <1>7 DEF vars, Told
<1> QED BY <1>2, <1>3, <1>4, <1>5, <1>6, <1>7 DEF Next, WriterStep

\* After the first call the row says what the span says where it goes beyond
\* what the row said, and says the rest as before.
LEMMA RowAfter ==
  ASSUME EnvelopeInv, NEW w \in Writers, StoreTrace(w)
  PROVE  \E s \in Spans :
         /\ s.trace \in DOMAIN traces'
         /\ DOMAIN traces' = DOMAIN traces \cup {s.trace}
         /\ \A t \in DOMAIN traces \ {s.trace} : traces'[t] = traces[t]
         /\ \/ /\ traces'[s.trace].start = s.start
            \/ /\ s.trace \in DOMAIN traces
               /\ traces'[s.trace].start = traces[s.trace].start
         /\ \/ /\ traces'[s.trace].end = s.end
            \/ /\ s.trace \in DOMAIN traces
               /\ traces'[s.trace].end = traces[s.trace].end
         /\ \/ /\ traces'[s.trace].status = s.status
            \/ /\ s.trace \in DOMAIN traces
               /\ traces'[s.trace].status = traces[s.trace].status
         /\ s \in Told(s.trace)'
<1>0. PICK s : s = Head(writer[w].batch)
  OBVIOUS
<1>1. /\ s \in Spans
      /\ DOMAIN traces' = DOMAIN traces \cup {s.trace}
      /\ \A t \in DOMAIN traces \ {s.trace} : traces'[t] = traces[t]
  BY <1>0, StoreTraceOK
<1>2. traces'[s.trace] =
        IF s.trace \in DOMAIN traces THEN Extended(traces[s.trace], s) ELSE Opened(s)
  BY <1>0 DEF StoreTrace
<1>3. writer'[w].pc = "span" /\ Head(writer'[w].batch) = s
  BY <1>0 DEF StoreTrace, EnvelopeInv, TypeOK
<1>4. s \in Told(s.trace)'
  BY <1>1, <1>3 DEF Told
<1>5. CASE s.trace \in DOMAIN traces
  BY <1>1, <1>2, <1>4, <1>5 DEF Extended, Smaller, Larger
<1>6. CASE s.trace \notin DOMAIN traces
  BY <1>1, <1>2, <1>4, <1>6 DEF Opened
<1> QED BY <1>5, <1>6

LEMMA AttainedStep ==
  ASSUME EnvelopeInv, OwnIds, Attained, [Next]_vars
  PROVE  Attained'
<1>. SUFFICES ASSUME faults' = 0, NEW t \in DOMAIN traces'
              PROVE  /\ \E s \in Told(t)' : s.start = traces'[t].start
                     /\ \E s \in Told(t)' : s.end = traces'[t].end
                     /\ \E s \in Told(t)' : s.status = traces'[t].status
  BY DEF Attained
<1>1. /\ Told(t) \subseteq Told(t)' /\ faults = 0
      /\ (\E w \in Writers : StoreTrace(w)) \/ UNCHANGED traces
  BY ToldKept DEF EnvelopeInv
<1>2. \A u \in DOMAIN traces :
        /\ \E s \in Told(u) : s.start = traces[u].start
        /\ \E s \in Told(u) : s.end = traces[u].end
        /\ \E s \in Told(u) : s.status = traces[u].status
  BY <1>1 DEF Attained
<1>3. CASE UNCHANGED traces
  BY <1>1, <1>2, <1>3
<1>4. CASE \E w \in Writers : StoreTrace(w)
  <2>1. PICK w \in Writers : StoreTrace(w)
    BY <1>4
  <2>2. PICK s \in Spans :
        /\ s.trace \in DOMAIN traces'
        /\ DOMAIN traces' = DOMAIN traces \cup {s.trace}
        /\ \A u \in DOMAIN traces \ {s.trace} : traces'[u] = traces[u]
        /\ \/ traces'[s.trace].start = s.start
           \/ /\ s.trace \in DOMAIN traces
              /\ traces'[s.trace].start = traces[s.trace].start
        /\ \/ traces'[s.trace].end = s.end
           \/ /\ s.trace \in DOMAIN traces
              /\ traces'[s.trace].end = traces[s.trace].end
        /\ \/ traces'[s.trace].status = s.status
           \/ /\ s.trace \in DOMAIN traces
              /\ traces'[s.trace].status = traces[s.trace].status
        /\ s \in Told(s.trace)'
    BY <2>1, RowAfter
  <2>3. CASE t # s.trace
    BY <1>1, <1>2, <2>2, <2>3
  <2>4. CASE t = s.trace
    <3>1. \E x \in Told(t)' : x.start = traces'[t].start
      BY <1>1, <1>2, <2>2, <2>4
    <3>2. \E x \in Told(t)' : x.end = traces'[t].end
      BY <1>1, <1>2, <2>2, <2>4
    <3>3. \E x \in Told(t)' : x.status = traces'[t].status
      BY <1>1, <1>2, <2>2, <2>4
    <3> QED BY <3>1, <3>2, <3>3
  <2> QED BY <2>3, <2>4
<1> QED BY <1>1, <1>3, <1>4

\* Where nothing is received twice, the span of a first call is a new one.
LEMMA NewKey ==
  ASSUME TypeOK, OwnIds, Fresh, ~repeated, NEW w \in Writers, writer[w].pc = "trace"
  PROVE  LET s == Head(writer[w].batch) IN \A t : Key(s) \notin Keyed(t)
<1>. DEFINE s == Head(writer[w].batch)
<1>1. /\ s \in Spans /\ s = writer[w].batch[1] /\ 1 \in 1 .. Len(writer[w].batch)
  <2>1. writer[w].batch \in Seq(Spans) /\ writer[w].batch # <<>> /\ s \in Spans
    BY HeadOK
  <2> QED BY <2>1
<1>2. ASSUME NEW k \in DOMAIN spans PROVE k # Key(s)
  <2>1. spans[k] \in Spans /\ Key(spans[k]) = k
    BY DEF TypeOK
  <2>2. spans[k] # s
    BY <1>1 DEF Fresh
  <2>. HIDE DEF s
  <2> QED BY <1>1, <2>1, <2>2 DEF OwnIds
<1>3. ASSUME NEW v \in Writers, writer[v].pc = "span"
      PROVE  Key(Head(writer[v].batch)) # Key(s)
  <2>1. /\ Head(writer[v].batch) \in Spans
        /\ Head(writer[v].batch) = writer[v].batch[1]
        /\ 1 \in 1 .. Len(writer[v].batch)
    <3>1. /\ writer[v].batch \in Seq(Spans) /\ writer[v].batch # <<>>
          /\ Head(writer[v].batch) \in Spans
      BY <1>3, HeadOK
    <3> QED BY <3>1
  <2>2. v # w
    BY <1>3
  <2>3. Head(writer[v].batch) # s
    BY <1>1, <2>1, <2>2 DEF Fresh
  <2>. HIDE DEF s
  <2> QED BY <1>1, <2>1, <2>3 DEF OwnIds
<1>. HIDE DEF s
<1>4. \A t : Key(s) \notin Keyed(t)
  BY <1>2, <1>3 DEF Keyed
<1> QED BY <1>4 DEF s

LEMMA ExactStep ==
  ASSUME EnvelopeInv, OwnIds, Fresh, Exact, [Next]_vars
  PROVE  Exact'
<1>. SUFFICES ASSUME faults' = 0, ~repeated', NEW t \in DOMAIN traces'
              PROVE  traces'[t].count = Cardinality(Keyed(t)')
  BY DEF Exact
<1>1. TypeOK
  BY DEF EnvelopeInv
<1>2. faults = 0
  BY <1>1, ToldKept
<1>3. ~repeated
  BY DEF Next, WriterStep, Receive, StoreTrace, StoreSpan, FailedCall, Crash, vars
<1>4. \A u \in DOMAIN traces : traces[u].count = Cardinality(Keyed(u))
  BY <1>2, <1>3 DEF Exact
<1>5. ASSUME NEW w \in Writers, Receive(w)
      PROVE  traces' = traces /\ Keyed(t)' = Keyed(t)
  <2>1. traces' = traces /\ spans' = spans
    BY <1>5 DEF Receive
  <2>2. \A v \in Writers : writer'[v].pc = "span" <=> writer[v].pc = "span"
    BY <1>1, <1>5 DEF Receive, TypeOK
  <2>3. \A v \in Writers : writer[v].pc = "span" => writer'[v] = writer[v]
    BY <1>1, <1>5 DEF Receive, TypeOK
  <2> QED BY <2>1, <2>2, <2>3 DEF Keyed
<1>6. ASSUME NEW w \in Writers, StoreSpan(w)
      PROVE  traces' = traces /\ Keyed(t)' = Keyed(t)
  <2>. DEFINE s == Head(writer[w].batch)
  <2>1. traces' = traces /\ DOMAIN spans' = DOMAIN spans \cup {Key(s)}
    BY <1>6 DEF StoreSpan
  <2>2. writer[w].pc = "span" /\ writer'[w].pc # "span" /\ Key(s) \in Keys
    <3>1. s \in Spans
      BY <1>1, <1>6, HeadOK DEF StoreSpan
    <3> QED BY <1>1, <1>6, <3>1, SpanOK DEF StoreSpan, TypeOK, Idle
  <2>3. \A v \in Writers \ {w} : writer'[v] = writer[v]
    BY <1>1, <1>6 DEF StoreSpan, TypeOK
  <2>4. ASSUME NEW k \in Keys PROVE k \in Keyed(t)' <=> k \in Keyed(t)
    BY <2>1, <2>2, <2>3 DEF Keyed
  <2> QED BY <2>1, <2>4 DEF Keyed
<1>7. ASSUME NEW w \in Writers, StoreTrace(w)
      PROVE  traces'[t].count = Cardinality(Keyed(t)')
  <2>. DEFINE s == Head(writer[w].batch)
  <2>1. /\ s \in Spans
        /\ DOMAIN traces' = DOMAIN traces \cup {s.trace}
        /\ \A u \in DOMAIN traces \ {s.trace} : traces'[u] = traces[u]
        /\ traces'[s.trace].count =
             IF s.trace \in DOMAIN traces THEN traces[s.trace].count + 1 ELSE 1
    BY <1>7, StoreTraceOK
  <2>2. Key(s) \in Keys /\ Key(s)[1] = s.trace
    BY <2>1, SpanOK DEF Key
  <2>3. /\ spans' = spans
        /\ writer[w].pc = "trace" /\ writer'[w].pc = "span"
        /\ Head(writer'[w].batch) = s
        /\ \A v \in Writers \ {w} : writer'[v] = writer[v]
    BY <1>1, <1>7 DEF StoreTrace, TypeOK
  <2>4. Key(s) \notin Keyed(t)
    BY <1>1, <1>3, <2>3, NewKey
  <2>. HIDE DEF s
  <2>5. ASSUME NEW k \in Keys
        PROVE  k \in Keyed(t)' <=> k \in Keyed(t) \/ (k = Key(s) /\ t = s.trace)
    BY <2>2, <2>3 DEF Keyed
  <2>6. Keyed(t)' = Keyed(t) \cup (IF t = s.trace THEN {Key(s)} ELSE {})
    BY <2>2, <2>5 DEF Keyed
  <2>7. CASE t # s.trace
    BY <1>4, <2>1, <2>6, <2>7
  <2>8. CASE t = s.trace
    <3>1. Cardinality(Keyed(t)') = Cardinality(Keyed(t)) + 1
      <4>1. IsFiniteSet(Keyed(t))
        BY KeyedFinite
      <4>. HIDE DEF Keyed
      <4>2. Cardinality(Keyed(t) \cup {Key(s)}) = Cardinality(Keyed(t)) + 1
        BY <2>4, <4>1, FS_AddElement
      <4> QED BY <2>6, <2>8, <4>2
    <3>2. CASE t \in DOMAIN traces
      BY <1>4, <2>1, <2>8, <3>1, <3>2
    <3>3. CASE t \notin DOMAIN traces
      <4>1. Keyed(t) = {}
        <5>1. \A k \in DOMAIN spans : k[1] # t
          BY <3>3 DEF EnvelopeInv, EnvelopeCovers
        <5>2. \A v \in Writers : writer[v].pc = "span" =>
                Key(Head(writer[v].batch))[1] # t
          BY <3>3 DEF EnvelopeInv, Recorded, Key
        <5> QED BY <5>1, <5>2 DEF Keyed
      <4>2. Cardinality(Keyed(t)) = 0
        BY <4>1, FS_EmptySet
      <4> QED BY <2>1, <2>8, <3>1, <3>3, <4>2
    <3> QED BY <3>2, <3>3
  <2> QED BY <2>7, <2>8
<1>8. ASSUME UNCHANGED vars PROVE traces' = traces /\ Keyed(t)' = Keyed(t)
  BY <1>8 DEF vars, Keyed
<1>9. /\ ~Crash
      /\ \A w \in Writers : ~FailedCall(w)
  BY <1>1 DEF Crash, FailedCall, TypeOK
<1> QED BY <1>4, <1>5, <1>6, <1>7, <1>8, <1>9 DEF Next, WriterStep

LEMMA SummaryInvariant == ASSUME OwnIds PROVE Spec => []SummaryInv
<1>1. Init => SummaryInv
  <2>1. Init => Attained /\ Fresh /\ Exact
    BY DEF Init, Idle, Attained, Fresh, Exact
  <2> QED BY <2>1, EnvelopeInit DEF SummaryInv
<1>2. SummaryInv /\ [Next]_vars => SummaryInv'
  <2>1. EnvelopeInv => TypeOK
    BY DEF EnvelopeInv
  <2> QED BY <2>1, EnvelopeStep, AttainedStep, FreshStep, ExactStep DEF SummaryInv
<1> QED BY <1>1, <1>2, PTL DEF Spec

\* The least and the greatest number of a set that has them.
LEMMA Extremes ==
  ASSUME NEW S \in SUBSET Int, NEW x \in S
  PROVE  /\ (\A y \in S : x <= y) => Min(S) = x
         /\ (\A y \in S : x >= y) => Max(S) = x
<1>1. ASSUME \A y \in S : x <= y PROVE Min(S) = x
  <2>1. \E m \in S : \A y \in S : m <= y
    BY <1>1
  <2>2. Min(S) \in S /\ \A y \in S : Min(S) <= y
    BY <2>1 DEF Min
  <2>3. PICK m \in Int : m = Min(S) /\ m <= x /\ x <= m
    BY <1>1, <2>2
  <2> QED BY <2>3
<1>2. ASSUME \A y \in S : x >= y PROVE Max(S) = x
  <2>1. \E m \in S : \A y \in S : m >= y
    BY <1>2
  <2>2. Max(S) \in S /\ \A y \in S : Max(S) >= y
    BY <2>1 DEF Max
  <2>3. PICK m \in Int : m = Max(S) /\ m >= x /\ x >= m
    BY <1>2, <2>2
  <2> QED BY <2>3
<1> QED BY <1>1, <1>2

\* When nothing is under way and nothing failed, the row of a trace is the
\* sum of the spans a reader finds: earliest start, latest end, worst status
\* and, if no export came twice, their number.
THEOREM QuietTracesAddUp == ASSUME OwnIds PROVE Spec => []QuietSummary
<1>1. SummaryInv => QuietSummary
  <2>. SUFFICES ASSUME SummaryInv, faults = 0,
                       \A w \in Writers : writer[w].pc = "idle", NEW t \in Traces
                PROVE  LET of(t0) == {spans[k] : k \in Stored(t0)} IN
                       IF of(t) = {} THEN t \notin DOMAIN traces
                       ELSE /\ traces[t].start = Min({s.start : s \in of(t)})
                            /\ traces[t].end = Max({s.end : s \in of(t)})
                            /\ traces[t].status = Max({s.status : s \in of(t)})
                            /\ ~repeated => traces[t].count = Cardinality(of(t))
    BY DEF QuietSummary
  <2>. DEFINE of == {spans[k] : k \in Stored(t)}
  <2>1. TypeOK /\ EnvelopeCovers
    BY DEF SummaryInv, EnvelopeInv
  <2>2. \A k \in DOMAIN spans : spans[k] \in Spans /\ Key(spans[k]) = k
                                /\ k[1] = spans[k].trace
    BY <2>1 DEF TypeOK, Key
  <2>3. of = Told(t)
    BY <2>2 DEF Stored, Told
  <2>4. \A s \in of : /\ s.start \in Int /\ s.end \in Int /\ s.status \in Nat
                      /\ t \in DOMAIN traces /\ Covers(traces[t], s)
    <3>1. ASSUME NEW k \in Stored(t)
          PROVE  /\ spans[k].start \in Int /\ spans[k].end \in Int
                 /\ spans[k].status \in Nat
                 /\ t \in DOMAIN traces /\ Covers(traces[t], spans[k])
      BY <2>1, <2>2, SpanOK DEF Stored, EnvelopeCovers
    <3> QED BY <3>1
  <2>5. t \in DOMAIN traces =>
          /\ \E s \in of : s.start = traces[t].start
          /\ \E s \in of : s.end = traces[t].end
          /\ \E s \in of : s.status = traces[t].status
    BY <2>3 DEF SummaryInv, Attained
  <2>6. ~repeated /\ t \in DOMAIN traces => traces[t].count = Cardinality(of)
    <3>. SUFFICES ASSUME ~repeated, t \in DOMAIN traces
                  PROVE  traces[t].count = Cardinality(of)
      OBVIOUS
    <3>1. traces[t].count = Cardinality(Keyed(t))
      BY DEF SummaryInv, Exact
    <3>2. Keyed(t) = Stored(t)
      BY <2>1 DEF Keyed, Stored, TypeOK
    <3>3. IsFiniteSet(Stored(t))
      BY <3>2, KeyedFinite
    <3>. DEFINE f == [k \in Stored(t) |-> spans[k]]
    <3>4. f \in Bijection(Stored(t), of)
      <4>1. f \in Surjection(Stored(t), of)
        BY DEF Surjection
      <4>2. \A k, l \in Stored(t) : f[k] = f[l] => k = l
        BY <2>2 DEF Stored
      <4>. DOMAIN f = Stored(t)
        OBVIOUS
      <4>. HIDE DEF f
      <4> QED BY <4>1, <4>2 DEF Bijection, Injection, Surjection, IsInjective
    <3>. HIDE DEF f, of
    <3>5. ExistsBijection(Stored(t), of)
      BY <3>4 DEF ExistsBijection
    <3>6. Cardinality(of) = Cardinality(Stored(t))
      BY <3>3, <3>5, FS_Bijection
    <3> QED BY <3>1, <3>2, <3>6
  <2>. HIDE DEF of
  <2>7. CASE of = {}
    BY <2>5, <2>7 DEF of
  <2>8. CASE of # {}
    <3>1. t \in DOMAIN traces
      BY <2>4, <2>8
    <3>2. Min({s.start : s \in of}) = traces[t].start
      <4>. DEFINE S == {s.start : s \in of}
      <4>1. S \in SUBSET Int /\ traces[t].start \in S
        BY <2>4, <2>5, <3>1
      <4>2. \A y \in S : traces[t].start <= y
        BY <2>4 DEF Covers
      <4>. HIDE DEF S
      <4>3. Min(S) = traces[t].start
        BY <4>1, <4>2, Extremes
      <4> QED BY <4>3 DEF S
    <3>3. Max({s.end : s \in of}) = traces[t].end
      <4>. DEFINE S == {s.end : s \in of}
      <4>1. S \in SUBSET Int /\ traces[t].end \in S
        BY <2>4, <2>5, <3>1
      <4>2. \A y \in S : traces[t].end >= y
        BY <2>4 DEF Covers
      <4>. HIDE DEF S
      <4>3. Max(S) = traces[t].end
        BY <4>1, <4>2, Extremes
      <4> QED BY <4>3 DEF S
    <3>4. Max({s.status : s \in of}) = traces[t].status
      <4>. DEFINE S == {s.status : s \in of}
      <4>1. S \in SUBSET Int /\ traces[t].status \in S
        BY <2>4, <2>5, <3>1
      <4>2. \A y \in S : traces[t].status >= y
        BY <2>4 DEF Covers
      <4>. HIDE DEF S
      <4>3. Max(S) = traces[t].status
        BY <4>1, <4>2, Extremes
      <4> QED BY <4>3 DEF S
    <3> QED BY <2>6, <2>8, <3>1, <3>2, <3>3, <3>4 DEF of
  <2> QED BY <2>7, <2>8
<1> QED BY <1>1, SummaryInvariant, PTL
=============================================================================
