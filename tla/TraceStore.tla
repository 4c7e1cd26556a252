----------------------------- MODULE TraceStore -----------------------------
(***************************************************************************)
(* The store of OpenTelemetry traces (trace_receiver.rs, trace_db.rs).     *)
(* Every export that arrives is answered at once and stored by a tokio     *)
(* task of its own, span after span, each in two calls: the row of its     *)
(* trace, which sums its spans up, and its own row.  Exporters repeat an   *)
(* export whose answer they missed.                                        *)
(***************************************************************************)
EXTENDS Integers, Sequences, FiniteSets, FiniteSetsExt

CONSTANTS
  Writers,      \* the tasks storing an export, at most so many at a time
  Spans,        \* the spans the components finish, each exported as it is
  MaxBatch,     \* bound: spans in one export
  MaxExports,   \* bound: exports ever received
  MaxFaults     \* bound: failed calls and crashes

ASSUME TraceConstantsOK ==
  /\ IsFiniteSet(Writers) /\ IsFiniteSet(Spans)
  /\ \A s \in Spans : /\ DOMAIN s = {"trace", "id", "start", "end", "status"}
                      /\ s.start \in Int /\ s.end \in Int /\ s.status \in Nat
  /\ {MaxBatch, MaxExports, MaxFaults} \subseteq Nat

Traces  == {s.trace : s \in Spans}
Key(s)  == <<s.trace, s.id>>
Keys    == {Key(s) : s \in Spans}

VARIABLES
  traces,    \* table traces
  spans,     \* table spans, by trace and span id
  writer,    \* the tasks: what is left of their exports, and the next call
  received,  \* the spans received so far
  repeated,  \* some span was received twice
  exports, faults

vars == <<traces, spans, writer, received, repeated, exports, faults>>

Summary == [start : Int, end : Int, duration : Int, status : Nat, count : Nat]
Idle    == [pc |-> "idle", batch |-> <<>>]

Init ==
  /\ traces = [t \in {} |-> 0]
  /\ spans = [k \in {} |-> 0]
  /\ writer = [w \in Writers |-> Idle]
  /\ received = {}
  /\ repeated = FALSE
  /\ exports = 0
  /\ faults = 0

Smaller(a, b) == IF a <= b THEN a ELSE b
Larger(a, b)  == IF a <= b THEN b ELSE a

\* otlp_traces_receiver: an export in any order, new or received before.
Receive(w) ==
  /\ writer[w].pc = "idle" /\ exports < MaxExports
  /\ \E n \in 1 .. MaxBatch : \E batch \in [1 .. n -> Spans] :
       /\ writer' = [writer EXCEPT ![w] = [pc |-> "trace", batch |-> batch]]
       /\ received' = received \cup {batch[i] : i \in 1 .. n}
       /\ repeated' = (repeated \/ \E i \in 1 .. n :
                         \/ batch[i] \in received
                         \/ \E j \in 1 .. i - 1 : batch[j] = batch[i])
  /\ exports' = exports + 1
  /\ UNCHANGED <<traces, spans, faults>>

\* Mutant: the columns that are compared start from their defaults.
OpenedAtZero(s) ==
  [start |-> Smaller(0, s.start), end |-> s.end,
   duration |-> s.end - Smaller(0, s.start), status |-> s.status, count |-> 1]

\* The row of a trace when s comes in: INSERT, or ON CONFLICT DO UPDATE.
Opened(s) ==
  [start |-> s.start, end |-> s.end, duration |-> s.end - s.start,
   status |-> s.status, count |-> 1]

\* Mutant: the first span is taken for the earliest.
ExtendedForward(row, s) ==
  [start    |-> row.start,
   end      |-> Larger(row.end, s.end),
   duration |-> Larger(row.end, s.end) - row.start,
   status   |-> Larger(row.status, s.status),
   count    |-> row.count + 1]

Extended(row, s) ==
  [start    |-> Smaller(row.start, s.start),
   end      |-> Larger(row.end, s.end),
   duration |-> Larger(row.end, s.end) - Smaller(row.start, s.start),
   status   |-> Larger(row.status, s.status),
   count    |-> row.count + 1]

\* Mutant: INSERT OR REPLACE, as for the spans.
StoreTraceReplaces(w) ==
  LET s == Head(writer[w].batch) IN
  /\ writer[w].pc = "trace"
  /\ traces' = [t \in DOMAIN traces \cup {s.trace} |->
                  IF t = s.trace THEN Opened(s) ELSE traces[t]]
  /\ writer' = [writer EXCEPT ![w].pc = "span"]
  /\ UNCHANGED <<spans, received, repeated, exports, faults>>

\* store_trace_data, "upsert trace".
StoreTrace(w) ==
  LET s == Head(writer[w].batch) IN
  /\ writer[w].pc = "trace"
  /\ traces' = [t \in DOMAIN traces \cup {s.trace} |->
                  IF t # s.trace THEN traces[t]
                  ELSE IF t \in DOMAIN traces THEN Extended(traces[t], s)
                  ELSE Opened(s)]
  /\ writer' = [writer EXCEPT ![w].pc = "span"]
  /\ UNCHANGED <<spans, received, repeated, exports, faults>>

\* Mutant: the task does not end.
StoreSpanForever(w) ==
  LET s == Head(writer[w].batch) IN
  /\ writer[w].pc = "span"
  /\ spans' = [k \in DOMAIN spans \cup {Key(s)} |->
                 IF k = Key(s) THEN s ELSE spans[k]]
  /\ writer' = [writer EXCEPT ![w] = [pc |-> "trace", batch |-> Tail(@.batch)]]
  /\ UNCHANGED <<traces, received, repeated, exports, faults>>

\* Mutant: the task ends after one span.
StoreSpanOnce(w) ==
  LET s == Head(writer[w].batch) IN
  /\ writer[w].pc = "span"
  /\ spans' = [k \in DOMAIN spans \cup {Key(s)} |->
                 IF k = Key(s) THEN s ELSE spans[k]]
  /\ writer' = [writer EXCEPT ![w] = Idle]
  /\ UNCHANGED <<traces, received, repeated, exports, faults>>

\* store_trace_data, "insert span": INSERT OR REPLACE.
StoreSpan(w) ==
  LET s == Head(writer[w].batch)
      rest == Tail(writer[w].batch)
  IN
  /\ writer[w].pc = "span"
  /\ spans' = [k \in DOMAIN spans \cup {Key(s)} |->
                 IF k = Key(s) THEN s ELSE spans[k]]
  /\ writer' = [writer EXCEPT ![w] = IF rest = <<>> THEN Idle
                                     ELSE [pc |-> "trace", batch |-> rest]]
  /\ UNCHANGED <<traces, received, repeated, exports, faults>>

\* A call fails: the rest of the export is dropped.
FailedCall(w) ==
  /\ writer[w].pc # "idle" /\ faults < MaxFaults
  /\ writer' = [writer EXCEPT ![w] = Idle]
  /\ faults' = faults + 1
  /\ UNCHANGED <<traces, spans, received, repeated, exports>>

\* King stops; the exports it has accepted are gone.
Crash ==
  /\ \E w \in Writers : writer[w].pc # "idle"
  /\ faults < MaxFaults
  /\ writer' = [w \in Writers |-> Idle]
  /\ faults' = faults + 1
  /\ UNCHANGED <<traces, spans, received, repeated, exports>>

WriterStep(w) == StoreTrace(w) \/ StoreSpan(w)

Next == (\E w \in Writers : Receive(w) \/ WriterStep(w) \/ FailedCall(w)) \/ Crash

Spec == Init /\ [][Next]_vars

\* tokio runs every task, and a call that does not fail returns.
FairSpec == Spec /\ \A w \in Writers : WF_vars(WriterStep(w))

-----------------------------------------------------------------------------
(* Properties                                                              *)

TypeOK ==
  /\ DOMAIN traces \subseteq Traces
  /\ traces \in [DOMAIN traces -> Summary]
  /\ DOMAIN spans \subseteq Keys
  /\ \A k \in DOMAIN spans : spans[k] \in Spans /\ Key(spans[k]) = k
  /\ writer \in [Writers -> [pc : {"idle", "trace", "span"}, batch : Seq(Spans)]]
  /\ \A w \in Writers : (writer[w].pc = "idle") = (writer[w].batch = <<>>)
  /\ received \subseteq Spans
  /\ repeated \in BOOLEAN
  /\ exports \in Nat /\ faults \in Nat

Stored(t)     == {k \in DOMAIN spans : k[1] = t}
UnderWay(t)   == {w \in Writers : /\ writer[w].pc = "span"
                                  /\ Head(writer[w].batch).trace = t}

\* Every span a reader finds lies within its trace: the trace has a row, from
\* no later than the span to no earlier, as bad as the span, and as long as
\* it says, whatever was interleaved, repeated or lost.
Covers(row, s) ==
  row.start <= s.start /\ row.end >= s.end /\ row.status >= s.status

EnvelopeCovers ==
  /\ \A k \in DOMAIN spans : /\ k[1] \in DOMAIN traces
                             /\ Covers(traces[k[1]], spans[k])
  /\ \A t \in DOMAIN traces : traces[t].duration = traces[t].end - traces[t].start

\* span_count is never below the number of spans a reader finds, those that
\* are about to be inserted for the first time included.
FirstTime(t) == {Key(Head(writer[w].batch)) : w \in UnderWay(t)} \ Stored(t)

CountCovers ==
  \A t \in DOMAIN traces :
    traces[t].count >= Cardinality(Stored(t) \cup FirstTime(t))

\* When nothing is being stored and nothing was lost, the row of a trace is
\* what its spans add up to; repeated exports only make the count too high.
QuietSummary ==
  (faults = 0 /\ \A w \in Writers : writer[w].pc = "idle") =>
    \A t \in Traces :
      LET of(t0) == {spans[k] : k \in Stored(t0)} IN
      IF of(t) = {} THEN t \notin DOMAIN traces
      ELSE /\ traces[t].start = Min({s.start : s \in of(t)})
           /\ traces[t].end = Max({s.end : s \in of(t)})
           /\ traces[t].status = Max({s.status : s \in of(t)})
           /\ ~repeated => traces[t].count = Cardinality(of(t))

\* A span whose export is being stored is found in the end, unless a call fails
\* or king stops from then on: what has failed before, in this export or in
\* another, costs no later one.
InHand(s) == \E w \in Writers : \E i \in DOMAIN writer[w].batch : writer[w].batch[i] = s

SpansStored ==
  \A s \in Spans, n \in 0 .. MaxFaults :
    (InHand(s) /\ faults = n) ~> (Key(s) \in DOMAIN spans \/ faults > n)
=============================================================================
