---------------------------- MODULE MCTraceStore ----------------------------
\* Two spans of one trace of which neither contains the other, the later one
\* failed, and a span of another trace with the id of the first.
EXTENDS TraceStore

MCSpans ==
  {[trace |-> "t1", id |-> 1, start |-> 1, end |-> 3, status |-> 1],
   [trace |-> "t1", id |-> 2, start |-> 2, end |-> 5, status |-> 2],
   [trace |-> "t2", id |-> 1, start |-> 4, end |-> 4, status |-> 0]}
=============================================================================
