----------------------------- MODULE MCPipeline ------------------------------
(* Two alike requests of a feature, and one without a feature that failed.  *)
EXTENDS Pipeline, TLC

CONSTANTS e1, e2, e3

MCEvents   == {e1, e2, e3}
MCFeatured == {e1, e2}
MCAnswered == {e1, e2}

\* A normal request, and one that costs too much and is of poor quality, against
\* no baseline and one without spread in the latencies.
MCMetrics ==
    {[hallucination |-> 2, cost |-> 3, latency |-> 1, quality |-> 8],
     [hallucination |-> 2, cost |-> 9, latency |-> 9, quality |-> 2]}
MCBaselines ==
    {[samples |-> n,
      mean |-> [hallucination |-> 3, cost |-> 4, latency |-> 1, quality |-> 7],
      std |-> [hallucination |-> 1, cost |-> 2, latency |-> 0, quality |-> 2]] : n \in {9, 10}}

\* e1 and e2 differ in nothing.
Alike == Permutations({e1, e2})
=============================================================================
