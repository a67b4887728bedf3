------------------------------ MODULE Verdicts -------------------------------
(***************************************************************************)
(* What the gateway thinks of an answer: the risk flagger                  *)
(* (internal/flagging/flagger.go), the cross-model verifier with the edit  *)
(* distance it falls back to (internal/crossmodel/verifier.go), and the    *)
(* anomaly detector (internal/anomaly/detector.go).  None of them keeps a  *)
(* state that another changes under it, so they are operators.             *)
(*                                                                         *)
(* Scores and agreements are in tenths, metrics in units of their own.     *)
(***************************************************************************)
EXTENDS Integers, Sequences, FiniteSets, SequencesExt

CONSTANTS
    Runes,      \* what texts are made of
    RuneCap,    \* runes of a text that the verifier looks at (1000 in the code)
    MaxText,    \* bound: the length of a text
    Metrics,    \* what a request may measure
    Baselines   \* what the last seven days may have been like

Measures == {"hallucination", "cost", "latency", "quality"}

ASSUME VerdictsAssumption ==
    /\ RuneCap \in Nat \ {0} /\ MaxText \in Nat
    /\ Metrics \subseteq [Measures -> Nat]
    /\ Baselines \subseteq [samples : Nat, mean : [Measures -> Nat], std : [Measures -> Nat]]

-----------------------------------------------------------------------------
(* The flagger.                                                            *)

\* What the scorer says of an answer.  A scorer that fails says zeros, and has no
\* verdict on the source.
Grades   == {0, 2, 3, 4, 5, 6, 7, 8}
NoScores == [hallucination |-> 0, grounding |-> 0, source |-> "none"]
Scores   == {NoScores} \cup
    [hallucination : Grades, grounding : Grades, source : {"none", "unsupported", "contradicted"}]

\* A risk level by the scores, raised by a verdict on the source.
RiskLevel(h, g) ==
    IF h > 7 \/ g < 3 THEN "high" ELSE IF h >= 4 \/ g <= 5 THEN "medium" ELSE "low"
Raised(level) == IF level = "low" THEN "medium" ELSE level
Evaluate(s) ==
    LET level == RiskLevel(s.hallucination, s.grounding)
    IN  CASE s.source = "contradicted" -> "high"
          [] s.source = "unsupported"  -> Raised(level)
          [] OTHER                     -> level

ShouldWarn(level) == level \in {"high", "medium"}

-----------------------------------------------------------------------------
(* The verifier.                                                           *)

Texts     == BoundedSeq(Runes, MaxText)
Capped(s) == SubSeq(s, 1, IF Len(s) < RuneCap THEN Len(s) ELSE RuneCap)

Least(x, y, z) == CHOOSE m \in {x, y, z} : m <= x /\ m <= y /\ m <= z

\* Mutant: substitutions are forgotten.
RowWithoutSubstitution(i, x, b, above) ==
    LET row[j \in 0..Len(b)] ==
          IF j = 0 THEN i
          ELSE IF x = b[j] THEN above[j - 1]
          ELSE 1 + Least(above[j], above[j], row[j - 1])
    IN  row

\* A row of levenshteinDist's table, for a rune x, from the row above it; the code
\* keeps no more than these two.
NextRow(i, x, b, above) ==
    LET row[j \in 0..Len(b)] ==
          IF j = 0 THEN i
          ELSE IF x = b[j] THEN above[j - 1]
          ELSE 1 + Least(above[j - 1], above[j], row[j - 1])
    IN  row

Distance(a, b) ==
    LET table[i \in 0..Len(a)] ==
          IF i = 0 THEN [j \in 0..Len(b) |-> j]
          ELSE NextRow(i, a[i], b, table[i - 1])
    IN  table[Len(a)][Len(b)]

\* levenshteinRatio, rounded down to tenths.  (The thresholds are full tenths.)
Similarity(a, b) ==
    LET s == Capped(a)
        t == Capped(b)
        longer == IF Len(t) > Len(s) THEN Len(t) ELSE Len(s)
    IN  IF s = <<>> /\ t = <<>> THEN 10
        ELSE IF s = <<>> \/ t = <<>> THEN 0
        ELSE (10 * (longer - Distance(s, t))) \div longer

Classify(agreement) ==
    IF agreement >= 8 THEN "agree" ELSE IF agreement >= 5 THEN "partial" ELSE "disagree"

\* The scorer's agreement - 0 also when it answers an error in JSON, for the
\* status is not looked at - or else the similarity of the two answers.
Agreements == Grades \cup {Similarity(a, b) : a, b \in Texts}

\* The verifier's verdict: "none" if there is no verifier for the feature, or the
\* call of the second provider fails.
Verifications == {"none"} \cup {Classify(a) : a \in Agreements}

Verify(level, verdict) == IF verdict \in {"partial", "disagree"} THEN Raised(level) ELSE level

-----------------------------------------------------------------------------
(* The detector.                                                           *)

\* zScore(value, mean, std) >= 2.5, where a spread of nothing gives a score of 0.
Deviates(value, mean, std) ==
    LET distance == IF value > mean THEN value - mean ELSE mean - value
    IN  std > 0 /\ 2 * distance >= 5 * std

\* The anomalies of a request: deviations to either side, but for the quality,
\* where a low score is the anomaly and 0 is no score.
Detect(x, b) ==
    {m \in Measures :
        /\ b.samples >= 10
        /\ Deviates(x[m], b.mean[m], b.std[m])
        /\ m = "quality" => x[m] > 0 /\ x[m] < b.mean[m]}

\* How many anomalies come of a request; none without a baseline.
Anomalies == {0} \cup {Cardinality(Detect(x, b)) : x \in Metrics, b \in Baselines}

-----------------------------------------------------------------------------
(* Properties.                                                             *)

\* The texts that n edits make of s.
Edited(s) ==
    {SubSeq(s, 1, i - 1) \o SubSeq(s, i + 1, Len(s)) : i \in 1..Len(s)}
        \cup {[s EXCEPT ![i] = r] : i \in 1..Len(s), r \in Runes}
        \cup {SubSeq(s, 1, i) \o <<r>> \o SubSeq(s, i + 1, Len(s)) : i \in 0..Len(s), r \in Runes}
Reachable(s) ==
    LET reach[n \in 0..MaxText] ==
          IF n = 0 THEN {s}
          ELSE reach[n - 1] \cup (Texts \cap UNION {Edited(t) : t \in reach[n - 1]})
    IN  reach

\* Similarity rests on the least number of runes that have to be inserted, deleted
\* or replaced to turn one answer into the other, whichever comes first; and two
\* answers agree fully just when nothing tells them apart up to the cap.
SimilarityIsEditDistance ==
    \A a \in Texts :
        LET reach == Reachable(a)
        IN  \A b \in Texts :
              /\ \A n \in 0..MaxText : Distance(a, b) <= n <=> b \in reach[n]
              /\ Similarity(a, b) = Similarity(b, a)
              /\ Similarity(a, b) = 10 <=> Capped(a) = Capped(b)
=============================================================================
