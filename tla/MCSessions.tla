----------------------------- MODULE MCSessions ------------------------------
(* Sessions on small instances: t3 is twice as expensive as the others, and *)
(* t5 carries no feature name, so that no limit applies to it.              *)
EXTENDS Sessions, TLC
CONSTANTS t1, t2, t3, t4, t5
MCLimited == Traces \ {t5}
MCCost == [t \in Traces |-> IF t = t3 THEN 2 ELSE 1]
MCSymmetry == Permutations(Traces \cap {t1, t2, t4})
=============================================================================
