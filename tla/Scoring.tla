------------------------------ MODULE Scoring -------------------------------
(***************************************************************************)
(* The load score of monitor_system (src/src/tools/scoring.rs) over the    *)
(* samples of one category.  A category has one metric whose samples are   *)
(* added up (only the CPU category has it) and metrics of which the        *)
(* greatest sample counts.  Scores are kept as a sum of components and     *)
(* their number, so that no division is rounded.                           *)
(***************************************************************************)
EXTENDS Integers, Texts

CONSTANTS Threshold,  \* of every metric of the category, in the unit of its samples
          NaN         \* a sample that is not finite

ASSUME ThresholdAssumption == Threshold \in Nat \ {0} /\ NaN \notin Int

Finite(values) == Only(values, Int)

\* normalise of a finite value; a threshold is never 0.
Normalise(v) == IF v < 0 THEN 0 ELSE IF v > Threshold THEN 100 ELSE (v * 100) \div Threshold

Total(values) == FoldLeft(LAMBDA n, v : n + v, 0, values)

Maximum(values) == CHOOSE v \in ToSet(values) : \A w \in ToSet(values) : w <= v

\* The summed metric: a component as soon as it has a sample, finite or not.
Special(values) == IF values = <<>> THEN <<>> ELSE <<Normalise(Total(Finite(values)))>>

Plain(values) == IF Finite(values) = <<>> THEN <<>> ELSE <<Normalise(Maximum(Finite(values)))>>

\* score_category.
ScoreCategory(special, plain) ==
    LET components == Special(special)
                      \o FlattenSeq([k \in 1..Len(plain) |-> Plain(plain[k])])
    IN  [sum |-> Total(components), of |-> IF components = <<>> THEN 1 ELSE Len(components)]

\* grade, of a score in per cent.
Grade(score) == LET s == IF score < 0 THEN 0 ELSE IF score > 100 THEN 100 ELSE score
                IN  IF s < 10 THEN "idle" ELSE IF s < 30 THEN "healthy"
                    ELSE IF s < 60 THEN "moderate" ELSE IF s < 80 THEN "loaded" ELSE "critical"
-----------------------------------------------------------------------------
(***************************************************************************)
(* What a score promises.                                                  *)
(***************************************************************************)
AtMostScore(a, b) == a.sum * b.of <= b.sum * a.of

Raised(values, k) == [values EXCEPT ![k] = @ + 1]

\* "Lower score wins" (mcp/mod.rs:185): a score lies in 0..100, a busier sample never
\* lowers it, and a sample that is not available never raises it.
ScoreHonest(special, plain, a) ==
    /\ 0 <= a.sum /\ a.sum <= 100 * a.of
    /\ AtMostScore(a, ScoreCategory(Finite(special), [k \in 1..Len(plain) |-> Finite(plain[k])]))
    /\ \A k \in 1..Len(special) : special[k] # NaN =>
          AtMostScore(a, ScoreCategory(Raised(special, k), plain))
    /\ \A k \in 1..Len(plain) : \A j \in 1..Len(plain[k]) : plain[k][j] # NaN =>
          AtMostScore(a, ScoreCategory(special, [plain EXCEPT ![k] = Raised(@, j)]))
=============================================================================
