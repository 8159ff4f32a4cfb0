------------------------------ MODULE Ablation ------------------------------
(***************************************************************************)
(* eval/ablation.py: cached generations judged again under every gate      *)
(* configuration and every L1 threshold.  The splits are the answerable    *)
(* questions and the tiers of negatives, each with its sequence of cached  *)
(* generations: records [answer, document, scores, gold], where gold is    *)
(* None for a negative, which no answer is right for.  Rates are the       *)
(* counts they are computed from.                                          *)
(***************************************************************************)
EXTENDS GroundingGate, Sorting

CONSTANT Epsilon \* the first threshold is below the least margin by it (1e-6)

ASSUME AblationAssumption == Epsilon \in Nat \ {0}

Configs == {"none", "L2", "L2+L3", "L1+L2+L3"}

Layers(config) ==
    CASE config = "none" -> {}
      [] config = "L2" -> {"L2"}
      [] config = "L2+L3" -> {"L2", "L3"}
      [] config = "L1+L2+L3" -> {"L1", "L2", "L3"}

Decide(raw, layers, l3bThreshold, l1Threshold) ==
    ApplyGate(raw.answer, Evidence(raw.answer, raw.document), layers, raw.scores,
              l1Threshold, l3bThreshold)

\* grade_one: without a layer that asks, "sufficient" is not looked at.
HasContent(answer) == answer.value # None \/ answer.prose

GradeOne(raw, verdict) ==
    LET answered == verdict = Passed /\ HasContent(raw.answer)
    IN  [answered |-> answered,
         correct |-> answered /\ raw.gold # None /\ raw.answer.value # None
                     /\ NumbersMatch(raw.gold, raw.answer.value)]

\* A row of run_ablation_table for a split, or of one point of a sweep.
Rows(raws, config, l1Threshold) ==
    [i \in DOMAIN raws |-> GradeOne(raws[i], Decide(raws[i], Layers(config), 0, l1Threshold))]

Count(rows, Test(_)) == Cardinality({i \in DOMAIN rows : Test(rows[i])})

SummarizeConfig(rows) ==
    [n |-> Len(rows), answered |-> Count(rows, LAMBDA r : r.answered),
     correct |-> Count(rows, LAMBDA r : r.correct)]

AblationTable(splits) ==
    [config \in Configs |->
        [split \in DOMAIN splits |-> SummarizeConfig(Rows(splits[split], config, 0))]]

\* risk_coverage_sweep: every margin that occurs in some split is a threshold for all.
Scored(raws) == {i \in DOMAIN raws : raws[i].scores.top1 # None}
Margins(raws) == {Margin(raws[i].scores) : i \in Scored(raws)}
AllMargins(splits) == UNION {Margins(splits[split]) : split \in DOMAIN splits}

Thresholds(splits) ==
    LET all == AllMargins(splits)
        margins == Sorted(all, {p \in all \X all : p[1] < p[2]})
    IN  IF margins = <<>> THEN <<0>> ELSE <<margins[1] - Epsilon>> \o margins

SweepPoint(raws, threshold) ==
    LET rows == Rows(raws, "L1+L2+L3", threshold)
    IN  [threshold |-> threshold, coverage |-> Count(rows, LAMBDA r : r.answered),
         wrong |-> Count(rows, LAMBDA r : r.answered /\ ~r.correct)]

RiskCoverageSweep(splits) ==
    LET thresholds == Thresholds(splits)
    IN  [split \in DOMAIN splits |->
            [i \in DOMAIN thresholds |-> SweepPoint(splits[split], thresholds[i])]]

-----------------------------------------------------------------------------
\* Each layer only takes answers of a split away: as configurations grow, so do
\* refusals, for the answers and for the correct and the wrong ones among them.
Nested(table, split) ==
    \A chain \in {<<"none", "L2">>, <<"L2", "L2+L3">>, <<"L2+L3", "L1+L2+L3">>} :
        LET weak == table[chain[1]][split]
            strong == table[chain[2]][split]
        IN  /\ strong.answered <= weak.answered /\ strong.correct <= weak.correct
            /\ strong.answered - strong.correct <= weak.answered - weak.correct

\* The points of a split start where L1 refuses nothing that has a score, and never gain
\* an answer as the threshold rises.  They end with the items whose margin is the widest
\* of all splits: a split that has none ends with nothing.
SweepsAll(splits, split, points) ==
    LET raws == splits[split]
        scored == Scored(raws)
        widest == {i \in scored : \A margin \in AllMargins(splits) : margin <= Margin(raws[i].scores)}
        answered(some) == Cardinality({i \in some : Rows(raws, "L2+L3", 0)[i].answered})
    IN  /\ points[1].coverage = answered(scored)
        /\ \A i \in 1..(Len(points) - 1) :
            points[i].threshold < points[i + 1].threshold
            /\ points[i].coverage >= points[i + 1].coverage
        /\ points[Len(points)].coverage = answered(widest)
=============================================================================
