----------------------------- MODULE Negatives -----------------------------
(***************************************************************************)
(* eval/build_negatives.py: questions that the document they are asked of  *)
(* cannot answer.  A page is its text, a document [company, pages], a      *)
(* record [doc, gold, evidence] with the pages that hold its evidence.     *)
(* Drawing from the seeded generator is a choice among all that it may     *)
(* draw from.                                                              *)
(***************************************************************************)
EXTENDS Figures

CONSTANT MinSignificantDigits \* MIN_SIGNIFICANT_DIGITS

ASSUME NegativesAssumption == MinSignificantDigits \in 0..3

GoldFigureVerbatim(gold) ==
    {f \in {Printed(gold, TRUE, Decimals(gold))} : Digits(f) >= MinSignificantDigits}

\* gold_figure_variants, without any scale; and leaks_elsewhere.
GoldFigureVariants(gold) == {f \in Variants(gold, 1) : Digits(f) >= MinSignificantDigits}

Leaks(gold, pages, excluded) ==
    \E n \in DOMAIN pages \ excluded :
        \E figure \in GoldFigureVariants(gold) : Occurs(figure, pages[n])

Served(doc, ablated) == [doc |-> doc, ablated |-> ablated]

\* What a tier may serve for a record: nothing when it is dropped.
BuildN1(record, docs) ==
    IF Leaks(record.gold, docs[record.doc].pages, record.evidence) THEN {}
    ELSE {Served(record.doc, record.evidence)}

\* A filing of the same company, whole; the drawn one decides about dropping.
BuildN2(record, docs) ==
    {Served(d, {}) : d \in {e \in DOMAIN docs :
        /\ e # record.doc /\ docs[e].company = docs[record.doc].company
        /\ ~Leaks(record.gold, docs[e].pages, {})}}

\* A filing of another company, not looked into.
BuildN0(record, docs) ==
    {Served(d, {}) : d \in {e \in DOMAIN docs :
        docs[e].company # docs[record.doc].company}}
=============================================================================
