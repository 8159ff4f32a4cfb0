--------------------------- MODULE EvidenceCases ---------------------------
(***************************************************************************)
(* The algorithms between a PDF and a verdict, each run once on any input  *)
(* of a bounded set: chunking, fusion and reranking, the grounding gate,   *)
(* the leak check of negatives, grading, and the replay of cached answers. *)
(* The properties compare what comes out with what went in.                *)
(***************************************************************************)
EXTENDS Chunker, Retrieval, Ablation, Negatives

CONSTANTS
    Texts,      \* [length, blank] for _split_prose
    Documents,  \* sequences of pages for chunk_pdf
    Rankings,   \* of chunk ids, as a search returns them
    CrossScores,
    Values, Scales, Surroundings, \* for a figure printed on a page
    Answers, Shelves,             \* for the gate: answers, and documents
    Golds, PageTexts,             \* for the negatives
    Replies,                      \* for grading: what is read of an answer's text
    Replays                       \* by split, sequences of cached generations

MaxValue == 10 * PowersOfTen[MaxWidth] \* bound on values, in hundredths

\* A document is a sequence of pages, with sequences of blocks and of tables.
\* What stands before a figure does not end in a digit, or it were part of the figure.
\* A document has the chunks it shows, with their scores; the scales that documents and
\* answers state are among Scales; the scale words of replies are a factor of two or more
\* apart, as thousand, million and so on are; a search ranks each chunk once, and a reranker
\* scores all of them; a run has finitely many answers.
ASSUME CasesAssumption ==
    /\ \A text \in Texts : text.length \in Nat
    /\ \A pages \in Documents : pages \in Seq(ToSet(pages))
    /\ \A pages \in Documents : \A page \in ToSet(pages) :
        /\ page.tables \in Seq(ToSet(page.tables)) /\ page.blocks \in Seq(ToSet(page.blocks))
        /\ \A block \in ToSet(page.blocks) : block.len \in Nat
    /\ \A v \in Values \cup Golds : v \in Int /\ Abs(v) < MaxValue
    /\ None \notin Int /\ Scales \subseteq Nat \ {0}
    /\ \A s \in Surroundings : s \in Seq(Nat \X Nat) /\ (s # <<>> => ~IsRun(Last(s)))
    /\ \A ranking \in Rankings, cross \in CrossScores :
        /\ ranking \in Seq(DOMAIN cross) /\ IsInjective(ranking)
        /\ \A c \in DOMAIN cross : cross[c] \in Int
    /\ \A shelf \in Shelves : shelf.shown \subseteq DOMAIN shelf.chunks
    /\ \A shelf \in Shelves : \A c \in DOMAIN shelf.chunks :
        shelf.chunks[c].support \in Int /\ Multiplier(shelf.chunks[c].scale) \in Scales
    /\ \A answer \in Answers : Multiplier(answer.scale) \in Scales
    /\ \A reply \in Replies :
        /\ reply.numbers \in Seq(Number) /\ {reply.percent, reply.notFound} \subseteq BOOLEAN
        /\ ScaleOf(reply) \in Nat \ {0}
    /\ \A r, s \in Replies : ScaleOf(r) < ScaleOf(s) => 2 * ScaleOf(r) <= ScaleOf(s)
    /\ \A splits \in Replays :
        /\ IsFiniteSet(DOMAIN splits)
        /\ \A split \in DOMAIN splits : IsFiniteSet(DOMAIN splits[split])
        /\ \A split \in DOMAIN splits : \A i \in DOMAIN splits[split] :
            {splits[split][i].scores.top1, splits[split][i].scores.top2} \subseteq Int \cup {None}

VARIABLE case

None0 == [of |-> "nothing"]
Init == case = None0
Fresh == case = None0

Split == \E text \in Texts :
    case' = [of |-> "split", text |-> text, windows |-> SplitProse(text.length, text.blank)]

Chunk == \E pages \in Documents, excluded \in SUBSET {1, 2} :
    /\ ~EmptyTextLayer(pages, excluded)
    /\ case' = [of |-> "chunk", pages |-> pages, excluded |-> excluded,
                chunks |-> ChunkPdf(pages, excluded)]

Retrieve == \E dense, sparse \in Rankings, cross \in CrossScores :
    case' = [of |-> "retrieve", dense |-> dense, sparse |-> sparse, cross |-> cross,
             fused |-> RrfFuse(dense, sparse),
             served |-> HybridRetrieve(dense, sparse, cross)]

LookUp == \E v \in Values, scale \in Scales, commas \in BOOLEAN, decimals \in 0..2,
             left, right \in Surroundings :
    LET shown == IF decimals = 0 THEN 100 * Nearest(v, 100) ELSE v
        text == left \o Printed(shown, commas, decimals) \o right
    IN  case' = [of |-> "lookup", v |-> v, decimals |-> decimals,
                 found |-> ValueFoundInText(v * scale, scale, text)]

Judge == \E answer \in Answers, shelf \in Shelves :
    case' = [of |-> "judge", answer |-> answer, shelf |-> shelf,
             verdict |-> ApplyGate(answer, Evidence(answer, shelf), {"L2", "L3"},
                                   [top1 |-> None, top2 |-> None], 0, 0)]

\* Two filings of one company and one of another.
Negative == \E gold \in Golds, p, q, r, s \in PageTexts, evidence \in {{1}, {2}} :
    LET docs == [d1 |-> [company |-> "a", pages |-> <<p, q>>],
                 d2 |-> [company |-> "a", pages |-> <<r>>],
                 d3 |-> [company |-> "b", pages |-> <<s>>]]
        record == [doc |-> "d1", gold |-> gold, evidence |-> evidence]
    IN  \E served \in BuildN1(record, docs) \cup BuildN2(record, docs) \cup BuildN0(record, docs) :
            case' = [of |-> "negative", record |-> record, docs |-> docs, served |-> served,
                     checked |-> served \notin BuildN0(record, docs)]

Grade == \E gold, reply \in Replies : \E kept \in Classify({gold}) :
    /\ ~gold.notFound
    /\ case' = [of |-> "grade", gold |-> gold, reply |-> reply,
                grade |-> GradeAnswerable(kept.gold, reply),
                hallucination |-> IsHallucination(reply)]

Replay == \E splits \in Replays :
    case' = [of |-> "replay", splits |-> splits, table |-> AblationTable(splits),
             sweep |-> RiskCoverageSweep(splits)]

Next == Fresh /\ (Split \/ Chunk \/ Retrieve \/ LookUp \/ Judge \/ Negative \/ Grade \/ Replay)

Spec == Init /\ [][Next]_case

-----------------------------------------------------------------------------
\* No phrase as long as the overlap, and one more character, is cut by the windows
\* of a long text; none is longer than the limit or redundant (_split_prose).
PhrasesKeptWhole ==
    case.of = "split" => KeepsPhrases(case.text.length, case.text.blank, case.windows)

\* Nothing a document says is lost between paragraphs, groups, windows and pages, or
\* put under another section's header (chunk_pdf).
ParagraphsKept ==
    case.of = "chunk" => KeepsParagraphs(case.pages, case.excluded, case.chunks)

\* Groups are as large as the budget and the headers allow, and no larger.
GroupsTight ==
    case.of = "chunk" =>
        \A n \in DOMAIN case.pages : TightGroups(case.pages[n], Groups(case.pages[n]))

\* The fusion follows the two rankers where they agree (rrf_fuse).
FusionRespectsRankers ==
    case.of = "retrieve" => RespectsRankers(case.dense, case.sparse, case.fused)

\* The model is shown the best candidates, best first (hybrid_retrieve_scored); the
\* margin of L1 is therefore never negative when it has two scores.
BestAreServed ==
    case.of = "retrieve" => ServesBest(case.dense, case.sparse, case.cross, case.served)

\* A figure that a page prints whole or with all its decimals is found by the gate,
\* whatever stands around it, at any scale, with or without commas; unless it has
\* one digit, or a decimal that is zero (_value_found_in_text).
TruthIsFound ==
    (case.of = "lookup" /\ case.decimals \in {0, Decimals(case.v)} /\ Abs(case.v) >= 1000)
        => case.found

\* What passes L2 and L3 is backed by chunks that the model was shown and that it
\* cited: every operand, else the value, and the prose (apply_gate).
PassedIsGrounded ==
    (case.of = "judge" /\ case.verdict = Passed) =>
        LET answer == case.answer
            backing == ToSet(answer.citations) \cap case.shelf.shown
            in(v, scale, c) == ValueFoundInText(v, scale, case.shelf.chunks[c].text)
        IN  /\ answer.sufficient /\ Cited(answer) \subseteq case.shelf.shown
            /\ \A o \in ToSet(answer.operands) : \E s \in Scales : in(o.value, s, o.cites)
            /\ (answer.operands = <<>> /\ answer.value # None) =>
                    \E c \in backing, s \in Scales : in(answer.value, s, c)
            /\ answer.prose => \E c \in backing : case.shelf.chunks[c].support >= 0

\* What the leak check does not look for and the gate accepts: a figure in the unit of a
\* scale, and one of fewer digits than the leak check trusts.
Overlooked(gold, scale, text) ==
    \E figure \in Variants(gold, scale) :
        /\ scale # 1 \/ Digits(figure) < MinSignificantDigits
        /\ Digits(figure) >= 2 /\ Occurs(figure, text)

\* Whether L3a passes the bare value as answer, citing all the pages that were left.
BarePasses(value, scale, left, pages, scales) ==
    LET answer == [sufficient |-> TRUE, value |-> value, scale |-> scale,
                   prose |-> FALSE, operands |-> <<>>, citations |-> SetToSeq(left)]
        document == [shown |-> left, chunks |->
            [c \in left |-> [text |-> pages[c], scale |-> scales[c], support |-> 0]]]
    IN  CheckL3a(answer, Evidence(answer, document)) = Passed

Unit(own, scale) == Multiplier(IF own = None THEN scale ELSE own)

\* A negative that passed the leak check and is answered with its gold value passes L3a
\* just when one of those stands on a page that was left, whatever scales the pages and
\* the answer name: never without a scale when the gold value has three whole digits
\* (leaks_elsewhere against check_l3a_numeric).
KeptNegativesRefused ==
    (case.of = "negative" /\ case.checked) =>
        LET gold == case.record.gold
            pages == case.docs[case.served.doc].pages
            left == DOMAIN pages \ case.served.ablated
        IN  \A scales \in [left -> Scales \cup {None}], scale \in Scales \cup {None} :
                LET passes == BarePasses(gold, scale, left, pages, scales)
                IN  /\ passes <=> \E c \in left : Overlooked(gold, Unit(scales[c], scale), pages[c])
                    /\ (gold >= 10000 /\ \A c \in left : Unit(scales[c], scale) = 1) => ~passes

\* The signs that grading sees: a minus at the digits, and brackets at both ends of them.
\* A minus at an opening bracket makes the number no number.
SignCounts(n) ==
    /\ n.before # <<>>
    /\ \/ Last(n.before) = Minus
       \/ Last(n.before) = Open /\ n.after # <<>> /\ Head(n.after) = Close

NoNumber(n) ==
    LET last == Len(n.before)
    IN  last > 1 /\ n.before[last] = Open /\ n.before[last - 1] = Minus

\* Grading tells quantities apart by the signs at their digits: there an opposite sign
\* or a lost scale word is wrong, the same sign and scale right within one percent.  A
\* sign further off is overlooked, as in "-$473" and "(473 million)", so the right loss
\* is wrong against a gold value whose sign is seen; and "-(473)" is no answer at all
\* (grade_answerable after classify).
GradedByQuantity ==
    case.of = "grade" =>
        LET g == case.gold.numbers[1]
            a == case.reply.numbers[1]
            graded == Len(case.reply.numbers) = 1 /\ ~NoNumber(a)
            sameScale == case.gold.percent = case.reply.percent
                         /\ (case.gold.percent \/ ScaleOf(case.gold) = ScaleOf(case.reply))
        IN  /\ case.hallucination <=> ~case.reply.notFound /\ graded
            /\ case.grade = "none" <=> ~graded
            /\ graded =>
                /\ (SignCounts(g) # SignCounts(a) /\ g.amount > 0 /\ a.amount > 0)
                   => case.grade = "wrong"
                /\ (SignCounts(g) = SignCounts(a) /\ sameScale)
                   => (case.grade = "correct" <=>
                       100 * Abs(g.amount - a.amount) <= Max({g.amount, a.amount}))
                /\ (~sameScale /\ ~case.gold.percent /\ ~case.reply.percent
                    /\ g.amount = a.amount /\ g.amount > 0)
                   => case.grade = "wrong"

\* A stricter configuration of the gate never answers more of a split (run_ablation_table).
ConfigsNested ==
    case.of = "replay" => \A split \in DOMAIN case.splits : Nested(case.table, split)

\* The sweep of each split runs from everything L2 and L3 let through to what has the
\* widest margin of all splits, falling all the way (risk_coverage_sweep).
SweepCoversAll ==
    case.of = "replay" =>
        \A split \in DOMAIN case.splits : SweepsAll(case.splits, split, case.sweep[split])
=============================================================================
