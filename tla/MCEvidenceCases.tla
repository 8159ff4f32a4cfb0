-------------------------- MODULE MCEvidenceCases --------------------------
EXTENDS EvidenceCases

MCTexts == UNION {[length : {n}, blank : SUBSET (1..(n - 2))] : n \in 1..11}

\* Three blocks one below the other; up to two headers; a table over a block or two.
MCBlocks == {[i \in 1..3 |-> [top |-> i, bottom |-> i, len |-> len[i]]] :
             len \in [1..3 -> {0, 1, 2, 6}]}
MCHeaders == BoundedSeq([y : {0, 2}, text : {"A", "B"}], 2)
Box(top, bottom, cells) == [top |-> top, bottom |-> bottom, cells |-> cells]
MCTables == {<<>>, <<Box(2, 2, TRUE)>>, <<Box(2, 2, FALSE)>>, <<Box(1, 2, TRUE), Box(3, 3, FALSE)>>}
MCLastPage == [blocks |-> <<[top |-> 1, bottom |-> 1, len |-> 2]>>, headers |-> <<>>, tables |-> <<>>]
MCDocuments == {<<page, MCLastPage>> :
                page \in [blocks : MCBlocks, headers : MCHeaders, tables : MCTables]}

\* Of four chunks, up to three are ranked.
MCRankings == {s \in BoundedSeq(1..4, 3) : IsInjective(s)}
\* The rankings take the chunks in every order, so that which chunk has which score is
\* all the same.
MCCrossScores == {[c \in 1..4 |-> IF c <= n THEN 1 ELSE 0] : n \in 0..4}

\* 12, 12.4, 12.45, 577, 999.5, 1,577, 1,577.7 and -577; thousands.
MCValues == {1200, 1240, 1245, 57700, 99950, 157700, 157770, -57700}
MCScales == {1, 1000}
MCSurroundings == {<<>>, <<Word>>, <<Word, Run(7), Word>>}

\* 577 and 12 on the first chunk, 99 on the second; the third may not have been shown.
MCOperands == [value : {57700, 9900}, cites : {1, 3}]
MCAnswers == [sufficient : BOOLEAN, value : {None, 57700, 57700 * 1000, 9900}, scale : {None, 1000},
              prose : BOOLEAN, operands : BoundedSeq(MCOperands, 2),
              citations : {<<>>, <<1>>, <<1, 2>>, <<3>>}]
MCShelf(scale, support, shown) ==
    [shown |-> shown, chunks |->
        <<[text |-> <<Run(577), Word, Run(12)>>, scale |-> scale, support |-> support],
          [text |-> <<Run(99)>>, scale |-> None, support |-> -1],
          [text |-> <<Open, Run(577), Close>>, scale |-> None, support |-> 1]>>]
MCShelves == {MCShelf(scale, support, shown) :
              scale \in {None, 1000}, support \in {-1, 1}, shown \in {{1}, {1, 2}, {1, 2, 3}}}

MCGolds == {1240, 57700, 157700, 157770, 57700 * 1000}
MCPageTexts == {<<Word>>, <<Run(12)>>, <<Word, Run(577)>>, Printed(157700, TRUE, 0),
                Printed(157700, FALSE, 0), Printed(157770, TRUE, 1)}

\* Spelled n, -n and (n); and, for one amount, -$n, (n million), ($n), -(n) and (-n).
MCSpelled(before, after, amounts) == [before : {before}, amount : amounts, after : {after}]
MCAmounts == {0, 150, 151, 153, 150000}
MCNumbers == MCSpelled(<<>>, <<>>, MCAmounts) \cup MCSpelled(<<Minus>>, <<>>, MCAmounts)
             \cup MCSpelled(<<Open>>, <<Close>>, MCAmounts)
             \cup MCSpelled(<<Minus, Word>>, <<>>, {150})
             \cup MCSpelled(<<Open>>, <<Word, Close>>, {150})
             \cup MCSpelled(<<Open, Word>>, <<Close>>, {150})
             \cup MCSpelled(<<Minus, Open>>, <<Close>>, {150})
             \cup MCSpelled(<<Open, Minus>>, <<Close>>, {150})
MCTwo == {<<n, m>> : n \in MCSpelled(<<>>, <<>>, {150}), m \in MCSpelled(<<Minus>>, <<>>, {151})}
MCReplies == [numbers : {<<>>} \cup {<<n>> : n \in MCNumbers} \cup MCTwo,
              words : SUBSET {10, 1000}, percent : BOOLEAN, notFound : BOOLEAN]

\* Good, insufficient, ungrounded, and empty answers; with two scores, one or none.
MCRaw(gold, sufficient, value, top) ==
    [gold |-> gold, scores |-> [top1 |-> top[1], top2 |-> top[2]],
     document |-> MCShelf(None, 1, {1, 2}),
     answer |-> [sufficient |-> sufficient, value |-> value, scale |-> None, prose |-> FALSE,
                 operands |-> <<>>, citations |-> <<1>>]]
MCTops == {<<None, None>>, <<2, 0>>, <<4, 0>>, <<-2, None>>}
MCRaws == {MCRaw(57700, sufficient, value, top) :
           sufficient \in BOOLEAN, value \in {None, 57700, 1200, 9900}, top \in MCTops}
MCNegatives == {MCRaw(None, TRUE, 57700, top) : top \in MCTops}
MCReplays == [answerable : BoundedSeq(MCRaws, 2), N1 : BoundedSeq(MCNegatives, 1)]
             \cup [answerable : [1..3 -> {raw \in MCRaws : raw.answer.sufficient /\ raw.answer.value # None}],
                   N1 : {<<>>}]
             \cup [answerable : BoundedSeq(MCRaws, 1), N1 : BoundedSeq(MCNegatives, 2),
                   N2 : BoundedSeq(MCNegatives, 1)]
=============================================================================
