------------------------------ MODULE Figures ------------------------------
(***************************************************************************)
(* Numbers in text, as eval/normalize.py reads them, eval/gate.py looks    *)
(* for them and eval/build_negatives.py guards against them.               *)
(*                                                                         *)
(* A value is in hundredths.  A text is a sequence of tokens: a run of     *)
(* digits <<width, number>>, where 05 is <<2, 5>>, or a mark of width 0.   *)
(* A regular expression that is bounded by (?<!\d) and (?!\d) matches runs *)
(* as wholes, so tokens are all it can tell apart.                         *)
(***************************************************************************)
EXTENDS Integers, Sequences, SequencesExt, FiniteSetsExt

PowersOfTen == <<10, 100, 1000, 10000, 100000, 1000000, 10000000>>
MaxWidth == Len(PowersOfTen) \* bound on the width of a run

Comma == <<0, 1>>
Point == <<0, 2>>
Minus == <<0, 3>>
Open == <<0, 4>>
Close == <<0, 5>>
Word == <<0, 6>>

IsRun(token) == token[1] > 0

\* A digit is a run and a place in it.
Digits(text) == Cardinality({d \in (DOMAIN text) \X (1..MaxWidth) : d[2] <= text[d[1]][1]})

Abs(n) == IF n < 0 THEN -n ELSE n
Magnitude(a, b) == Max({Abs(a), Abs(b)})

\* The integer nearest to n / m, halves to the even one.
Nearest(n, m) ==
    LET q == Abs(n) \div m
        r == Abs(n) % m
        up == 2 * r > m \/ (2 * r = m /\ q % 2 = 1)
    IN  (IF n < 0 THEN -1 ELSE 1) * (IF up THEN q + 1 ELSE q)

-----------------------------------------------------------------------------
\* Printing a value: f"{v:,.2f}", without its commas, and cut to fewer decimals.
Run(n) == <<Min({w \in 1..MaxWidth : n < PowersOfTen[w]}), n>>

Whole(n, commas) ==
    IF commas /\ n >= 1000 THEN <<Run(n \div 1000), Comma, <<3, n % 1000>>>> ELSE <<Run(n)>>

Fraction(n, decimals) ==
    IF decimals = 0 THEN <<>>
    ELSE <<Point, IF decimals = 1 THEN <<1, (n % 100) \div 10>> ELSE <<2, n % 100>>>>

Printed(v, commas, decimals) ==
    (IF v < 0 THEN <<Minus>> ELSE <<>>)
    \o Whole(Abs(v) \div 100, commas) \o Fraction(Abs(v), decimals)

\* .rstrip("0").rstrip("."): the decimals that are left.
Decimals(v) == IF v % 100 = 0 THEN 0 ELSE IF v % 10 = 0 THEN 1 ELSE 2

VariantsWithCommas(v, scale) == {Printed(v, TRUE, Decimals(v))}

\* The strings a value is looked for under: as it is, rounded to a whole and to two
\* decimals; printed to two decimals or none; with and without commas.
Variants(v, scale) ==
    LET raw == Nearest(v, scale)
        whole == 100 * Nearest(v, 100 * scale)
        again == 100 * Nearest(raw, 100)
    IN  {Printed(x, commas, Decimals(x)) : x \in {raw, whole, again}, commas \in BOOLEAN}

\* re.search: a match starts and ends at the boundary of a run; a minus sign that
\* follows a digit does not start one.
Occurs(figure, text) ==
    \E i \in 0..(Len(text) - Len(figure)) :
        /\ SubSeq(text, i + 1, i + Len(figure)) = figure
        /\ i = 0 \/ IsRun(figure[1]) \/ ~IsRun(text[i])

\* _value_found_in_text.
ValueFoundInText(v, scale, text) ==
    \E figure \in Variants(v, scale) : Digits(figure) >= 2 /\ Occurs(figure, text)

-----------------------------------------------------------------------------
\* normalize_numeric_answer.  What there is to read in an answer: its numbers, each with
\* the marks before and after its digits that are its own (Word is a currency or a scale
\* word), the scale words, whether there is a percent sign, and whether it starts with
\* NOT_FOUND.  Of several scale words the one that _SCALE_WORDS lists first counts, which
\* is the smallest.
Unparsed == [parsed |-> FALSE]
Number == [before : Seq({Minus, Open, Word}), amount : Nat, after : Seq({Close, Word})]

ScaleOf(answer) == IF answer.words = {} THEN 1 ELSE Min(answer.words)

\* -?\(?\d[\d,]*\.?\d*\)? takes a bracket that touches the digits, and a minus that touches
\* the digits or that bracket.
OpenTaken(n) == n.before # <<>> /\ Last(n.before) = Open
CloseTaken(n) == n.after # <<>> /\ Head(n.after) = Close
MinusTaken(n) ==
    LET left == IF OpenTaken(n) THEN Front(n.before) ELSE n.before
    IN  left # <<>> /\ Last(left) = Minus

\* strip("()") leaves the bracket that a minus precedes, and float() refuses it.
Refused(n) == MinusTaken(n) /\ OpenTaken(n)

ReadValue(answer, negative) ==
    LET n == answer.numbers[1]
        value == IF negative THEN -n.amount ELSE n.amount
    IN  [percent |-> answer.percent,
         value |-> IF answer.percent THEN value ELSE value * ScaleOf(answer)]

NormalizeNumericAnswerUnsigned(answer) ==
    IF Len(answer.numbers) # 1 THEN Unparsed
    ELSE IF Refused(answer.numbers[1]) THEN Unparsed
    ELSE ReadValue(answer, MinusTaken(answer.numbers[1]))

NormalizeNumericAnswer(answer) ==
    IF Len(answer.numbers) # 1 THEN Unparsed
    ELSE LET n == answer.numbers[1]
         IN  IF Refused(n) THEN Unparsed
             ELSE ReadValue(answer, MinusTaken(n) \/ (OpenTaken(n) /\ CloseTaken(n)))

\* numbers_match: within one percent of the larger.
NumbersMatch(a, b) == a = b \/ Abs(a - b) <= Magnitude(a, b) \div 100

\* grade_answerable, where "none" is no answer, and is_hallucination.
GradeAnswerable(gold, answer) ==
    LET parsed == NormalizeNumericAnswer(answer)
    IN  IF parsed = Unparsed THEN "none"
        ELSE IF NumbersMatch(gold, parsed.value) THEN "correct" ELSE "wrong"

IsHallucination(answer) == ~answer.notFound /\ NormalizeNumericAnswer(answer) # Unparsed

\* classify: of the records, those with an answer that is one number, with its value.
Classify(answers) ==
    {[answer |-> a, gold |-> NormalizeNumericAnswer(a).value] :
        a \in {b \in answers : NormalizeNumericAnswer(b) # Unparsed}}
=============================================================================
