--------------------------- MODULE GroundingGate ---------------------------
(***************************************************************************)
(* eval/gate.py: whether an answer of the model may be shown, judged from  *)
(* the answer and the chunks the model was given.  "evidence" is what      *)
(* generate_for_record and the query stream hand to the gate: the ids of   *)
(* the retrieved chunks and, of the cited ones among them, text, scale and *)
(* the cross-encoder's support of the answer's prose.                      *)
(***************************************************************************)
EXTENDS Figures

CONSTANT None \* a field the model left out

Passed == "passed"

\* An answer: [sufficient, value, scale, prose, operands, citations]; an operand is
\* [value, cites].  A document is [chunks, shown]: by id, chunks with their text and
\* scale (None or a multiplier), and the set of ids that were retrieved.
Cited(answer) ==
    ToSet(answer.citations) \cup {answer.operands[i].cites : i \in DOMAIN answer.operands}

Evidence(answer, document) ==
    LET known == Cited(answer) \cap document.shown
    IN  [retrieved |-> document.shown, known |-> known,
         chunk |-> [c \in known |-> document.chunks[c]]]

Multiplier(scale) == IF scale = None THEN 1 ELSE scale

CheckL2(answer, evidence) ==
    IF ~answer.sufficient THEN "insufficient"
    ELSE IF Cited(answer) \ evidence.retrieved # {} THEN "unretrieved"
    ELSE Passed

OperandFound(operand, evidence) ==
    LET chunk == evidence.chunk[operand.cites]
    IN  ValueFoundInText(operand.value, Multiplier(chunk.scale), chunk.text)

\* For a direct answer a chunk without a scale takes the answer's.
ValueFound(answer, c, evidence) ==
    LET chunk == evidence.chunk[c]
        scale == IF chunk.scale = None THEN answer.scale ELSE chunk.scale
    IN  ValueFoundInText(answer.value, Multiplier(scale), chunk.text)

CheckL3aAnyOperand(answer, evidence) ==
    IF answer.operands # <<>> THEN
        IF \E o \in ToSet(answer.operands) :
              o.cites \in evidence.known /\ OperandFound(o, evidence)
        THEN Passed ELSE "operand"
    ELSE Passed

CheckL3a(answer, evidence) ==
    IF answer.operands # <<>> THEN
        IF \A o \in ToSet(answer.operands) :
              o.cites \in evidence.known /\ OperandFound(o, evidence)
        THEN Passed ELSE "operand"
    ELSE IF answer.value # None THEN
        IF \E c \in ToSet(answer.citations) \cap evidence.known : ValueFound(answer, c, evidence)
        THEN Passed ELSE "value"
    ELSE Passed

CheckL3b(answer, evidence, threshold) ==
    IF ~answer.prose THEN Passed
    ELSE IF answer.citations = <<>> THEN "uncited"
    ELSE IF ToSet(answer.citations) \cap evidence.known = {} THEN "unavailable"
    ELSE IF \A c \in ToSet(answer.citations) \cap evidence.known :
                evidence.chunk[c].support < threshold
    THEN "unsupported"
    ELSE Passed

\* A single retrieved chunk has no second score: it is compared with 0.
Margin(scores) == scores.top1 - (IF scores.top2 = None THEN 0 ELSE scores.top2)

CheckL1Above(scores, threshold) ==
    IF scores.top1 = None THEN "unscored"
    ELSE IF Margin(scores) <= threshold THEN "margin" ELSE Passed

CheckL1(scores, threshold) ==
    IF scores.top1 = None THEN "unscored"
    ELSE IF Margin(scores) < threshold THEN "margin" ELSE Passed

\* apply_gate: the requested layers in order; the first refusal is the verdict.
FirstRefusal(verdicts) ==
    LET refused == {i \in DOMAIN verdicts : verdicts[i] # Passed}
    IN  IF refused = {} THEN Passed ELSE verdicts[Min(refused)]

ApplyGateHighest(answer, evidence, layers, scores, l1Threshold, l3bThreshold) ==
    FirstRefusal(
        IF "L3" \in layers
        THEN <<CheckL3a(answer, evidence), CheckL3b(answer, evidence, l3bThreshold)>>
        ELSE IF "L2" \in layers THEN <<CheckL2(answer, evidence)>> ELSE <<>>)

ApplyGate(answer, evidence, layers, scores, l1Threshold, l3bThreshold) ==
    FirstRefusal(
        (IF "L1" \in layers THEN <<CheckL1(scores, l1Threshold)>> ELSE <<>>)
        \o (IF "L2" \in layers THEN <<CheckL2(answer, evidence)>> ELSE <<>>)
        \o (IF "L3" \in layers
            THEN <<CheckL3a(answer, evidence), CheckL3b(answer, evidence, l3bThreshold)>>
            ELSE <<>>))
=============================================================================
