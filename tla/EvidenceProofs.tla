--------------------------- MODULE EvidenceProofs ---------------------------
(***************************************************************************)
(* The algorithms of EvidenceCases, for any inputs: what windows, groups   *)
(* and chunks keep, what the gate finds and lets through, how answers are  *)
(* graded and replayed, which negatives are kept, and how rankings are     *)
(* fused and cut.                                                          *)
(***************************************************************************)
EXTENDS EvidenceCases, FiniteSetTheorems, SequenceTheorems, WellFoundedInduction, TLAPS

(***************************************************************************)
(* The verdict of several layers                                           *)
(***************************************************************************)
AllPassed(verdicts) == \A i \in DOMAIN verdicts : verdicts[i] = Passed

LEMMA FirstOfAll ==
    ASSUME NEW V, NEW verdicts \in Seq(V), Len(verdicts) <= 4
    PROVE  FirstRefusal(verdicts) = Passed <=> AllPassed(verdicts)
  <1> DEFINE refused == {i \in DOMAIN verdicts : verdicts[i] # Passed}
  <1>1. CASE refused = {}
    BY <1>1 DEF FirstRefusal, AllPassed
  <1>2. CASE refused # {}
    <2>1. refused \subseteq 1..4
      OBVIOUS
    <2>2. \E m \in refused : \A n \in refused : m <= n
      <3>1. \A n \in refused : n = 1 \/ n = 2 \/ n = 3 \/ n = 4
        BY <2>1
      <3> HIDE DEF refused
      <3>2. CASE 1 \in refused
        BY <3>1, <3>2
      <3>3. CASE 1 \notin refused /\ 2 \in refused
        BY <3>1, <3>3
      <3>4. CASE 1 \notin refused /\ 2 \notin refused /\ 3 \in refused
        BY <3>1, <3>4
      <3>5. CASE 1 \notin refused /\ 2 \notin refused /\ 3 \notin refused
        BY <3>1, <3>5, <1>2
      <3> QED BY <3>2, <3>3, <3>4, <3>5
    <2>3. Min(refused) \in refused
      BY <2>2 DEF Min
    <2> QED BY <1>2, <2>3 DEF FirstRefusal, AllPassed
  <1> QED BY <1>1, <1>2

LEMMA Joined2 ==
    ASSUME NEW V, NEW s \in Seq(V), NEW t \in Seq(V)
    PROVE  /\ s \o t \in Seq(V) /\ Len(s \o t) = Len(s) + Len(t)
           /\ AllPassed(s \o t) <=> AllPassed(s) /\ AllPassed(t)
  <1>1. /\ s \o t \in Seq(V) /\ Len(s \o t) = Len(s) + Len(t) /\ Len(s) \in Nat /\ Len(t) \in Nat
        /\ \A i \in 1..Len(s) : (s \o t)[i] = s[i]
        /\ \A i \in 1..Len(t) : (s \o t)[i + Len(s)] = t[i]
        /\ \A i \in 1..(Len(s) + Len(t)) : (s \o t)[i] = IF i <= Len(s) THEN s[i] ELSE t[i - Len(s)]
    OBVIOUS
  <1>2. /\ DOMAIN s = 1..Len(s) /\ DOMAIN t = 1..Len(t) /\ DOMAIN (s \o t) = 1..(Len(s) + Len(t))
    BY <1>1
  <1>3. AllPassed(s \o t) => AllPassed(s)
    <2> SUFFICES ASSUME AllPassed(s \o t), NEW i \in 1..Len(s) PROVE s[i] = Passed
      BY <1>2 DEF AllPassed
    <2>1. i \in DOMAIN (s \o t) /\ (s \o t)[i] = s[i]
      BY <1>1, <1>2
    <2> QED BY <2>1 DEF AllPassed
  <1>4. AllPassed(s \o t) => AllPassed(t)
    <2> SUFFICES ASSUME AllPassed(s \o t), NEW i \in 1..Len(t) PROVE t[i] = Passed
      BY <1>2 DEF AllPassed
    <2>1. i + Len(s) \in DOMAIN (s \o t) /\ (s \o t)[i + Len(s)] = t[i]
      BY <1>1, <1>2
    <2> QED BY <2>1 DEF AllPassed
  <1>5. AllPassed(s) /\ AllPassed(t) => AllPassed(s \o t)
    <2> SUFFICES ASSUME AllPassed(s), AllPassed(t), NEW i \in 1..(Len(s) + Len(t)) PROVE (s \o t)[i] = Passed
      BY <1>2 DEF AllPassed
    <2>1. CASE i <= Len(s)
      BY <1>1, <1>2, <2>1 DEF AllPassed
    <2>2. CASE ~(i <= Len(s))
      <3>1. i - Len(s) \in DOMAIN t /\ (s \o t)[i] = t[i - Len(s)]
        BY <1>1, <1>2, <2>2
      <3> QED BY <3>1 DEF AllPassed
    <2> QED BY <2>1, <2>2
  <1> QED BY <1>1, <1>3, <1>4, <1>5

\* The gate lets an answer through when each of its layers does.
LEMMA EveryLayer ==
    ASSUME NEW answer, NEW evidence, NEW layers, NEW scores, NEW l1Threshold, NEW l3bThreshold
    PROVE  ApplyGate(answer, evidence, layers, scores, l1Threshold, l3bThreshold) = Passed <=>
             /\ "L1" \in layers => CheckL1(scores, l1Threshold) = Passed
             /\ "L2" \in layers => CheckL2(answer, evidence) = Passed
             /\ "L3" \in layers => /\ CheckL3a(answer, evidence) = Passed
                                   /\ CheckL3b(answer, evidence, l3bThreshold) = Passed
  <1>1. PICK l1, l2, l3a, l3b : /\ l1 = CheckL1(scores, l1Threshold) /\ l2 = CheckL2(answer, evidence)
                               /\ l3a = CheckL3a(answer, evidence)
                               /\ l3b = CheckL3b(answer, evidence, l3bThreshold)
    OBVIOUS
  <1>2. PICK V : V = {l1, l2, l3a, l3b}
    OBVIOUS
  <1>3. PICK a, b, c : /\ a = (IF "L1" \in layers THEN <<l1>> ELSE <<>>)
                      /\ b = (IF "L2" \in layers THEN <<l2>> ELSE <<>>)
                      /\ c = (IF "L3" \in layers THEN <<l3a, l3b>> ELSE <<>>)
    OBVIOUS
  <1>4. AllPassed(<<>>) /\ <<>> \in Seq(V) /\ Len(<<>>) = 0
    BY DEF AllPassed
  <1>5. a \in Seq(V) /\ Len(a) <= 1 /\ (AllPassed(a) <=> ("L1" \in layers => l1 = Passed))
    <2>1. <<l1>> \in Seq(V) /\ Len(<<l1>>) = 1 /\ (AllPassed(<<l1>>) <=> l1 = Passed)
      BY <1>2 DEF AllPassed
    <2> QED BY <1>3, <1>4, <2>1
  <1>6. b \in Seq(V) /\ Len(b) <= 1 /\ (AllPassed(b) <=> ("L2" \in layers => l2 = Passed))
    <2>1. <<l2>> \in Seq(V) /\ Len(<<l2>>) = 1 /\ (AllPassed(<<l2>>) <=> l2 = Passed)
      BY <1>2 DEF AllPassed
    <2> QED BY <1>3, <1>4, <2>1
  <1>7. c \in Seq(V) /\ Len(c) <= 2 /\ (AllPassed(c) <=> ("L3" \in layers => l3a = Passed /\ l3b = Passed))
    <2>1. <<l3a, l3b>> \in Seq(V) /\ Len(<<l3a, l3b>>) = 2
      BY <1>2
    <2>2. AllPassed(<<l3a, l3b>>) <=> l3a = Passed /\ l3b = Passed
      <3>1. DOMAIN <<l3a, l3b>> = {1, 2} /\ <<l3a, l3b>>[1] = l3a /\ <<l3a, l3b>>[2] = l3b
        OBVIOUS
      <3> QED BY <3>1 DEF AllPassed
    <2> QED BY <1>3, <1>4, <2>1, <2>2
  <1>8. a \o b \in Seq(V) /\ Len(a \o b) = Len(a) + Len(b) /\ (AllPassed(a \o b) <=> AllPassed(a) /\ AllPassed(b))
    BY <1>5, <1>6, Joined2
  <1>9. /\ (a \o b) \o c \in Seq(V) /\ Len((a \o b) \o c) = Len(a \o b) + Len(c)
        /\ AllPassed((a \o b) \o c) <=> AllPassed(a \o b) /\ AllPassed(c)
    BY <1>7, <1>8, Joined2
  <1>10. Len(a) \in Nat /\ Len(b) \in Nat /\ Len(c) \in Nat
    BY <1>5, <1>6, <1>7
  <1>11. Len((a \o b) \o c) <= 4
    BY <1>5, <1>6, <1>7, <1>8, <1>9, <1>10
  <1>12. FirstRefusal((a \o b) \o c) = Passed <=> AllPassed((a \o b) \o c)
    BY <1>9, <1>11, FirstOfAll
  <1>13. ApplyGate(answer, evidence, layers, scores, l1Threshold, l3bThreshold) = FirstRefusal((a \o b) \o c)
    BY <1>1, <1>3 DEF ApplyGate
  <1> QED BY <1>1, <1>5, <1>6, <1>7, <1>8, <1>9, <1>12, <1>13

(***************************************************************************)
(* What passes L2 and L3                                                   *)
(***************************************************************************)
Grounded(answer, shelf) ==
    LET backing == ToSet(answer.citations) \cap shelf.shown
        in(v, scale, c) == ValueFoundInText(v, scale, shelf.chunks[c].text)
    IN  /\ answer.sufficient /\ Cited(answer) \subseteq shelf.shown
        /\ \A o \in ToSet(answer.operands) : \E s \in Scales : in(o.value, s, o.cites)
        /\ (answer.operands = <<>> /\ answer.value # None) =>
                \E c \in backing, s \in Scales : in(answer.value, s, c)
        /\ answer.prose => \E c \in backing : shelf.chunks[c].support >= 0

LEMMA JudgedIsGrounded ==
    ASSUME NEW answer \in Answers, NEW shelf \in Shelves,
           CheckL2(answer, Evidence(answer, shelf)) = Passed,
           CheckL3a(answer, Evidence(answer, shelf)) = Passed,
           CheckL3b(answer, Evidence(answer, shelf), 0) = Passed
    PROVE  Grounded(answer, shelf)
  <1>1. PICK e : e = Evidence(answer, shelf)
    OBVIOUS
  <1>2. PICK known : known = Cited(answer) \cap shelf.shown
    OBVIOUS
  <1>3. e.retrieved = shelf.shown /\ e.known = known /\ \A c \in known : e.chunk[c] = shelf.chunks[c]
    BY <1>1, <1>2 DEF Evidence
  <1>4. \A c \in known : shelf.chunks[c].support \in Int /\ Multiplier(shelf.chunks[c].scale) \in Scales
    BY <1>2, CasesAssumption
  <1>5. ToSet(answer.citations) \cap known = ToSet(answer.citations) \cap shelf.shown
    BY <1>2 DEF Cited
  <1>6. answer.sufficient /\ Cited(answer) \subseteq shelf.shown
    BY <1>1, <1>3 DEF CheckL2, Passed
  <1>7. ASSUME NEW o \in ToSet(answer.operands)
        PROVE  \E s \in Scales : ValueFoundInText(o.value, s, shelf.chunks[o.cites].text)
    <2>1. answer.operands # <<>>
      BY DEF ToSet
    <2>2. o.cites \in e.known /\ OperandFound(o, e)
      BY <1>1, <2>1 DEF CheckL3a, Passed
    <2>3. ValueFoundInText(o.value, Multiplier(shelf.chunks[o.cites].scale), shelf.chunks[o.cites].text)
      BY <2>2, <1>3 DEF OperandFound
    <2> QED BY <2>2, <2>3, <1>3, <1>4
  <1>8. ASSUME answer.operands = <<>>, answer.value # None
        PROVE  \E c \in ToSet(answer.citations) \cap shelf.shown, s \in Scales :
                 ValueFoundInText(answer.value, s, shelf.chunks[c].text)
    <2>1. PICK c \in ToSet(answer.citations) \cap e.known : ValueFound(answer, c, e)
      BY <1>1, <1>8 DEF CheckL3a, Passed
    <2>2. c \in known /\ c \in ToSet(answer.citations) \cap shelf.shown
      BY <2>1, <1>3, <1>5
    <2>3. PICK scale : /\ scale = IF shelf.chunks[c].scale = None THEN answer.scale ELSE shelf.chunks[c].scale
                       /\ ValueFoundInText(answer.value, Multiplier(scale), shelf.chunks[c].text)
      BY <2>1, <2>2, <1>3 DEF ValueFound
    <2>4. Multiplier(scale) \in Scales
      BY <2>2, <2>3, <1>4, CasesAssumption
    <2> QED BY <2>2, <2>3, <2>4
  <1>9. ASSUME answer.prose
        PROVE  \E c \in ToSet(answer.citations) \cap shelf.shown : shelf.chunks[c].support >= 0
    <2>1. ~\A c \in ToSet(answer.citations) \cap e.known : e.chunk[c].support < 0
      BY <1>1, <1>9 DEF CheckL3b, Passed
    <2>2. PICK c \in ToSet(answer.citations) \cap known : ~(shelf.chunks[c].support < 0)
      BY <2>1, <1>3
    <2> QED BY <2>2, <1>4, <1>5
  <1> QED BY <1>6, <1>7, <1>8, <1>9 DEF Grounded

\* Each action leaves a case of its own kind.
LEMMA Kinds ==
    ASSUME Next
    PROVE  \/ Split /\ case'.of = "split"
           \/ Chunk /\ case'.of = "chunk"
           \/ Retrieve /\ case'.of = "retrieve"
           \/ LookUp /\ case'.of = "lookup"
           \/ Judge /\ case'.of = "judge"
           \/ Negative /\ case'.of = "negative"
           \/ Grade /\ case'.of = "grade"
           \/ Replay /\ case'.of = "replay"
  <1>1. ASSUME Split PROVE case'.of = "split"
    BY <1>1 DEF Split
  <1>2. ASSUME Chunk PROVE case'.of = "chunk"
    BY <1>2 DEF Chunk
  <1>3. ASSUME Retrieve PROVE case'.of = "retrieve"
    BY <1>3 DEF Retrieve
  <1>4. ASSUME LookUp PROVE case'.of = "lookup"
    BY <1>4 DEF LookUp
  <1>5. ASSUME Judge PROVE case'.of = "judge"
    BY <1>5 DEF Judge
  <1>6. ASSUME Negative PROVE case'.of = "negative"
    BY <1>6 DEF Negative
  <1>7. ASSUME Grade PROVE case'.of = "grade"
    BY <1>7 DEF Grade
  <1>8. ASSUME Replay PROVE case'.of = "replay"
    BY <1>8 DEF Replay
  <1>9. Split \/ Chunk \/ Retrieve \/ LookUp \/ Judge \/ Negative \/ Grade \/ Replay
    BY DEF Next
  <1> QED BY <1>1, <1>2, <1>3, <1>4, <1>5, <1>6, <1>7, <1>8, <1>9

\* What passes L2 and L3 is backed by chunks that were retrieved and cited, whatever
\* the model claims and whatever the documents say (apply_gate).
THEOREM PassedAlwaysGrounded == Spec => []PassedIsGrounded
  <1>1. Init => PassedIsGrounded
    BY DEF Init, PassedIsGrounded, None0
  <1>2. PassedIsGrounded /\ [Next]_case => PassedIsGrounded'
    <2> SUFFICES ASSUME PassedIsGrounded, [Next]_case PROVE PassedIsGrounded'
      OBVIOUS
    <2>1. CASE Judge
      <3>1. PICK answer \in Answers, shelf \in Shelves :
              case' = [of |-> "judge", answer |-> answer, shelf |-> shelf,
                       verdict |-> ApplyGate(answer, Evidence(answer, shelf), {"L2", "L3"},
                                             [top1 |-> None, top2 |-> None], 0, 0)]
        BY <2>1 DEF Judge
      <3>2. case'.answer = answer /\ case'.shelf = shelf
        BY <3>1
      <3>3. case'.verdict = Passed => Grounded(answer, shelf)
        <4>1. case'.verdict = ApplyGate(answer, Evidence(answer, shelf), {"L2", "L3"},
                                        [top1 |-> None, top2 |-> None], 0, 0)
          BY <3>1
        <4> QED BY <4>1, EveryLayer, JudgedIsGrounded
      <3> QED BY <3>2, <3>3 DEF PassedIsGrounded, Grounded
    <2>2. CASE ~Judge /\ Next
      <3>1. case'.of # "judge"
        BY <2>2, Kinds
      <3> QED BY <3>1 DEF PassedIsGrounded
    <2>3. CASE UNCHANGED case
      BY <2>3 DEF PassedIsGrounded
    <2> QED BY <2>1, <2>2, <2>3
  <1> QED BY <1>1, <1>2, PTL DEF Spec

(***************************************************************************)
(* Configurations that ask more answer less                                *)
(***************************************************************************)
\* The question i of a run is answered under a configuration, and is right.
AnsweredAt(raws, config, i) ==
    Decide(raws[i], Layers(config), 0, 0) = Passed /\ HasContent(raws[i].answer)
RightAt(raws, i) ==
    raws[i].gold # None /\ raws[i].answer.value # None /\ NumbersMatch(raws[i].gold, raws[i].answer.value)

AnsweredSet(raws, config) == {i \in DOMAIN raws : AnsweredAt(raws, config, i)}
CorrectSet(raws, config) == {i \in AnsweredSet(raws, config) : RightAt(raws, i)}

\* An answer that passes some layers passes fewer of them.
LEMMA FewerLayersPass ==
    ASSUME NEW raw, NEW weak, NEW strong, weak \subseteq strong,
           Decide(raw, strong, 0, 0) = Passed
    PROVE  Decide(raw, weak, 0, 0) = Passed
  <1>1. PICK e : e = Evidence(raw.answer, raw.document)
    OBVIOUS
  <1>2. /\ "L1" \in strong => CheckL1(raw.scores, 0) = Passed
        /\ "L2" \in strong => CheckL2(raw.answer, e) = Passed
        /\ "L3" \in strong => /\ CheckL3a(raw.answer, e) = Passed
                              /\ CheckL3b(raw.answer, e, 0) = Passed
    <2>1. ApplyGate(raw.answer, e, strong, raw.scores, 0, 0) = Passed
      BY <1>1 DEF Decide
    <2> QED BY <2>1, EveryLayer
  <1>3. ApplyGate(raw.answer, e, weak, raw.scores, 0, 0) = Passed
    BY <1>2, EveryLayer
  <1> QED BY <1>1, <1>3 DEF Decide

\* A row of the table counts the sets above.
LEMMA TableCounts ==
    ASSUME NEW splits, NEW split \in DOMAIN splits, NEW raws, raws = splits[split],
           NEW config \in Configs
    PROVE  LET row == AblationTable(splits)[config][split]
           IN  /\ row.answered = Cardinality(AnsweredSet(raws, config))
               /\ row.correct = Cardinality(CorrectSet(raws, config))
  <1>1. PICK rows : rows = Rows(raws, config, 0)
    OBVIOUS
  <1>2. /\ DOMAIN rows = DOMAIN raws
        /\ \A i \in DOMAIN raws :
            rows[i] = GradeOne(raws[i], Decide(raws[i], Layers(config), 0, 0))
    BY <1>1 DEF Rows
  <1>3. ASSUME NEW i \in DOMAIN raws
        PROVE  /\ rows[i].answered <=> AnsweredAt(raws, config, i)
               /\ rows[i].correct <=> (AnsweredAt(raws, config, i) /\ RightAt(raws, i))
    <2>1. PICK v : v = Decide(raws[i], Layers(config), 0, 0)
      OBVIOUS
    <2>2. rows[i] = GradeOne(raws[i], v)
      BY <1>2, <2>1
    <2>3. GradeOne(raws[i], v).answered <=> (v = Passed /\ HasContent(raws[i].answer))
      BY DEF GradeOne
    <2>4. GradeOne(raws[i], v).correct <=> ((v = Passed /\ HasContent(raws[i].answer)) /\ RightAt(raws, i))
      BY DEF GradeOne, RightAt
    <2>5. AnsweredAt(raws, config, i) <=> (v = Passed /\ HasContent(raws[i].answer))
      BY <2>1 DEF AnsweredAt
    <2> QED BY <2>2, <2>3, <2>4, <2>5
  <1>4. {i \in DOMAIN rows : rows[i].answered} = AnsweredSet(raws, config)
    BY <1>2, <1>3, Zenon DEF AnsweredSet
  <1>5. {i \in DOMAIN rows : rows[i].correct} = CorrectSet(raws, config)
    BY <1>2, <1>3, Zenon DEF AnsweredSet, CorrectSet
  <1>6. AblationTable(splits)[config][split] = SummarizeConfig(rows)
    BY <1>1 DEF AblationTable
  <1>7. /\ SummarizeConfig(rows).answered = Cardinality({i \in DOMAIN rows : rows[i].answered})
        /\ SummarizeConfig(rows).correct = Cardinality({i \in DOMAIN rows : rows[i].correct})
    BY DEF SummarizeConfig, Count
  <1> QED BY <1>4, <1>5, <1>6, <1>7

LEMMA LessIsAnswered ==
    ASSUME NEW splits \in Replays, NEW split \in DOMAIN splits, NEW weak \in Configs, NEW strong \in Configs,
           Layers(weak) \subseteq Layers(strong)
    PROVE  LET w == AblationTable(splits)[weak][split]
               s == AblationTable(splits)[strong][split]
           IN  /\ s.answered <= w.answered /\ s.correct <= w.correct
               /\ s.answered - s.correct <= w.answered - w.correct
  <1>0. PICK raws : raws = splits[split]
    OBVIOUS
  <1>1. PICK A, B, C, D : /\ A = AnsweredSet(raws, strong) /\ B = AnsweredSet(raws, weak)
                         /\ C = CorrectSet(raws, strong) /\ D = CorrectSet(raws, weak)
    OBVIOUS
  <1>2. A \subseteq DOMAIN raws /\ B \subseteq DOMAIN raws /\ C \subseteq A /\ D \subseteq B
    BY <1>1 DEF AnsweredSet, CorrectSet
  <1>3. \A i \in DOMAIN raws : AnsweredAt(raws, strong, i) => AnsweredAt(raws, weak, i)
    BY FewerLayersPass DEF AnsweredAt
  <1>4. A \subseteq B
    BY <1>1, <1>3 DEF AnsweredSet
  <1>5. C \subseteq D /\ A \ C \subseteq B \ D
    BY <1>1, <1>4 DEF CorrectSet
  <1>6. IsFiniteSet(A) /\ IsFiniteSet(B) /\ IsFiniteSet(C) /\ IsFiniteSet(D)
    BY <1>0, <1>2, FS_Subset, CasesAssumption
  <1>7. IsFiniteSet(B \ D)
    BY <1>6, FS_Difference
  <1>8. /\ Cardinality(A) <= Cardinality(B) /\ Cardinality(C) <= Cardinality(D)
        /\ Cardinality(A \ C) <= Cardinality(B \ D)
    BY <1>4, <1>5, <1>6, <1>7, FS_Subset
  <1>9. /\ Cardinality(A \ C) = Cardinality(A) - Cardinality(C)
        /\ Cardinality(B \ D) = Cardinality(B) - Cardinality(D)
    <2>1. A \cap C = C /\ B \cap D = D
      BY <1>2
    <2>2. Cardinality(A \ C) = Cardinality(A) - Cardinality(A \cap C)
      BY <1>6, FS_Difference
    <2>3. Cardinality(B \ D) = Cardinality(B) - Cardinality(B \cap D)
      BY <1>6, FS_Difference
    <2> QED BY <2>1, <2>2, <2>3
  <1>10. /\ AblationTable(splits)[strong][split].answered = Cardinality(A)
         /\ AblationTable(splits)[strong][split].correct = Cardinality(C)
         /\ AblationTable(splits)[weak][split].answered = Cardinality(B)
         /\ AblationTable(splits)[weak][split].correct = Cardinality(D)
    BY <1>0, <1>1, TableCounts
  <1> QED BY <1>8, <1>9, <1>10

\* A configuration with more layers answers no more questions, and neither more right
\* nor more wrong ones, for any cached run (run_ablation_table).
THEOREM StricterNeverAnswersMore == Spec => []ConfigsNested
  <1>1. Init => ConfigsNested
    BY DEF Init, ConfigsNested, None0
  <1>2. ConfigsNested /\ [Next]_case => ConfigsNested'
    <2> SUFFICES ASSUME ConfigsNested, [Next]_case PROVE ConfigsNested'
      OBVIOUS
    <2>1. CASE Replay
      <3>1. PICK splits \in Replays :
              case' = [of |-> "replay", splits |-> splits, table |-> AblationTable(splits),
                       sweep |-> RiskCoverageSweep(splits)]
        BY <2>1 DEF Replay
      <3>2. case'.table = AblationTable(splits) /\ case'.splits = splits
        BY <3>1
      <3>3. /\ Layers("none") \subseteq Layers("L2") /\ Layers("L2") \subseteq Layers("L2+L3")
            /\ Layers("L2+L3") \subseteq Layers("L1+L2+L3")
        BY DEF Layers
      <3>4. "none" \in Configs /\ "L2" \in Configs /\ "L2+L3" \in Configs /\ "L1+L2+L3" \in Configs
        BY DEF Configs
      <3>5. ASSUME NEW split \in DOMAIN splits PROVE Nested(AblationTable(splits), split)
        <4>1. PICK table : table = AblationTable(splits)
          OBVIOUS
        <4> DEFINE Falls(weak, strong) ==
              /\ table[strong][split].answered <= table[weak][split].answered
              /\ table[strong][split].correct <= table[weak][split].correct
              /\ table[strong][split].answered - table[strong][split].correct
                   <= table[weak][split].answered - table[weak][split].correct
        <4>2. Falls("none", "L2")
          BY <3>3, <3>4, <4>1, LessIsAnswered
        <4>3. Falls("L2", "L2+L3")
          BY <3>3, <3>4, <4>1, LessIsAnswered
        <4>4. Falls("L2+L3", "L1+L2+L3")
          BY <3>3, <3>4, <4>1, LessIsAnswered
        <4>5. Nested(table, split)
          <5> SUFFICES ASSUME NEW chain \in {<<"none", "L2">>, <<"L2", "L2+L3">>,
                                             <<"L2+L3", "L1+L2+L3">>}
                       PROVE  Falls(chain[1], chain[2])
            BY DEF Nested
          <5> HIDE DEF Falls
          <5>1. \/ chain[1] = "none" /\ chain[2] = "L2"
                \/ chain[1] = "L2" /\ chain[2] = "L2+L3"
                \/ chain[1] = "L2+L3" /\ chain[2] = "L1+L2+L3"
            OBVIOUS
          <5> QED BY <4>2, <4>3, <4>4, <5>1
        <4> QED BY <4>1, <4>5
      <3> QED BY <3>2, <3>5 DEF ConfigsNested
    <2>2. CASE ~Replay /\ Next
      BY <2>2, Kinds DEF ConfigsNested
    <2>3. CASE UNCHANGED case
      BY <2>3 DEF ConfigsNested
    <2> QED BY <2>1, <2>2, <2>3
  <1> QED BY <1>1, <1>2, PTL DEF Spec

(***************************************************************************)
(* Windows                                                                 *)
(***************************************************************************)
LEMMA LeastOfTwo ==
    ASSUME NEW a \in Int, NEW b \in Int
    PROVE  Min({a, b}) = IF a <= b THEN a ELSE b
  <1>1. PICK m : m = IF a <= b THEN a ELSE b
    OBVIOUS
  <1>2. m \in {a, b} /\ \A y \in {a, b} : m <= y
    BY <1>1
  <1>3. \A n \in {a, b} : (\A y \in {a, b} : n <= y) => n = m
    BY <1>2
  <1> QED BY <1>1, <1>2, <1>3 DEF Min

\* Windows start a step apart, and the first at the beginning.
LEMMA Starts ==
    /\ Start(1) = 0
    /\ \A i \in Nat : Start(i) \in Int /\ Start(i + 1) = Start(i) + ChunkChars - OverlapChars
    /\ \A i, j \in Nat : i < j => Start(i) + ChunkChars - OverlapChars <= Start(j)
  <1>1. PICK step \in Nat \ {0} : step = ChunkChars - OverlapChars
    BY ChunkerAssumption
  <1>2. \A i : Start(i) = (i - 1) * step
    BY <1>1 DEF Start
  <1>3. \A i \in Nat : (i - 1) * step \in Int /\ (i + 1 - 1) * step = (i - 1) * step + step
    BY <1>1
  <1>4. ASSUME NEW i \in Nat, NEW j \in Nat, i < j
        PROVE  (i - 1) * step + step <= (j - 1) * step
    <2>1. PICK d \in Nat : j = i + 1 + d
      <3>1. j - i - 1 \in Nat /\ j = i + 1 + (j - i - 1)
        BY <1>4
      <3> QED BY <3>1
    <2>2. (j - 1) * step = (i - 1) * step + step + d * step
      BY <2>1
    <2>3. d * step \in Nat /\ (i - 1) * step \in Int
      OBVIOUS
    <2> QED BY <2>2, <2>3
  <1>5. (1 - 1) * step = 0
    OBVIOUS
  <1> QED BY <1>1, <1>2, <1>3, <1>4, <1>5, ChunkerAssumption

\* Each position is between the start of a window and that of the next.
LEMMA Between ==
    ASSUME NEW m \in Nat
    PROVE  \E i \in 1..(m + 1) : Start(i) <= m /\ m < Start(i) + ChunkChars - OverlapChars
  <1>1. PICK step \in Nat \ {0} : step = ChunkChars - OverlapChars
    BY ChunkerAssumption
  <1>2. PICK q \in Nat : q = m \div step
    OBVIOUS
  <1>3. q * step <= m /\ m < q * step + step
    BY <1>2
  <1>4. q <= q * step
    OBVIOUS
  <1>5. q + 1 \in 1..(m + 1)
    BY <1>3, <1>4
  <1>6. Start(q + 1) = q * step
    BY <1>1 DEF Start
  <1> QED BY <1>1, <1>3, <1>5, <1>6, ChunkerAssumption

LEMMA Windowed ==
    ASSUME NEW length \in Nat, length > ChunkChars,
           NEW i \in 1..length, i = 1 \/ Start(i - 1) + ChunkChars < length
    PROVE  /\ Window(i, length) \in Windows(length)
           /\ Window(i, length).from = Start(i) /\ Start(i) \in Int
           /\ Start(i) + OverlapChars < length
           /\ Window(i, length).to = IF Start(i) + ChunkChars <= length
                                     THEN Start(i) + ChunkChars ELSE length
  <1>1. Start(i) \in Int /\ Start(1) = 0
    BY Starts
  <1>2. Start(i) + OverlapChars < length
    <2>1. CASE i = 1
      BY <1>1, <2>1, ChunkerAssumption
    <2>2. CASE i # 1
      <3>1. i - 1 \in Nat /\ i = (i - 1) + 1
        BY <2>2
      <3>2. Start(i) = Start(i - 1) + ChunkChars - OverlapChars /\ Start(i - 1) \in Int
        BY <3>1, Starts
      <3> QED BY <2>2, <3>2, <1>1, ChunkerAssumption
    <2> QED BY <2>1, <2>2
  <1>3. Min({Start(i) + ChunkChars, length}) = IF Start(i) + ChunkChars <= length
                                               THEN Start(i) + ChunkChars ELSE length
    BY <1>1, LeastOfTwo, ChunkerAssumption
  <1> QED BY <1>1, <1>2, <1>3 DEF Window, Windows

LEMMA LongTextsKept ==
    ASSUME NEW length \in Nat, NEW blank, length > ChunkChars
    PROVE  KeepsPhrases(length, blank, SplitProse(length, blank))
  <1> DEFINE windows == SplitProse(length, blank)
             Real(i) == i \in 1..length /\ (i = 1 \/ Start(i - 1) + ChunkChars < length)
  <1>1. /\ \A w \in windows : \E i \in 1..length : Real(i) /\ w = Window(i, length)
        /\ \A i \in 1..length : Real(i) /\ (\E x \in Window(i, length).from..(Window(i, length).to - 1) :
                                              x \notin blank) => Window(i, length) \in windows
    BY ChunkerAssumption DEF SplitProse, Windows
  <1> HIDE DEF windows
  <1>2. ASSUME NEW w \in windows PROVE w.to - w.from <= ChunkChars
    <2>1. PICK i \in 1..length : Real(i) /\ w = Window(i, length)
      BY <1>1
    <2> QED BY <2>1, Windowed, ChunkerAssumption
  <1>3. ASSUME NEW v \in windows, NEW w \in windows, v # w
        PROVE  v.from < w.from \/ v.to > w.to
    <2>1. PICK i \in 1..length : Real(i) /\ v = Window(i, length)
      BY <1>1
    <2>2. PICK j \in 1..length : Real(j) /\ w = Window(j, length)
      BY <1>1
    <2>3. i # j
      BY <2>1, <2>2, <1>3
    <2>4. CASE i < j
      <3>1. Start(i) + ChunkChars - OverlapChars <= Start(j)
        BY <2>4, Starts
      <3> QED BY <2>1, <2>2, <3>1, Windowed, ChunkerAssumption
    <2>5. CASE j < i
      <3>1. Start(j) + ChunkChars - OverlapChars <= Start(i)
        BY <2>5, Starts
      <3>2. Start(i) + OverlapChars < length /\ Start(i) \in Int /\ Start(j) \in Int
        BY <2>1, <2>2, Windowed
      <3>3. w.to = Start(j) + ChunkChars
        BY <2>2, <3>1, <3>2, Windowed, ChunkerAssumption
      <3>4. v.to = IF Start(i) + ChunkChars <= length THEN Start(i) + ChunkChars ELSE length
        BY <2>1, Windowed
      <3> QED BY <3>1, <3>2, <3>3, <3>4, ChunkerAssumption
    <2> QED BY <2>3, <2>4, <2>5
  <1>4. ASSUME NEW x \in 0..(length - 1), NEW end, end = Min({x + OverlapChars, length - 1}),
               NEW y \in x..end, y \notin blank
        PROVE  \E w \in windows : w.from <= x /\ end < w.to
    <2>1. end = IF x + OverlapChars <= length - 1 THEN x + OverlapChars ELSE length - 1
      BY <1>4, LeastOfTwo, ChunkerAssumption
    <2>2. PICK m \in Nat : m = IF x + OverlapChars <= length - 1 THEN x ELSE length - 1 - OverlapChars
      <3>1. x \in Nat /\ length - 1 - OverlapChars \in Nat
        BY ChunkerAssumption
      <3> QED BY <3>1
    <2>3. PICK i \in 1..(m + 1) : Start(i) <= m /\ m < Start(i) + ChunkChars - OverlapChars
      BY Between
    <2>4. m <= x /\ m + OverlapChars <= length - 1 /\ end = m + OverlapChars
      BY <2>1, <2>2, ChunkerAssumption
    <2>5. Real(i)
      <3>1. i \in 1..length
        BY <2>3, <2>4, ChunkerAssumption
      <3>2. CASE i # 1
        <4>1. i - 1 \in Nat /\ i = (i - 1) + 1
          BY <3>2
        <4>2. Start(i) = Start(i - 1) + ChunkChars - OverlapChars /\ Start(i - 1) \in Int /\ Start(i) \in Int
          BY <4>1, Starts
        <4> QED BY <3>1, <4>2, <2>3, <2>4, ChunkerAssumption
      <3> QED BY <3>1, <3>2
    <2>6. PICK w : w = Window(i, length)
      OBVIOUS
    <2>7. w.from <= x /\ end < w.to /\ w.from \in Int /\ w.to \in Int
      BY <2>3, <2>4, <2>5, <2>6, Windowed, ChunkerAssumption
    <2>8. y \in w.from..(w.to - 1)
      BY <2>7, <2>4, ChunkerAssumption
    <2> QED BY <1>1, <1>4, <2>5, <2>6, <2>7, <2>8
  <1>5. \A x \in 0..(length - 1) :
          (\E y \in x..Min({x + OverlapChars, length - 1}) : y \notin blank)
            => \E w \in windows : w.from <= x /\ Min({x + OverlapChars, length - 1}) < w.to
    BY <1>4
  <1>6. KeepsPhrases(length, blank, windows)
    BY <1>2, <1>3, <1>5 DEF KeepsPhrases
  <1> QED BY <1>6 DEF windows

LEMMA ShortTextsKept ==
    ASSUME NEW length \in Nat, NEW blank, length <= ChunkChars
    PROVE  KeepsPhrases(length, blank, SplitProse(length, blank))
  <1>1. PICK w : w = [from |-> 0, to |-> length]
    OBVIOUS
  <1>2. SplitProse(length, blank) = {w} /\ w.from = 0 /\ w.to = length
    BY <1>1 DEF SplitProse
  <1>3. \A x \in 0..(length - 1) : Min({x + OverlapChars, length - 1}) < length
    BY LeastOfTwo, ChunkerAssumption
  <1>4. \A v \in {w} : v = w /\ v.to - v.from <= ChunkChars
    BY <1>2
  <1>5. \A x \in 0..(length - 1) : w.from <= x /\ Min({x + OverlapChars, length - 1}) < w.to
    BY <1>2, <1>3
  <1>6. PICK windows : windows = SplitProse(length, blank)
    OBVIOUS
  <1>7. KeepsPhrases(length, blank, windows)
    <2> SUFFICES ASSUME NEW x \in 0..(length - 1)
                 PROVE  \E v \in windows : v.from <= x /\ Min({x + OverlapChars, length - 1}) < v.to
      BY <1>2, <1>4, <1>6 DEF KeepsPhrases
    <2> QED BY <1>2, <1>5, <1>6
  <1> QED BY <1>6, <1>7

\* No phrase as long as the overlap is ever cut, for any size of windows and overlap and
\* any text: some window holds the whole of it (_split_prose).
THEOREM PhrasesAlwaysWhole == Spec => []PhrasesKeptWhole
  <1>1. Init => PhrasesKeptWhole
    BY DEF Init, PhrasesKeptWhole, None0
  <1>2. PhrasesKeptWhole /\ [Next]_case => PhrasesKeptWhole'
    <2> SUFFICES ASSUME PhrasesKeptWhole, [Next]_case PROVE PhrasesKeptWhole'
      OBVIOUS
    <2>1. CASE Split
      <3>1. PICK text \in Texts :
              case' = [of |-> "split", text |-> text, windows |-> SplitProse(text.length, text.blank)]
        BY <2>1 DEF Split
      <3>2. /\ case'.text = text /\ case'.windows = SplitProse(text.length, text.blank)
            /\ text.length \in Nat
        BY <3>1, CasesAssumption
      <3>3. KeepsPhrases(text.length, text.blank, SplitProse(text.length, text.blank))
        BY <3>2, LongTextsKept, ShortTextsKept, ChunkerAssumption
      <3> QED BY <3>2, <3>3 DEF PhrasesKeptWhole
    <2>2. CASE ~Split /\ Next
      BY <2>2, Kinds DEF PhrasesKeptWhole
    <2>3. CASE UNCHANGED case
      BY <2>3 DEF PhrasesKeptWhole
    <2> QED BY <2>1, <2>2, <2>3
  <1> QED BY <1>1, <1>2, PTL DEF Spec

(***************************************************************************)
(* Grading                                                                 *)
(***************************************************************************)
LEMMA LargestOfTwo ==
    ASSUME NEW a \in Int, NEW b \in Int
    PROVE  Max({a, b}) = IF a >= b THEN a ELSE b
  <1>1. PICK m : m = IF a >= b THEN a ELSE b
    OBVIOUS
  <1>2. m \in {a, b} /\ \A y \in {a, b} : m >= y
    BY <1>1
  <1>3. \A n \in {a, b} : (\A y \in {a, b} : n >= y) => n = m
    BY <1>2
  <1> QED BY <1>1, <1>2, <1>3 DEF Max

\* Two values match when they differ by a hundredth of one of them at most.
Near(d, a, b) == 100 * d <= a \/ 100 * d <= b

LEMMA MatchIsNear ==
    ASSUME NEW a \in Int, NEW b \in Int
    PROVE  NumbersMatch(a, b) <=> Near(Abs(a - b), Abs(a), Abs(b))
  <1>1. PICK d, x, y : d = Abs(a - b) /\ x = Abs(a) /\ y = Abs(b)
    OBVIOUS
  <1>2. d \in Nat /\ x \in Nat /\ y \in Nat /\ (a = b => d = 0)
    BY <1>1 DEF Abs
  <1>3. PICK m : m = Max({x, y})
    OBVIOUS
  <1>4. m = IF x >= y THEN x ELSE y
    BY <1>2, <1>3, LargestOfTwo
  <1>5. d <= m \div 100 <=> 100 * d <= m
    BY <1>2, <1>4
  <1>6. NumbersMatch(a, b) <=> (a = b \/ d <= m \div 100)
    BY <1>1, <1>3 DEF NumbersMatch, Magnitude
  <1> QED BY <1>1, <1>2, <1>4, <1>5, <1>6 DEF Near

\* A common factor does not matter.
LEMMA Cancel ==
    ASSUME NEW k \in Nat \ {0}, NEW a \in Int, NEW b \in Int
    PROVE  a * k <= b * k <=> a <= b
  <1>1. CASE a <= b
    <2>1. PICK d \in Nat : b = a + d
      <3>1. b - a \in Nat /\ b = a + (b - a)
        BY <1>1
      <3> QED BY <3>1
    <2>2. b * k = a * k + d * k /\ d * k \in Nat /\ a * k \in Int
      BY <2>1
    <2> QED BY <1>1, <2>2
  <1>2. CASE ~(a <= b)
    <2>1. PICK d \in Nat : a = b + 1 + d
      <3>1. a - b - 1 \in Nat /\ a = b + 1 + (a - b - 1)
        BY <1>2
      <3> QED BY <3>1
    <2>2. a * k = b * k + k + d * k /\ d * k \in Nat /\ b * k \in Int
      BY <2>1
    <2> QED BY <1>2, <2>2
  <1> QED BY <1>1, <1>2

\* The value that is read of the number of a reply.
Factor(reply) == IF reply.percent THEN 1 ELSE ScaleOf(reply)
Below(n) == MinusTaken(n) \/ (OpenTaken(n) /\ CloseTaken(n))
Readable(reply) == Len(reply.numbers) = 1 /\ ~Refused(reply.numbers[1])
Amount(reply) == reply.numbers[1].amount
Reads(reply, v) ==
    /\ Amount(reply) * Factor(reply) \in Nat
    /\ v = IF Below(reply.numbers[1]) THEN -(Amount(reply) * Factor(reply))
                                      ELSE Amount(reply) * Factor(reply)

LEMMA WhatIsRead ==
    ASSUME NEW reply \in Replies
    PROVE  /\ NormalizeNumericAnswer(reply) = Unparsed <=> ~Readable(reply)
           /\ Readable(reply) =>
                /\ reply.numbers[1] \in Number /\ Amount(reply) \in Nat
                /\ Factor(reply) \in Nat \ {0}
                /\ Reads(reply, NormalizeNumericAnswer(reply).value)
  <1>1. /\ reply.numbers \in Seq(Number) /\ reply.percent \in BOOLEAN /\ ScaleOf(reply) \in Nat \ {0}
    BY CasesAssumption
  <1>2. CASE ~Readable(reply)
    BY <1>2 DEF NormalizeNumericAnswer, Readable
  <1>3. CASE Readable(reply)
    <2>0. Len(reply.numbers) = 1 /\ ~Refused(reply.numbers[1])
      BY <1>3 DEF Readable
    <2>1. PICK n \in Number : n = reply.numbers[1]
      BY <1>1, <2>0
    <2>2. n.amount \in Nat
      BY <2>1 DEF Number
    <2>3. PICK value : value = IF Below(n) THEN -n.amount ELSE n.amount
      OBVIOUS
    <2>4. PICK scaled : scaled = IF reply.percent THEN value ELSE value * ScaleOf(reply)
      OBVIOUS
    <2>5. NormalizeNumericAnswer(reply) = [percent |-> reply.percent, value |-> scaled]
      BY <2>0, <2>1, <2>3, <2>4 DEF NormalizeNumericAnswer, ReadValue, Below
    <2>6. NormalizeNumericAnswer(reply) # Unparsed /\ NormalizeNumericAnswer(reply).value = scaled
      BY <2>5 DEF Unparsed
    <2>8. Factor(reply) \in Nat \ {0}
      BY <1>1 DEF Factor
    <2>9. n.amount * Factor(reply) \in Nat
      BY <2>2, <2>8
    <2>10. scaled = value * Factor(reply)
      BY <1>1, <2>2, <2>3, <2>4 DEF Factor
    <2>11. scaled = IF Below(n) THEN -(n.amount * Factor(reply)) ELSE n.amount * Factor(reply)
      <3>1. (-n.amount) * Factor(reply) = -(n.amount * Factor(reply))
        BY <2>2, <2>8
      <3> QED BY <2>3, <2>10, <3>1
    <2> QED BY <1>3, <2>1, <2>2, <2>6, <2>8, <2>9, <2>11 DEF Reads, Amount
  <1> QED BY <1>2, <1>3

\* What the regular expression takes is what counts as a sign, unless float() refuses it.
LEMMA SignsTaken ==
    ASSUME NEW n \in Number
    PROVE  /\ Refused(n) <=> NoNumber(n)
           /\ ~Refused(n) => (Below(n) <=> SignCounts(n))
  <1>1. n.before \in Seq({Minus, Open, Word})
    BY DEF Number
  <1>2. Minus # Open
    BY DEF Minus, Open
  <1>3. PICK b, k : b = n.before /\ k = Len(b)
    OBVIOUS
  <1>4. b \in Seq({Minus, Open, Word}) /\ k \in Nat /\ (b = <<>> <=> k = 0)
    BY <1>1, <1>3
  <1>5. b # <<>> => Last(b) = b[k]
    BY <1>3 DEF Last
  <1>6. ASSUME b # <<>>
        PROVE  (Front(b) # <<>> <=> k > 1) /\ (k > 1 => Last(Front(b)) = b[k - 1])
    <2>1. PICK f : f = Front(b)
      OBVIOUS
    <2>2. f = SubSeq(b, 1, k - 1)
      BY <1>3, <2>1 DEF Front
    <2>3. Len(f) = k - 1 /\ f \in Seq({Minus, Open, Word})
      BY <1>3, <1>4, <1>6, <2>2
    <2>4. k > 1 => f[k - 1] = b[k - 1]
      BY <1>3, <1>4, <2>2
    <2>5. f # <<>> <=> k > 1
      BY <1>4, <1>6, <2>3
    <2> QED BY <2>1, <2>3, <2>4, <2>5 DEF Last
  <1>7. CASE b # <<>> /\ b[k] = Open
    <2>1. OpenTaken(n) /\ (MinusTaken(n) <=> (k > 1 /\ b[k - 1] = Minus))
      BY <1>3, <1>5, <1>6, <1>7 DEF OpenTaken, MinusTaken
    <2>2. SignCounts(n) <=> CloseTaken(n)
      BY <1>2, <1>3, <1>5, <1>7 DEF SignCounts, CloseTaken
    <2>3. NoNumber(n) <=> (k > 1 /\ b[k - 1] = Minus)
      BY <1>3, <1>7 DEF NoNumber
    <2> QED BY <2>1, <2>2, <2>3 DEF Refused, Below
  <1>8. CASE ~(b # <<>> /\ b[k] = Open)
    <2>1. ~OpenTaken(n)
      BY <1>3, <1>5, <1>8 DEF OpenTaken
    <2>2. MinusTaken(n) <=> (b # <<>> /\ Last(b) = Minus)
      BY <1>3, <2>1 DEF MinusTaken
    <2>3. SignCounts(n) <=> (b # <<>> /\ Last(b) = Minus)
      BY <1>3, <1>5, <1>8 DEF SignCounts
    <2>4. ~NoNumber(n)
      BY <1>3, <1>4, <1>8 DEF NoNumber
    <2> QED BY <2>1, <2>2, <2>3, <2>4 DEF Refused, Below
  <1> QED BY <1>7, <1>8

LEMMA OppositesDiffer ==
    ASSUME NEW x \in Nat \ {0}, NEW y \in Nat \ {0}
    PROVE  ~NumbersMatch(x, -y) /\ ~NumbersMatch(-x, y)
  <1>1. Abs(x - (-y)) = x + y /\ Abs(-x - y) = x + y /\ Abs(x) = x /\ Abs(-x) = x /\ Abs(y) = y /\ Abs(-y) = y
    BY DEF Abs
  <1>2. ~Near(x + y, x, y)
    BY DEF Near
  <1> QED BY <1>1, <1>2, MatchIsNear

LEMMA SameSide ==
    ASSUME NEW x \in Nat, NEW y \in Nat
    PROVE  /\ NumbersMatch(x, y) <=> Near(Abs(x - y), x, y)
           /\ NumbersMatch(-x, -y) <=> Near(Abs(x - y), x, y)
  <1>1. Abs(-x - (-y)) = Abs(x - y) /\ Abs(x) = x /\ Abs(-x) = x /\ Abs(y) = y /\ Abs(-y) = y
    BY DEF Abs
  <1>2. NumbersMatch(x, y) <=> Near(Abs(x - y), Abs(x), Abs(y))
    BY MatchIsNear
  <1>3. -x \in Int /\ -y \in Int
    OBVIOUS
  <1>4. NumbersMatch(-x, -y) <=> Near(Abs(-x - (-y)), Abs(-x), Abs(-y))
    BY <1>3, MatchIsNear
  <1> QED BY <1>1, <1>2, <1>4

LEMMA ScaledNear ==
    ASSUME NEW x \in Nat, NEW y \in Nat, NEW k \in Nat \ {0}
    PROVE  Near(Abs(x * k - y * k), x * k, y * k) <=> Near(Abs(x - y), x, y)
  <1>1. PICK d \in Nat : d = Abs(x - y)
    <2>1. Abs(x - y) \in Nat
      BY DEF Abs
    <2> QED BY <2>1
  <1>2. Abs(x * k - y * k) = d * k
    <2>1. x * k - y * k = (x - y) * k
      OBVIOUS
    <2>2. CASE x < y
      <3>1. d = y - x /\ (x - y) * k = -(d * k) /\ d * k \in Nat
        BY <1>1, <2>2 DEF Abs
      <3> QED BY <2>1, <3>1 DEF Abs
    <2>3. CASE ~(x < y)
      <3>1. d = x - y /\ (x - y) * k = d * k /\ d * k \in Nat
        BY <1>1, <2>3 DEF Abs
      <3> QED BY <2>1, <3>1 DEF Abs
    <2> QED BY <2>2, <2>3
  <1>3. 100 * (d * k) = (100 * d) * k
    OBVIOUS
  <1>4. (100 * d) * k <= x * k <=> 100 * d <= x
    BY Cancel
  <1>5. (100 * d) * k <= y * k <=> 100 * d <= y
    BY Cancel
  <1> QED BY <1>1, <1>2, <1>3, <1>4, <1>5 DEF Near

LEMMA FarApart ==
    ASSUME NEW x \in Nat \ {0}, NEW k \in Nat \ {0}, NEW l \in Nat \ {0}, 2 * k <= l
    PROVE  ~Near(Abs(x * k - x * l), x * k, x * l) /\ ~Near(Abs(x * l - x * k), x * l, x * k)
  <1>1. PICK e \in Nat : l = 2 * k + e
    <2>1. l - 2 * k \in Nat /\ l = 2 * k + (l - 2 * k)
      OBVIOUS
    <2> QED BY <2>1
  <1>2. PICK p \in Nat \ {0}, q \in Nat : p = x * k /\ q = x * e
    OBVIOUS
  <1>3. x * l = 2 * p + q
    BY <1>1, <1>2
  <1>4. Abs(p - (2 * p + q)) = p + q /\ Abs((2 * p + q) - p) = p + q
    BY DEF Abs
  <1>5. ~Near(p + q, p, 2 * p + q) /\ ~Near(p + q, 2 * p + q, p)
    BY DEF Near
  <1> QED BY <1>2, <1>3, <1>4, <1>5

SameScale(gold, reply) == gold.percent = reply.percent /\ (gold.percent \/ ScaleOf(gold) = ScaleOf(reply))

\* What the grade of a reply of one number says of the two numbers.
LEMMA MatchSaysQuantity ==
    ASSUME NEW gold \in Replies, NEW reply \in Replies,
           Readable(gold), Readable(reply),
           NEW match, match = NumbersMatch(NormalizeNumericAnswer(gold).value,
                                           NormalizeNumericAnswer(reply).value)
    PROVE  LET g == gold.numbers[1]
               a == reply.numbers[1]
           IN  /\ (Below(g) # Below(a) /\ g.amount > 0 /\ a.amount > 0) => ~match
               /\ (Below(g) = Below(a) /\ SameScale(gold, reply)) =>
                    (match <=> 100 * Abs(g.amount - a.amount) <= Max({g.amount, a.amount}))
               /\ (~SameScale(gold, reply) /\ ~gold.percent /\ ~reply.percent
                   /\ g.amount = a.amount /\ g.amount > 0) => ~match
  <1>1. PICK x, y, k, l : /\ x = Amount(gold) /\ k = Factor(gold) /\ y = Amount(reply) /\ l = Factor(reply)
    OBVIOUS
  <1>2. PICK v, w : v = NormalizeNumericAnswer(gold).value /\ w = NormalizeNumericAnswer(reply).value
    OBVIOUS
  <1>3. PICK g, a : g = gold.numbers[1] /\ a = reply.numbers[1]
    OBVIOUS
  <1>4. /\ x \in Nat /\ y \in Nat /\ k \in Nat \ {0} /\ l \in Nat \ {0}
        /\ g.amount = x /\ a.amount = y
        /\ x * k \in Nat /\ v = IF Below(g) THEN -(x * k) ELSE x * k
        /\ y * l \in Nat /\ w = IF Below(a) THEN -(y * l) ELSE y * l
    BY <1>1, <1>2, <1>3, WhatIsRead DEF Reads, Amount
  <1>5. match <=> NumbersMatch(v, w)
    BY <1>2
  <1>6. (Below(g) <=> Below(a)) => (NumbersMatch(v, w) <=> Near(Abs(x * k - y * l), x * k, y * l))
    BY <1>4, SameSide
  <1>7. ~(Below(g) <=> Below(a)) /\ x > 0 /\ y > 0 => ~NumbersMatch(v, w)
    <2> SUFFICES ASSUME ~(Below(g) <=> Below(a)), x > 0, y > 0 PROVE ~NumbersMatch(v, w)
      OBVIOUS
    <2>1. x * k \in Nat \ {0} /\ y * l \in Nat \ {0}
      BY <1>4
    <2> QED BY <1>4, <2>1, OppositesDiffer
  <1>8. (Below(g) <=> Below(a)) /\ SameScale(gold, reply) =>
          (NumbersMatch(v, w) <=> 100 * Abs(x - y) <= Max({x, y}))
    <2> SUFFICES ASSUME Below(g) <=> Below(a), SameScale(gold, reply)
                 PROVE  NumbersMatch(v, w) <=> 100 * Abs(x - y) <= Max({x, y})
      OBVIOUS
    <2>1. k = l
      BY <1>1 DEF SameScale, Factor
    <2>2. NumbersMatch(v, w) <=> Near(Abs(x - y), x, y)
      BY <1>4, <1>6, <2>1, ScaledNear
    <2>3. Max({x, y}) = IF x >= y THEN x ELSE y
      BY <1>4, LargestOfTwo
    <2>4. Abs(x - y) \in Nat
      BY <1>4 DEF Abs
    <2>5. Near(Abs(x - y), x, y) <=> 100 * Abs(x - y) <= Max({x, y})
      BY <1>4, <2>3, <2>4 DEF Near
    <2> QED BY <2>2, <2>5
  <1>9. ~SameScale(gold, reply) /\ ~gold.percent /\ ~reply.percent /\ x = y /\ x > 0 => ~NumbersMatch(v, w)
    <2> SUFFICES ASSUME ~SameScale(gold, reply), ~gold.percent, ~reply.percent, x = y, x > 0
                 PROVE  ~NumbersMatch(v, w)
      OBVIOUS
    <2>1. gold.percent \in BOOLEAN /\ reply.percent \in BOOLEAN
      BY CasesAssumption
    <2>2. k = ScaleOf(gold) /\ l = ScaleOf(reply) /\ k # l
      BY <1>1, <2>1 DEF SameScale, Factor
    <2>3. 2 * k <= l \/ 2 * l <= k
      BY <1>4, <2>2, CasesAssumption
    <2>4. ~Near(Abs(x * k - x * l), x * k, x * l)
      <3>1. x \in Nat \ {0}
        BY <1>4
      <3>2. CASE 2 * k <= l
        BY <1>4, <3>1, <3>2, FarApart
      <3>3. CASE 2 * l <= k
        BY <1>4, <3>1, <3>3, FarApart
      <3> QED BY <2>3, <3>2, <3>3
    <2>5. CASE Below(g) <=> Below(a)
      BY <1>6, <2>4, <2>5
    <2>6. CASE ~(Below(g) <=> Below(a))
      BY <1>7, <2>6
    <2> QED BY <2>5, <2>6
  <1>10. (Below(g) # Below(a)) <=> ~(Below(g) <=> Below(a))
    BY DEF Below, MinusTaken, OpenTaken, CloseTaken
  <1> QED BY <1>3, <1>4, <1>5, <1>7, <1>8, <1>9, <1>10

LEMMA GradeIsMatch ==
    ASSUME NEW gold \in Replies, NEW reply \in Replies, Readable(gold),
           NEW v, v = NormalizeNumericAnswer(gold).value
    PROVE  /\ GradeAnswerable(v, reply) = "none" <=> ~Readable(reply)
           /\ Readable(reply) =>
                /\ GradeAnswerable(v, reply) \in {"correct", "wrong"}
                /\ GradeAnswerable(v, reply) = "correct" <=>
                      NumbersMatch(v, NormalizeNumericAnswer(reply).value)
           /\ IsHallucination(reply) <=> (~reply.notFound /\ Readable(reply))
  <1>1. NormalizeNumericAnswer(reply) = Unparsed <=> ~Readable(reply)
    BY WhatIsRead
  <1> QED BY <1>1 DEF GradeAnswerable, IsHallucination

\* Grading is about the quantity, with the sign at its digits: a reply of one number is
\* right within a hundredth of the larger, and wrong with the other sign or without its
\* scale word; signs further off are overlooked, and a minus before a bracket leaves
\* nothing to grade (normalize_numeric_answer, numbers_match, grade_answerable).
THEOREM AlwaysGradedByQuantity == Spec => []GradedByQuantity
  <1>1. Init => GradedByQuantity
    BY DEF Init, GradedByQuantity, None0
  <1>2. GradedByQuantity /\ [Next]_case => GradedByQuantity'
    <2> SUFFICES ASSUME GradedByQuantity, [Next]_case PROVE GradedByQuantity'
      OBVIOUS
    <2>1. CASE Grade
      <3>0. PICK gold \in Replies, reply \in Replies : \E kept \in Classify({gold}) :
              case' = [of |-> "grade", gold |-> gold, reply |-> reply,
                       grade |-> GradeAnswerable(kept.gold, reply),
                       hallucination |-> IsHallucination(reply)]
        BY <2>1 DEF Grade
      <3>1. PICK kept \in Classify({gold}) :
              case' = [of |-> "grade", gold |-> gold, reply |-> reply,
                       grade |-> GradeAnswerable(kept.gold, reply),
                       hallucination |-> IsHallucination(reply)]
        BY <3>0
      <3>2. kept.gold = NormalizeNumericAnswer(gold).value /\ NormalizeNumericAnswer(gold) # Unparsed
        BY <3>1 DEF Classify
      <3>3. Readable(gold)
        BY <3>2, WhatIsRead
      <3>4. PICK grade : grade = GradeAnswerable(kept.gold, reply)
        OBVIOUS
      <3>5. /\ case'.of = "grade" /\ case'.gold = gold /\ case'.reply = reply /\ case'.grade = grade
            /\ case'.hallucination = IsHallucination(reply)
        BY <3>1, <3>4
      <3>6. PICK match : match = NumbersMatch(kept.gold, NormalizeNumericAnswer(reply).value)
        OBVIOUS
      <3>7. /\ grade = "none" <=> ~Readable(reply)
            /\ Readable(reply) => grade \in {"correct", "wrong"} /\ (grade = "correct" <=> match)
            /\ IsHallucination(reply) <=> (~reply.notFound /\ Readable(reply))
        BY <3>2, <3>3, <3>4, <3>6, GradeIsMatch
      <3>10. Readable(reply) <=> (Len(reply.numbers) = 1 /\ ~NoNumber(reply.numbers[1]))
        <4>1. Len(reply.numbers) = 1 => reply.numbers[1] \in Number
          BY CasesAssumption
        <4> QED BY <4>1, SignsTaken DEF Readable
      <3>8. CASE ~Readable(reply)
        BY <3>5, <3>7, <3>8, <3>10 DEF GradedByQuantity
      <3>9. CASE Readable(reply)
        <4>1. LET g == gold.numbers[1]
                  a == reply.numbers[1]
              IN  /\ (Below(g) # Below(a) /\ g.amount > 0 /\ a.amount > 0) => ~match
                  /\ (Below(g) = Below(a) /\ SameScale(gold, reply)) =>
                       (match <=> 100 * Abs(g.amount - a.amount) <= Max({g.amount, a.amount}))
                  /\ (~SameScale(gold, reply) /\ ~gold.percent /\ ~reply.percent
                      /\ g.amount = a.amount /\ g.amount > 0) => ~match
          BY <3>2, <3>3, <3>6, <3>9, MatchSaysQuantity
        <4>2. /\ Below(gold.numbers[1]) = SignCounts(gold.numbers[1])
              /\ Below(reply.numbers[1]) = SignCounts(reply.numbers[1])
          <5>1. gold.numbers[1] \in Number /\ reply.numbers[1] \in Number
            BY <3>3, <3>9, WhatIsRead
          <5>2. ~Refused(gold.numbers[1]) /\ ~Refused(reply.numbers[1])
            BY <3>3, <3>9 DEF Readable
          <5>3. /\ Below(gold.numbers[1]) <=> SignCounts(gold.numbers[1])
                /\ Below(reply.numbers[1]) <=> SignCounts(reply.numbers[1])
            BY <5>1, <5>2, SignsTaken
          <5> QED BY <5>3 DEF Below, SignCounts, MinusTaken, OpenTaken, CloseTaken
        <4> QED BY <3>5, <3>7, <3>9, <3>10, <4>1, <4>2 DEF GradedByQuantity, SameScale
      <3> QED BY <3>8, <3>9
    <2>2. CASE ~Grade /\ Next
      BY <2>2, Kinds DEF GradedByQuantity
    <2>3. CASE UNCHANGED case
      BY <2>3 DEF GradedByQuantity
    <2> QED BY <2>1, <2>2, <2>3
  <1> QED BY <1>1, <1>2, PTL DEF Spec

(***************************************************************************)
(* Figures on pages                                                        *)
(***************************************************************************)
Tokens == Nat \X Nat

\* The least number that has no width.
Widest == PowersOfTen[MaxWidth]

LEMMA Widths ==
    /\ MaxWidth = 7 /\ Widest \in Nat /\ Widest >= 1000 /\ MaxValue = 10 * Widest
    /\ \A n \in Nat : n < Widest => Run(n) \in Tokens /\ Run(n)[1] \in 1..7
    /\ \A n \in Nat : 10 <= n /\ n < Widest => Run(n)[1] \in 2..7
    /\ \A n \in Nat : 100 <= n /\ n < Widest => Run(n)[1] \in 3..7
  <1>1. /\ Len(PowersOfTen) = 7
        /\ PowersOfTen[1] = 10 /\ PowersOfTen[2] = 100 /\ PowersOfTen[7] \in Nat /\ PowersOfTen[7] >= 1000
    BY SMT DEF PowersOfTen
  <1>2. MaxWidth = 7 /\ Widest = PowersOfTen[7] /\ MaxValue = 10 * Widest
    BY <1>1 DEF MaxWidth, MaxValue, Widest
  <1>3. ASSUME NEW n \in Nat, n < Widest
        PROVE  /\ Run(n) \in Tokens /\ Run(n)[1] \in 1..7
               /\ 10 <= n => Run(n)[1] \in 2..7
               /\ 100 <= n => Run(n)[1] \in 3..7
    <2>1. PICK W : W = {w \in 1..MaxWidth : n < PowersOfTen[w]}
      OBVIOUS
    <2>2. PICK m \in W : \A w \in W : m <= w
      <3>1. 7 \in W /\ W \subseteq 1..7
        BY <1>1, <1>2, <1>3, <2>1
      <3>2. CASE 1 \in W
        BY <3>1, <3>2
      <3>3. CASE 1 \notin W /\ 2 \in W
        BY <3>1, <3>3
      <3>4. CASE 1 \notin W /\ 2 \notin W /\ 3 \in W
        BY <3>1, <3>4
      <3>5. CASE 1 \notin W /\ 2 \notin W /\ 3 \notin W /\ 4 \in W
        BY <3>1, <3>5
      <3>6. CASE 1 \notin W /\ 2 \notin W /\ 3 \notin W /\ 4 \notin W /\ 5 \in W
        BY <3>1, <3>6
      <3>7. CASE 1 \notin W /\ 2 \notin W /\ 3 \notin W /\ 4 \notin W /\ 5 \notin W /\ 6 \in W
        BY <3>1, <3>7
      <3>8. CASE 1 \notin W /\ 2 \notin W /\ 3 \notin W /\ 4 \notin W /\ 5 \notin W /\ 6 \notin W
        BY <3>1, <3>8
      <3> QED BY <3>2, <3>3, <3>4, <3>5, <3>6, <3>7, <3>8
    <2>3. Min(W) \in W
      BY <2>2 DEF Min
    <2>4. PICK w : w = Min(W)
      OBVIOUS
    <2>5. w \in 1..7 /\ n < PowersOfTen[w] /\ Run(n) = <<w, n>>
      BY <1>2, <2>1, <2>3, <2>4 DEF Run
    <2>6. (10 <= n => w # 1) /\ (100 <= n => w # 1 /\ w # 2)
      BY <1>1, <2>5
    <2> QED BY <2>5, <2>6 DEF Tokens
  <1> QED BY <1>1, <1>2, <1>3

DigitsOf(text) == {d \in (DOMAIN text) \X (1..MaxWidth) : d[2] <= text[d[1]][1]}

LEMMA DigitsNatural ==
    ASSUME NEW text \in Seq(Tokens)
    PROVE  IsFiniteSet(DigitsOf(text)) /\ Digits(text) \in Nat
  <1>1. /\ DOMAIN text = 1..Len(text) /\ Len(text) \in Nat /\ 1 \in Int /\ MaxWidth \in Int
        /\ Len(text) \in Int
    BY Widths
  <1>2. IsFiniteSet(DOMAIN text) /\ IsFiniteSet(1..MaxWidth)
    BY <1>1, FS_Interval
  <1>3. IsFiniteSet((DOMAIN text) \X (1..MaxWidth))
    BY <1>2, FS_Product
  <1> QED BY <1>3, FS_Subset, FS_CardinalityType DEF Digits, DigitsOf

\* A run of n digits makes a text one of n digits at least.
LEMMA DigitsOfRun ==
    ASSUME NEW text \in Seq(Tokens), NEW i \in DOMAIN text, NEW n \in 1..7,
           text[i][1] >= n
    PROVE  Digits(text) >= n
  <1>1. PICK D : D = DigitsOf(text)
    OBVIOUS
  <1>2. IsFiniteSet(D) /\ Cardinality(D) \in Nat
    BY <1>1, DigitsNatural, FS_CardinalityType
  <1>3. text[i][1] \in Nat
    BY DEF Tokens
  <1>4. \A k \in 1..n : <<i, k>> \in D
    BY <1>1, <1>3, Widths DEF DigitsOf
  <1>5. PICK f : f = [k \in 1..n |-> <<i, k>>]
    OBVIOUS
  <1>6. f \in Injection(1..n, D)
    BY <1>4, <1>5 DEF Injection, IsInjective
  <1>7. Cardinality(1..n) <= Cardinality(D)
    BY <1>2, <1>6, FS_Injection
  <1>8. Cardinality(1..n) = n
    <2>1. 1 \in Int /\ n \in Int /\ ~(1 > n)
      OBVIOUS
    <2>2. Cardinality(1..n) = n - 1 + 1
      BY <2>1, FS_Interval
    <2> QED BY <2>2
  <1> QED BY <1>1, <1>7, <1>8 DEF Digits, DigitsOf

\* What a sequence of three parts has where.
LEMMA Joined3 ==
    ASSUME NEW V, NEW a \in Seq(V), NEW b \in Seq(V), NEW c \in Seq(V)
    PROVE  /\ a \o b \o c \in Seq(V) /\ Len(a \o b \o c) = Len(a) + Len(b) + Len(c)
           /\ \A i \in 1..Len(b) : /\ Len(a) + i \in DOMAIN (a \o b \o c)
                                    /\ (a \o b \o c)[Len(a) + i] = b[i]
           /\ \A i \in 1..Len(a) : (a \o b \o c)[i] = a[i]
  <1>1. PICK d \in Seq(V) : d = a \o b
    <2>1. a \o b \in Seq(V)
      OBVIOUS
    <2> QED BY <2>1
  <1>2. /\ Len(d) = Len(a) + Len(b) /\ Len(a) \in Nat /\ Len(b) \in Nat /\ Len(c) \in Nat
        /\ \A i \in 1..Len(a) : d[i] = a[i]
        /\ \A i \in 1..Len(b) : d[Len(a) + i] = b[i]
    BY <1>1
  <1>3. /\ d \o c \in Seq(V) /\ Len(d \o c) = Len(d) + Len(c)
        /\ DOMAIN (d \o c) = 1..(Len(d) + Len(c))
        /\ \A i \in 1..Len(d) : (d \o c)[i] = d[i]
    OBVIOUS
  <1> QED BY <1>1, <1>2, <1>3

LEMMA OccursBetween ==
    ASSUME NEW V, NEW left \in Seq(V), NEW figure \in Seq(V), NEW right \in Seq(V),
           left # <<>> => ~IsRun(Last(left))
    PROVE  Occurs(figure, left \o figure \o right)
  <1>1. PICK text \in Seq(V) : text = left \o figure \o right
    BY Joined3
  <1>2. PICK i \in Nat : i = Len(left)
    OBVIOUS
  <1>3. PICK n \in Nat : n = Len(figure)
    OBVIOUS
  <1>4. /\ Len(text) = i + n + Len(right) /\ Len(right) \in Nat
        /\ \A k \in 1..n : text[i + k] = figure[k]
        /\ \A k \in 1..i : text[k] = left[k]
    BY <1>1, <1>2, <1>3, Joined3
  <1>5. i \in 0..(Len(text) - n)
    BY <1>4
  <1>6. SubSeq(text, i + 1, i + n) = figure
    <2>1. SubSeq(text, i + 1, i + n) = [k \in 1..n |-> text[i + k]]
      <3>1. SubSeq(text, i + 1, i + n) = [k \in 1..(1 + (i + n) - (i + 1)) |-> text[k + (i + 1) - 1]]
        OBVIOUS
      <3>2. 1 + (i + n) - (i + 1) = n /\ \A k \in 1..n : k + (i + 1) - 1 = i + k
        OBVIOUS
      <3> QED BY <3>1, <3>2
    <2>2. figure = [k \in 1..n |-> figure[k]]
      BY <1>3
    <2> QED BY <1>4, <2>1, <2>2
  <1>7. i = 0 \/ ~IsRun(text[i])
    <2>1. CASE i # 0
      <3>1. left # <<>> /\ text[i] = left[i]
        BY <1>2, <1>4, <2>1
      <3> QED BY <1>2, <3>1 DEF Last
    <2> QED BY <2>1
  <1> QED BY <1>1, <1>3, <1>5, <1>6, <1>7 DEF Occurs

\* A figure is a text, with as many digits as its whole part at least.
LEMMA PrintedDigits ==
    ASSUME NEW v \in Int, NEW commas \in BOOLEAN, NEW decimals \in 0..2,
           Abs(v) < 10 * MaxValue
    PROVE  /\ Printed(v, commas, decimals) \in Seq(Tokens)
           /\ Abs(v) >= 1000 => Digits(Printed(v, commas, decimals)) >= 2
           /\ Abs(v) >= 10000 => Digits(Printed(v, commas, decimals)) >= 3
  <1>1. PICK n \in Nat : n = Abs(v) \div 100
    <2>1. Abs(v) \in Nat
      BY DEF Abs
    <2>2. Abs(v) \div 100 \in Nat
      BY <2>1
    <2> QED BY <2>2
  <1>2. n < Widest /\ (Abs(v) >= 1000 => n >= 10) /\ (Abs(v) >= 10000 => n >= 100)
    <2>1. PICK m \in Nat : m = Abs(v)
      <3>1. Abs(v) \in Nat
        BY DEF Abs
      <3> QED BY <3>1
    <2> QED BY <1>1, <2>1, Widths
  <1>3. PICK sign \in Seq(Tokens) : sign = IF v < 0 THEN <<Minus>> ELSE <<>>
    <2>1. <<>> \in Seq(Tokens) /\ <<Minus>> \in Seq(Tokens)
      BY DEF Tokens, Minus
    <2> QED BY <2>1
  <1>4. PICK tail \in Seq(Tokens) : tail = Fraction(Abs(v), decimals)
    <2>1. PICK m \in Nat : m = Abs(v)
      <3>1. Abs(v) \in Nat
        BY DEF Abs
      <3> QED BY <3>1
    <2>2. (m % 100) \div 10 \in Nat /\ m % 100 \in Nat
      OBVIOUS
    <2>3. /\ <<>> \in Seq(Tokens) /\ <<Point, <<1, (m % 100) \div 10>>>> \in Seq(Tokens)
          /\ <<Point, <<2, m % 100>>>> \in Seq(Tokens)
      BY <2>2 DEF Tokens, Point
    <2>4. Fraction(m, decimals) \in Seq(Tokens)
      BY <2>3 DEF Fraction
    <2> QED BY <2>1, <2>4
  <1>5. PICK whole : whole = Whole(n, commas)
    OBVIOUS
  <1>6. Printed(v, commas, decimals) = sign \o whole \o tail
    BY <1>1, <1>3, <1>4, <1>5 DEF Printed
  <1>7. /\ whole \in Seq(Tokens)
        /\ n >= 10 => \E i \in 1..Len(whole) : whole[i][1] >= 2
        /\ n >= 100 => \E i \in 1..Len(whole) : whole[i][1] >= 3
    <2>1. CASE commas /\ n >= 1000
      <3>1. n \div 1000 \in Nat /\ n \div 1000 < Widest /\ n % 1000 \in Nat
        <4>1. n \div 1000 \in Nat /\ n \div 1000 <= n /\ n % 1000 \in Nat
          OBVIOUS
        <4> QED BY <1>2, <4>1, Widths
      <3>2. PICK first \in Tokens, last \in Tokens : first = Run(n \div 1000) /\ last = <<3, n % 1000>>
        <4>1. Run(n \div 1000) \in Tokens /\ <<3, n % 1000>> \in Tokens
          BY <3>1, Widths DEF Tokens
        <4> QED BY <4>1
      <3>3. Comma \in Tokens
        BY DEF Comma, Tokens
      <3>4. whole = <<first, Comma, last>>
        BY <1>5, <2>1, <3>2 DEF Whole
      <3>5. whole \in Seq(Tokens) /\ Len(whole) = 3 /\ whole[3] = last /\ last[1] = 3
        BY <3>2, <3>3, <3>4
      <3> QED BY <3>5
    <2>2. CASE ~(commas /\ n >= 1000)
      <3>1. PICK run \in Tokens : run = Run(n)
        BY <1>2, Widths
      <3>2. whole = <<run>>
        BY <1>5, <2>2, <3>1 DEF Whole
      <3>3. /\ whole \in Seq(Tokens) /\ Len(whole) = 1 /\ whole[1] = run
            /\ n >= 10 => run[1] \in 2..7
            /\ n >= 100 => run[1] \in 3..7
        BY <1>2, <3>1, <3>2, Widths
      <3> QED BY <3>3
    <2> QED BY <2>1, <2>2
  <1>8. PICK figure \in Seq(Tokens) : figure = sign \o whole \o tail
    BY <1>7, Joined3
  <1>9. ASSUME NEW w \in 1..7, \E i \in 1..Len(whole) : whole[i][1] >= w
        PROVE  Digits(figure) >= w
    <2>1. PICK i \in 1..Len(whole) : whole[i][1] >= w
      BY <1>9
    <2>2. Len(sign) + i \in DOMAIN figure /\ figure[Len(sign) + i] = whole[i]
      BY <1>7, <1>8, <2>1, Joined3
    <2> QED BY <2>1, <2>2, DigitsOfRun
  <1> QED BY <1>2, <1>6, <1>7, <1>8, <1>9

LEMMA NearestOf100 ==
    ASSUME NEW v \in Int
    PROVE  /\ Nearest(v, 100) \in Int
           /\ Abs(v) < MaxValue => Abs(100 * Nearest(v, 100)) < 10 * MaxValue
           /\ Abs(v) >= 1000 => Abs(100 * Nearest(v, 100)) >= 1000
           /\ Abs(v) >= 10000 => Abs(100 * Nearest(v, 100)) >= 10000
           /\ Decimals(100 * Nearest(v, 100)) = 0
  <1>1. PICK m \in Nat : m = Abs(v)
    <2>1. Abs(v) \in Nat
      BY DEF Abs
    <2> QED BY <2>1
  <1>2. PICK q \in Nat : q = m \div 100
    OBVIOUS
  <1>3. PICK r \in Nat : r \in {q, q + 1} /\ Nearest(v, 100) = (IF v < 0 THEN -1 ELSE 1) * r
    BY <1>1, <1>2 DEF Nearest
  <1>4. PICK k \in Int : k = Nearest(v, 100) /\ Abs(100 * k) = 100 * r
    <2>1. CASE v < 0
      <3>1. Nearest(v, 100) = -r /\ -r \in Int
        BY <1>3, <2>1
      <3>2. Abs(100 * (-r)) = 100 * r
        BY DEF Abs
      <3> QED BY <3>1, <3>2
    <2>2. CASE ~(v < 0)
      <3>1. Nearest(v, 100) = r
        BY <1>3, <2>2
      <3>2. Abs(100 * r) = 100 * r
        BY DEF Abs
      <3> QED BY <3>1, <3>2
    <2> QED BY <2>1, <2>2
  <1>5. 100 * q <= m /\ m < 100 * q + 100
    BY <1>2
  <1>6. Decimals(100 * k) = 0
    <2>1. (100 * k) % 100 = 0
      OBVIOUS
    <2> QED BY <2>1 DEF Decimals
  <1> QED BY <1>1, <1>3, <1>4, <1>5, <1>6, Widths

\* Scaling a value up and down again gives it back.
LEMMA NearestOfMultiple ==
    ASSUME NEW v \in Int, NEW scale \in Nat \ {0}
    PROVE  Nearest(v * scale, scale) = v
  <1>1. PICK a \in Nat : a = Abs(v)
    <2>1. Abs(v) \in Nat
      BY DEF Abs
    <2> QED BY <2>1
  <1>2. PICK p \in Nat : p = a * scale
    OBVIOUS
  <1>3. Abs(v * scale) = p /\ (v * scale < 0 <=> v < 0) /\ v * scale \in Int
    <2>1. CASE v < 0
      <3>1. a = -v /\ a > 0
        BY <1>1, <2>1 DEF Abs
      <3>2. v * scale = -p /\ p > 0
        BY <1>2, <3>1
      <3> QED BY <2>1, <3>2 DEF Abs
    <2>2. CASE ~(v < 0)
      <3>1. a = v
        BY <1>1, <2>2 DEF Abs
      <3> QED BY <1>2, <2>2, <3>1 DEF Abs
    <2> QED BY <2>1, <2>2
  <1>4. p \div scale = a /\ p % scale = 0
    <2>1. PICK q \in Nat, r \in Nat : q = p \div scale /\ r = p % scale
      OBVIOUS
    <2>2. p = q * scale + r /\ r < scale
      BY <2>1
    <2>3. q * scale <= a * scale /\ a * scale < (q + 1) * scale
      BY <1>2, <2>2
    <2>4. q <= a
      BY <2>3, Cancel
    <2>5. ~(q + 1 <= a)
      <3>1. ~((q + 1) * scale <= a * scale)
        BY <2>3
      <3> QED BY <3>1, Cancel
    <2> QED BY <1>2, <2>1, <2>2, <2>4, <2>5
  <1>5. Nearest(v * scale, scale) = (IF v < 0 THEN -1 ELSE 1) * a
    BY <1>3, <1>4 DEF Nearest
  <1> QED BY <1>1, <1>5 DEF Abs

\* A figure is found when it stands between others on a page.
LEMMA FoundBetween ==
    ASSUME NEW v \in Values, NEW scale \in Scales, NEW commas \in BOOLEAN,
           NEW decimals \in {0, Decimals(v)}, Abs(v) >= 1000,
           NEW left \in Surroundings, NEW right \in Surroundings
    PROVE  LET shown == IF decimals = 0 THEN 100 * Nearest(v, 100) ELSE v
           IN  ValueFoundInText(v * scale, scale, left \o Printed(shown, commas, decimals) \o right)
  <1>1. /\ v \in Int /\ scale \in Nat \ {0} /\ Abs(v) < MaxValue
        /\ left \in Seq(Tokens) /\ right \in Seq(Tokens) /\ (left # <<>> => ~IsRun(Last(left)))
    BY CasesAssumption DEF Tokens
  <1>2. Nearest(v * scale, scale) = v
    BY <1>1, NearestOfMultiple
  <1>3. PICK shown : shown = IF decimals = 0 THEN 100 * Nearest(v, 100) ELSE v
    OBVIOUS
  <1>4. /\ shown \in Int /\ decimals = Decimals(shown) /\ decimals \in 0..2
        /\ Abs(shown) < 10 * MaxValue /\ Abs(shown) >= 1000
    <2>1. CASE decimals = 0
      <3>1. 100 * Nearest(v, 100) \in Int
        BY <1>1, NearestOf100
      <3> QED BY <1>1, <1>3, <2>1, <3>1, NearestOf100
    <2>2. CASE decimals # 0
      BY <1>1, <1>3, <2>2, Widths DEF Decimals, Abs
    <2> QED BY <2>1, <2>2
  <1>5. PICK figure : figure = Printed(shown, commas, decimals)
    OBVIOUS
  <1>6. figure \in Seq(Tokens) /\ Digits(figure) >= 2
    BY <1>4, <1>5, PrintedDigits
  <1>7. figure \in Variants(v * scale, scale)
    <2>1. shown \in {v, 100 * Nearest(v, 100)}
      BY <1>3
    <2> QED BY <1>2, <1>4, <1>5, <2>1 DEF Variants
  <1>8. Occurs(figure, left \o figure \o right)
    BY <1>1, <1>6, OccursBetween
  <1>9. ValueFoundInText(v * scale, scale, left \o figure \o right)
    BY <1>6, <1>7, <1>8 DEF ValueFoundInText
  <1> QED BY <1>3, <1>5, <1>9

\* The gate finds any figure that is printed whole or with all its decimals, at any
\* scale, with or without commas, and whatever stands around it; so a refusal by L3
\* is never for the way a number is written (_value_found_in_text).
THEOREM TruthAlwaysFound == Spec => []TruthIsFound
  <1>1. Init => TruthIsFound
    BY DEF Init, TruthIsFound, None0
  <1>2. TruthIsFound /\ [Next]_case => TruthIsFound'
    <2> SUFFICES ASSUME TruthIsFound, [Next]_case PROVE TruthIsFound'
      OBVIOUS
    <2>1. CASE LookUp
      <3>1. PICK v \in Values, scale \in Scales, commas \in BOOLEAN, decimals \in 0..2,
                 left \in Surroundings, right \in Surroundings :
              case' = [of |-> "lookup", v |-> v, decimals |-> decimals,
                       found |-> ValueFoundInText(v * scale, scale,
                         left \o Printed(IF decimals = 0 THEN 100 * Nearest(v, 100) ELSE v,
                                         commas, decimals) \o right)]
        BY <2>1 DEF LookUp
      <3>2. PICK found : found = ValueFoundInText(v * scale, scale,
                         left \o Printed(IF decimals = 0 THEN 100 * Nearest(v, 100) ELSE v,
                                         commas, decimals) \o right)
        OBVIOUS
      <3>3. case'.v = v /\ case'.decimals = decimals /\ case'.found = found
        BY <3>1, <3>2
      <3>4. decimals \in {0, Decimals(v)} /\ Abs(v) >= 1000 => found
        BY <3>2, FoundBetween
      <3> QED BY <3>3, <3>4 DEF TruthIsFound
    <2>2. CASE ~LookUp /\ Next
      BY <2>2, Kinds DEF TruthIsFound
    <2>3. CASE UNCHANGED case
      BY <2>3 DEF TruthIsFound
    <2> QED BY <2>1, <2>2, <2>3
  <1> QED BY <1>1, <1>2, PTL DEF Spec

(***************************************************************************)
(* Negatives                                                               *)
(***************************************************************************)
\* The leak check looks for every figure of a gold value of three whole digits.
LEMMA NoVariantOverlooked ==
    ASSUME NEW gold \in Golds, gold >= 10000
    PROVE  GoldFigureVariants(gold) = Variants(gold, 1)
  <1>1. gold \in Int /\ Abs(gold) < MaxValue /\ Abs(gold) >= 10000
    BY CasesAssumption DEF Abs
  <1>2. Nearest(gold, 1) = gold
    <2>1. gold * 1 = gold /\ 1 \in Nat \ {0}
      BY <1>1
    <2>2. Nearest(gold * 1, 1) = gold
      BY <1>1, <2>1, NearestOfMultiple
    <2> QED BY <2>1, <2>2
  <1>3. PICK whole : whole = 100 * Nearest(gold, 100)
    OBVIOUS
  <1>4. Variants(gold, 1) = {Printed(x, commas, Decimals(x)) : x \in {gold, whole}, commas \in BOOLEAN}
    <2>1. 100 * 1 = 100
      OBVIOUS
    <2> QED BY <1>2, <1>3, <2>1 DEF Variants
  <1>5. \A x \in {gold, whole} : x \in Int /\ Abs(x) < 10 * MaxValue /\ Abs(x) >= 10000 /\ Decimals(x) \in 0..2
    <2>1. whole \in Int
      BY <1>1, <1>3, NearestOf100
    <2>2. Abs(whole) < 10 * MaxValue /\ Abs(whole) >= 10000
      BY <1>1, <1>3, NearestOf100
    <2>3. Abs(gold) < 10 * MaxValue
      BY <1>1, Widths DEF Abs
    <2>4. \A x : Decimals(x) \in 0..2
      BY DEF Decimals
    <2> QED BY <1>1, <2>1, <2>2, <2>3, <2>4
  <1>6. \A f \in Variants(gold, 1) : Digits(f) >= MinSignificantDigits
    <2> SUFFICES ASSUME NEW x \in {gold, whole}, NEW commas \in BOOLEAN
                 PROVE  Digits(Printed(x, commas, Decimals(x))) >= MinSignificantDigits
      BY <1>4
    <2>1. Digits(Printed(x, commas, Decimals(x))) >= 3
      BY <1>5, PrintedDigits
    <2>2. Digits(Printed(x, commas, Decimals(x))) \in Nat
      BY <1>5, PrintedDigits, DigitsNatural
    <2> QED BY <2>1, <2>2, NegativesAssumption
  <1> QED BY <1>6 DEF GoldFigureVariants

\* SetToSeq lists a set.
LEMMA AllListed ==
    ASSUME NEW S, IsFiniteSet(S)
    PROVE  ToSet(SetToSeq(S)) = S
  <1>1. PICK n : n = Cardinality(S)
    OBVIOUS
  <1>2. n \in Nat /\ \E f : f \in Bijection(1..n, S)
    BY <1>1, FS_CardinalityType DEF ExistsBijection
  <1>3. PICK g : g = SetToSeq(S)
    OBVIOUS
  <1>4. g \in [1..n -> S] /\ IsInjective(g)
    <2>1. \E f \in [1..n -> S] : IsInjective(f)
      BY <1>2 DEF Bijection, Injection
    <2> QED BY <1>1, <1>3, <2>1 DEF SetToSeq
  <1>5. g \in Injection(1..n, S)
    BY <1>4 DEF Injection
  <1>6. Cardinality(1..n) = n
    <2>1. 1 \in Int /\ n \in Int /\ (1 > n <=> n = 0)
      BY <1>2
    <2>2. Cardinality(1..n) = IF 1 > n THEN 0 ELSE n - 1 + 1
      BY <2>1, FS_Interval
    <2> QED BY <1>2, <2>1, <2>2
  <1>7. g \in Surjection(1..n, S)
    BY <1>1, <1>5, <1>6, FS_Injection
  <1>8. {g[i] : i \in 1..n} = S
    BY <1>4, <1>7 DEF Surjection
  <1> QED BY <1>3, <1>4, <1>8 DEF ToSet

\* L3a passes a bare value just when it is found on a page that was cited.
LEMMA PassesIfFound ==
    ASSUME NEW gold \in Int, NEW left, IsFiniteSet(left), NEW pages, NEW scales, NEW scale
    PROVE  BarePasses(gold, scale, left, pages, scales)
             <=> \E c \in left : ValueFoundInText(gold, Unit(scales[c], scale), pages[c])
  <1>1. PICK answer, document :
          /\ answer = [sufficient |-> TRUE, value |-> gold, scale |-> scale,
                       prose |-> FALSE, operands |-> <<>>, citations |-> SetToSeq(left)]
          /\ document = [shown |-> left, chunks |->
               [c \in left |-> [text |-> pages[c], scale |-> scales[c], support |-> 0]]]
    OBVIOUS
  <1>2. /\ answer.value = gold /\ answer.operands = <<>> /\ answer.scale = scale
        /\ answer.citations = SetToSeq(left)
    BY <1>1
  <1>3. /\ document.shown = left
        /\ \A c \in left : document.chunks[c].text = pages[c] /\ document.chunks[c].scale = scales[c]
    BY <1>1
  <1>4. PICK e : e = Evidence(answer, document)
    OBVIOUS
  <1>5. ToSet(answer.citations) = left
    BY <1>2, AllListed
  <1>6. Cited(answer) = left
    <2>1. {answer.operands[i].cites : i \in DOMAIN answer.operands} = {}
      BY <1>2
    <2> QED BY <1>5, <2>1 DEF Cited
  <1>7. e.known = left /\ \A c \in left : e.chunk[c] = document.chunks[c]
    BY <1>3, <1>4, <1>6 DEF Evidence
  <1>8. \A c \in left : ValueFound(answer, c, e) <=> ValueFoundInText(gold, Unit(scales[c], scale), pages[c])
    BY <1>2, <1>3, <1>7 DEF ValueFound, Unit
  <1>9. gold # None /\ "value" # Passed
    BY CasesAssumption DEF Passed
  <1>10. CheckL3a(answer, e) = Passed <=>
            \E c \in ToSet(answer.citations) \cap e.known : ValueFound(answer, c, e)
    BY <1>2, <1>9 DEF CheckL3a
  <1>11. BarePasses(gold, scale, left, pages, scales) <=> CheckL3a(answer, e) = Passed
    BY <1>1, <1>4 DEF BarePasses
  <1> QED BY <1>5, <1>7, <1>8, <1>10, <1>11

\* On a page without the figures that the leak check looks for, what L3a finds is what
\* was overlooked; and for three whole digits, without a scale, nothing was.
LEMMA FoundIfOverlooked ==
    ASSUME NEW gold \in Golds, NEW pages, NEW excluded, ~Leaks(gold, pages, excluded),
           NEW c \in DOMAIN pages \ excluded, NEW unit \in Nat \ {0}
    PROVE  /\ ValueFoundInText(gold, unit, pages[c]) <=> Overlooked(gold, unit, pages[c])
           /\ gold >= 10000 /\ unit = 1 => ~ValueFoundInText(gold, unit, pages[c])
  <1>1. \A f \in GoldFigureVariants(gold) : ~Occurs(f, pages[c])
    BY DEF Leaks
  <1>2. ASSUME NEW f \in Variants(gold, 1)
        PROVE  Digits(f) \in Nat
    <2>1. gold \in Int /\ Abs(gold) < MaxValue /\ gold * 1 = gold /\ 1 \in Nat \ {0} /\ 100 * 1 = 100
      BY CasesAssumption
    <2>2. Nearest(gold, 1) = gold
      <3>1. Nearest(gold * 1, 1) = gold
        BY <2>1, NearestOfMultiple
      <3> QED BY <2>1, <3>1
    <2>3. PICK x \in {gold, 100 * Nearest(gold, 100)}, commas \in BOOLEAN :
            f = Printed(x, commas, Decimals(x))
      BY <2>1, <2>2 DEF Variants
    <2>4. x \in Int /\ Abs(x) < 10 * MaxValue
      <3>1. Abs(gold) < 10 * MaxValue /\ Abs(gold) \in Nat
        BY <2>1, Widths DEF Abs
      <3> QED BY <2>1, <2>3, <3>1, NearestOf100
    <2>5. Decimals(x) \in 0..2
      BY DEF Decimals
    <2> QED BY <2>3, <2>4, <2>5, PrintedDigits, DigitsNatural
  <1>3. CASE unit # 1
    BY <1>3 DEF ValueFoundInText, Overlooked
  <1>4. CASE unit = 1
    <2>1. \A f \in Variants(gold, 1) : Occurs(f, pages[c]) => Digits(f) < MinSignificantDigits
      <3> SUFFICES ASSUME NEW f \in Variants(gold, 1), Occurs(f, pages[c])
                   PROVE  Digits(f) < MinSignificantDigits
        OBVIOUS
      <3>1. ~(Digits(f) >= MinSignificantDigits)
        BY <1>1 DEF GoldFigureVariants
      <3> QED BY <1>2, <3>1, NegativesAssumption
    <2>2. ValueFoundInText(gold, 1, pages[c]) <=> Overlooked(gold, 1, pages[c])
      BY <2>1 DEF ValueFoundInText, Overlooked
    <2>3. gold >= 10000 => ~ValueFoundInText(gold, 1, pages[c])
      BY <1>1, NoVariantOverlooked DEF ValueFoundInText
    <2> QED BY <1>4, <2>2, <2>3
  <1> QED BY <1>3, <1>4

LEMMA ServedWithoutLeak ==
    ASSUME NEW record, NEW docs, NEW served \in BuildN1(record, docs) \cup BuildN2(record, docs)
    PROVE  ~Leaks(record.gold, docs[served.doc].pages, served.ablated)
  <1>1. CASE served \in BuildN1(record, docs)
    <2>1. ~Leaks(record.gold, docs[record.doc].pages, record.evidence)
      BY <1>1 DEF BuildN1
    <2>2. served = [doc |-> record.doc, ablated |-> record.evidence]
      BY <1>1, <2>1 DEF BuildN1, Served
    <2> QED BY <2>1, <2>2
  <1>2. CASE served \in BuildN2(record, docs)
    <2>1. PICK d : ~Leaks(record.gold, docs[d].pages, {}) /\ served = [doc |-> d, ablated |-> {}]
      BY <1>2 DEF BuildN2, Served
    <2> QED BY <2>1
  <1> QED BY <1>1, <1>2

PassesJustOverlooked(gold, pages, left, scales, scale) ==
    LET passes == BarePasses(gold, scale, left, pages, scales)
    IN  /\ passes <=> \E c \in left : Overlooked(gold, Unit(scales[c], scale), pages[c])
        /\ (gold >= 10000 /\ \A c \in left : Unit(scales[c], scale) = 1) => ~passes

LEMMA KeptPassesJustOverlooked ==
    ASSUME NEW gold \in Golds, NEW pages, IsFiniteSet(DOMAIN pages), NEW ablated,
           ~Leaks(gold, pages, ablated), NEW left, left = DOMAIN pages \ ablated,
           NEW scales \in [left -> Scales \cup {None}], NEW scale \in Scales \cup {None}
    PROVE  PassesJustOverlooked(gold, pages, left, scales, scale)
  <1>1. gold \in Int
    BY CasesAssumption
  <1>2. IsFiniteSet(left)
    <2>1. left \in SUBSET DOMAIN pages
      OBVIOUS
    <2> QED BY <2>1, FS_Subset
  <1>3. ASSUME NEW c \in left PROVE Unit(scales[c], scale) \in Nat \ {0}
    <2>1. PICK own : own = scales[c]
      OBVIOUS
    <2>2. own \in Scales \cup {None}
      BY <2>1
    <2>3. Scales \subseteq Nat \ {0} /\ None \notin Int
      BY CasesAssumption
    <2>4. Unit(own, scale) \in Nat \ {0}
      BY <2>2, <2>3 DEF Unit, Multiplier
    <2> QED BY <2>1, <2>4
  <1>4. BarePasses(gold, scale, left, pages, scales)
          <=> \E c \in left : ValueFoundInText(gold, Unit(scales[c], scale), pages[c])
    BY <1>1, <1>2, PassesIfFound
  <1>5. \A c \in left :
          LET unit == Unit(scales[c], scale)
          IN  /\ ValueFoundInText(gold, unit, pages[c]) <=> Overlooked(gold, unit, pages[c])
              /\ gold >= 10000 /\ unit = 1 => ~ValueFoundInText(gold, unit, pages[c])
    BY <1>3, FoundIfOverlooked
  <1> QED BY <1>4, <1>5 DEF PassesJustOverlooked

NegativesJudged ==
    (case.of = "negative" /\ case.checked) =>
        LET pages == case.docs[case.served.doc].pages
            left == DOMAIN pages \ case.served.ablated
        IN  \A scales \in [left -> Scales \cup {None}], scale \in Scales \cup {None} :
                PassesJustOverlooked(case.record.gold, pages, left, scales, scale)

\* A negative that passed the leak check and is answered with the gold value passes L3a
\* just when a cited page shows it in the unit of a scale or in too few digits, whatever
\* the pages and the scales are; so with three whole digits and without a scale it is
\* always refused (leaks_elsewhere against check_l3a_numeric).
THEOREM KeptNegativesAlwaysRefused == Spec => []KeptNegativesRefused
  <1>1. Init => NegativesJudged
    BY DEF Init, NegativesJudged, None0
  <1>2. NegativesJudged /\ [Next]_case => NegativesJudged'
    <2> SUFFICES ASSUME NegativesJudged, [Next]_case PROVE NegativesJudged'
      OBVIOUS
    <2>1. CASE Negative
      <3>1. PICK gold, record, docs, served :
              /\ gold \in Golds /\ record.gold = gold
              /\ IsFiniteSet(DOMAIN docs[served.doc].pages)
              /\ served \in BuildN1(record, docs) \cup BuildN2(record, docs) \cup BuildN0(record, docs)
              /\ case' = [of |-> "negative", record |-> record, docs |-> docs, served |-> served,
                          checked |-> served \notin BuildN0(record, docs)]
        <4>1. PICK gold \in Golds, p \in PageTexts, q \in PageTexts, r \in PageTexts, s \in PageTexts,
                   evidence \in {{1}, {2}} :
              LET docs == [d1 |-> [company |-> "a", pages |-> <<p, q>>],
                           d2 |-> [company |-> "a", pages |-> <<r>>],
                           d3 |-> [company |-> "b", pages |-> <<s>>]]
                  record == [doc |-> "d1", gold |-> gold, evidence |-> evidence]
              IN  \E served \in BuildN1(record, docs) \cup BuildN2(record, docs) \cup BuildN0(record, docs) :
                    case' = [of |-> "negative", record |-> record, docs |-> docs, served |-> served,
                             checked |-> served \notin BuildN0(record, docs)]
          BY <2>1 DEF Negative
        <4>2. PICK record, docs :
                /\ record = [doc |-> "d1", gold |-> gold, evidence |-> evidence]
                /\ docs = [d1 |-> [company |-> "a", pages |-> <<p, q>>],
                           d2 |-> [company |-> "a", pages |-> <<r>>],
                           d3 |-> [company |-> "b", pages |-> <<s>>]]
                /\ \E served \in BuildN1(record, docs) \cup BuildN2(record, docs) \cup BuildN0(record, docs) :
                     case' = [of |-> "negative", record |-> record, docs |-> docs, served |-> served,
                              checked |-> served \notin BuildN0(record, docs)]
          BY <4>1
        <4>3. PICK served \in BuildN1(record, docs) \cup BuildN2(record, docs) \cup BuildN0(record, docs) :
                case' = [of |-> "negative", record |-> record, docs |-> docs, served |-> served,
                         checked |-> served \notin BuildN0(record, docs)]
          BY <4>2
        <4>4. served.doc \in {"d1", "d2", "d3"}
          <5>1. DOMAIN docs = {"d1", "d2", "d3"} /\ record.doc = "d1"
            BY <4>2
          <5>2. \E d \in DOMAIN docs : served.doc = d
            BY <4>3, <5>1 DEF BuildN1, BuildN2, BuildN0, Served
          <5> QED BY <5>1, <5>2
        <4>5. DOMAIN docs[served.doc].pages \in {1..1, 1..2}
          <5>1. /\ docs["d1"].pages = <<p, q>> /\ docs["d2"].pages = <<r>>
                /\ docs["d3"].pages = <<s>>
            BY <4>2
          <5>2. DOMAIN <<p, q>> = 1..2 /\ DOMAIN <<r>> = 1..1 /\ DOMAIN <<s>> = 1..1
            OBVIOUS
          <5>3. CASE served.doc = "d1"
            BY <5>1, <5>2, <5>3
          <5>4. CASE served.doc = "d2"
            BY <5>1, <5>2, <5>4
          <5>5. CASE served.doc = "d3"
            BY <5>1, <5>2, <5>5
          <5> QED BY <4>4, <5>3, <5>4, <5>5
        <4>6. IsFiniteSet(1..1) /\ IsFiniteSet(1..2)
          <5>1. 1 \in Int /\ 2 \in Int
            OBVIOUS
          <5> QED BY <5>1, FS_Interval
        <4> QED BY <4>2, <4>3, <4>5, <4>6
      <3>2. /\ case'.record = record /\ case'.docs = docs /\ case'.served = served
            /\ case'.checked <=> served \notin BuildN0(record, docs)
        BY <3>1
      <3>3. ASSUME served \notin BuildN0(record, docs)
            PROVE  LET pages == docs[served.doc].pages
                       left == DOMAIN pages \ served.ablated
                   IN  \A scales \in [left -> Scales \cup {None}], scale \in Scales \cup {None} :
                            PassesJustOverlooked(gold, pages, left, scales, scale)
        <4>1. ~Leaks(gold, docs[served.doc].pages, served.ablated)
          BY <3>1, <3>3, ServedWithoutLeak
        <4> QED BY <3>1, <4>1, KeptPassesJustOverlooked
      <3> QED BY <3>1, <3>2, <3>3 DEF NegativesJudged
    <2>2. CASE ~Negative /\ Next
      BY <2>2, Kinds DEF NegativesJudged
    <2>3. CASE UNCHANGED case
      BY <2>3 DEF NegativesJudged
    <2> QED BY <2>1, <2>2, <2>3
  <1>3. ASSUME NegativesJudged PROVE KeptNegativesRefused
    <2> DEFINE pages == case.docs[case.served.doc].pages
               left == DOMAIN pages \ case.served.ablated
    <2>1. (case.of = "negative" /\ case.checked) =>
            \A scales \in [left -> Scales \cup {None}], scale \in Scales \cup {None} :
                LET passes == BarePasses(case.record.gold, scale, left, pages, scales)
                IN  /\ passes <=> \E c \in left :
                            Overlooked(case.record.gold, Unit(scales[c], scale), pages[c])
                    /\ (case.record.gold >= 10000 /\ \A c \in left : Unit(scales[c], scale) = 1)
                        => ~passes
      <3> SUFFICES ASSUME case.of = "negative", case.checked,
                          NEW scales \in [left -> Scales \cup {None}], NEW scale \in Scales \cup {None}
                   PROVE  LET passes == BarePasses(case.record.gold, scale, left, pages, scales)
                          IN  /\ passes <=> \E c \in left :
                                    Overlooked(case.record.gold, Unit(scales[c], scale), pages[c])
                              /\ (case.record.gold >= 10000
                                  /\ \A c \in left : Unit(scales[c], scale) = 1) => ~passes
        OBVIOUS
      <3>1. PassesJustOverlooked(case.record.gold, pages, left, scales, scale)
        BY <1>3, Zenon DEF NegativesJudged
      <3> QED BY <3>1 DEF PassesJustOverlooked
    <2> QED BY <2>1, Zenon DEF KeptNegativesRefused
  <1> QED BY <1>1, <1>2, <1>3, PTL DEF Spec

(***************************************************************************)
(* sorted()                                                                *)
(***************************************************************************)
StrictOrder(S, R) ==
    /\ \A c \in S : <<c, c>> \notin R
    /\ \A c, d \in S : c # d => <<c, d>> \in R \/ <<d, c>> \in R
    /\ \A c, d, e \in S : <<c, d>> \in R /\ <<d, e>> \in R => <<c, e>> \in R

InOrder(s, S, R) ==
    /\ s \in [1..Cardinality(S) -> S]
    /\ \A c \in S : \E i \in 1..Cardinality(S) : s[i] = c
    /\ \A i, j \in 1..Cardinality(S) : i < j => <<s[i], s[j]>> \in R
    /\ \A i, j \in 1..Cardinality(S) : s[i] = s[j] => i = j

\* What is sorted by a strict total order holds every item once, in that order.
LEMMA SortedInOrder ==
    ASSUME NEW S, IsFiniteSet(S), NEW R, StrictOrder(S, R)
    PROVE  InOrder(Sorted(S, R), S, R)
  <1> DEFINE before(c) == {d \in S : <<d, c>> \in R}
             n == Cardinality(S)
             g == [c \in S |-> Cardinality(before(c)) + 1]
  <1>1. n \in Nat
    BY FS_CardinalityType
  <1>2. ASSUME NEW c \in S
        PROVE  IsFiniteSet(before(c)) /\ Cardinality(before(c)) \in Nat /\ g[c] \in 1..n
    <2>1. before(c) \in SUBSET S /\ before(c) # S
      BY DEF StrictOrder
    <2>2. /\ IsFiniteSet(before(c)) /\ Cardinality(before(c)) <= n
          /\ n = Cardinality(before(c)) => S = before(c)
      BY <2>1, FS_Subset
    <2>3. Cardinality(before(c)) \in Nat
      BY <2>2, FS_CardinalityType
    <2> QED BY <1>1, <2>1, <2>2, <2>3
  <1>3. ASSUME NEW c \in S, NEW d \in S, <<c, d>> \in R
        PROVE  g[c] < g[d]
    <2>1. before(c) \in SUBSET before(d)
      BY <1>3 DEF StrictOrder
    <2>2. before(c) # before(d)
      <3>1. c \in before(d) /\ c \notin before(c)
        BY <1>3 DEF StrictOrder
      <3> QED BY <3>1
    <2>3. /\ Cardinality(before(c)) <= Cardinality(before(d))
          /\ Cardinality(before(d)) = Cardinality(before(c)) => before(d) = before(c)
      BY <1>2, <2>1, FS_Subset
    <2>4. /\ Cardinality(before(c)) \in Nat /\ Cardinality(before(d)) \in Nat
          /\ g[c] = Cardinality(before(c)) + 1 /\ g[d] = Cardinality(before(d)) + 1
      BY <1>2
    <2> HIDE DEF before, g
    <2> QED BY <2>2, <2>3, <2>4
  <1>4. \A c \in S : g[c] = Cardinality(before(c)) + 1
    OBVIOUS
  <1>5. g \in [S -> 1..n]
    BY <1>2
  <1> HIDE DEF g
  <1>6. g \in Injection(S, 1..n)
    <2>1. ASSUME NEW c \in S, NEW d \in S, g[c] = g[d] PROVE c = d
      <3>1. g[c] \in Int /\ g[d] \in Int
        BY <1>5
      <3>2. c # d => g[c] < g[d] \/ g[d] < g[c]
        BY <1>3 DEF StrictOrder
      <3> QED BY <2>1, <3>1, <3>2
    <2>2. DOMAIN g = S
      BY <1>5
    <2> QED BY <1>5, <2>1, <2>2 DEF Injection, IsInjective
  <1>7. g \in Surjection(S, 1..n)
    <2>1. IsFiniteSet(1..n) /\ Cardinality(1..n) = n
      BY <1>1, FS_Interval
    <2> QED BY <1>6, <2>1, FS_Injection
  <1>8. \A i \in 1..n : \E c \in S : g[c] = i
    BY <1>7 DEF Surjection
  <1> DEFINE s == Sorted(S, R)
  <1>9. DOMAIN s = 1..n /\ s = [i \in 1..n |-> CHOOSE c \in S : Cardinality(before(c)) = i - 1]
    BY DEF Sorted
  <1>10. ASSUME NEW i \in 1..n PROVE s[i] \in S /\ g[s[i]] = i
    <2>1. PICK c \in S : g[c] = i
      BY <1>8
    <2>2. Cardinality(before(c)) = i - 1
      BY <2>1, <1>2, <1>4
    <2>3. s[i] \in S /\ Cardinality(before(s[i])) = i - 1
      BY <1>9, <2>2
    <2>4. g[s[i]] = (i - 1) + 1
      BY <2>3, <1>4
    <2> QED BY <2>3, <2>4
  <1> HIDE DEF s
  <1>11. s \in [1..n -> S]
    BY <1>9, <1>10
  <1>12. ASSUME NEW c \in S PROVE \E i \in 1..n : s[i] = c
    <2>1. g[c] \in 1..n
      BY <1>5
    <2>2. s[g[c]] \in S /\ g[s[g[c]]] = g[c]
      BY <1>10, <2>1
    <2>3. s[g[c]] = c
      BY <1>6, <2>2 DEF Injection, IsInjective
    <2> QED BY <2>1, <2>3
  <1>13. ASSUME NEW i \in 1..n, NEW j \in 1..n, s[i] = s[j] PROVE i = j
    BY <1>10, <1>13
  <1>14. ASSUME NEW i \in 1..n, NEW j \in 1..n, i < j PROVE <<s[i], s[j]>> \in R
    <2>1. s[i] \in S /\ s[j] \in S /\ g[s[i]] = i /\ g[s[j]] = j
      BY <1>10
    <2>2. s[i] # s[j] /\ ~(g[s[j]] < g[s[i]])
      BY <1>14, <2>1
    <2> QED BY <2>1, <2>2, <1>3 DEF StrictOrder
  <1> QED BY <1>11, <1>12, <1>13, <1>14 DEF InOrder, s

\* Falling scores, with places to tell equals apart.
ByPlace(S, atLeast, place) ==
    {p \in S \X S : <<p[1], p[2]>> \in atLeast
                   /\ (<<p[2], p[1]>> \in atLeast => place[p[1]] < place[p[2]])}

LEMMA OrderedByPlace ==
    ASSUME NEW S, NEW atLeast, NEW place,
           \A c, d \in S : <<c, d>> \in atLeast \/ <<d, c>> \in atLeast,
           \A c, d, e \in S : <<c, d>> \in atLeast /\ <<d, e>> \in atLeast => <<c, e>> \in atLeast,
           \A c \in S : place[c] \in Int,
           \A c, d \in S : c # d => place[c] # place[d]
    PROVE  StrictOrder(S, ByPlace(S, atLeast, place))
  <1> DEFINE R == ByPlace(S, atLeast, place)
  <1>1. \A c, d \in S : <<c, d>> \in R <=>
            <<c, d>> \in atLeast /\ (<<d, c>> \in atLeast => place[c] < place[d])
    BY DEF ByPlace
  <1> HIDE DEF R
  <1>2. \A c \in S : <<c, c>> \notin R
    BY <1>1
  <1>3. ASSUME NEW c \in S, NEW d \in S, c # d PROVE <<c, d>> \in R \/ <<d, c>> \in R
    <2>1. place[c] \in Int /\ place[d] \in Int /\ place[c] # place[d]
      BY <1>3
    <2>2. place[c] < place[d] \/ place[d] < place[c]
      BY <2>1
    <2> QED BY <1>1, <2>2
  <1>4. ASSUME NEW c \in S, NEW d \in S, NEW e \in S, <<c, d>> \in R, <<d, e>> \in R
        PROVE  <<c, e>> \in R
    <2>1. <<c, e>> \in atLeast
      BY <1>1, <1>4
    <2>2. ASSUME <<e, c>> \in atLeast PROVE place[c] < place[e]
      <3>1. <<d, c>> \in atLeast /\ <<e, d>> \in atLeast
        BY <1>1, <1>4, <2>2
      <3>2. place[c] < place[d] /\ place[d] < place[e]
        BY <1>1, <1>4, <3>1
      <3> QED BY <3>2
    <2> QED BY <1>1, <2>1, <2>2
  <1>5. StrictOrder(S, R)
    BY <1>2, <1>3, <1>4 DEF StrictOrder
  <1> QED BY <1>5 DEF R

(***************************************************************************)
(* Rankings, fused and cut                                                 *)
(***************************************************************************)
Ranking(s, T) == s \in Seq(T) /\ IsInjective(s)

LEMMA PlaceOf ==
    ASSUME NEW T, NEW s, Ranking(s, T)
    PROVE  /\ Len(s) \in Nat /\ DOMAIN s = 1..Len(s) /\ ToSet(s) \subseteq T
           /\ \A i \in 1..Len(s) : s[i] \in ToSet(s) /\ Place(s, s[i]) = i
           /\ \A c \in ToSet(s) : Place(s, c) \in 1..Len(s) /\ s[Place(s, c)] = c
           /\ \A c : c \notin ToSet(s) => Place(s, c) = Len(s) + 1
  <1>1. s \in Seq(T) /\ Len(s) \in Nat /\ DOMAIN s = 1..Len(s)
    BY DEF Ranking
  <1>2. ToSet(s) \subseteq T /\ \A i \in 1..Len(s) : s[i] \in ToSet(s)
    BY <1>1 DEF ToSet
  <1>3. ASSUME NEW c \in ToSet(s) PROVE Place(s, c) \in 1..Len(s) /\ s[Place(s, c)] = c
    <2>1. \E r \in DOMAIN s : s[r] = c
      BY DEF ToSet
    <2> QED BY <1>1, <2>1 DEF Place
  <1>4. ASSUME NEW i \in 1..Len(s) PROVE Place(s, s[i]) = i
    <2>1. Place(s, s[i]) \in 1..Len(s) /\ s[Place(s, s[i])] = s[i]
      BY <1>2, <1>3
    <2> QED BY <1>1, <2>1 DEF Ranking, IsInjective
  <1>5. \A c : c \notin ToSet(s) => Place(s, c) = Len(s) + 1
    BY DEF Place
  <1> QED BY <1>1, <1>2, <1>3, <1>4, <1>5

\* A ranking is as long as it ranks chunks.
LEMMA RankedOnce ==
    ASSUME NEW T, NEW s, Ranking(s, T)
    PROVE  IsFiniteSet(ToSet(s)) /\ Cardinality(ToSet(s)) = Len(s)
  <1>1. s \in Seq(T) /\ Len(s) \in Nat /\ DOMAIN s = 1..Len(s)
    BY DEF Ranking
  <1>2. s \in Bijection(1..Len(s), ToSet(s))
    <2>1. s \in [1..Len(s) -> ToSet(s)]
      BY <1>1 DEF ToSet
    <2>2. \A c \in ToSet(s) : \E i \in 1..Len(s) : s[i] = c
      BY <1>1 DEF ToSet
    <2> QED BY <2>1, <2>2 DEF Ranking, Bijection, Injection, Surjection
  <1>3. ExistsBijection(1..Len(s), ToSet(s))
    BY <1>2 DEF ExistsBijection
  <1>4. IsFiniteSet(1..Len(s)) /\ Cardinality(1..Len(s)) = Len(s)
    BY <1>1, FS_Interval
  <1> QED BY <1>3, <1>4, FS_Bijection

LEMMA TopOf ==
    ASSUME NEW T, NEW s, Ranking(s, T), NEW n \in Nat
    PROVE  /\ Ranking(Top(s, n), T) /\ Len(Top(s, n)) = Min({n, Len(s)})
           /\ Len(Top(s, n)) <= Len(s) /\ \A i \in 1..Len(Top(s, n)) : Top(s, n)[i] = s[i]
  <1>1. PICK m : m = Min({n, Len(s)})
    OBVIOUS
  <1>2. s \in Seq(T) /\ Len(s) \in Nat /\ DOMAIN s = 1..Len(s)
    BY DEF Ranking
  <1>3. m \in Nat /\ m <= Len(s)
    BY <1>1, <1>2, LeastOfTwo
  <1>4. /\ SubSeq(s, 1, m) \in Seq(T) /\ Len(SubSeq(s, 1, m)) = m
        /\ \A i \in 1..m : SubSeq(s, 1, m)[i] = s[i]
    BY <1>2, <1>3
  <1>5. Top(s, n) = SubSeq(s, 1, m)
    BY <1>1 DEF Top
  <1>6. DOMAIN Top(s, n) = 1..m
    BY <1>4, <1>5
  <1>7. IsInjective(Top(s, n))
    <2> SUFFICES ASSUME NEW i \in 1..m, NEW j \in 1..m, Top(s, n)[i] = Top(s, n)[j] PROVE i = j
      BY <1>6 DEF IsInjective
    <2>1. i \in DOMAIN s /\ j \in DOMAIN s /\ s[i] = s[j]
      BY <1>2, <1>3, <1>4, <1>5
    <2> QED BY <2>1 DEF Ranking, IsInjective
  <1> QED BY <1>1, <1>3, <1>4, <1>5, <1>7 DEF Ranking

LEMMA OrderedIsRanking ==
    ASSUME NEW T, NEW S, S \subseteq T, IsFiniteSet(S), NEW R, NEW s, InOrder(s, S, R)
    PROVE  Ranking(s, T) /\ Len(s) = Cardinality(S) /\ ToSet(s) = S
  <1>1. Cardinality(S) \in Nat
    BY FS_CardinalityType
  <1>2. s \in [1..Cardinality(S) -> S] /\ DOMAIN s = 1..Cardinality(S)
    BY DEF InOrder
  <1>3. s \in Seq(T) /\ Len(s) = Cardinality(S)
    BY <1>1, <1>2
  <1>4. IsInjective(s)
    BY <1>2 DEF InOrder, IsInjective
  <1>5. ToSet(s) = S
    BY <1>2 DEF ToSet, InOrder
  <1> QED BY <1>3, <1>4, <1>5 DEF Ranking

(***************************************************************************)
(* Scores                                                                  *)
(***************************************************************************)
Fractions == {<<a, b>> : a \in Nat, b \in Nat \ {0}}

LEMMA PositiveProduct ==
    ASSUME NEW a \in Nat \ {0}, NEW b \in Nat \ {0}
    PROVE  a * b \in Nat \ {0}
  OBVIOUS

LEMMA FractionsOrdered ==
    ASSUME NEW x \in Fractions, NEW y \in Fractions
    PROVE  /\ AtLeast(x, y) \/ AtLeast(y, x)
           /\ x[1] \in Nat /\ x[2] \in Nat \ {0} /\ x = <<x[1], x[2]>>
  <1>1. PICK a \in Nat, b \in Nat \ {0} : x = <<a, b>>
    BY DEF Fractions
  <1>2. PICK c \in Nat, d \in Nat \ {0} : y = <<c, d>>
    BY DEF Fractions
  <1>3. a * d \in Int /\ c * b \in Int
    OBVIOUS
  <1>4. a * d >= c * b \/ c * b >= a * d
    BY <1>3
  <1> QED BY <1>1, <1>2, <1>4 DEF AtLeast

LEMMA FractionsTransitive ==
    ASSUME NEW x \in Fractions, NEW y \in Fractions, NEW z \in Fractions,
           AtLeast(x, y), AtLeast(y, z)
    PROVE  AtLeast(x, z)
  <1>1. PICK a \in Nat, b \in Nat \ {0} : x = <<a, b>>
    BY DEF Fractions
  <1>2. PICK c \in Nat, d \in Nat \ {0} : y = <<c, d>>
    BY DEF Fractions
  <1>3. PICK e \in Nat, f \in Nat \ {0} : z = <<e, f>>
    BY DEF Fractions
  <1>4. c * b <= a * d /\ e * d <= c * f
    BY <1>1, <1>2, <1>3 DEF AtLeast
  <1>5. (c * b) * f <= (a * d) * f /\ (e * d) * b <= (c * f) * b
    <2>1. c * b \in Int /\ a * d \in Int /\ e * d \in Int /\ c * f \in Int
      OBVIOUS
    <2> QED BY <1>4, <2>1, Cancel
  <1>6. (c * b) * f = (c * f) * b /\ (a * d) * f = (a * f) * d /\ (e * d) * b = (e * b) * d
    OBVIOUS
  <1>7. (e * b) * d <= (a * f) * d
    <2>1. (c * f) * b \in Int /\ (a * f) * d \in Int /\ (e * b) * d \in Int
      OBVIOUS
    <2> QED BY <1>5, <1>6, <2>1
  <1>8. e * b <= a * f
    <2>1. e * b \in Int /\ a * f \in Int
      OBVIOUS
    <2> QED BY <1>7, <2>1, Cancel
  <1> QED BY <1>1, <1>3, <1>8 DEF AtLeast

\* More from each of two, and not the same from both, is more together.
LEMMA SumsOrdered ==
    ASSUME NEW x \in Fractions, NEW y \in Fractions, NEW u \in Fractions, NEW v \in Fractions,
           AtLeast(x, u), AtLeast(y, v), ~AtLeast(u, x) \/ ~AtLeast(v, y)
    PROVE  ~AtLeast(Plus(u, v), Plus(x, y))
  <1>1. PICK a \in Nat, b \in Nat \ {0} : x = <<a, b>>
    BY DEF Fractions
  <1>2. PICK e \in Nat, f \in Nat \ {0} : y = <<e, f>>
    BY DEF Fractions
  <1>3. PICK c \in Nat, d \in Nat \ {0} : u = <<c, d>>
    BY DEF Fractions
  <1>4. PICK g \in Nat, h \in Nat \ {0} : v = <<g, h>>
    BY DEF Fractions
  <1>5. Plus(x, y) = <<a * f + e * b, b * f>> /\ Plus(u, v) = <<c * h + g * d, d * h>>
    BY <1>1, <1>2, <1>3, <1>4 DEF Plus
  <1>6. PICK p, q, r, t : p = a * d /\ q = c * b /\ r = e * h /\ t = g * f
    OBVIOUS
  <1>7. /\ p \in Int /\ q \in Int /\ r \in Int /\ t \in Int
        /\ q <= p /\ t <= r /\ (q < p \/ t < r)
    BY <1>1, <1>2, <1>3, <1>4, <1>6 DEF AtLeast
  <1>8. PICK k, l : k = f * h /\ l = b * d /\ k \in Nat \ {0} /\ l \in Nat \ {0}
    BY PositiveProduct
  <1>9. /\ p * k \in Int /\ q * k \in Int /\ r * l \in Int /\ t * l \in Int
        /\ q * k <= p * k /\ t * l <= r * l
        /\ p * k <= q * k => p <= q
        /\ r * l <= t * l => r <= t
    BY <1>7, <1>8, Cancel
  <1>10. q * k + t * l < p * k + r * l
    BY <1>7, <1>9
  <1>11. /\ (a * f + e * b) * (d * h) = (a * d) * (f * h) + (e * h) * (b * d)
         /\ (c * h + g * d) * (b * f) = (c * b) * (f * h) + (g * f) * (b * d)
    OBVIOUS
  <1>12. ~((c * h + g * d) * (b * f) >= (a * f + e * b) * (d * h))
    BY <1>6, <1>8, <1>9, <1>10, <1>11
  <1> QED BY <1>5, <1>12 DEF AtLeast

LEMMA SumIsFraction ==
    ASSUME NEW x \in Fractions, NEW y \in Fractions
    PROVE  Plus(x, y) \in Fractions
  <1>1. PICK a \in Nat, b \in Nat \ {0} : x = <<a, b>>
    BY DEF Fractions
  <1>2. PICK e \in Nat, f \in Nat \ {0} : y = <<e, f>>
    BY DEF Fractions
  <1>3. a * f + e * b \in Nat /\ b * f \in Nat \ {0}
    BY PositiveProduct
  <1> QED BY <1>1, <1>2, <1>3 DEF Plus, Fractions

\* A chunk further up has the greater share of a ranking, and those that are missing none.
LEMMA SharesFollowPlaces ==
    ASSUME NEW T, NEW s, Ranking(s, T), NEW a, NEW b
    PROVE  /\ ShareIn(s, a) \in Fractions
           /\ Place(s, a) <= Place(s, b) => AtLeast(ShareIn(s, a), ShareIn(s, b))
           /\ Place(s, a) < Place(s, b) => ~AtLeast(ShareIn(s, b), ShareIn(s, a))
  <1>1. RrfK \in Nat
    BY RetrievalAssumption
  <1>2. PICK n, i, j : n = Len(s) /\ i = Place(s, a) /\ j = Place(s, b)
    OBVIOUS
  <1>3. /\ n \in Nat
        /\ a \in ToSet(s) => i \in 1..n
        /\ a \notin ToSet(s) => i = n + 1
        /\ b \in ToSet(s) => j \in 1..n
        /\ b \notin ToSet(s) => j = n + 1
    BY <1>2, PlaceOf
  <1>4. /\ ShareIn(s, a) = IF a \in ToSet(s) THEN <<1, RrfK + i>> ELSE <<0, 1>>
        /\ ShareIn(s, b) = IF b \in ToSet(s) THEN <<1, RrfK + j>> ELSE <<0, 1>>
    BY <1>2 DEF ShareIn
  <1>5. CASE a \in ToSet(s) /\ b \in ToSet(s)
    <2>1. RrfK + i \in Nat \ {0} /\ RrfK + j \in Nat \ {0} /\ i \in Nat /\ j \in Nat
      BY <1>1, <1>3, <1>5
    <2>2. /\ AtLeast(ShareIn(s, a), ShareIn(s, b)) <=> RrfK + j >= RrfK + i
          /\ AtLeast(ShareIn(s, b), ShareIn(s, a)) <=> RrfK + i >= RrfK + j
      BY <1>4, <1>5, <2>1 DEF AtLeast
    <2>3. ShareIn(s, a) \in Fractions
      BY <1>4, <1>5, <2>1 DEF Fractions
    <2> QED BY <1>1, <1>2, <2>1, <2>2, <2>3
  <1>6. CASE a \in ToSet(s) /\ b \notin ToSet(s)
    <2>1. RrfK + i \in Nat \ {0}
      BY <1>1, <1>3, <1>6
    <2>2. AtLeast(ShareIn(s, a), ShareIn(s, b)) /\ ~AtLeast(ShareIn(s, b), ShareIn(s, a))
      BY <1>4, <1>6, <2>1 DEF AtLeast
    <2>3. ShareIn(s, a) \in Fractions
      BY <1>4, <1>6, <2>1 DEF Fractions
    <2> QED BY <2>2, <2>3
  <1>7. CASE a \notin ToSet(s)
    <2>1. ShareIn(s, a) \in Fractions
      BY <1>4, <1>7 DEF Fractions
    <2>2. ~(Place(s, a) < Place(s, b))
      BY <1>2, <1>3, <1>7
    <2>3. Place(s, a) <= Place(s, b) => b \notin ToSet(s)
      BY <1>2, <1>3, <1>7
    <2>4. b \notin ToSet(s) => AtLeast(ShareIn(s, a), ShareIn(s, b))
      BY <1>4, <1>7 DEF AtLeast
    <2> QED BY <2>1, <2>2, <2>3, <2>4
  <1> QED BY <1>5, <1>6, <1>7

Scoring(dense, sparse) ==
    LET chunks == ToSet(dense) \cup ToSet(sparse)
    IN  {p \in chunks \X chunks : AtLeast(Score(dense, sparse, p[1]), Score(dense, sparse, p[2]))}
Seen(dense, sparse) == [c \in ToSet(dense) \cup ToSet(sparse) |-> FirstSeen(dense, sparse, c)]
FusedOrder(dense, sparse) ==
    ByPlace(ToSet(dense) \cup ToSet(sparse), Scoring(dense, sparse), Seen(dense, sparse))

LEMMA FusedInOrder ==
    ASSUME NEW T, NEW dense, NEW sparse, Ranking(dense, T), Ranking(sparse, T)
    PROVE  /\ InOrder(RrfFuse(dense, sparse), ToSet(dense) \cup ToSet(sparse), FusedOrder(dense, sparse))
           /\ \A a, b \in ToSet(dense) \cup ToSet(sparse) :
                <<a, b>> \in FusedOrder(dense, sparse) => AtLeast(Score(dense, sparse, a), Score(dense, sparse, b))
  <1> DEFINE chunks == ToSet(dense) \cup ToSet(sparse)
             scoring == Scoring(dense, sparse)
             seen == Seen(dense, sparse)
  <1>1. \A a, b \in chunks : <<a, b>> \in scoring <=> AtLeast(Score(dense, sparse, a), Score(dense, sparse, b))
    BY DEF Scoring
  <1>2. \A a : Score(dense, sparse, a) \in Fractions
    BY SharesFollowPlaces, SumIsFraction DEF Score
  <1>3. \A a, b \in chunks : <<a, b>> \in scoring \/ <<b, a>> \in scoring
    BY <1>1, <1>2, FractionsOrdered
  <1>4. \A a, b, c \in chunks : <<a, b>> \in scoring /\ <<b, c>> \in scoring => <<a, c>> \in scoring
    <2> SUFFICES ASSUME NEW a \in chunks, NEW b \in chunks, NEW c \in chunks,
                        <<a, b>> \in scoring, <<b, c>> \in scoring
                 PROVE  <<a, c>> \in scoring
      OBVIOUS
    <2> HIDE DEF chunks, scoring
    <2> QED BY <1>1, <1>2, FractionsTransitive
  <1>5. ASSUME NEW a \in chunks
        PROVE  /\ seen[a] \in Int
               /\ a \in ToSet(dense) => seen[a] \in 1..Len(dense) /\ seen[a] = Place(dense, a)
               /\ a \notin ToSet(dense) => seen[a] > Len(dense) /\ seen[a] = Len(dense) + Place(sparse, a)
    <2>1. seen[a] = FirstSeen(dense, sparse, a)
      BY DEF Seen
    <2>2. Len(dense) \in Nat /\ Len(sparse) \in Nat
      BY PlaceOf
    <2>3. CASE a \in ToSet(dense)
      BY <2>1, <2>2, <2>3, PlaceOf DEF FirstSeen
    <2>4. CASE a \notin ToSet(dense)
      <3>1. Place(sparse, a) \in 1..Len(sparse)
        BY <2>4, PlaceOf
      <3> QED BY <2>1, <2>2, <2>4, <3>1 DEF FirstSeen
    <2> QED BY <2>3, <2>4
  <1>6. ASSUME NEW a \in chunks, NEW b \in chunks, seen[a] = seen[b]
        PROVE  a = b
    <2>1. Len(dense) \in Nat /\ seen[a] \in Int /\ seen[b] \in Int
      BY <1>5, PlaceOf
    <2>2. CASE a \in ToSet(dense)
      <3>1. b \in ToSet(dense)
        BY <1>5, <1>6, <2>1, <2>2
      <3>2. Place(dense, a) = Place(dense, b)
        BY <1>5, <1>6, <2>2, <3>1
      <3> QED BY <2>2, <3>1, <3>2, PlaceOf
    <2>3. CASE a \notin ToSet(dense)
      <3>1. b \notin ToSet(dense)
        BY <1>5, <1>6, <2>1, <2>3
      <3>2. a \in ToSet(sparse) /\ b \in ToSet(sparse)
        BY <2>3, <3>1
      <3>3. Place(sparse, a) \in Int /\ Place(sparse, b) \in Int
        BY <3>2, PlaceOf
      <3>4. Place(sparse, a) = Place(sparse, b)
        <4>1. Len(dense) + Place(sparse, a) = Len(dense) + Place(sparse, b)
          BY <1>5, <1>6, <2>3, <3>1
        <4> QED BY <2>1, <3>3, <4>1
      <3> QED BY <3>2, <3>4, PlaceOf
    <2> QED BY <2>2, <2>3
  <1>7. IsFiniteSet(chunks) /\ chunks \subseteq T
    BY RankedOnce, PlaceOf, FS_Union
  <1>8. RrfFuse(dense, sparse) = Sorted(chunks, FusedOrder(dense, sparse))
    BY DEF RrfFuse, SortedBy, FusedOrder, ByPlace, Scoring, Seen
  <1>9. \A a, b \in chunks : <<a, b>> \in FusedOrder(dense, sparse) => <<a, b>> \in scoring
    BY DEF FusedOrder, ByPlace
  <1>10. StrictOrder(chunks, FusedOrder(dense, sparse))
    <2>1. FusedOrder(dense, sparse) = ByPlace(chunks, scoring, seen)
      BY DEF FusedOrder
    <2>2. \A a \in chunks : seen[a] \in Int
      BY <1>5
    <2>3. \A a, b \in chunks : a # b => seen[a] # seen[b]
      BY <1>6
    <2> HIDE DEF chunks, scoring, seen
    <2> QED BY <1>3, <1>4, <2>1, <2>2, <2>3, OrderedByPlace
  <1> HIDE DEF chunks, scoring, seen
  <1>11. InOrder(RrfFuse(dense, sparse), chunks, FusedOrder(dense, sparse))
    BY <1>7, <1>8, <1>10, SortedInOrder
  <1> QED BY <1>1, <1>9, <1>11 DEF chunks

LEMMA FusedIsRanking ==
    ASSUME NEW T, NEW dense, NEW sparse, Ranking(dense, T), Ranking(sparse, T)
    PROVE  /\ Ranking(RrfFuse(dense, sparse), T)
           /\ ToSet(RrfFuse(dense, sparse)) = ToSet(dense) \cup ToSet(sparse)
  <1> DEFINE chunks == ToSet(dense) \cup ToSet(sparse)
  <1>1. IsFiniteSet(chunks) /\ chunks \subseteq T
    BY RankedOnce, PlaceOf, FS_Union
  <1>2. InOrder(RrfFuse(dense, sparse), chunks, FusedOrder(dense, sparse))
    BY FusedInOrder
  <1> HIDE DEF chunks
  <1>3. Ranking(RrfFuse(dense, sparse), T) /\ ToSet(RrfFuse(dense, sparse)) = chunks
    BY <1>1, <1>2, OrderedIsRanking
  <1> QED BY <1>3 DEF chunks

\* The fusion holds every chunk once and follows the rankers where they agree.
LEMMA FusionRespects ==
    ASSUME NEW T, NEW dense, NEW sparse, Ranking(dense, T), Ranking(sparse, T)
    PROVE  RespectsRankers(dense, sparse, RrfFuse(dense, sparse))
  <1>1. PICK fused, together :
          fused = RrfFuse(dense, sparse) /\ together = ToSet(dense) \cup ToSet(sparse)
    OBVIOUS
  <1>2. Ranking(fused, T) /\ ToSet(fused) = ToSet(dense) \cup ToSet(sparse)
    <2>1. Ranking(fused, T)
      BY <1>1, FusedIsRanking
    <2>2. ToSet(fused) = together
      BY <1>1, FusedIsRanking
    <2> QED BY <1>1, <2>1, <2>2
  <1>3. ASSUME NEW a \in ToSet(fused), NEW b \in ToSet(fused), a # b,
               Place(dense, a) <= Place(dense, b), Place(sparse, a) <= Place(sparse, b)
        PROVE  Place(fused, a) < Place(fused, b)
    <2>1. Place(dense, a) < Place(dense, b) \/ Place(sparse, a) < Place(sparse, b)
      <3>1. /\ Place(dense, a) \in Nat /\ Place(dense, b) \in Nat
            /\ Place(sparse, a) \in Nat /\ Place(sparse, b) \in Nat
        <4>1. \A s \in {dense, sparse} : \A c : Place(s, c) \in Nat
          <5> SUFFICES ASSUME NEW s \in {dense, sparse}, NEW c PROVE Place(s, c) \in Nat
            OBVIOUS
          <5>1. Ranking(s, T)
            OBVIOUS
          <5>2. Len(s) \in Nat /\ (c \in ToSet(s) => Place(s, c) \in 1..Len(s))
                /\ (c \notin ToSet(s) => Place(s, c) = Len(s) + 1)
            BY <5>1, PlaceOf
          <5> QED BY <5>2
        <4> QED BY <4>1
      <3>2. ASSUME NEW s, Ranking(s, T), a \in ToSet(s), Place(s, a) = Place(s, b) PROVE FALSE
        <4>1. b \in ToSet(s)
          <5>1. Len(s) \in Nat /\ Place(s, a) \in 1..Len(s) /\ (b \notin ToSet(s) => Place(s, b) = Len(s) + 1)
            BY <3>2, PlaceOf
          <5> QED BY <3>2, <5>1
        <4> QED BY <1>3, <3>2, <4>1, PlaceOf
      <3>3. a \in ToSet(dense) \/ a \in ToSet(sparse)
        BY <1>2, <1>3
      <3> QED BY <1>3, <3>1, <3>2, <3>3
    <2>2. PICK x, y, u, v : /\ x = ShareIn(dense, a) /\ y = ShareIn(sparse, a)
                            /\ u = ShareIn(dense, b) /\ v = ShareIn(sparse, b)
      OBVIOUS
    <2>3. /\ x \in Fractions /\ y \in Fractions /\ u \in Fractions /\ v \in Fractions
          /\ AtLeast(x, u) /\ AtLeast(y, v) /\ (~AtLeast(u, x) \/ ~AtLeast(v, y))
      BY <1>3, <2>1, <2>2, SharesFollowPlaces
    <2>4. ~AtLeast(Plus(u, v), Plus(x, y))
      BY <2>3, SumsOrdered
    <2>5. ~AtLeast(Score(dense, sparse, b), Score(dense, sparse, a))
      BY <2>2, <2>4 DEF Score
    <2>6. <<b, a>> \notin FusedOrder(dense, sparse)
      BY <1>2, <1>3, <2>5, FusedInOrder
    <2>7. PICK i, j : i = Place(fused, a) /\ j = Place(fused, b)
      OBVIOUS
    <2>8. i \in 1..Len(fused) /\ j \in 1..Len(fused) /\ fused[i] = a /\ fused[j] = b /\ Len(fused) \in Nat
      BY <1>2, <1>3, <2>7, PlaceOf
    <2>9. ~(j < i)
      <3>1. InOrder(fused, ToSet(fused), FusedOrder(dense, sparse))
        BY <1>1, <1>2, FusedInOrder
      <3>2. Cardinality(ToSet(fused)) = Len(fused)
        BY <1>2, RankedOnce
      <3> QED BY <2>6, <2>8, <3>1, <3>2 DEF InOrder
    <2> QED BY <1>3, <2>7, <2>8, <2>9
  <1> QED BY <1>1, <1>2, <1>3 DEF RespectsRankers, Ranking

CrossOrder(candidates, cross) ==
    LET chunks == ToSet(candidates)
    IN  ByPlace(chunks, {p \in chunks \X chunks : cross[p[1]] >= cross[p[2]]},
                [c \in chunks |-> Place(candidates, c)])

LEMMA RerankedInOrder ==
    ASSUME NEW cross, \A c \in DOMAIN cross : cross[c] \in Int,
           NEW candidates, Ranking(candidates, DOMAIN cross)
    PROVE  /\ InOrder(Reranked(candidates, cross), ToSet(candidates), CrossOrder(candidates, cross))
           /\ Ranking(Reranked(candidates, cross), DOMAIN cross)
           /\ ToSet(Reranked(candidates, cross)) = ToSet(candidates)
           /\ Len(Reranked(candidates, cross)) = Len(candidates)
           /\ \A a, b \in ToSet(candidates) :
                <<a, b>> \in CrossOrder(candidates, cross) => cross[a] >= cross[b]
  <1> DEFINE chunks == ToSet(candidates)
             scoring == {p \in chunks \X chunks : cross[p[1]] >= cross[p[2]]}
             place == [c \in chunks |-> Place(candidates, c)]
  <1>1. /\ chunks \subseteq DOMAIN cross /\ IsFiniteSet(chunks)
        /\ Cardinality(chunks) = Len(candidates)
    BY PlaceOf, RankedOnce
  <1>2. \A a \in chunks : cross[a] \in Int
    BY <1>1
  <1>3. \A a, b \in chunks : <<a, b>> \in scoring <=> cross[a] >= cross[b]
    OBVIOUS
  <1>4. \A a \in chunks : place[a] \in Int /\ place[a] \in 1..Len(candidates) /\ candidates[place[a]] = a
    BY PlaceOf
  <1>5. CrossOrder(candidates, cross) = ByPlace(chunks, scoring, place)
    BY DEF CrossOrder
  <1>6. \A a, b \in chunks : <<a, b>> \in CrossOrder(candidates, cross) => cross[a] >= cross[b]
    BY <1>5 DEF ByPlace
  <1>7. Reranked(candidates, cross) = Sorted(chunks, CrossOrder(candidates, cross))
    BY DEF Reranked, SortedBy, CrossOrder, ByPlace
  <1> HIDE DEF chunks, scoring, place
  <1>8. StrictOrder(chunks, CrossOrder(candidates, cross))
    <2>1. \A a, b \in chunks : <<a, b>> \in scoring \/ <<b, a>> \in scoring
      <3> SUFFICES ASSUME NEW a \in chunks, NEW b \in chunks
                   PROVE  <<a, b>> \in scoring \/ <<b, a>> \in scoring
        OBVIOUS
      <3>1. cross[a] \in Int /\ cross[b] \in Int
        BY <1>2
      <3>2. cross[a] >= cross[b] \/ cross[b] >= cross[a]
        BY <3>1
      <3> QED BY <1>3, <3>2
    <2>2. \A a, b, c \in chunks : <<a, b>> \in scoring /\ <<b, c>> \in scoring => <<a, c>> \in scoring
      BY <1>2, <1>3
    <2>3. \A a, b \in chunks : a # b => place[a] # place[b]
      BY <1>4
    <2>4. \A a \in chunks : place[a] \in Int
      BY <1>4
    <2> QED BY <1>5, <2>1, <2>2, <2>3, <2>4, OrderedByPlace
  <1>9. InOrder(Reranked(candidates, cross), chunks, CrossOrder(candidates, cross))
    BY <1>1, <1>7, <1>8, SortedInOrder
  <1>10. /\ Ranking(Reranked(candidates, cross), DOMAIN cross)
         /\ Len(Reranked(candidates, cross)) = Cardinality(chunks)
         /\ ToSet(Reranked(candidates, cross)) = chunks
    BY <1>1, <1>9, OrderedIsRanking
  <1> QED BY <1>1, <1>6, <1>9, <1>10 DEF chunks

\* As many as there may be, the best first, and none better left out.
LEMMA BestServed ==
    ASSUME NEW cross, \A c \in DOMAIN cross : cross[c] \in Int, NEW dense, NEW sparse,
           Ranking(dense, DOMAIN cross), Ranking(sparse, DOMAIN cross)
    PROVE  ServesBest(dense, sparse, cross, HybridRetrieve(dense, sparse, cross))
  <1>1. RrfTopN \in Nat /\ RerankTopK \in Nat
    BY RetrievalAssumption
  <1>2. PICK candidates : candidates = Candidates(dense, sparse)
    OBVIOUS
  <1>3. Ranking(candidates, DOMAIN cross)
    BY <1>1, <1>2, FusedIsRanking, TopOf DEF Candidates
  <1>4. PICK reranked : reranked = Reranked(candidates, cross)
    OBVIOUS
  <1>5. /\ InOrder(reranked, ToSet(candidates), CrossOrder(candidates, cross))
        /\ Ranking(reranked, DOMAIN cross) /\ ToSet(reranked) = ToSet(candidates)
        /\ Len(reranked) = Len(candidates)
        /\ \A a, b \in ToSet(candidates) :
             <<a, b>> \in CrossOrder(candidates, cross) => cross[a] >= cross[b]
    BY <1>3, <1>4, RerankedInOrder
  <1>6. PICK served : served = Top(reranked, RerankTopK)
    OBVIOUS
  <1>7. /\ Ranking(served, DOMAIN cross) /\ Len(served) = Min({RerankTopK, Len(reranked)})
        /\ Len(served) <= Len(reranked) /\ \A i \in 1..Len(served) : served[i] = reranked[i]
    BY <1>1, <1>5, <1>6, TopOf
  <1>8. /\ Len(served) \in Nat /\ Len(reranked) \in Nat /\ DOMAIN served = 1..Len(served)
        /\ DOMAIN reranked = 1..Len(reranked)
    BY <1>5, <1>7, PlaceOf
  <1> DEFINE n == Len(served)
             m == Len(reranked)
  <1>81. n \in Nat /\ m \in Nat /\ n <= m /\ DOMAIN served = 1..n /\ DOMAIN reranked = 1..m
    BY <1>7, <1>8
  <1>82. \A i \in 1..n : served[i] = reranked[i]
    BY <1>7
  <1> HIDE DEF n, m
  <1>83. \A i \in 1..n : i \in 1..m
    BY <1>81
  <1>9. \A i, j \in 1..Len(reranked) : i < j => cross[reranked[i]] >= cross[reranked[j]]
    <2>1. Cardinality(ToSet(candidates)) = Len(reranked)
      BY <1>3, <1>5, RankedOnce
    <2>2. \A i \in 1..Len(reranked) : reranked[i] \in ToSet(candidates)
      BY <1>5, PlaceOf
    <2> QED BY <1>5, <2>1, <2>2 DEF InOrder
  <1>90. \A i, j \in 1..m : i < j => cross[reranked[i]] >= cross[reranked[j]]
    BY <1>9 DEF m
  <1>10. ToSet(served) \subseteq ToSet(candidates)
    <2> SUFFICES ASSUME NEW c \in ToSet(served) PROVE c \in ToSet(candidates)
      OBVIOUS
    <2>1. PICK i \in 1..n : served[i] = c
      BY <1>81 DEF ToSet
    <2>2. i \in DOMAIN reranked /\ reranked[i] = c
      BY <1>81, <1>82, <1>83, <2>1
    <2>3. reranked[i] \in ToSet(reranked)
      BY <2>2 DEF ToSet
    <2> QED BY <1>5, <2>2, <2>3
  <1>11. \A i, j \in DOMAIN served : i < j => cross[served[i]] >= cross[served[j]]
    BY <1>81, <1>82, <1>83, <1>90
  <1>12. ASSUME NEW a \in ToSet(served), NEW b \in ToSet(candidates) \ ToSet(served)
         PROVE  cross[a] >= cross[b]
    <2>1. PICK i \in 1..n : served[i] = a
      BY <1>81 DEF ToSet
    <2>2. b \in ToSet(reranked)
      BY <1>5
    <2>3. PICK j \in 1..m : reranked[j] = b
      BY <1>81, <2>2 DEF ToSet
    <2>4. j \notin 1..n
      <3> SUFFICES ASSUME j \in 1..n PROVE FALSE
        OBVIOUS
      <3>1. j \in DOMAIN served /\ served[j] = b
        BY <1>81, <1>82, <2>3
      <3>2. b \in ToSet(served)
        BY <3>1 DEF ToSet
      <3> QED BY <3>2
    <2>5. i \in 1..m /\ i < j
      BY <1>81, <1>83, <2>4
    <2>6. reranked[i] = a
      BY <1>82, <2>1
    <2> QED BY <1>90, <2>3, <2>5, <2>6
  <1>13. HybridRetrieve(dense, sparse, cross) = served
    BY <1>2, <1>4, <1>6 DEF HybridRetrieve
  <1>14. Len(served) = Min({RerankTopK, Len(candidates)})
    BY <1>5, <1>7
  <1> QED BY <1>2, <1>7, <1>10, <1>11, <1>12, <1>13, <1>14 DEF ServesBest, Ranking

\* What Retrieve leaves.
Fused(now) ==
    now.of = "retrieve" =>
        /\ RespectsRankers(now.dense, now.sparse, now.fused)
        /\ ServesBest(now.dense, now.sparse, now.cross, now.served)

LEMMA RetrievedWell == Spec => []Fused(case)
  <1>1. Init => Fused(case)
    BY DEF Init, Fused, None0
  <1>2. Fused(case) /\ [Next]_case => Fused(case)'
    <2> SUFFICES ASSUME Fused(case), [Next]_case PROVE Fused(case')
      OBVIOUS
    <2>1. CASE Retrieve
      <3>1. PICK dense \in Rankings, sparse \in Rankings, cross \in CrossScores :
              case' = [of |-> "retrieve", dense |-> dense, sparse |-> sparse, cross |-> cross,
                       fused |-> RrfFuse(dense, sparse),
                       served |-> HybridRetrieve(dense, sparse, cross)]
        BY <2>1 DEF Retrieve
      <3>2. /\ case'.dense = dense /\ case'.sparse = sparse /\ case'.cross = cross
            /\ case'.fused = RrfFuse(dense, sparse)
            /\ case'.served = HybridRetrieve(dense, sparse, cross)
        BY <3>1
      <3>3. /\ Ranking(dense, DOMAIN cross) /\ Ranking(sparse, DOMAIN cross)
            /\ \A c \in DOMAIN cross : cross[c] \in Int
        BY CasesAssumption DEF Ranking
      <3> QED BY <3>2, <3>3, FusionRespects, BestServed DEF Fused
    <2>2. CASE ~Retrieve /\ Next
      BY <2>2, Kinds DEF Fused
    <2>3. CASE UNCHANGED case
      BY <2>3
    <2> QED BY <2>1, <2>2, <2>3
  <1> QED BY <1>1, <1>2, PTL DEF Spec

\* The fused ranking holds every chunk of the two once and never turns around what both
\* rankers agree on, for any rankings (rrf_fuse).
THEOREM FusionFollowsRankers == Spec => []FusionRespectsRankers
  <1>1. Fused(case) => FusionRespectsRankers
    BY DEF Fused, FusionRespectsRankers
  <1> QED BY <1>1, RetrievedWell, PTL

\* The model is shown the best candidates, best first, whatever the rankings and the
\* scores (hybrid_retrieve_scored).
THEOREM BestAlwaysServed == Spec => []BestAreServed
  <1>1. Fused(case) => BestAreServed
    BY DEF Fused, BestAreServed
  <1> QED BY <1>1, RetrievedWell, PTL

(***************************************************************************)
(* The sweep over the margins                                              *)
(***************************************************************************)
IsCached(raws) == \E splits \in Replays : \E split \in DOMAIN splits : raws = splits[split]
MarginAt(raws, i) == Margin(raws[i].scores)
Grounds(raws, i) == AnsweredAt(raws, "L2+L3", i)

\* What a point of the sweep covers: what L2 and L3 let through, from a margin upwards.
Covered(raws, threshold) ==
    {i \in Scored(raws) : threshold <= MarginAt(raws, i) /\ Grounds(raws, i)}

LEMMA ScoresAreNumbers ==
    ASSUME NEW raws, IsCached(raws)
    PROVE  /\ IsFiniteSet(Scored(raws)) /\ Scored(raws) \subseteq DOMAIN raws
           /\ \A i \in Scored(raws) : MarginAt(raws, i) \in Int
  <1>0. PICK splits \in Replays : \E split \in DOMAIN splits : raws = splits[split]
    BY DEF IsCached
  <1>1. Scored(raws) \in SUBSET DOMAIN raws
    BY DEF Scored
  <1>2. IsFiniteSet(DOMAIN raws)
    BY <1>0, CasesAssumption
  <1>3. ASSUME NEW i \in Scored(raws) PROVE MarginAt(raws, i) \in Int
    <2>1. PICK a, b : a = raws[i].scores.top1 /\ b = raws[i].scores.top2
      OBVIOUS
    <2>2. a \in Int \cup {None} /\ b \in Int \cup {None}
      BY <1>0, <1>1, <2>1, CasesAssumption
    <2>3. a \in Int /\ a # None
      BY <2>1, <2>2 DEF Scored
    <2>4. MarginAt(raws, i) = a - (IF b = None THEN 0 ELSE b)
      BY <2>1 DEF MarginAt, Margin
    <2> QED BY <2>2, <2>3, <2>4
  <1> QED BY <1>1, <1>2, <1>3, FS_Subset

LEMMA RowsAnswered ==
    ASSUME NEW raws, IsCached(raws), NEW t \in Int, NEW i \in DOMAIN raws
    PROVE  /\ Rows(raws, "L2+L3", 0)[i].answered <=> Grounds(raws, i)
           /\ Rows(raws, "L1+L2+L3", t)[i].answered <=> i \in Covered(raws, t)
  <1>1. /\ Layers("L2+L3") = {"L2", "L3"} /\ Layers("L1+L2+L3") = {"L1", "L2", "L3"}
    BY DEF Layers
  <1>2. PICK raw, e : raw = raws[i] /\ e = Evidence(raw.answer, raw.document)
    OBVIOUS
  <1>3. /\ Rows(raws, "L2+L3", 0)[i] = GradeOne(raw, Decide(raw, {"L2", "L3"}, 0, 0))
        /\ Rows(raws, "L1+L2+L3", t)[i] = GradeOne(raw, Decide(raw, {"L1", "L2", "L3"}, 0, t))
    BY <1>1, <1>2 DEF Rows
  <1>4. \A v : GradeOne(raw, v).answered <=> (v = Passed /\ HasContent(raw.answer))
    BY DEF GradeOne
  <1>5. Grounds(raws, i) <=> (Decide(raw, {"L2", "L3"}, 0, 0) = Passed /\ HasContent(raw.answer))
    BY <1>1, <1>2 DEF Grounds, AnsweredAt
  <1>6. Decide(raw, {"L1", "L2", "L3"}, 0, t) = Passed <=>
            CheckL1(raw.scores, t) = Passed /\ Decide(raw, {"L2", "L3"}, 0, 0) = Passed
    <2>1. \A layers, l1 : Decide(raw, layers, 0, l1) = ApplyGate(raw.answer, e, layers, raw.scores, l1, 0)
      BY <1>2 DEF Decide
    <2>2. PICK l2, l3 : /\ l2 <=> CheckL2(raw.answer, e) = Passed
                        /\ l3 <=> CheckL3a(raw.answer, e) = Passed /\ CheckL3b(raw.answer, e, 0) = Passed
      OBVIOUS
    <2>3. ApplyGate(raw.answer, e, {"L1", "L2", "L3"}, raw.scores, t, 0) = Passed <=>
            CheckL1(raw.scores, t) = Passed /\ l2 /\ l3
      BY <2>2, EveryLayer
    <2>4. ApplyGate(raw.answer, e, {"L2", "L3"}, raw.scores, 0, 0) = Passed <=> l2 /\ l3
      BY <2>2, EveryLayer
    <2> QED BY <2>1, <2>3, <2>4
  <1>7. CheckL1(raw.scores, t) = Passed <=> i \in Scored(raws) /\ t <= MarginAt(raws, i)
    <2>1. i \in Scored(raws) <=> raw.scores.top1 # None
      BY <1>2 DEF Scored
    <2>2. CASE raw.scores.top1 = None
      BY <2>1, <2>2 DEF CheckL1, Passed
    <2>3. CASE raw.scores.top1 # None
      <3>1. MarginAt(raws, i) \in Int /\ MarginAt(raws, i) = Margin(raw.scores)
        BY <1>2, <2>1, <2>3, ScoresAreNumbers DEF MarginAt
      <3>2. CheckL1(raw.scores, t) = IF Margin(raw.scores) < t THEN "margin" ELSE Passed
        BY <2>3 DEF CheckL1
      <3>3. "margin" # Passed
        BY DEF Passed
      <3> QED BY <2>1, <2>3, <3>1, <3>2, <3>3
    <2> QED BY <2>2, <2>3
  <1>8. i \in Covered(raws, t) <=> i \in Scored(raws) /\ t <= MarginAt(raws, i) /\ Grounds(raws, i)
    BY DEF Covered
  <1> QED BY <1>3, <1>4, <1>5, <1>6, <1>7, <1>8

LEMMA SweepPointCounts ==
    ASSUME NEW raws, IsCached(raws), NEW t \in Int
    PROVE  /\ SweepPoint(raws, t).threshold = t
           /\ SweepPoint(raws, t).coverage = Cardinality(Covered(raws, t))
  <1>1. PICK rows : rows = Rows(raws, "L1+L2+L3", t)
    OBVIOUS
  <1>2. DOMAIN rows = DOMAIN raws
    BY <1>1 DEF Rows
  <1>3. \A i \in DOMAIN raws : rows[i].answered <=> i \in Covered(raws, t)
    BY <1>1, RowsAnswered
  <1>4. Covered(raws, t) \subseteq DOMAIN raws
    BY DEF Covered, Scored
  <1>5. {i \in DOMAIN rows : rows[i].answered} = Covered(raws, t)
    BY <1>2, <1>3, <1>4, Zenon
  <1>6. SweepPoint(raws, t).coverage = Cardinality({i \in DOMAIN rows : rows[i].answered})
    BY <1>1 DEF SweepPoint, Count
  <1>7. SweepPoint(raws, t).threshold = t
    BY DEF SweepPoint
  <1> QED BY <1>5, <1>6, <1>7

\* The thresholds rise, from below every margin to the widest.
Rising(margins, thresholds) ==
    LET n == Len(thresholds)
    IN  /\ thresholds \in Seq(Int) /\ n > 0
        /\ \A x \in margins : thresholds[1] <= x
        /\ \A i \in 1..(n - 1) : thresholds[i] < thresholds[i + 1]
        /\ margins # {} => thresholds[n] \in margins
        /\ \A x \in margins : x <= thresholds[n]

LEMMA MarginsAre ==
    ASSUME NEW splits \in Replays
    PROVE  /\ IsFiniteSet(AllMargins(splits)) /\ AllMargins(splits) \subseteq Int
           /\ \A split \in DOMAIN splits : \A i \in Scored(splits[split]) :
                MarginAt(splits[split], i) \in AllMargins(splits)
  <1>1. IsFiniteSet(DOMAIN splits)
    BY CasesAssumption
  <1>2. ASSUME NEW split \in DOMAIN splits
        PROVE  /\ IsFiniteSet(Margins(splits[split])) /\ Margins(splits[split]) \subseteq Int
               /\ \A i \in Scored(splits[split]) :
                    MarginAt(splits[split], i) \in Margins(splits[split])
    <2>1. PICK raws : raws = splits[split]
      OBVIOUS
    <2>2. IsFiniteSet(Scored(raws)) /\ \A i \in Scored(raws) : MarginAt(raws, i) \in Int
      BY <2>1, ScoresAreNumbers DEF IsCached
    <2>3. Margins(raws) = {MarginAt(raws, i) : i \in Scored(raws)}
      BY DEF Margins, MarginAt
    <2>4. [i \in Scored(raws) |-> MarginAt(raws, i)] \in Surjection(Scored(raws), Margins(raws))
      BY <2>3 DEF Surjection
    <2>5. IsFiniteSet(Margins(raws))
      BY <2>2, <2>4, FS_Surjection
    <2> QED BY <2>1, <2>2, <2>3, <2>5
  <1>3. PICK U : U = {Margins(splits[split]) : split \in DOMAIN splits}
    OBVIOUS
  <1>4. AllMargins(splits) = UNION U
    BY <1>3 DEF AllMargins
  <1>5. IsFiniteSet(U)
    <2>1. [split \in DOMAIN splits |-> Margins(splits[split])] \in Surjection(DOMAIN splits, U)
      BY <1>3 DEF Surjection
    <2> QED BY <1>1, <2>1, FS_Surjection
  <1>6. IsFiniteSet(UNION U)
    BY <1>2, <1>3, <1>5, FS_UNION
  <1> QED BY <1>2, <1>3, <1>4, <1>6

LEMMA ThresholdsRise ==
    ASSUME NEW splits \in Replays
    PROVE  Rising(AllMargins(splits), Thresholds(splits))
  <1> DEFINE M == AllMargins(splits)
             R == {p \in M \X M : p[1] < p[2]}
             m == Sorted(M, R)
             n == Cardinality(M)
  <1>3. IsFiniteSet(M) /\ M \subseteq Int
    BY MarginsAre
  <1>4. Thresholds(splits) = IF m = <<>> THEN <<0>> ELSE <<m[1] - Epsilon>> \o m
    BY DEF Thresholds
  <1>5. Epsilon \in Nat \ {0}
    BY AblationAssumption
  <1> HIDE DEF M
  <1>6. StrictOrder(M, R)
    <2>1. \A x, y \in M : <<x, y>> \in R <=> x < y
      OBVIOUS
    <2> HIDE DEF R
    <2> QED BY <1>3, <2>1 DEF StrictOrder
  <1>7. InOrder(m, M, R) /\ n \in Nat
    BY <1>3, <1>6, SortedInOrder, FS_CardinalityType
  <1>8. m \in [1..n -> M] /\ m \in Seq(Int) /\ Len(m) = n /\ DOMAIN m = 1..n
    <2>1. m \in [1..n -> M]
      BY <1>7 DEF InOrder
    <2> HIDE DEF m, n, R
    <2>2. m \in [1..n -> Int] /\ DOMAIN m = 1..n
      BY <1>3, <2>1
    <2>3. m \in Seq(Int) /\ Len(m) = n
      BY <1>7, <2>2
    <2> QED BY <2>1, <2>2, <2>3
  <1>9. \A i, j \in 1..n : i < j => m[i] < m[j]
    BY <1>7 DEF InOrder
  <1>10. \A x \in M : \E i \in 1..n : m[i] = x
    BY <1>7 DEF InOrder
  <1> HIDE DEF m, n, R
  <1>11. CASE M = {}
    <2>1. m = <<>>
      BY <1>8, <1>11
    <2>2. Thresholds(splits) = <<0>>
      BY <1>4, <2>1
    <2> QED BY <1>11, <2>2 DEF Rising, M
  <1>12. CASE M # {}
    <2>1. PICK k \in 1..n : TRUE
      BY <1>10, <1>12
    <2>2. n >= 1 /\ m # <<>> /\ m[1] \in Int
      BY <1>7, <1>8, <2>1
    <2>3. PICK low : low = m[1] - Epsilon
      OBVIOUS
    <2>4. PICK t : t = <<low>> \o m
      OBVIOUS
    <2>5. low \in Int /\ low < m[1]
      BY <1>5, <2>2, <2>3
    <2>6. /\ t \in Seq(Int) /\ Len(t) = n + 1 /\ t[1] = low
          /\ \A i \in 1..n : t[i + 1] = m[i]
      <3>1. <<low>> \in Seq(Int) /\ Len(<<low>>) = 1 /\ <<low>>[1] = low
        BY <2>5
      <3>2. /\ <<low>> \o m \in Seq(Int) /\ Len(<<low>> \o m) = 1 + n
            /\ \A i \in 1..(1 + n) : (<<low>> \o m)[i] = IF i <= 1 THEN <<low>>[i] ELSE m[i - 1]
        BY <1>7, <1>8, <3>1
      <3> QED BY <1>7, <2>4, <3>1, <3>2
    <2>7. \A i \in 1..n : m[i] \in Int /\ m[1] <= m[i] /\ m[i] <= m[n]
      <3> SUFFICES ASSUME NEW i \in 1..n PROVE m[i] \in Int /\ m[1] <= m[i] /\ m[i] <= m[n]
        OBVIOUS
      <3>1. m[i] \in Int /\ 1 \in 1..n /\ n \in 1..n /\ m[1] \in Int /\ m[n] \in Int
        BY <1>3, <1>7, <1>8, <2>2
      <3>2. (i = 1 \/ 1 < i) /\ (i = n \/ i < n)
        BY <1>7
      <3> QED BY <1>9, <3>1, <3>2
    <2>8. ASSUME NEW x \in M PROVE t[1] <= x /\ x <= t[n + 1]
      <3>1. PICK j \in 1..n : m[j] = x
        BY <1>10
      <3>2. t[n + 1] = m[n]
        BY <1>7, <2>2, <2>6
      <3> QED BY <2>2, <2>5, <2>6, <2>7, <3>1, <3>2
    <2>9. ASSUME NEW i \in 1..n PROVE t[i] < t[i + 1]
      <3>1. CASE i = 1
        BY <2>2, <2>5, <2>6, <3>1
      <3>2. CASE i # 1
        <4>1. i - 1 \in 1..n /\ i - 1 < i
          BY <1>7, <3>2
        <4>2. t[(i - 1) + 1] = m[i - 1] /\ t[i + 1] = m[i]
          BY <2>6, <4>1
        <4>3. m[i - 1] < m[i]
          BY <1>9, <4>1
        <4>4. (i - 1) + 1 = i
          OBVIOUS
        <4> QED BY <4>2, <4>3, <4>4
      <3> QED BY <3>1, <3>2
    <2>10. t[n + 1] \in M
      BY <1>7, <1>8, <2>2, <2>6
    <2>11. Thresholds(splits) = t
      BY <1>4, <2>2, <2>3, <2>4
    <2>12. Len(t) = n + 1 /\ Len(t) > 0 /\ Len(t) - 1 = n
      BY <1>7, <2>6
    <2> QED BY <2>6, <2>8, <2>9, <2>10, <2>11, <2>12 DEF Rising, M
  <1> QED BY <1>11, <1>12

LEMMA SweepFalls ==
    ASSUME NEW splits \in Replays, NEW split \in DOMAIN splits
    PROVE  SweepsAll(splits, split, RiskCoverageSweep(splits)[split])
  <1>1. PICK raws, t, n, points, all :
          /\ raws = splits[split] /\ t = Thresholds(splits) /\ n = Len(t)
          /\ points = RiskCoverageSweep(splits)[split] /\ all = AllMargins(splits)
    OBVIOUS
  <1>2. Rising(all, t) /\ IsCached(raws)
    BY <1>1, ThresholdsRise DEF IsCached
  <1>3. t \in Seq(Int) /\ n \in Nat \ {0} /\ DOMAIN t = 1..n /\ \A i \in 1..n : t[i] \in Int
    BY <1>1, <1>2 DEF Rising
  <1>4. /\ DOMAIN points = 1..n /\ Len(points) = n
        /\ \A i \in 1..n : points[i] = SweepPoint(raws, t[i])
    <2>1. points = [i \in 1..n |-> SweepPoint(raws, t[i])]
      BY <1>1, <1>3 DEF RiskCoverageSweep
    <2> QED BY <1>3, <2>1
  <1>5. \A i \in 1..n : points[i].threshold = t[i] /\ points[i].coverage = Cardinality(Covered(raws, t[i]))
    BY <1>2, <1>3, <1>4, SweepPointCounts
  <1>6. PICK scored, widest :
          /\ scored = Scored(raws)
          /\ widest = {i \in scored : \A margin \in all : margin <= MarginAt(raws, i)}
    OBVIOUS
  <1>7. /\ IsFiniteSet(scored) /\ scored \subseteq DOMAIN raws
        /\ \A i \in scored : MarginAt(raws, i) \in Int /\ MarginAt(raws, i) \in all
        /\ all \subseteq Int
    BY <1>1, <1>2, <1>6, ScoresAreNumbers, MarginsAre
  <1>8. \A i \in scored : Rows(raws, "L2+L3", 0)[i].answered <=> Grounds(raws, i)
    BY <1>2, <1>7, RowsAnswered
  <1>9. points[1].coverage = Cardinality({i \in scored : Rows(raws, "L2+L3", 0)[i].answered})
    <2>1. Covered(raws, t[1]) = {i \in scored : Rows(raws, "L2+L3", 0)[i].answered}
      <3>1. \A i \in scored : t[1] <= MarginAt(raws, i)
        BY <1>2, <1>7 DEF Rising
      <3> QED BY <1>6, <1>8, <3>1, Zenon DEF Covered
    <2>2. 1 \in 1..n
      BY <1>3
    <2>3. points[1].coverage = Cardinality(Covered(raws, t[1]))
      BY <1>5, <2>2
    <2> QED BY <2>1, <2>3, Zenon
  <1>10. ASSUME NEW i \in 1..(n - 1)
         PROVE  points[i].threshold < points[i + 1].threshold /\ points[i].coverage >= points[i + 1].coverage
    <2>1. i \in 1..n /\ i + 1 \in 1..n
      BY <1>3
    <2>2. t[i] < t[i + 1] /\ t[i] \in Int /\ t[i + 1] \in Int
      BY <1>1, <1>2, <1>3, <2>1 DEF Rising
    <2>3. Covered(raws, t[i + 1]) \in SUBSET Covered(raws, t[i])
      <3> SUFFICES ASSUME NEW q \in Covered(raws, t[i + 1]) PROVE q \in Covered(raws, t[i])
        OBVIOUS
      <3>1. q \in scored /\ t[i + 1] <= MarginAt(raws, q) /\ Grounds(raws, q)
        BY <1>6 DEF Covered
      <3>2. t[i] <= MarginAt(raws, q)
        BY <1>7, <2>2, <3>1
      <3> QED BY <1>6, <3>1, <3>2 DEF Covered
    <2>4. IsFiniteSet(Covered(raws, t[i]))
      <3>1. Covered(raws, t[i]) \in SUBSET scored
        BY <1>6 DEF Covered
      <3> QED BY <1>7, <3>1, FS_Subset
    <2>5. Cardinality(Covered(raws, t[i + 1])) <= Cardinality(Covered(raws, t[i]))
      BY <2>3, <2>4, FS_Subset
    <2>6. IsFiniteSet(Covered(raws, t[i + 1]))
      BY <2>3, <2>4, FS_Subset
    <2>7. Cardinality(Covered(raws, t[i + 1])) \in Nat /\ Cardinality(Covered(raws, t[i])) \in Nat
      BY <2>4, <2>6, FS_CardinalityType
    <2> QED BY <1>5, <2>1, <2>2, <2>5, <2>7
  <1>11. points[n].coverage = Cardinality({i \in widest : Rows(raws, "L2+L3", 0)[i].answered})
    <2>1. (\A x \in all : x <= t[n]) /\ (all # {} => t[n] \in all) /\ t[n] \in Int
      BY <1>1, <1>2, <1>3 DEF Rising
    <2>2. \A i \in scored : t[n] <= MarginAt(raws, i) <=> i \in widest
      <3> SUFFICES ASSUME NEW i \in scored PROVE t[n] <= MarginAt(raws, i) <=> i \in widest
        OBVIOUS
      <3>1. t[n] \in all /\ MarginAt(raws, i) \in Int
        BY <1>7, <2>1
      <3>2. t[n] <= MarginAt(raws, i) => \A x \in all : x <= MarginAt(raws, i)
        BY <1>7, <2>1, <3>1
      <3>3. i \in widest <=> \A x \in all : x <= MarginAt(raws, i)
        BY <1>6
      <3> QED BY <3>1, <3>2, <3>3
    <2>3. widest \subseteq scored
      BY <1>6
    <2>4. Covered(raws, t[n]) = {i \in widest : Rows(raws, "L2+L3", 0)[i].answered}
      BY <1>6, <1>8, <2>2, <2>3, Zenon DEF Covered
    <2>5. n \in 1..n
      BY <1>3
    <2>6. points[n].coverage = Cardinality(Covered(raws, t[n]))
      BY <1>5, <2>5
    <2> QED BY <2>4, <2>6, Zenon
  <1>12. /\ Scored(raws) = scored /\ splits[split] = raws
         /\ {i \in scored : \A margin \in AllMargins(splits) : margin <= Margin(raws[i].scores)} = widest
    BY <1>1, <1>6 DEF MarginAt
  <1>13. SweepsAll(splits, split, points)
    BY <1>4, <1>9, <1>10, <1>11, <1>12 DEF SweepsAll
  <1> QED BY <1>1, <1>13

\* The sweep of each split runs from everything L2 and L3 let through down to what has the
\* widest margin of all splits, and covers no more from one threshold to the next, for any
\* cached runs (risk_coverage_sweep).
THEOREM SweepAlwaysCoversAll == Spec => []SweepCoversAll
  <1>1. Init => SweepCoversAll
    BY DEF Init, SweepCoversAll, None0
  <1>2. SweepCoversAll /\ [Next]_case => SweepCoversAll'
    <2> SUFFICES ASSUME SweepCoversAll, [Next]_case PROVE SweepCoversAll'
      OBVIOUS
    <2>1. CASE Replay
      <3>1. PICK splits \in Replays :
              case' = [of |-> "replay", splits |-> splits, table |-> AblationTable(splits),
                       sweep |-> RiskCoverageSweep(splits)]
        BY <2>1 DEF Replay
      <3>2. case'.splits = splits /\ case'.sweep = RiskCoverageSweep(splits)
        BY <3>1
      <3> QED BY <3>2, SweepFalls DEF SweepCoversAll
    <2>2. CASE ~Replay /\ Next
      BY <2>2, Kinds DEF SweepCoversAll
    <2>3. CASE UNCHANGED case
      BY <2>3 DEF SweepCoversAll
    <2> QED BY <2>1, <2>2, <2>3
  <1> QED BY <1>1, <1>2, PTL DEF Spec

(***************************************************************************)
(* Induction and recursion over 0..n                                       *)
(***************************************************************************)
LEMMA UpTo ==
    ASSUME NEW n \in Nat, NEW T, 0 \in T, \A i \in 1..n : i - 1 \in T => i \in T
    PROVE  \A i \in 0..n : i \in T
  <1> DEFINE less == {pair \in Nat \X Nat : pair[1] < pair[2]}
             missed == {i \in 0..n : i \notin T}
  <1>1. IsWellFoundedOn(less, Nat)
    BY NatLessThanWellFounded DEF OpToRel
  <1>2. missed \subseteq Nat
    OBVIOUS
  <1>3. SUFFICES missed # {} => FALSE
    OBVIOUS
  <1>4. SUFFICES ASSUME missed # {} PROVE FALSE
    OBVIOUS
  <1>5. PICK i \in missed : \A j \in missed : <<j, i>> \notin less
    <2> HIDE DEF missed, less
    <2> QED BY <1>1, <1>2, <1>4, WFMin
  <1>6. i \in 1..n /\ i \notin T /\ i - 1 \in Nat
    OBVIOUS
  <1>7. i - 1 \in missed
    BY <1>6
  <1>8. <<i - 1, i>> \in less
    BY <1>6
  <1> QED BY <1>5, <1>7, <1>8

Stepwise(f, n, base, step) == f[0] = base /\ \A i \in 1..n : f[i] = step[i][f[i - 1]]

\* A function defined by recursion over 0..n: it exists.
LEMMA Recursion ==
    ASSUME NEW n, n \in Nat, NEW S, NEW base, base \in S, NEW step, step \in [1..n -> [S -> S]]
    PROVE  \E f \in [0..n -> S] : Stepwise(f, n, base, step)
  <1> DEFINE Partial(k) == {f \in [0..k -> S] :
                                f[0] = base /\ \A i \in 1..k : f[i] = step[i][f[i - 1]]}
             T == {k \in 0..n : Partial(k) # {}}
  <1>1. 0 \in T
    <2>1. [i \in 0..0 |-> base] \in Partial(0)
      OBVIOUS
    <2> QED BY <2>1
  <1>2. ASSUME NEW k \in 1..n, k - 1 \in T PROVE k \in T
    <2>1. PICK f \in Partial(k - 1) : TRUE
      BY <1>2
    <2> DEFINE g == [i \in 0..k |-> IF i = k THEN step[k][f[k - 1]] ELSE f[i]]
    <2>2. /\ f \in [0..(k - 1) -> S] /\ f[0] = base
          /\ \A i \in 1..(k - 1) : f[i] = step[i][f[i - 1]]
      BY <2>1
    <2>3. f[k - 1] \in S
      BY <2>2
    <2>4. step[k][f[k - 1]] \in S
      BY <2>3
    <2>5. g \in [0..k -> S]
      BY <2>2, <2>4
    <2>6. g[0] = base
      BY <2>2
    <2>7. ASSUME NEW i \in 1..k PROVE g[i] = step[i][g[i - 1]]
      <3>1. g[i - 1] = f[i - 1]
        OBVIOUS
      <3>2. CASE i = k
        BY <3>1, <3>2
      <3>3. CASE i # k
        BY <2>2, <3>1, <3>3
      <3> QED BY <3>2, <3>3
    <2> HIDE DEF g
    <2>8. g \in Partial(k)
      BY <2>5, <2>6, <2>7
    <2> QED BY <2>8
  <1>3. n \in T
    <2> HIDE DEF T
    <2>1. \A k \in 1..n : k - 1 \in T => k \in T
      BY <1>2
    <2>2. \A k \in 0..n : k \in T
      BY <1>1, <2>1, UpTo
    <2> QED BY <2>2
  <1> QED BY <1>3 DEF Stepwise

(***************************************************************************)
(* Sequences laid end to end                                               *)
(***************************************************************************)
LEMMA FlattenedIs ==
    ASSUME NEW T, NEW seqs \in Seq(Seq(T)), NEW h \in [0..Len(seqs) -> Seq(T)],
           h[0] = <<>>, \A i \in 1..Len(seqs) : h[i] = h[i - 1] \o seqs[i]
    PROVE  FlattenSeq(seqs) = h[Len(seqs)]
  <1> DEFINE n == Len(seqs)
             F == CHOOSE f : f = [i \in 1..n |-> IF i = 1 THEN seqs[i] ELSE f[i - 1] \o seqs[i]]
             g == [i \in 1..n |-> h[i]]
  <1>1. n \in Nat /\ \A i \in 1..n : seqs[i] \in Seq(T)
    OBVIOUS
  <1>2. CASE n = 0
    BY <1>2 DEF FlattenSeq
  <1>3. CASE n # 0
    <2>1. FlattenSeq(seqs) = F[n]
      BY <1>3 DEF FlattenSeq
    <2>2. g = [i \in 1..n |-> IF i = 1 THEN seqs[i] ELSE g[i - 1] \o seqs[i]]
      <3>1. ASSUME NEW i \in 1..n
            PROVE  h[i] = IF i = 1 THEN seqs[i] ELSE g[i - 1] \o seqs[i]
        <4>1. CASE i = 1
          <5>1. 1 \in 1..n /\ h[1] = h[1 - 1] \o seqs[1] /\ seqs[1] \in Seq(T)
            BY <4>1, <1>1
          <5>2. h[1] = <<>> \o seqs[1]
            <6>1. 1 - 1 = 0
              OBVIOUS
            <6>2. h[1 - 1] = h[0]
              BY <6>1
            <6> QED BY <5>1, <6>2
          <5>3. h[1] = seqs[1]
            BY <5>1, <5>2
          <5> QED BY <5>3, <4>1
        <4>2. CASE i # 1
          <5>1. i - 1 \in 1..n
            BY <4>2, <1>1
          <5> QED BY <5>1, <4>2
        <4> QED BY <4>1, <4>2
      <3> QED BY <3>1
    <2>3. F = [i \in 1..n |-> IF i = 1 THEN seqs[i] ELSE F[i - 1] \o seqs[i]]
      <3> HIDE DEF g, n
      <3> QED BY <2>2
    <2> DEFINE same == {i \in 0..n : i = 0 \/ F[i] = h[i]}
    <2>4. ASSUME NEW i \in 1..n, i - 1 \in same PROVE i \in same
      <3> HIDE DEF F
      <3>1. F[i] = IF i = 1 THEN seqs[i] ELSE F[i - 1] \o seqs[i]
        BY <2>3
      <3>2. CASE i = 1
        <4>1. h[i] = g[i] /\ g[i] = seqs[i]
          BY <2>2, <3>2
        <4> QED BY <4>1, <3>1, <3>2
      <3>3. CASE i # 1
        <4>1. F[i - 1] = h[i - 1]
          BY <2>4, <3>3
        <4>2. h[i] = h[i - 1] \o seqs[i]
          OBVIOUS
        <4>3. F[i] = h[i]
          BY <4>1, <4>2, <3>1, <3>3
        <4>4. i \in 0..n
          BY <1>1
        <4> QED BY <4>3, <4>4
      <3> QED BY <3>2, <3>3
    <2>5. \A i \in 0..n : i \in same
      <3>1. 0 \in same
        BY <1>1
      <3> HIDE DEF same, n
      <3>2. \A i \in 1..n : i - 1 \in same => i \in same
        BY <2>4
      <3> QED BY <3>1, <3>2, <1>1, UpTo
    <2>6. n \in same
      <3> HIDE DEF same, n
      <3> QED BY <2>5, <1>1
    <2> QED BY <2>1, <2>6, <1>3
  <1> QED BY <1>2, <1>3

LEMMA FlatteningStages ==
    ASSUME NEW T, NEW seqs \in Seq(Seq(T))
    PROVE  \E h \in [0..Len(seqs) -> Seq(T)] :
              /\ h[0] = <<>> /\ \A i \in 1..Len(seqs) : h[i] = h[i - 1] \o seqs[i]
              /\ FlattenSeq(seqs) = h[Len(seqs)]
  <1> DEFINE n == Len(seqs)
             step == [i \in 1..n |-> [s \in Seq(T) |-> s \o seqs[i]]]
  <1>1. n \in Nat /\ <<>> \in Seq(T) /\ \A i \in 1..n : seqs[i] \in Seq(T)
    OBVIOUS
  <1>2. step \in [1..n -> [Seq(T) -> Seq(T)]]
    BY <1>1
  <1>3. PICK h \in [0..n -> Seq(T)] : h[0] = <<>> /\ \A i \in 1..n : h[i] = step[i][h[i - 1]]
    <2> DEFINE S == Seq(T)
               e == <<>>
    <2>1. n \in Nat /\ e \in S /\ step \in [1..n -> [S -> S]]
      BY <1>1, <1>2
    <2> HIDE DEF step, n, S, e
    <2>2. \E f \in [0..n -> S] : Stepwise(f, n, e, step)
      BY <2>1, Recursion
    <2> QED BY <2>2 DEF S, e, Stepwise
  <1>4. ASSUME NEW i \in 1..n PROVE h[i] = h[i - 1] \o seqs[i]
    <2>1. i - 1 \in 0..n
      BY <1>1
    <2>2. h[i - 1] \in Seq(T)
      BY <2>1
    <2>3. step[i] = [s \in Seq(T) |-> s \o seqs[i]]
      OBVIOUS
    <2> HIDE DEF step
    <2>4. step[i][h[i - 1]] = h[i - 1] \o seqs[i]
      BY <2>2, <2>3
    <2> QED BY <1>3, <2>4
  <1> QED BY <1>3, <1>4, FlattenedIs

LEMMA JoinedAll ==
    ASSUME NEW T, NEW s \in Seq(T), NEW t \in Seq(T), NEW x
    PROVE  x \in ToSet(s \o t) <=> x \in ToSet(s) \/ x \in ToSet(t)
  <1>1. /\ Len(s) \in Nat /\ Len(t) \in Nat
        /\ DOMAIN s = 1..Len(s) /\ DOMAIN t = 1..Len(t)
        /\ DOMAIN (s \o t) = 1..(Len(s) + Len(t))
        /\ \A i \in 1..Len(s) : (s \o t)[i] = s[i]
        /\ \A i \in 1..Len(t) : (s \o t)[i + Len(s)] = t[i]
        /\ \A i \in 1..(Len(s) + Len(t)) : (s \o t)[i] = IF i <= Len(s) THEN s[i] ELSE t[i - Len(s)]
    OBVIOUS
  <1>2. x \in ToSet(s) => x \in ToSet(s \o t)
    BY <1>1 DEF ToSet
  <1>3. x \in ToSet(t) => x \in ToSet(s \o t)
    <2> SUFFICES ASSUME NEW i \in 1..Len(t), x = t[i] PROVE x \in ToSet(s \o t)
      BY <1>1 DEF ToSet
    <2>1. i + Len(s) \in 1..(Len(s) + Len(t))
      BY <1>1
    <2> QED BY <1>1, <2>1 DEF ToSet
  <1>4. x \in ToSet(s \o t) => x \in ToSet(s) \/ x \in ToSet(t)
    <2> SUFFICES ASSUME NEW i \in 1..(Len(s) + Len(t)), x = (s \o t)[i]
                 PROVE  x \in ToSet(s) \/ x \in ToSet(t)
      BY <1>1 DEF ToSet
    <2>1. CASE i <= Len(s)
      BY <1>1, <2>1 DEF ToSet
    <2>2. CASE ~(i <= Len(s))
      <3>1. i - Len(s) \in 1..Len(t)
        BY <1>1, <2>2
      <3> QED BY <1>1, <2>2, <3>1 DEF ToSet
    <2> QED BY <2>1, <2>2
  <1> QED BY <1>2, <1>3, <1>4

LEMMA FlattenedSeq ==
    ASSUME NEW T, NEW seqs \in Seq(Seq(T))
    PROVE  FlattenSeq(seqs) \in Seq(T)
  <1>1. Len(seqs) \in 0..Len(seqs)
    OBVIOUS
  <1>2. PICK h \in [0..Len(seqs) -> Seq(T)] : FlattenSeq(seqs) = h[Len(seqs)]
    BY FlatteningStages
  <1> QED BY <1>1, <1>2, Zenon

LEMMA FlattenedAll ==
    ASSUME NEW T, NEW seqs \in Seq(Seq(T)), NEW x
    PROVE  x \in ToSet(FlattenSeq(seqs)) <=> \E i \in 1..Len(seqs) : x \in ToSet(seqs[i])
  <1> DEFINE n == Len(seqs)
  <1>1. PICK h \in [0..n -> Seq(T)] :
            /\ h[0] = <<>> /\ \A i \in 1..n : h[i] = h[i - 1] \o seqs[i]
            /\ FlattenSeq(seqs) = h[n]
    BY FlatteningStages
  <1> DEFINE so == {k \in 0..n : x \in ToSet(h[k]) <=> \E i \in 1..k : x \in ToSet(seqs[i])}
  <1>2. n \in Nat /\ \A i \in 1..n : seqs[i] \in Seq(T)
    OBVIOUS
  <1> HIDE DEF n
  <1>3. 0 \in so
    BY <1>1, <1>2 DEF ToSet
  <1>4. ASSUME NEW k \in 1..n, k - 1 \in so PROVE k \in so
    <2>1. h[k] = h[k - 1] \o seqs[k] /\ h[k - 1] \in Seq(T) /\ seqs[k] \in Seq(T)
      <3>1. k - 1 \in 0..n
        BY <1>2
      <3> QED BY <1>1, <1>2, <3>1
    <2>2. x \in ToSet(h[k]) <=> x \in ToSet(h[k - 1]) \/ x \in ToSet(seqs[k])
      BY <2>1, JoinedAll
    <2>3. \A i \in 1..k : i = k \/ i \in 1..(k - 1)
      BY <1>2
    <2>4. (\E i \in 1..k : x \in ToSet(seqs[i]))
              <=> (\E i \in 1..(k - 1) : x \in ToSet(seqs[i])) \/ x \in ToSet(seqs[k])
      BY <2>3
    <2>5. x \in ToSet(h[k - 1]) <=> \E i \in 1..(k - 1) : x \in ToSet(seqs[i])
      BY <1>4
    <2> QED BY <2>2, <2>4, <2>5
  <1>5. n \in so
    <2> HIDE DEF so
    <2>1. \A k \in 1..n : k - 1 \in so => k \in so
      BY <1>4
    <2>2. \A k \in 0..n : k \in so
      BY <1>2, <1>3, <2>1, UpTo
    <2> QED BY <2>2, <1>2
  <1>6. x \in ToSet(FlattenSeq(seqs)) <=> \E i \in 1..n : x \in ToSet(seqs[i])
    BY <1>1, <1>5
  <1> QED BY <1>6 DEF n

LEMMA FlattenedOneMore ==
    ASSUME NEW T, NEW seqs \in Seq(Seq(T)), NEW s \in Seq(T)
    PROVE  FlattenSeq(Append(seqs, s)) = FlattenSeq(seqs) \o s
  <1> DEFINE n == Len(seqs)
             more == Append(seqs, s)
  <1>1. PICK h \in [0..n -> Seq(T)] :
            /\ h[0] = <<>> /\ \A i \in 1..n : h[i] = h[i - 1] \o seqs[i]
            /\ FlattenSeq(seqs) = h[n]
    BY FlatteningStages
  <1> DEFINE g == [i \in 0..(n + 1) |-> IF i = n + 1 THEN h[n] \o s ELSE h[i]]
  <1>2. /\ n \in Nat /\ more \in Seq(Seq(T)) /\ Len(more) = n + 1
        /\ more[n + 1] = s /\ \A i \in 1..n : more[i] = seqs[i]
    OBVIOUS
  <1> HIDE DEF more, n
  <1>3. h[n] \in Seq(T)
    BY <1>1, <1>2
  <1>4. h[n] \o s \in Seq(T)
    BY <1>3
  <1>5. g \in [0..(n + 1) -> Seq(T)] /\ g[0] = <<>>
    BY <1>1, <1>2, <1>4
  <1>6. ASSUME NEW i \in 1..(n + 1) PROVE g[i] = g[i - 1] \o more[i]
    <2>1. g[i - 1] = h[i - 1]
      BY <1>2
    <2>2. CASE i = n + 1
      <3>1. g[i] = h[n] \o s /\ g[i - 1] = h[n] /\ more[i] = s
        BY <1>2, <2>1, <2>2
      <3> QED BY <3>1
    <2>3. CASE i # n + 1
      <3>1. i \in 1..n
        BY <1>2, <2>3
      <3>2. g[i] = h[i]
        BY <2>3
      <3>3. h[i] = h[i - 1] \o seqs[i] /\ more[i] = seqs[i]
        BY <1>1, <1>2, <3>1
      <3> QED BY <2>1, <3>2, <3>3
    <2> QED BY <2>2, <2>3
  <1>7. g[n + 1] = h[n] \o s
    BY <1>2
  <1>8. FlattenSeq(more) = g[n + 1]
    <2> HIDE DEF g
    <2>1. g \in [0..Len(more) -> Seq(T)] /\ \A i \in 1..Len(more) : g[i] = g[i - 1] \o more[i]
      BY <1>2, <1>5, <1>6
    <2> QED BY <1>2, <1>5, <2>1, FlattenedIs
  <1> QED BY <1>1, <1>7, <1>8 DEF more

LEMMA FlattenedNone == FlattenSeq(<<>>) = <<>>
  BY DEF FlattenSeq

(***************************************************************************)
(* The length of a group                                                   *)
(***************************************************************************)
Sized(B) == \A b \in B : b.len \in Nat

LEMMA SumsAre ==
    ASSUME NEW B, Sized(B), NEW blocks \in Seq(B)
    PROVE  /\ Sums(blocks) \in [0..Len(blocks) -> Nat] /\ Sums(blocks)[0] = 0
           /\ \A k \in 1..Len(blocks) : Sums(blocks)[k] = Sums(blocks)[k - 1] + blocks[k].len
  <1> DEFINE n == Len(blocks)
             step == [k \in 1..n |-> [m \in Nat |-> m + blocks[k].len]]
  <1>1. n \in Nat /\ \A k \in 1..n : blocks[k].len \in Nat
    BY DEF Sized
  <1>2. step \in [1..n -> [Nat -> Nat]]
    BY <1>1
  <1>3. PICK h \in [0..n -> Nat] : Stepwise(h, n, 0, step)
    <2> HIDE DEF step, n
    <2> QED BY <1>1, <1>2, Recursion
  <1>4. h[0] = 0
    BY <1>3 DEF Stepwise
  <1>5. ASSUME NEW k \in 1..n PROVE h[k] = h[k - 1] + blocks[k].len
    <2>1. h[k] = step[k][h[k - 1]]
      BY <1>3 DEF Stepwise
    <2>2. k - 1 \in 0..n
      BY <1>1
    <2>3. h[k - 1] \in Nat
      BY <2>2
    <2> QED BY <2>1, <2>3
  <1>6. h = [k \in 0..n |-> IF k = 0 THEN 0 ELSE h[k - 1] + blocks[k].len]
    <2>1. ASSUME NEW k \in 0..n PROVE h[k] = IF k = 0 THEN 0 ELSE h[k - 1] + blocks[k].len
      <3>1. CASE k = 0
        BY <1>4, <3>1
      <3>2. CASE k # 0
        <4>1. k \in 1..n
          BY <3>2, <1>1
        <4> QED BY <1>5, <3>2, <4>1
      <3> QED BY <3>1, <3>2
    <2> QED BY <2>1
  <1>7. Sums(blocks) = CHOOSE f : f = [k \in 0..n |-> IF k = 0 THEN 0 ELSE f[k - 1] + blocks[k].len]
    BY DEF Sums
  <1> DEFINE F == Sums(blocks)
  <1>8. F = [k \in 0..n |-> IF k = 0 THEN 0 ELSE F[k - 1] + blocks[k].len]
    <2> HIDE DEF n
    <2> QED BY <1>6, <1>7
  <1> DEFINE same == {k \in 0..n : F[k] = h[k]}
  <1> HIDE DEF F
  <1>9. 0 \in same
    BY <1>1, <1>4, <1>8
  <1>10. ASSUME NEW k \in 1..n, k - 1 \in same PROVE k \in same
    <2>1. k \in 0..n /\ F[k - 1] = h[k - 1]
      BY <1>1, <1>10
    <2>2. F[k] = F[k - 1] + blocks[k].len
      BY <1>8, <2>1
    <2> QED BY <1>5, <2>1, <2>2
  <1>11. \A k \in 0..n : F[k] = h[k]
    <2>1. \A k \in 0..n : k \in same
      <3> HIDE DEF same, n
      <3>1. \A k \in 1..n : k - 1 \in same => k \in same
        BY <1>10
      <3> QED BY <1>1, <1>9, <3>1, UpTo
    <2> QED BY <2>1
  <1>12. F = h
    BY <1>8, <1>11
  <1> QED BY <1>4, <1>5, <1>12 DEF F

LEMMA SumsOfPrefix ==
    ASSUME NEW B, Sized(B), NEW s \in Seq(B), NEW t \in Seq(B), Len(s) <= Len(t),
           \A k \in 1..Len(s) : s[k] = t[k]
    PROVE  \A k \in 0..Len(s) : Sums(s)[k] = Sums(t)[k]
  <1> DEFINE same == {k \in 0..Len(s) : Sums(s)[k] = Sums(t)[k]}
  <1>1. Len(s) \in Nat /\ Len(t) \in Nat
    OBVIOUS
  <1>2. Sums(s)[0] = 0 /\ \A k \in 1..Len(s) : Sums(s)[k] = Sums(s)[k - 1] + s[k].len
    BY SumsAre
  <1>3. Sums(t)[0] = 0 /\ \A k \in 1..Len(t) : Sums(t)[k] = Sums(t)[k - 1] + t[k].len
    BY SumsAre
  <1>4. 0 \in same
    BY <1>1, <1>2, <1>3
  <1>5. ASSUME NEW k \in 1..Len(s), k - 1 \in same PROVE k \in same
    <2>1. k \in 1..Len(t) /\ k \in 0..Len(s) /\ Sums(s)[k - 1] = Sums(t)[k - 1] /\ s[k] = t[k]
      BY <1>1, <1>5
    <2> QED BY <1>2, <1>3, <2>1
  <1>6. \A k \in 0..Len(s) : k \in same
    <2> HIDE DEF same
    <2>1. \A k \in 1..Len(s) : k - 1 \in same => k \in same
      BY <1>5
    <2> QED BY <1>1, <1>4, <2>1, UpTo
  <1> QED BY <1>6

LEMMA LengthOfNone == Length(<<>>) = 0
  <1>1. <<>> \in Seq({}) /\ Sized({}) /\ Len(<<>>) = 0
    BY DEF Sized
  <1> QED BY <1>1, SumsAre DEF Length

LEMMA LengthOneMore ==
    ASSUME NEW B, Sized(B), NEW blocks \in Seq(B), NEW b \in B
    PROVE  /\ Length(blocks) \in Nat
           /\ Length(Append(blocks, b)) = Length(blocks) + b.len
  <1> DEFINE n == Len(blocks)
             more == Append(blocks, b)
  <1>1. /\ n \in Nat /\ more \in Seq(B) /\ Len(more) = n + 1 /\ more[n + 1] = b
        /\ \A k \in 1..n : more[k] = blocks[k]
    OBVIOUS
  <1>2. Sums(blocks) \in [0..n -> Nat]
    BY SumsAre
  <1> HIDE DEF more
  <1>3. Sums(more)[n + 1] = Sums(more)[n] + b.len
    <2>1. \A k \in 1..(n + 1) : Sums(more)[k] = Sums(more)[k - 1] + more[k].len
      BY <1>1, SumsAre
    <2>2. n + 1 \in 1..(n + 1) /\ (n + 1) - 1 = n
      BY <1>1
    <2> QED BY <1>1, <2>1, <2>2
  <1>4. Sums(more)[n] = Sums(blocks)[n]
    <2>1. \A k \in 0..n : Sums(blocks)[k] = Sums(more)[k]
      BY <1>1, SumsOfPrefix
    <2> QED BY <1>1, <2>1
  <1>5. Sums(blocks)[n] \in Nat
    BY <1>1, <1>2
  <1> QED BY <1>1, <1>3, <1>4, <1>5 DEF Length, more

\* Where a block lies in the text of its group.
LEMMA OffsetsWithin ==
    ASSUME NEW B, Sized(B), NEW blocks \in Seq(B), NEW k \in 1..Len(blocks)
    PROVE  /\ Offset(blocks, k) \in Nat /\ Joined(blocks) \in Nat
           /\ Offset(blocks, k) + blocks[k].len <= Joined(blocks)
  <1> DEFINE n == Len(blocks)
             F == Sums(blocks)
  <1>1. n \in Nat /\ \A i \in 1..n : blocks[i].len \in Nat
    BY DEF Sized
  <1>2. /\ F \in [0..n -> Nat] /\ F[0] = 0
        /\ \A i \in 1..n : F[i] = F[i - 1] + blocks[i].len
    BY SumsAre
  <1> DEFINE rises == {m \in 0..n : m < k \/ F[k] <= F[m]}
  <1> HIDE DEF F
  <1>3. 0 \in rises
    BY <1>1
  <1>4. ASSUME NEW m \in 1..n, m - 1 \in rises PROVE m \in rises
    <2>1. m \in 0..n /\ m - 1 \in 0..n /\ k \in 0..n
      BY <1>1
    <2>2. F[m] \in Nat /\ F[m - 1] \in Nat /\ F[k] \in Nat /\ F[m] = F[m - 1] + blocks[m].len
      BY <1>2, <2>1
    <2>3. CASE m = k
      BY <2>1, <2>2, <2>3
    <2>4. CASE m # k
      BY <1>1, <1>4, <2>1, <2>2, <2>4
    <2> QED BY <2>3, <2>4
  <1>5. n \in rises
    <2> HIDE DEF rises
    <2>1. \A m \in 1..n : m - 1 \in rises => m \in rises
      BY <1>4
    <2>2. \A m \in 0..n : m \in rises
      BY <1>1, <1>3, <2>1, UpTo
    <2> QED BY <1>1, <2>2
  <1>6. F[k] <= F[n]
    BY <1>1, <1>5
  <1>7. k - 1 \in 0..n /\ k \in 0..n /\ n \in 0..n
    BY <1>1
  <1>8. F[k - 1] \in Nat /\ F[k] \in Nat /\ F[n] \in Nat /\ F[k] = F[k - 1] + blocks[k].len
    BY <1>2, <1>7
  <1>9. Offset(blocks, k) = F[k - 1] + (k - 1) /\ Joined(blocks) = F[n] + n - 1
    BY DEF Offset, Joined, Length, F
  <1> QED BY <1>1, <1>6, <1>8, <1>9

LEMMA ThoseAre ==
    ASSUME NEW T, NEW seq \in Seq(T), NEW kept
    PROVE  /\ Those(seq, kept) \in Seq(T)
           /\ ToSet(Those(seq, kept)) = ToSet(seq) \cap kept
  <1> DEFINE parts == [i \in DOMAIN seq |-> IF seq[i] \in kept THEN <<seq[i]>> ELSE <<>>]
  <1>1. DOMAIN seq = 1..Len(seq) /\ Len(seq) \in Nat /\ \A i \in 1..Len(seq) : seq[i] \in T
    OBVIOUS
  <1>2. parts \in Seq(Seq(T)) /\ Len(parts) = Len(seq)
    <2>1. \A i \in 1..Len(seq) : <<seq[i]>> \in Seq(T) /\ <<>> \in Seq(T)
      BY <1>1
    <2> QED BY <1>1, <2>1
  <1>3. \A i \in 1..Len(seq) : parts[i] = IF seq[i] \in kept THEN <<seq[i]>> ELSE <<>>
    BY <1>1
  <1>4. Those(seq, kept) = FlattenSeq(parts)
    BY DEF Those
  <1> HIDE DEF parts
  <1>5. ASSUME NEW x PROVE x \in ToSet(FlattenSeq(parts)) <=> x \in ToSet(seq) /\ x \in kept
    <2>1. x \in ToSet(FlattenSeq(parts)) <=> \E i \in 1..Len(seq) : x \in ToSet(parts[i])
      BY <1>2, FlattenedAll
    <2>2. ASSUME NEW i \in 1..Len(seq)
          PROVE  x \in ToSet(parts[i]) <=> x = seq[i] /\ x \in kept
      <3>1. CASE seq[i] \in kept
        <4>1. parts[i] = <<seq[i]>>
          BY <1>3, <3>1
        <4>2. ToSet(<<seq[i]>>) = {seq[i]}
          BY DEF ToSet
        <4> QED BY <3>1, <4>1, <4>2
      <3>2. CASE seq[i] \notin kept
        <4>1. parts[i] = <<>>
          BY <1>3, <3>2
        <4>2. ToSet(<<>>) = {}
          BY DEF ToSet
        <4> QED BY <3>2, <4>1, <4>2
      <3> QED BY <3>1, <3>2
    <2>3. x \in ToSet(seq) <=> \E i \in 1..Len(seq) : x = seq[i]
      BY <1>1 DEF ToSet
    <2> QED BY <2>1, <2>2, <2>3
  <1> QED BY <1>2, <1>4, <1>5, FlattenedSeq

(***************************************************************************)
(* The walk over the paragraphs of a page                                  *)
(***************************************************************************)
\* The groups of some paragraphs, and what the loop holds, by their types.
GroupsOf(P, H) == [blocks : Seq(P), header : H]
HeldBy(P, H) == [done : Seq(GroupsOf(P, H)), buf : Seq(P), len : Nat, header : H]

LEMMA PutStays ==
    ASSUME NEW P, NEW H, Sized(P), NoHeader \in H,
           NEW g \in HeldBy(P, H), NEW p \in P, NEW header \in H
    PROVE  /\ NoGroups \in HeldBy(P, H)
           /\ Put(g, p, header) \in HeldBy(P, H)
  <1>1. NoGroups \in HeldBy(P, H)
    BY DEF NoGroups, HeldBy
  <1>2. Flush(g) \in HeldBy(P, H)
    <2>1. CASE g.buf = <<>>
      BY <2>1 DEF Flush
    <2>2. CASE g.buf # <<>>
      <3>1. [blocks |-> g.buf, header |-> g.header] \in GroupsOf(P, H) /\ g.done \in Seq(GroupsOf(P, H))
        BY DEF HeldBy, GroupsOf
      <3>2. Append(g.done, [blocks |-> g.buf, header |-> g.header]) \in Seq(GroupsOf(P, H))
        BY <3>1
      <3> HIDE <3>1
      <3>3. Flush(g) = [NoGroups EXCEPT !.done = Append(g.done, [blocks |-> g.buf, header |-> g.header])]
        BY <2>2 DEF Flush
      <3> QED BY <1>1, <3>2, <3>3 DEF HeldBy
    <2> QED BY <2>1, <2>2
  <1>3. ASSUME NEW room \in HeldBy(P, H)
        PROVE  [room EXCEPT !.buf = Append(@, p), !.len = @ + p.len,
                            !.header = IF @ = NoHeader THEN header ELSE @] \in HeldBy(P, H)
    <2>1. Append(room.buf, p) \in Seq(P) /\ room.len + p.len \in Nat
      BY DEF HeldBy, Sized
    <2> QED BY <2>1 DEF HeldBy
  <1>4. Put(g, p, header) \in HeldBy(P, H)
    BY <1>2, <1>3 DEF Put
  <1> QED BY <1>1, <1>4

\* What a page must be for its walk: sequences, and blocks of some length.
Legible(page) ==
    /\ page.tables \in Seq(ToSet(page.tables)) /\ page.blocks \in Seq(ToSet(page.blocks))
    /\ Sized(ToSet(page.blocks))

LEMMA ParagraphsAre ==
    ASSUME NEW page, Legible(page)
    PROVE  LET P == ToSet(Paragraphs(page)) IN
           /\ Paragraphs(page) \in Seq(P) /\ Sized(P)
           /\ Len(Paragraphs(page)) \in Nat
           /\ \A i \in 1..Len(Paragraphs(page)) : Paragraphs(page)[i] \in P
           /\ RealTables(page) \in Seq(ToSet(page.tables))
  <1> DEFINE B == ToSet(page.blocks)
             kept == {b \in ToSet(page.blocks) :
                        b.len > 0 /\ \A t \in ToSet(RealTables(page)) : ~Touches(b, t)}
             ps == Paragraphs(page)
  <1>1. page.blocks \in Seq(B)
    BY DEF Legible
  <1>2. ps = Those(page.blocks, kept)
    BY DEF Paragraphs
  <1>3. ps \in Seq(B) /\ ToSet(ps) \subseteq B
    <2> HIDE DEF kept, B
    <2>1. ToSet(page.blocks) = B
      BY DEF B
    <2> QED BY <1>1, <1>2, <2>1, ThoseAre
  <1>4. RealTables(page) \in Seq(ToSet(page.tables))
    BY ThoseAre DEF RealTables, Legible
  <1> HIDE DEF ps, B
  <1>5. Len(ps) \in Nat /\ DOMAIN ps = 1..Len(ps)
    BY <1>3
  <1>6. \A i \in 1..Len(ps) : ps[i] \in ToSet(ps)
    BY <1>5 DEF ToSet
  <1>7. ps \in Seq(ToSet(ps))
    <2>1. ps = [i \in 1..Len(ps) |-> ps[i]]
      BY <1>3
    <2> HIDE DEF ps
    <2>2. [i \in 1..Len(ps) |-> ps[i]] \in Seq(ToSet(ps))
      BY <1>5, <1>6
    <2> QED BY <2>1, <2>2
  <1>8. Sized(ToSet(ps))
    BY <1>3 DEF Sized, Legible, B
  <1> QED BY <1>4, <1>5, <1>6, <1>7, <1>8 DEF ps

Above(page, p) == NearestHeader(page.headers, p.top)

\* The walk over a page is what its recursive definition says.
LEMMA WalkIs ==
    ASSUME NEW page, Legible(page)
    PROVE  /\ Walk(page)[0] = NoGroups
           /\ \A i \in 1..Len(Paragraphs(page)) :
                Walk(page)[i] = Put(Walk(page)[i - 1], Paragraphs(page)[i],
                                    Above(page, Paragraphs(page)[i]))
           /\ \E H : /\ NoHeader \in H
                     /\ Walk(page) \in [0..Len(Paragraphs(page)) ->
                                            HeldBy(ToSet(Paragraphs(page)), H)]
  <1> DEFINE ps == Paragraphs(page)
             n == Len(ps)
             P == ToSet(ps)
             H == {NoHeader} \cup {Above(page, p) : p \in P}
             S == HeldBy(P, H)
             step == [i \in 1..n |-> [g \in S |-> Put(g, ps[i], Above(page, ps[i]))]]
  <1>1. n \in Nat /\ Sized(P) /\ \A i \in 1..n : ps[i] \in P
    BY ParagraphsAre
  <1>2. NoHeader \in H /\ \A i \in 1..n : Above(page, ps[i]) \in H
    BY <1>1
  <1> HIDE DEF ps, n, P, H
  <1>3. NoGroups \in S
    BY <1>2 DEF NoGroups, HeldBy
  <1>4. \A i \in 1..n : \A g \in S : Put(g, ps[i], Above(page, ps[i])) \in S
    BY <1>1, <1>2, PutStays
  <1> HIDE DEF S
  <1>5. step \in [1..n -> [S -> S]]
    BY <1>4
  <1>6. PICK h \in [0..n -> S] : Stepwise(h, n, NoGroups, step)
    <2> HIDE DEF step
    <2> QED BY <1>1, <1>3, <1>5, Recursion
  <1>7. h[0] = NoGroups
    BY <1>6 DEF Stepwise
  <1>8. ASSUME NEW i \in 1..n PROVE h[i] = Put(h[i - 1], ps[i], Above(page, ps[i]))
    <2>1. h[i] = step[i][h[i - 1]]
      <3> HIDE DEF step
      <3> QED BY <1>6 DEF Stepwise
    <2>2. i - 1 \in 0..n
      BY <1>1
    <2>3. h[i - 1] \in S
      BY <2>2
    <2> QED BY <2>1, <2>3
  <1>9. h = [i \in 0..n |-> IF i = 0 THEN NoGroups ELSE Put(h[i - 1], ps[i], Above(page, ps[i]))]
    <2>1. ASSUME NEW i \in 0..n
          PROVE  h[i] = IF i = 0 THEN NoGroups ELSE Put(h[i - 1], ps[i], Above(page, ps[i]))
      <3>1. CASE i = 0
        BY <1>7, <3>1
      <3>2. CASE i # 0
        <4>1. i \in 1..n
          BY <3>2, <1>1
        <4> QED BY <1>8, <3>2, <4>1
      <3> QED BY <3>1, <3>2
    <2> QED BY <2>1
  <1>10. Walk(page) = CHOOSE f : f = [i \in 0..n |-> IF i = 0 THEN NoGroups
                                                ELSE Put(f[i - 1], ps[i], Above(page, ps[i]))]
    BY DEF Walk, ps, n, Above
  <1> DEFINE F == Walk(page)
  <1>11. F = [i \in 0..n |-> IF i = 0 THEN NoGroups ELSE Put(F[i - 1], ps[i], Above(page, ps[i]))]
    BY <1>9, <1>10
  <1> DEFINE same == {i \in 0..n : F[i] = h[i]}
  <1> HIDE DEF F
  <1>12. 0 \in same
    BY <1>1, <1>7, <1>11
  <1>13. ASSUME NEW i \in 1..n, i - 1 \in same PROVE i \in same
    <2>1. i \in 0..n /\ F[i - 1] = h[i - 1]
      BY <1>1, <1>13
    <2>2. F[i] = Put(F[i - 1], ps[i], Above(page, ps[i]))
      <3>1. F[i] = IF i = 0 THEN NoGroups ELSE Put(F[i - 1], ps[i], Above(page, ps[i]))
        BY <1>11, <2>1, Zenon
      <3> QED BY <3>1
    <2> QED BY <1>8, <2>1, <2>2
  <1>14. \A i \in 0..n : F[i] = h[i]
    <2>1. \A i \in 0..n : i \in same
      <3> HIDE DEF same
      <3>1. \A i \in 1..n : i - 1 \in same => i \in same
        BY <1>13
      <3> QED BY <1>1, <1>12, <3>1, UpTo
    <2> QED BY <2>1
  <1>15. F = h
    BY <1>11, <1>14
  <1> QED BY <1>2, <1>7, <1>8, <1>15 DEF F, ps, n, P, S

(***************************************************************************)
(* Groups                                                                  *)
(***************************************************************************)
BlocksOf(groups) == [i \in DOMAIN groups |-> groups[i].blocks]

\* A group as it should be: not empty, small, and under one header.
Proper(page, g) ==
    /\ g.blocks # <<>>
    /\ Length(g.blocks) <= ChunkChars \/ Len(g.blocks) = 1
    /\ \A i \in 1..Len(g.blocks) : Above(page, g.blocks[i]) = g.header

\* Two groups that could not have been one.
Parted(g, h) ==
    \/ g.header # h.header
    \/ Length(g.blocks) + h.blocks[1].len > ChunkChars

\* The groups done and the one that is filled, after i paragraphs.
Tidy(page, done, last, i) ==
    /\ FlattenSeq(BlocksOf(done)) \o last.blocks = SubSeq(Paragraphs(page), 1, i)
    /\ \A j \in 1..Len(done) : Proper(page, done[j])
    /\ Proper(page, last)
    /\ \A j \in 1..(Len(done) - 1) : Parted(done[j], done[j + 1])
    /\ Len(done) # 0 => Parted(done[Len(done)], last)

LEMMA BlocksOneMore ==
    ASSUME NEW P, NEW H, NEW done \in Seq(GroupsOf(P, H)), NEW last \in GroupsOf(P, H)
    PROVE  /\ BlocksOf(done) \in Seq(Seq(P)) /\ Len(BlocksOf(done)) = Len(done)
           /\ FlattenSeq(BlocksOf(done)) \in Seq(P)
           /\ FlattenSeq(BlocksOf(Append(done, last))) = FlattenSeq(BlocksOf(done)) \o last.blocks
  <1> DEFINE n == Len(done)
             more == Append(done, last)
  <1>1. /\ n \in Nat /\ DOMAIN done = 1..n /\ DOMAIN more = 1..(n + 1) /\ Len(more) = n + 1
        /\ more[n + 1] = last /\ \A i \in 1..n : more[i] = done[i] /\ done[i] \in GroupsOf(P, H)
    OBVIOUS
  <1>2. last.blocks \in Seq(P) /\ \A i \in 1..n : done[i].blocks \in Seq(P)
    BY <1>1 DEF GroupsOf
  <1> HIDE DEF n, more
  <1>3. BlocksOf(done) = [i \in 1..n |-> done[i].blocks]
    BY <1>1 DEF BlocksOf
  <1>4. BlocksOf(done) \in Seq(Seq(P)) /\ Len(BlocksOf(done)) = n
    <2> DEFINE S == Seq(P)
    <2> HIDE DEF S
    <2>1. \A i \in 1..n : done[i].blocks \in S
      BY <1>2 DEF S
    <2>2. [i \in 1..n |-> done[i].blocks] \in Seq(S) /\ Len([i \in 1..n |-> done[i].blocks]) = n
      BY <1>1, <2>1
    <2> QED BY <1>3, <2>2 DEF S
  <1>5. BlocksOf(more) = Append(BlocksOf(done), last.blocks)
    <2> DEFINE s == BlocksOf(done)
    <2>1. BlocksOf(more) = [i \in 1..(n + 1) |-> more[i].blocks]
      BY <1>1 DEF BlocksOf
    <2>2. s \in Seq(Seq(P)) /\ Len(s) = n /\ \A i \in 1..n : s[i] = done[i].blocks
      BY <1>3, <1>4
    <2> HIDE DEF s
    <2>3. Append(s, last.blocks) = [i \in 1..(n + 1) |-> IF i <= n THEN s[i] ELSE last.blocks]
      BY <1>1, <1>2, <2>2
    <2>4. \A i \in 1..(n + 1) : more[i].blocks = IF i <= n THEN s[i] ELSE last.blocks
      BY <1>1, <2>2
    <2>5. BlocksOf(more) = Append(s, last.blocks)
      BY <2>1, <2>3, <2>4
    <2> QED BY <2>5 DEF s
  <1>6. FlattenSeq(BlocksOf(more)) = FlattenSeq(BlocksOf(done)) \o last.blocks
    BY <1>2, <1>4, <1>5, FlattenedOneMore
  <1> QED BY <1>4, <1>6, FlattenedSeq DEF n, more

LEMMA ThenOneMore ==
    ASSUME NEW P, NEW s \in Seq(P), NEW t \in Seq(P), NEW p \in P
    PROVE  s \o Append(t, p) = (s \o t) \o <<p>>
  <1>1. Append(t, p) = t \o <<p>> /\ <<p>> \in Seq(P)
    BY AppendIsConcat
  <1> QED BY <1>1, ConcatAssociative

LEMMA OneBlock ==
    ASSUME NEW P, Sized(P), NEW p \in P
    PROVE  Length(<<p>>) = p.len /\ <<p>> \in Seq(P) /\ Len(<<p>>) = 1 /\ <<p>>[1] = p
  <1>1. <<>> \in Seq(P) /\ Append(<<>>, p) = <<p>>
    OBVIOUS
  <1>2. p.len \in Nat
    BY DEF Sized
  <1>3. Length(Append(<<>>, p)) = Length(<<>>) + p.len
    BY <1>1, LengthOneMore
  <1>4. Length(<<p>>) = p.len
    BY <1>1, <1>2, <1>3, LengthOfNone
  <1>5. <<p>> \in Seq(P) /\ Len(<<p>>) = 1 /\ <<p>>[1] = p
    OBVIOUS
  <1> QED BY <1>4, <1>5

LEMMA FirstParagraph ==
    ASSUME NEW page, Legible(page), 1 <= Len(Paragraphs(page)), NEW header,
           header = Above(page, Paragraphs(page)[1])
    PROVE  Tidy(page, <<>>, [blocks |-> <<Paragraphs(page)[1]>>, header |-> header], 1)
  <1> DEFINE ps == Paragraphs(page)
             P == ToSet(ps)
             last == [blocks |-> <<ps[1]>>, header |-> header]
  <1>1. ps \in Seq(P) /\ Sized(P) /\ Len(ps) \in Nat /\ ps[1] \in P
    BY ParagraphsAre
  <1> HIDE DEF P
  <1>2. FlattenSeq(BlocksOf(<<>>)) \o last.blocks = SubSeq(ps, 1, 1)
    <2>1. BlocksOf(<<>>) = <<>>
      BY DEF BlocksOf
    <2>2. SubSeq(ps, 1, 1) = <<ps[1]>>
      <3> HIDE DEF ps
      <3>1. /\ SubSeq(ps, 1, 1) \in Seq(P) /\ Len(SubSeq(ps, 1, 1)) = 1
            /\ SubSeq(ps, 1, 1)[1] = ps[1]
        <4>1. \A j \in 1..1 : ps[j] \in P
          BY <1>1
        <4> QED BY <4>1, SubSeqProperties
      <3>2. <<ps[1]>> \in Seq(P) /\ Len(<<ps[1]>>) = 1 /\ <<ps[1]>>[1] = ps[1]
        BY <1>1
      <3>3. \A j \in 1..1 : SubSeq(ps, 1, 1)[j] = <<ps[1]>>[j]
        BY <3>1, <3>2
      <3> QED BY <3>1, <3>2, <3>3, SeqEqual
    <2>3. <<>> \o <<ps[1]>> = <<ps[1]>>
      OBVIOUS
    <2> QED BY <2>1, <2>2, <2>3, FlattenedNone
  <1>3. Proper(page, last)
    BY <1>1, OneBlock DEF Proper
  <1>4. Len(<<>>) = 0
    OBVIOUS
  <1> QED BY <1>2, <1>3, <1>4 DEF Tidy

\* The group takes one more paragraph.
LEMMA GroupGrows ==
    ASSUME NEW page, Legible(page), NEW H, NEW i \in 2..Len(Paragraphs(page)),
           NEW done \in Seq(GroupsOf(ToSet(Paragraphs(page)), H)),
           NEW last \in GroupsOf(ToSet(Paragraphs(page)), H),
           Tidy(page, done, last, i - 1),
           Length(last.blocks) + Paragraphs(page)[i].len <= ChunkChars,
           Above(page, Paragraphs(page)[i]) = last.header
    PROVE  Tidy(page, done,
                [blocks |-> Append(last.blocks, Paragraphs(page)[i]), header |-> last.header], i)
  <1> DEFINE ps == Paragraphs(page)
             P == ToSet(ps)
             p == ps[i]
             grown == [blocks |-> Append(last.blocks, p), header |-> last.header]
  <1>1. ps \in Seq(P) /\ Sized(P) /\ Len(ps) \in Nat /\ p \in P
    BY ParagraphsAre
  <1>2. last.blocks \in Seq(P)
    BY DEF GroupsOf
  <1>3. /\ Len(last.blocks) \in Nat /\ Len(grown.blocks) = Len(last.blocks) + 1
        /\ last.blocks # <<>> => Len(last.blocks) >= 1
        /\ grown.blocks # <<>>
        /\ grown.blocks[Len(last.blocks) + 1] = p
        /\ \A j \in 1..Len(last.blocks) : grown.blocks[j] = last.blocks[j]
    BY <1>1, <1>2
  <1>4. Length(grown.blocks) = Length(last.blocks) + p.len
    BY <1>1, <1>2, LengthOneMore
  <1>5. last.blocks # <<>> /\ \A j \in 1..Len(last.blocks) : Above(page, last.blocks[j]) = last.header
    BY DEF Tidy, Proper
  <1>6. FlattenSeq(BlocksOf(done)) \o grown.blocks = SubSeq(ps, 1, i)
    <2> DEFINE before == FlattenSeq(BlocksOf(done))
    <2>1. before \in Seq(P)
      BY BlocksOneMore
    <2>2. before \o last.blocks = SubSeq(ps, 1, i - 1)
      BY DEF Tidy
    <2>3. SubSeq(ps, 1, i) = SubSeq(ps, 1, i - 1) \o <<p>>
      <3>1. 1 \in 1..Len(ps) /\ i \in 1..Len(ps)
        BY <1>1
      <3> HIDE DEF ps, P
      <3> QED BY <1>1, <3>1, SubSeqRecursiveSecond DEF p
    <2> HIDE DEF before, ps, P, p
    <2>4. before \o Append(last.blocks, p) = (before \o last.blocks) \o <<p>>
      <3>1. p \in P /\ <<p>> \in Seq(P)
        BY <1>1 DEF p
      <3>2. last.blocks \in Seq(P)
        BY <1>2
      <3> DEFINE t == last.blocks
      <3> HIDE DEF t
      <3>3. before \o Append(t, p) = (before \o t) \o <<p>>
        <4>1. t \in Seq(P)
          BY <3>2 DEF t
        <4>2. before \in Seq(P) /\ p \in P
          BY <2>1, <3>1
        <4> QED BY <4>1, <4>2, ThenOneMore
      <3> QED BY <3>3 DEF t
    <2> QED BY <2>2, <2>3, <2>4 DEF before
  <1> HIDE DEF grown, p
  <1>7. grown.header = last.header /\ grown.blocks[1] = last.blocks[1]
    BY <1>3, <1>5 DEF grown
  <1>8. Proper(page, grown)
    <2>1. \A j \in 1..Len(grown.blocks) : j \in 1..Len(last.blocks) \/ j = Len(last.blocks) + 1
      BY <1>3
    <2>2. \A j \in 1..Len(grown.blocks) : Above(page, grown.blocks[j]) = grown.header
      BY <1>3, <1>5, <1>7, <2>1 DEF p
    <2> QED BY <1>3, <1>4, <2>2 DEF Proper, p
  <1>9. Len(done) # 0 => Parted(done[Len(done)], grown)
    BY <1>7 DEF Tidy, Parted
  <1>10. Tidy(page, done, grown, i)
    BY <1>6, <1>8, <1>9 DEF Tidy
  <1> QED BY <1>10 DEF grown, p

\* The group is done, and the next is begun.
LEMMA GroupOpens ==
    ASSUME NEW page, Legible(page), NEW H, NEW i \in 2..Len(Paragraphs(page)),
           NEW done \in Seq(GroupsOf(ToSet(Paragraphs(page)), H)),
           NEW last \in GroupsOf(ToSet(Paragraphs(page)), H),
           Tidy(page, done, last, i - 1),
           NEW header, header = Above(page, Paragraphs(page)[i]),
           Length(last.blocks) + Paragraphs(page)[i].len > ChunkChars \/ header # last.header
    PROVE  Tidy(page, Append(done, last),
                [blocks |-> <<Paragraphs(page)[i]>>, header |-> header], i)
  <1> DEFINE ps == Paragraphs(page)
             P == ToSet(ps)
             p == ps[i]
             next == [blocks |-> <<p>>, header |-> header]
             more == Append(done, last)
             n == Len(done)
  <1>1. ps \in Seq(P) /\ Sized(P) /\ Len(ps) \in Nat /\ p \in P
    BY ParagraphsAre
  <1>2. /\ n \in Nat /\ Len(more) = n + 1 /\ more[n + 1] = last
        /\ \A j \in 1..n : more[j] = done[j]
    OBVIOUS
  <1>3. FlattenSeq(BlocksOf(more)) \o next.blocks = SubSeq(ps, 1, i)
    <2>1. FlattenSeq(BlocksOf(more)) = SubSeq(ps, 1, i - 1)
      <3>1. FlattenSeq(BlocksOf(more)) = FlattenSeq(BlocksOf(done)) \o last.blocks
        BY BlocksOneMore
      <3>2. FlattenSeq(BlocksOf(done)) \o last.blocks = SubSeq(ps, 1, i - 1)
        BY DEF Tidy
      <3> QED BY <3>1, <3>2
    <2>2. SubSeq(ps, 1, i) = SubSeq(ps, 1, i - 1) \o <<p>>
      <3>1. 1 \in 1..Len(ps) /\ i \in 1..Len(ps)
        BY <1>1
      <3> HIDE DEF ps, P
      <3> QED BY <1>1, <3>1, SubSeqRecursiveSecond DEF p
    <2>3. next.blocks = <<p>>
      OBVIOUS
    <2> QED BY <2>1, <2>2, <2>3
  <1>4. Proper(page, next)
    BY <1>1, OneBlock DEF Proper
  <1>5. Parted(last, next)
    BY <1>1, OneBlock DEF Parted
  <1> HIDE DEF next, more, n
  <1>6. ASSUME NEW j \in 1..Len(more) PROVE Proper(page, more[j])
    <2>1. Proper(page, last) /\ \A k \in 1..n : Proper(page, done[k])
      BY DEF Tidy, n
    <2>2. CASE j = n + 1
      BY <1>2, <2>1, <2>2
    <2>3. CASE j # n + 1
      <3>1. j \in 1..n
        BY <1>2, <2>3
      <3> QED BY <1>2, <2>1, <3>1
    <2> QED BY <2>2, <2>3
  <1>7. ASSUME NEW j \in 1..(Len(more) - 1) PROVE Parted(more[j], more[j + 1])
    <2>1. CASE j = n
      <3>1. n \in 1..n /\ n # 0
        BY <1>2, <2>1
      <3> QED BY <1>2, <2>1, <3>1 DEF Tidy, n
    <2>2. CASE j # n
      <3>1. j \in 1..n /\ j + 1 \in 1..n /\ j \in 1..(n - 1)
        BY <1>2, <2>2
      <3> QED BY <1>2, <3>1 DEF Tidy, n
    <2> QED BY <2>1, <2>2
  <1>8. Tidy(page, more, next, i)
    BY <1>2, <1>3, <1>4, <1>5, <1>6, <1>7 DEF Tidy
  <1> QED BY <1>8 DEF more, next

Filled(g) == [blocks |-> g.buf, header |-> g.header]

LEMMA PutOnEmpty ==
    ASSUME NEW p, NEW header, p.len \in Nat
    PROVE  LET g == Put(NoGroups, p, header) IN
           g.done = <<>> /\ g.buf = <<p>> /\ g.len = p.len /\ g.header = header
  <1>1. ~Full(NoGroups, p, header)
    BY DEF Full, NoGroups
  <1>2. Append(<<>>, p) = <<p>> /\ 0 + p.len = p.len
    OBVIOUS
  <1> QED BY <1>1, <1>2 DEF Put, NoGroups

LEMMA PutWithin ==
    ASSUME NEW P, NEW H, NEW g \in HeldBy(P, H), NEW p, NEW header, ~Full(g, p, header),
           header = g.header
    PROVE  LET k == Put(g, p, header) IN
           k.done = g.done /\ k.buf = Append(g.buf, p) /\ k.len = g.len + p.len
           /\ k.header = g.header
  BY DEF Put, HeldBy

LEMMA PutBeyond ==
    ASSUME NEW P, NEW H, NEW g \in HeldBy(P, H), NEW p, NEW header, Full(g, p, header),
           p.len \in Nat
    PROVE  LET k == Put(g, p, header) IN
           k.done = Append(g.done, Filled(g)) /\ k.buf = <<p>> /\ k.len = p.len
           /\ k.header = header
  <1>1. g.buf # <<>>
    BY DEF Full
  <1>2. /\ Flush(g).done = Append(g.done, Filled(g)) /\ Flush(g).buf = <<>>
        /\ Flush(g).len = 0 /\ Flush(g).header = NoHeader
        /\ Flush(g) = [done |-> Append(g.done, Filled(g)), buf |-> <<>>, len |-> 0, header |-> NoHeader]
    BY <1>1 DEF Flush, NoGroups, Filled
  <1>3. Put(g, p, header) = [Flush(g) EXCEPT !.buf = Append(@, p), !.len = @ + p.len,
                                 !.header = IF @ = NoHeader THEN header ELSE @]
    BY DEF Put
  <1>4. Append(<<>>, p) = <<p>> /\ 0 + p.len = p.len
    OBVIOUS
  <1> HIDE DEF Filled
  <1> QED BY <1>2, <1>3, <1>4

\* What the loop holds after i paragraphs.
Held(page, g, i) ==
    g.len = Length(g.buf) /\ Tidy(page, g.done, Filled(g), i)

LEMMA HeldFirst ==
    ASSUME NEW page, Legible(page), 1 <= Len(Paragraphs(page))
    PROVE  Held(page, Put(NoGroups, Paragraphs(page)[1], Above(page, Paragraphs(page)[1])), 1)
  <1> DEFINE p == Paragraphs(page)[1]
             P == ToSet(Paragraphs(page))
             g == Put(NoGroups, p, Above(page, p))
  <1>1. p \in P /\ Sized(P)
    BY ParagraphsAre
  <1>2. p.len \in Nat
    BY <1>1 DEF Sized
  <1>3. g.done = <<>> /\ g.buf = <<p>> /\ g.len = p.len /\ g.header = Above(page, p)
    BY <1>2, PutOnEmpty
  <1>4. Length(<<p>>) = p.len
    <2> HIDE DEF p, P
    <2> QED BY <1>1, OneBlock
  <1>5. Tidy(page, <<>>, [blocks |-> <<p>>, header |-> Above(page, p)], 1)
    BY FirstParagraph
  <1> HIDE DEF g, p
  <1>6. Held(page, g, 1)
    BY <1>3, <1>4, <1>5 DEF Held, Filled
  <1> QED BY <1>6 DEF g, p

LEMMA HeldNext ==
    ASSUME NEW page, Legible(page), NEW H, NEW i \in 2..Len(Paragraphs(page)),
           NEW g \in HeldBy(ToSet(Paragraphs(page)), H), Held(page, g, i - 1)
    PROVE  Held(page, Put(g, Paragraphs(page)[i], Above(page, Paragraphs(page)[i])), i)
  <1> DEFINE p == Paragraphs(page)[i]
             P == ToSet(Paragraphs(page))
             header == Above(page, p)
             k == Put(g, p, header)
  <1>1. p \in P /\ Sized(P) /\ Paragraphs(page) \in Seq(P)
    BY ParagraphsAre
  <1>2. p.len \in Nat
    BY <1>1 DEF Sized
  <1>3. /\ g.buf \in Seq(P) /\ g.done \in Seq(GroupsOf(P, H)) /\ Filled(g) \in GroupsOf(P, H)
        /\ g.len \in Nat
    BY DEF HeldBy, GroupsOf, Filled
  <1>4. g.len = Length(g.buf) /\ Tidy(page, g.done, Filled(g), i - 1)
    BY DEF Held
  <1>5. Filled(g).blocks = g.buf /\ Filled(g).header = g.header
    BY DEF Filled
  <1>6. g.buf # <<>>
    BY <1>4, <1>5 DEF Tidy, Proper
  <1>7. CASE Full(g, p, header)
    <2>1. k.done = Append(g.done, Filled(g)) /\ k.buf = <<p>> /\ k.len = p.len
          /\ k.header = header
      BY <1>2, <1>7, PutBeyond
    <2>2. Length(Filled(g).blocks) + p.len > ChunkChars \/ header # Filled(g).header
      BY <1>4, <1>5, <1>7 DEF Full
    <2>3. Tidy(page, Append(g.done, Filled(g)), [blocks |-> <<p>>, header |-> header], i)
      BY <1>3, <1>4, <2>2, GroupOpens
    <2>4. Length(<<p>>) = p.len
      <3> HIDE DEF p, P
      <3> QED BY <1>1, OneBlock
    <2> HIDE DEF k, p, header
    <2>5. Filled(k) = [blocks |-> <<p>>, header |-> header]
      BY <2>1 DEF Filled
    <2> QED BY <2>1, <2>3, <2>4, <2>5 DEF Held, k, p, header
  <1>8. CASE ~Full(g, p, header)
    <2>1. g.len + p.len <= ChunkChars /\ header = g.header
      BY <1>2, <1>3, <1>6, <1>8, ChunkerAssumption DEF Full
    <2>2. k.done = g.done /\ k.buf = Append(g.buf, p) /\ k.len = g.len + p.len
          /\ k.header = g.header
      BY <1>8, <2>1, PutWithin
    <2>3. Tidy(page, g.done,
               [blocks |-> Append(Filled(g).blocks, p), header |-> Filled(g).header], i)
      BY <1>3, <1>4, <1>5, <2>1, GroupGrows
    <2>4. Length(Append(g.buf, p)) = Length(g.buf) + p.len
      BY <1>1, <1>3, LengthOneMore
    <2> HIDE DEF k, p, header
    <2>5. Filled(k) = [blocks |-> Append(Filled(g).blocks, p), header |-> Filled(g).header]
      BY <1>5, <2>2 DEF Filled
    <2> QED BY <1>4, <2>2, <2>3, <2>4, <2>5 DEF Held, k, p, header
  <1> QED BY <1>7, <1>8

LEMMA WalkHolds ==
    ASSUME NEW page, Legible(page), Len(Paragraphs(page)) # 0
    PROVE  \E H : \A i \in 1..Len(Paragraphs(page)) :
              /\ Walk(page)[i] \in HeldBy(ToSet(Paragraphs(page)), H)
              /\ Held(page, Walk(page)[i], i)
  <1> DEFINE ps == Paragraphs(page)
             n == Len(ps)
             P == ToSet(ps)
             W == Walk(page)
  <1>1. PICK H : NoHeader \in H /\ W \in [0..n -> HeldBy(P, H)]
    BY WalkIs
  <1>2. W[0] = NoGroups /\ \A i \in 1..n : W[i] = Put(W[i - 1], ps[i], Above(page, ps[i]))
    BY WalkIs
  <1>3. n \in Nat
    BY ParagraphsAre
  <1> DEFINE so == {i \in 0..n : i # 0 => Held(page, W[i], i)}
  <1>4. 0 \in so
    BY <1>3
  <1>5. ASSUME NEW i \in 1..n, i - 1 \in so PROVE i \in so
    <2>1. i \in 0..n /\ i - 1 \in 0..n
      BY <1>3
    <2>2. W[i] = Put(W[i - 1], ps[i], Above(page, ps[i]))
      BY <1>2
    <2>3. CASE i = 1
      <3>1. W[i] = Put(NoGroups, ps[1], Above(page, ps[1]))
        BY <1>2, <2>2, <2>3
      <3>2. Held(page, Put(NoGroups, ps[1], Above(page, ps[1])), 1)
        BY <1>3, HeldFirst
      <3> QED BY <2>1, <2>3, <3>1, <3>2
    <2>4. CASE i # 1
      <3>1. i \in 2..n /\ W[i - 1] \in HeldBy(P, H)
        BY <1>1, <1>3, <2>1, <2>4
      <3>2. Held(page, W[i - 1], i - 1)
        BY <1>5, <2>4
      <3>3. Held(page, Put(W[i - 1], ps[i], Above(page, ps[i])), i)
        BY <3>1, <3>2, HeldNext
      <3> QED BY <2>1, <2>2, <3>3
    <2> QED BY <2>3, <2>4
  <1>6. \A i \in 0..n : i \in so
    <2> HIDE DEF so, n
    <2>1. \A i \in 1..n : i - 1 \in so => i \in so
      BY <1>5
    <2> QED BY <1>3, <1>4, <2>1, UpTo
  <1>7. \A i \in 1..n : i \in 0..n /\ i # 0
    BY <1>3
  <1>8. \A i \in 1..n : W[i] \in HeldBy(P, H) /\ Held(page, W[i], i)
    BY <1>1, <1>6, <1>7
  <1> QED BY <1>8

\* The groups of a page, as its walk leaves them.
LEMMA GroupsAre ==
    ASSUME NEW page, Legible(page)
    PROVE  \/ Len(Paragraphs(page)) = 0 /\ Paragraphs(page) = <<>> /\ Groups(page) = <<>>
           \/ \E H : \E done \in Seq(GroupsOf(ToSet(Paragraphs(page)), H)),
                        last \in GroupsOf(ToSet(Paragraphs(page)), H) :
                 /\ Groups(page) = Append(done, last)
                 /\ Tidy(page, done, last, Len(Paragraphs(page)))
  <1> DEFINE ps == Paragraphs(page)
             n == Len(ps)
             P == ToSet(ps)
             g == Walk(page)[n]
  <1>1. n \in Nat /\ ps \in Seq(P)
    BY ParagraphsAre
  <1>2. Groups(page) = Flush(g).done
    BY DEF Groups
  <1>3. CASE n = 0
    <2>1. ps = <<>>
      BY <1>1, <1>3
    <2>2. g = NoGroups
      BY <1>3, WalkIs
    <2>3. Flush(NoGroups).done = <<>>
      BY DEF Flush, NoGroups
    <2> QED BY <1>2, <1>3, <2>1, <2>2, <2>3
  <1>4. CASE n # 0
    <2>1. n \in 1..n
      BY <1>1, <1>4
    <2>2. PICK H : \A i \in 1..n : Walk(page)[i] \in HeldBy(P, H) /\ Held(page, Walk(page)[i], i)
      BY <1>4, WalkHolds
    <2>3. g \in HeldBy(P, H) /\ Held(page, g, n)
      BY <2>1, <2>2
    <2> HIDE DEF g, P, n
    <2>4. g.done \in Seq(GroupsOf(P, H)) /\ Filled(g) \in GroupsOf(P, H)
      BY <2>3 DEF HeldBy, GroupsOf, Filled
    <2>5. Tidy(page, g.done, Filled(g), n) /\ g.buf # <<>>
      BY <2>3 DEF Held, Tidy, Proper, Filled
    <2>6. Flush(g).done = Append(g.done, Filled(g))
      BY <2>5 DEF Flush, NoGroups, Filled
    <2> QED BY <1>2, <2>4, <2>5, <2>6 DEF P, n
  <1> QED BY <1>3, <1>4

LEMMA GroupsFit ==
    ASSUME NEW page, Legible(page)
    PROVE  TightGroups(page, Groups(page))
  <1> DEFINE ps == Paragraphs(page)
             groups == Groups(page)
             P == ToSet(ps)
  <1>1. CASE ps = <<>> /\ groups = <<>>
    <2>1. [i \in DOMAIN <<>> |-> <<>>[i].blocks] = <<>> /\ ToSet(<<>>) = {} /\ Len(<<>>) = 0
      BY DEF ToSet
    <2>2. FlattenSeq([i \in DOMAIN groups |-> groups[i].blocks]) = ps
      BY <1>1, <2>1, FlattenedNone
    <2> QED BY <1>1, <2>1, <2>2 DEF TightGroups
  <1>2. CASE \E H : \E done \in Seq(GroupsOf(P, H)), last \in GroupsOf(P, H) :
                 groups = Append(done, last) /\ Tidy(page, done, last, Len(ps))
    <2>1. PICK H : \E done \in Seq(GroupsOf(P, H)), last \in GroupsOf(P, H) :
                 groups = Append(done, last) /\ Tidy(page, done, last, Len(ps))
      BY <1>2
    <2>2. PICK done \in Seq(GroupsOf(P, H)), last \in GroupsOf(P, H) :
                 groups = Append(done, last) /\ Tidy(page, done, last, Len(ps))
      BY <2>1
    <2> DEFINE n == Len(done)
    <2>3. /\ n \in Nat /\ Len(groups) = n + 1 /\ groups[n + 1] = last
          /\ DOMAIN groups = 1..(n + 1) /\ \A j \in 1..n : groups[j] = done[j]
      BY <2>2
    <2>4. FlattenSeq([i \in DOMAIN groups |-> groups[i].blocks]) = ps
      <3>1. FlattenSeq(BlocksOf(Append(done, last))) = FlattenSeq(BlocksOf(done)) \o last.blocks
        BY BlocksOneMore
      <3>2. FlattenSeq(BlocksOf(done)) \o last.blocks = SubSeq(ps, 1, Len(ps))
        BY <2>2 DEF Tidy
      <3>3. SubSeq(ps, 1, Len(ps)) = ps
        <4>1. ps \in Seq(P)
          BY ParagraphsAre
        <4> HIDE DEF ps, P
        <4> QED BY <4>1, SubSeqFull
      <3> QED BY <2>2, <3>1, <3>2, <3>3 DEF BlocksOf
    <2> HIDE DEF groups, n, ps
    <2>5. ASSUME NEW j \in 1..(n + 1) PROVE Proper(page, groups[j])
      <3>1. Proper(page, last) /\ \A m \in 1..n : Proper(page, done[m])
        BY <2>2 DEF Tidy, n
      <3>2. CASE j = n + 1
        BY <2>3, <3>1, <3>2
      <3>3. CASE j # n + 1
        <4>1. j \in 1..n
          BY <2>3, <3>3
        <4> QED BY <2>3, <3>1, <4>1
      <3> QED BY <3>2, <3>3
    <2>6. \A g \in ToSet(groups) : Length(g.blocks) <= ChunkChars \/ Len(g.blocks) = 1
      BY <2>3, <2>5 DEF ToSet, Proper
    <2>7. ASSUME NEW j \in 1..(Len(groups) - 1) PROVE Parted(groups[j], groups[j + 1])
      <3>1. CASE j = n
        <4>1. n # 0 /\ n \in 1..n
          BY <2>3, <3>1
        <4> QED BY <2>2, <2>3, <3>1, <4>1 DEF Tidy, n
      <3>2. CASE j # n
        <4>1. j \in 1..n /\ j + 1 \in 1..n /\ j \in 1..(n - 1)
          BY <2>3, <3>2
        <4> QED BY <2>2, <2>3, <4>1 DEF Tidy, n
      <3> QED BY <3>1, <3>2
    <2> QED BY <2>4, <2>6, <2>7 DEF TightGroups, Parted, groups, ps
  <1> QED BY <1>1, <1>2, GroupsAre

(***************************************************************************)
(* Chunks                                                                  *)
(***************************************************************************)
IsSequence(s) == s \in Seq(ToSet(s))

LEMMA OfItsOwn ==
    ASSUME NEW T, NEW s \in Seq(T)
    PROVE  IsSequence(s) /\ ToSet(s) \subseteq T /\ DOMAIN s = 1..Len(s) /\ Len(s) \in Nat
  <1>1. Len(s) \in Nat /\ DOMAIN s = 1..Len(s) /\ s = [i \in 1..Len(s) |-> s[i]]
    OBVIOUS
  <1>2. \A i \in 1..Len(s) : s[i] \in ToSet(s) /\ s[i] \in T
    BY <1>1 DEF ToSet
  <1>3. [i \in 1..Len(s) |-> s[i]] \in Seq(ToSet(s))
    BY <1>1, <1>2
  <1>4. ToSet(s) \subseteq T
    BY <1>1, <1>2 DEF ToSet
  <1> QED BY <1>1, <1>3, <1>4 DEF IsSequence

LEMMA ListedIs ==
    ASSUME NEW n \in Nat, NEW s, DOMAIN s = 1..n, s = [i \in 1..n |-> s[i]]
    PROVE  IsSequence(s) /\ Len(s) = n
  <1>1. \A i \in 1..n : s[i] \in ToSet(s)
    BY DEF ToSet
  <1>2. [i \in 1..n |-> s[i]] \in Seq(ToSet(s)) /\ Len([i \in 1..n |-> s[i]]) = n
    BY <1>1
  <1> QED BY <1>2 DEF IsSequence

LEMMA FlattenedOf ==
    ASSUME NEW n \in Nat, NEW seqs, DOMAIN seqs = 1..n, seqs = [i \in 1..n |-> seqs[i]],
           \A i \in 1..n : IsSequence(seqs[i])
    PROVE  /\ IsSequence(FlattenSeq(seqs))
           /\ \A x : x \in ToSet(FlattenSeq(seqs)) <=> \E i \in 1..n : x \in ToSet(seqs[i])
  <1> DEFINE T == UNION {ToSet(seqs[i]) : i \in 1..n}
             S == Seq(T)
  <1>1. ASSUME NEW i \in 1..n PROVE seqs[i] \in S
    <2>1. ToSet(seqs[i]) \subseteq T
      OBVIOUS
    <2>2. seqs[i] \in Seq(ToSet(seqs[i]))
      BY DEF IsSequence
    <2> HIDE DEF T
    <2> QED BY <2>1, <2>2, SeqMonotonic
  <1> HIDE DEF S
  <1>2. [i \in 1..n |-> seqs[i]] \in Seq(S) /\ Len([i \in 1..n |-> seqs[i]]) = n
    BY <1>1
  <1>3. seqs \in Seq(Seq(T)) /\ Len(seqs) = n
    BY <1>2 DEF S
  <1> HIDE DEF T
  <1>4. IsSequence(FlattenSeq(seqs))
    BY <1>3, FlattenedSeq, OfItsOwn
  <1>5. ASSUME NEW x
        PROVE  x \in ToSet(FlattenSeq(seqs)) <=> \E i \in 1..n : x \in ToSet(seqs[i])
    BY <1>3, FlattenedAll
  <1> QED BY <1>4, <1>5

LEMMA JoinedOf ==
    ASSUME NEW s, NEW t, IsSequence(s), IsSequence(t)
    PROVE  /\ IsSequence(s \o t)
           /\ \A x : x \in ToSet(s \o t) <=> x \in ToSet(s) \/ x \in ToSet(t)
  <1> DEFINE T == ToSet(s) \cup ToSet(t)
  <1>1. s \in Seq(ToSet(s)) /\ t \in Seq(ToSet(t)) /\ ToSet(s) \subseteq T /\ ToSet(t) \subseteq T
    BY DEF IsSequence
  <1> HIDE DEF T
  <1>2. s \in Seq(T) /\ t \in Seq(T)
    BY <1>1, SeqMonotonic
  <1>3. s \o t \in Seq(T)
    BY <1>2
  <1>4. IsSequence(s \o t)
    BY <1>3, OfItsOwn
  <1>5. ASSUME NEW x PROVE x \in ToSet(s \o t) <=> x \in ToSet(s) \/ x \in ToSet(t)
    BY <1>2, JoinedAll
  <1> QED BY <1>4, <1>5

\* The windows of a text are finitely many, in order of their start.
LEMMA WindowsAre ==
    ASSUME NEW length \in Nat
    PROVE  LET windows == SplitProse(length, {}) IN
           /\ IsFiniteSet(windows)
           /\ \A w \in windows : w.from \in Int /\ w.to \in Int
           /\ KeepsPhrases(length, {}, windows)
  <1> DEFINE windows == SplitProse(length, {})
  <1>1. KeepsPhrases(length, {}, windows)
    BY LongTextsKept, ShortTextsKept, ChunkerAssumption
  <1>2. CASE length <= ChunkChars
    <2>1. windows = {[from |-> 0, to |-> length]}
      BY <1>2 DEF SplitProse
    <2>2. IsFiniteSet({[from |-> 0, to |-> length]})
      BY FS_Singleton
    <2>3. \A w \in {[from |-> 0, to |-> length]} : w.from \in Int /\ w.to \in Int
      OBVIOUS
    <2> QED BY <1>1, <2>1, <2>2, <2>3
  <1>3. CASE length > ChunkChars
    <2> DEFINE I == {i \in 1..length : i = 1 \/ Start(i - 1) + ChunkChars < length}
    <2>1. Windows(length) = {Window(i, length) : i \in I}
      BY DEF Windows
    <2>2. IsFiniteSet(I)
      <3>1. IsFiniteSet(1..length) /\ I \subseteq 1..length
        BY FS_Interval
      <3> HIDE DEF I
      <3> QED BY <3>1, FS_Subset
    <2>3. IsFiniteSet(Windows(length))
      <3> DEFINE f == [i \in I |-> Window(i, length)]
      <3>1. f \in Surjection(I, Windows(length))
        BY <2>1 DEF Surjection
      <3> HIDE DEF I, f
      <3> QED BY <2>2, <3>1, FS_Surjection
    <2>4. windows \subseteq Windows(length)
      BY <1>3, ChunkerAssumption DEF SplitProse
    <2>5. ASSUME NEW w \in Windows(length) PROVE w.from \in Int /\ w.to \in Int
      <3>1. PICK i \in I : w = Window(i, length)
        BY <2>1
      <3> QED BY <1>3, <3>1, Windowed, ChunkerAssumption
    <2> HIDE DEF windows
    <2>6. IsFiniteSet(windows)
      BY <2>3, <2>4, FS_Subset
    <2> QED BY <1>1, <2>4, <2>5, <2>6 DEF windows
  <1> QED BY <1>2, <1>3, ChunkerAssumption

LEMMA PiecesAre ==
    ASSUME NEW length \in Nat
    PROVE  LET windows == SplitProse(length, {})
               pieces == Sorted(windows, {p \in windows \X windows : p[1].from < p[2].from})
           IN  /\ Cardinality(windows) \in Nat
               /\ DOMAIN pieces = 1..Cardinality(windows)
               /\ \A w \in windows : \E i \in DOMAIN pieces : pieces[i] = w
  <1> DEFINE windows == SplitProse(length, {})
             R == {p \in windows \X windows : p[1].from < p[2].from}
  <1>1. /\ IsFiniteSet(windows) /\ \A w \in windows : w.from \in Int /\ w.to \in Int
        /\ \A v, w \in windows : v # w => v.from < w.from \/ v.to > w.to
    BY WindowsAre DEF KeepsPhrases
  <1> HIDE DEF windows
  <1>2. \A v, w \in windows : <<v, w>> \in R <=> v.from < w.from
    OBVIOUS
  <1>3. \A v, w \in windows : v # w => v.from < w.from \/ w.from < v.from
    BY <1>1
  <1> HIDE DEF R
  <1>4. StrictOrder(windows, R)
    BY <1>1, <1>2, <1>3 DEF StrictOrder
  <1>5. InOrder(Sorted(windows, R), windows, R)
    BY <1>1, <1>4, SortedInOrder
  <1>6. Cardinality(windows) \in Nat
    BY <1>1, FS_CardinalityType
  <1> QED BY <1>5, <1>6 DEF InOrder, windows, R

\* The groups of a page are a sequence, of groups as they should be.
LEMMA GroupsProper ==
    ASSUME NEW page, Legible(page)
    PROVE  LET P == ToSet(Paragraphs(page))
               n == Len(Groups(page))
           IN  /\ IsSequence(Groups(page)) /\ n \in Nat /\ DOMAIN Groups(page) = 1..n
               /\ \A j \in 1..n : Proper(page, Groups(page)[j]) /\ Groups(page)[j].blocks \in Seq(P)
               /\ \A p \in P : \E j \in 1..n : p \in ToSet(Groups(page)[j].blocks)
  <1> DEFINE ps == Paragraphs(page)
             P == ToSet(ps)
             groups == Groups(page)
  <1>1. CASE ps = <<>> /\ groups = <<>>
    <2>1. <<>> \in Seq({}) /\ ToSet(<<>>) = {} /\ Len(<<>>) = 0 /\ DOMAIN <<>> = 1..0
      BY DEF ToSet
    <2> QED BY <1>1, <2>1 DEF IsSequence
  <1>2. CASE \E H : \E done \in Seq(GroupsOf(P, H)), last \in GroupsOf(P, H) :
                 groups = Append(done, last) /\ Tidy(page, done, last, Len(ps))
    <2>1. PICK H : \E done \in Seq(GroupsOf(P, H)), last \in GroupsOf(P, H) :
                 groups = Append(done, last) /\ Tidy(page, done, last, Len(ps))
      BY <1>2
    <2>2. PICK done \in Seq(GroupsOf(P, H)), last \in GroupsOf(P, H) :
                 groups = Append(done, last) /\ Tidy(page, done, last, Len(ps))
      BY <2>1
    <2> DEFINE n == Len(done)
    <2>3. /\ n \in Nat /\ Len(groups) = n + 1 /\ groups[n + 1] = last
          /\ DOMAIN groups = 1..(n + 1) /\ \A j \in 1..n : groups[j] = done[j]
      BY <2>2
    <2>4. groups \in Seq(GroupsOf(P, H))
      BY <2>2
    <2> HIDE DEF groups, n
    <2>5. ASSUME NEW j \in 1..(n + 1) PROVE Proper(page, groups[j])
      <3>1. Proper(page, last) /\ \A m \in 1..n : Proper(page, done[m])
        BY <2>2 DEF Tidy, n
      <3>2. CASE j = n + 1
        BY <2>3, <3>1, <3>2
      <3>3. CASE j # n + 1
        <4>1. j \in 1..n
          BY <2>3, <3>3
        <4> QED BY <2>3, <3>1, <4>1
      <3> QED BY <3>2, <3>3
    <2>6. ASSUME NEW j \in 1..(n + 1) PROVE groups[j].blocks \in Seq(P)
      <3>1. groups[j] \in GroupsOf(P, H)
        BY <2>3, <2>4, ElementOfSeq
      <3> QED BY <3>1 DEF GroupsOf
    <2>7. /\ BlocksOf(groups) \in Seq(Seq(P)) /\ Len(BlocksOf(groups)) = n + 1
          /\ \A j \in 1..(n + 1) : BlocksOf(groups)[j] = groups[j].blocks
      <3>1. BlocksOf(groups) = [j \in 1..(n + 1) |-> groups[j].blocks]
        BY <2>3 DEF BlocksOf
      <3> DEFINE S == Seq(P)
      <3> HIDE DEF S
      <3>2. \A j \in 1..(n + 1) : groups[j].blocks \in S
        BY <2>6 DEF S
      <3>3. /\ [j \in 1..(n + 1) |-> groups[j].blocks] \in Seq(S)
            /\ Len([j \in 1..(n + 1) |-> groups[j].blocks]) = n + 1
        BY <2>3, <3>2
      <3> QED BY <3>1, <3>3 DEF S
    <2>8. FlattenSeq(BlocksOf(groups)) = ps
      BY GroupsFit DEF TightGroups, BlocksOf, groups
    <2>9. ASSUME NEW p \in P PROVE \E j \in 1..(n + 1) : p \in ToSet(groups[j].blocks)
      <3>1. p \in ToSet(FlattenSeq(BlocksOf(groups)))
        BY <2>8
      <3> HIDE DEF P
      <3>2. \E j \in 1..(n + 1) : p \in ToSet(BlocksOf(groups)[j])
        BY <2>7, <3>1, FlattenedAll
      <3> QED BY <2>7, <3>2
    <2>10. IsSequence(groups)
      BY <2>4, OfItsOwn
    <2>11. /\ IsSequence(groups) /\ Len(groups) \in Nat /\ DOMAIN groups = 1..Len(groups)
           /\ \A j \in 1..Len(groups) : Proper(page, groups[j]) /\ groups[j].blocks \in Seq(P)
           /\ \A p \in P : \E j \in 1..Len(groups) : p \in ToSet(groups[j].blocks)
      <3> HIDE DEF P
      <3> QED BY <2>3, <2>5, <2>6, <2>9, <2>10
    <2> QED BY <2>11 DEF groups
  <1> QED BY <1>1, <1>2, GroupsAre

ProseChunk(n, group, piece) ==
    [page |-> n, type |-> "prose", header |-> group.header, blocks |-> group.blocks, piece |-> piece]

\* A group becomes one chunk for each of its windows.
LEMMA GroupChunksAre ==
    ASSUME NEW n, NEW P, Sized(P), NEW group, group.blocks \in Seq(P), group.blocks # <<>>
    PROVE  /\ IsSequence(GroupChunks(n, group))
           /\ \A w \in SplitProse(Joined(group.blocks), {}) :
                ProseChunk(n, group, w) \in ToSet(GroupChunks(n, group))
  <1> DEFINE blocks == group.blocks
             windows == SplitProse(Joined(blocks), {})
             pieces == Sorted(windows, {p \in windows \X windows : p[1].from < p[2].from})
             chunks == GroupChunks(n, group)
             m == Cardinality(windows)
  <1>1. Joined(blocks) \in Nat
    <2>1. 1 \in 1..Len(blocks)
      OBVIOUS
    <2> HIDE DEF blocks
    <2>2. blocks \in Seq(P)
      BY DEF blocks
    <2> QED BY <2>1, <2>2, OffsetsWithin
  <1>2. /\ m \in Nat /\ DOMAIN pieces = 1..m
        /\ \A w \in windows : \E i \in DOMAIN pieces : pieces[i] = w
    <2> HIDE DEF blocks
    <2> QED BY <1>1, PiecesAre
  <1>3. chunks = [i \in DOMAIN pieces |-> ProseChunk(n, group, pieces[i])]
    BY DEF GroupChunks, ProseChunk
  <1> HIDE DEF windows, pieces, chunks, m
  <1>4. DOMAIN chunks = 1..m /\ \A i \in 1..m : chunks[i] = ProseChunk(n, group, pieces[i])
    BY <1>2, <1>3
  <1>5. IsSequence(chunks)
    <2>1. chunks = [i \in 1..m |-> chunks[i]]
      BY <1>3, <1>4
    <2> QED BY <1>2, <1>4, <2>1, ListedIs
  <1>6. ASSUME NEW w \in windows PROVE ProseChunk(n, group, w) \in ToSet(chunks)
    <2>1. PICK i \in 1..m : pieces[i] = w
      BY <1>2
    <2> QED BY <1>4, <2>1 DEF ToSet
  <1> QED BY <1>5, <1>6 DEF chunks, windows, blocks

\* A page becomes a chunk for each of its tables, and those of its groups.
LEMMA PageChunksAre ==
    ASSUME NEW n, NEW page, Legible(page)
    PROVE  /\ IsSequence(ChunkPage(n, page))
           /\ \A t \in ToSet(RealTables(page)) : TableChunk(n, page, t) \in ToSet(ChunkPage(n, page))
           /\ \A j \in 1..Len(Groups(page)) : \A c \in ToSet(GroupChunks(n, Groups(page)[j])) :
                c \in ToSet(ChunkPage(n, page))
  <1> DEFINE tables == RealTables(page)
             groups == Groups(page)
             first == [i \in DOMAIN tables |-> TableChunk(n, page, tables[i])]
             parts == [j \in DOMAIN groups |-> GroupChunks(n, groups[j])]
             k == Len(groups)
  <1>1. ChunkPage(n, page) = first \o FlattenSeq(parts)
    BY DEF ChunkPage
  <1>2. DOMAIN tables = 1..Len(tables) /\ Len(tables) \in Nat
    BY ParagraphsAre, OfItsOwn
  <1>3. k \in Nat /\ DOMAIN groups = 1..k
    BY GroupsProper
  <1>4. ASSUME NEW j \in 1..k PROVE IsSequence(GroupChunks(n, groups[j]))
    <2>1. groups[j].blocks \in Seq(ToSet(Paragraphs(page))) /\ groups[j].blocks # <<>>
      BY GroupsProper DEF Proper
    <2>2. Sized(ToSet(Paragraphs(page)))
      BY ParagraphsAre
    <2> HIDE DEF groups
    <2> QED BY <2>1, <2>2, GroupChunksAre
  <1> HIDE DEF tables, groups, k
  <1>5. DOMAIN first = 1..Len(tables) /\ \A i \in 1..Len(tables) : first[i] = TableChunk(n, page, tables[i])
    BY <1>2
  <1>6. IsSequence(first)
    <2>1. first = [i \in 1..Len(tables) |-> first[i]]
      BY <1>5
    <2> HIDE DEF first
    <2> QED BY <1>2, <1>5, <2>1, ListedIs
  <1>7. DOMAIN parts = 1..k /\ \A j \in 1..k : parts[j] = GroupChunks(n, groups[j])
    BY <1>3
  <1>8. /\ IsSequence(FlattenSeq(parts))
        /\ \A x : x \in ToSet(FlattenSeq(parts)) <=> \E j \in 1..k : x \in ToSet(parts[j])
    <2>1. parts = [j \in 1..k |-> parts[j]]
      BY <1>7
    <2> HIDE DEF parts
    <2>2. \A j \in 1..k : IsSequence(parts[j])
      BY <1>4, <1>7
    <2> QED BY <1>3, <1>7, <2>1, <2>2, FlattenedOf
  <1> HIDE DEF first, parts
  <1>9. /\ IsSequence(first \o FlattenSeq(parts))
        /\ \A x : x \in ToSet(first \o FlattenSeq(parts))
                    <=> x \in ToSet(first) \/ x \in ToSet(FlattenSeq(parts))
    BY <1>6, <1>8, JoinedOf
  <1>10. ASSUME NEW t \in ToSet(tables) PROVE TableChunk(n, page, t) \in ToSet(ChunkPage(n, page))
    <2>1. PICK i \in 1..Len(tables) : t = tables[i]
      BY <1>2 DEF ToSet
    <2>2. TableChunk(n, page, t) \in ToSet(first)
      BY <1>5, <2>1 DEF ToSet
    <2> QED BY <1>1, <1>9, <2>2
  <1>11. ASSUME NEW j \in 1..k, NEW c \in ToSet(GroupChunks(n, groups[j]))
         PROVE  c \in ToSet(ChunkPage(n, page))
    <2>1. c \in ToSet(parts[j])
      BY <1>7
    <2> QED BY <1>1, <1>8, <1>9, <2>1
  <1> QED BY <1>1, <1>9, <1>10, <1>11 DEF tables, groups, k

\* A document that chunk_pdf can read.
AllLegible(pages) ==
    pages \in Seq(ToSet(pages)) /\ \A n \in DOMAIN pages : Legible(pages[n])

LEMMA DocumentChunksAre ==
    ASSUME NEW pages, AllLegible(pages), NEW excluded, NEW n \in DOMAIN pages \ excluded,
           NEW c \in ToSet(ChunkPage(n, pages[n]))
    PROVE  c \in ToSet(ChunkPdf(pages, excluded))
  <1> DEFINE parts == [i \in DOMAIN pages |-> IF i \in excluded THEN <<>> ELSE ChunkPage(i, pages[i])]
             k == Len(pages)
  <1>1. k \in Nat /\ DOMAIN pages = 1..k
    BY DEF AllLegible
  <1>2. ChunkPdf(pages, excluded) = FlattenSeq(parts)
    BY DEF ChunkPdf
  <1> HIDE DEF k
  <1>3. /\ DOMAIN parts = 1..k
        /\ \A i \in 1..k : parts[i] = IF i \in excluded THEN <<>> ELSE ChunkPage(i, pages[i])
    BY <1>1
  <1>4. parts = [i \in 1..k |-> parts[i]]
    BY <1>3
  <1> HIDE DEF parts
  <1>5. ASSUME NEW i \in 1..k PROVE IsSequence(parts[i])
    <2>1. CASE i \in excluded
      <3>1. parts[i] = <<>>
        BY <1>3, <2>1
      <3>2. <<>> \in Seq({}) 
        OBVIOUS
      <3> QED BY <3>1, <3>2, OfItsOwn
    <2>2. CASE i \notin excluded
      <3>1. Legible(pages[i])
        BY <1>1 DEF AllLegible
      <3>2. parts[i] = ChunkPage(i, pages[i])
        BY <1>3, <2>2
      <3> QED BY <3>1, <3>2, PageChunksAre
    <2> QED BY <2>1, <2>2
  <1>6. \A x : x \in ToSet(FlattenSeq(parts)) <=> \E i \in 1..k : x \in ToSet(parts[i])
    BY <1>1, <1>3, <1>4, <1>5, FlattenedOf
  <1>7. n \in 1..k /\ c \in ToSet(parts[n])
    BY <1>1, <1>3
  <1> QED BY <1>2, <1>6, <1>7

\* A phrase of a block is within a window of the text of its group.
LEMMA PhraseInWindow ==
    ASSUME NEW P, Sized(P), NEW blocks \in Seq(P), NEW k \in 1..Len(blocks),
           NEW x \in 0..(blocks[k].len - 1)
    PROVE  \E w \in SplitProse(Joined(blocks), {}) :
              /\ w.from <= Offset(blocks, k) + x
              /\ Min({Offset(blocks, k) + x + OverlapChars, Offset(blocks, k) + blocks[k].len - 1}) < w.to
  <1>1. PICK at, len, length : at = Offset(blocks, k) /\ len = blocks[k].len /\ length = Joined(blocks)
    OBVIOUS
  <1>2. at \in Nat /\ length \in Nat /\ at + len <= length
    BY <1>1, OffsetsWithin
  <1>3. len \in Nat
    BY <1>1 DEF Sized
  <1>4. PICK y : y = at + x
    OBVIOUS
  <1>5. y \in 0..(length - 1) /\ y \in Nat
    BY <1>1, <1>2, <1>3, <1>4
  <1>6. PICK end : end = Min({y + OverlapChars, length - 1})
    OBVIOUS
  <1>7. end = IF y + OverlapChars <= length - 1 THEN y + OverlapChars ELSE length - 1
    BY <1>2, <1>5, <1>6, LeastOfTwo, ChunkerAssumption
  <1>8. Min({at + x + OverlapChars, at + len - 1})
            = IF at + x + OverlapChars <= at + len - 1 THEN at + x + OverlapChars ELSE at + len - 1
    <2>1. at + x + OverlapChars \in Int /\ at + len - 1 \in Int
      BY <1>1, <1>2, <1>3, ChunkerAssumption
    <2> QED BY <2>1, LeastOfTwo
  <1>9. /\ \A w \in SplitProse(length, {}) : w.from \in Int /\ w.to \in Int
        /\ KeepsPhrases(length, {}, SplitProse(length, {}))
    BY <1>2, WindowsAre
  <1>10. y \in y..end /\ y \notin {}
    BY <1>5, <1>7, ChunkerAssumption
  <1>11. PICK w \in SplitProse(length, {}) : w.from <= y /\ end < w.to
    BY <1>5, <1>6, <1>9, <1>10 DEF KeepsPhrases
  <1>12. w.to \in Int /\ w.from \in Int
    BY <1>9
  <1>13. Min({at + x + OverlapChars, at + len - 1}) < w.to
    <2>1. PICK m : m = Min({at + x + OverlapChars, at + len - 1})
      OBVIOUS
    <2>2. m = IF y + OverlapChars <= at + len - 1 THEN y + OverlapChars ELSE at + len - 1
      BY <1>4, <1>8, <2>1
    <2>3. m <= end /\ m \in Int /\ end \in Int
      BY <1>2, <1>3, <1>5, <1>7, <2>2, ChunkerAssumption
    <2>4. m < w.to
      BY <1>11, <1>12, <2>3
    <2> QED BY <2>1, <2>4
  <1> QED BY <1>1, <1>4, <1>11, <1>13

LEMMA NothingLost ==
    ASSUME NEW pages, AllLegible(pages), NEW excluded
    PROVE  KeepsParagraphs(pages, excluded, ChunkPdf(pages, excluded))
  <1> DEFINE chunks == ChunkPdf(pages, excluded)
  <1> SUFFICES ASSUME NEW n \in DOMAIN pages \ excluded
               PROVE  LET mine == {c \in ToSet(chunks) : c.page = n} IN
                 /\ \A p \in ToSet(Paragraphs(pages[n])) : \A x \in 0..(p.len - 1) :
                     \E c \in mine : \E k \in DOMAIN c.blocks :
                         LET at == Offset(c.blocks, k)
                         IN  /\ c.blocks[k] = p /\ c.type = "prose"
                             /\ c.header = NearestHeader(pages[n].headers, p.top)
                             /\ c.piece.from <= at + x
                             /\ Min({at + x + OverlapChars, at + p.len - 1}) < c.piece.to
                 /\ \A t \in ToSet(RealTables(pages[n])) :
                     \E c \in mine : c.type = "table" /\ c.blocks = <<t>>
    BY DEF KeepsParagraphs
  <1> DEFINE page == pages[n]
             mine == {c \in ToSet(chunks) : c.page = n}
  <1>1. Legible(page)
    BY DEF AllLegible
  <1>2. \A c \in ToSet(ChunkPage(n, page)) : c.page = n => c \in mine
    BY DocumentChunksAre
  <1> HIDE DEF mine, chunks
  <1>3. ASSUME NEW p \in ToSet(Paragraphs(page)), NEW x \in 0..(p.len - 1)
        PROVE  \E c \in mine : \E k \in DOMAIN c.blocks :
                  /\ c.blocks[k] = p /\ c.type = "prose"
                  /\ c.header = NearestHeader(page.headers, p.top)
                  /\ c.piece.from <= Offset(c.blocks, k) + x
                  /\ Min({Offset(c.blocks, k) + x + OverlapChars, Offset(c.blocks, k) + p.len - 1}) < c.piece.to
    <2> DEFINE P == ToSet(Paragraphs(page))
    <2>1. PICK j \in 1..Len(Groups(page)) : p \in ToSet(Groups(page)[j].blocks)
      BY <1>1, GroupsProper
    <2>2. PICK g : g = Groups(page)[j]
      OBVIOUS
    <2>3. g.blocks \in Seq(P) /\ Proper(page, g)
      BY <1>1, <2>2, GroupsProper
    <2>4. Sized(P)
      BY <1>1, ParagraphsAre
    <2> HIDE DEF P
    <2>5. DOMAIN g.blocks = 1..Len(g.blocks)
      BY <2>3
    <2>6. PICK k \in 1..Len(g.blocks) : g.blocks[k] = p
      BY <2>1, <2>2, <2>5 DEF ToSet
    <2>7. PICK w \in SplitProse(Joined(g.blocks), {}) :
              /\ w.from <= Offset(g.blocks, k) + x
              /\ Min({Offset(g.blocks, k) + x + OverlapChars, Offset(g.blocks, k) + p.len - 1}) < w.to
      BY <2>3, <2>4, <2>6, PhraseInWindow
    <2>8. PICK c : c = ProseChunk(n, g, w)
      OBVIOUS
    <2>9. /\ c.page = n /\ c.type = "prose" /\ c.header = g.header /\ c.blocks = g.blocks
          /\ c.piece = w
      BY <2>8 DEF ProseChunk
    <2>10. c \in ToSet(GroupChunks(n, g))
      <3>1. g.blocks # <<>>
        BY <2>3 DEF Proper
      <3> QED BY <2>3, <2>4, <2>8, <3>1, GroupChunksAre
    <2>11. c \in mine
      <3>1. c \in ToSet(ChunkPage(n, page))
        BY <1>1, <2>2, <2>10, PageChunksAre
      <3> QED BY <1>2, <2>9, <3>1
    <2>12. g.header = NearestHeader(page.headers, p.top)
      BY <2>3, <2>6 DEF Proper, Above
    <2> QED BY <2>5, <2>6, <2>7, <2>9, <2>11, <2>12
  <1>4. ASSUME NEW t \in ToSet(RealTables(page))
        PROVE  \E c \in mine : c.type = "table" /\ c.blocks = <<t>>
    <2>1. PICK c : c = TableChunk(n, page, t)
      OBVIOUS
    <2>2. c.page = n /\ c.type = "table" /\ c.blocks = <<t>>
      BY <2>1 DEF TableChunk
    <2>3. c \in ToSet(ChunkPage(n, page))
      BY <1>1, <2>1, PageChunksAre
    <2> QED BY <1>2, <2>2, <2>3
  <1> QED BY <1>3, <1>4 DEF mine

LEMMA DocumentsLegible ==
    ASSUME NEW pages \in Documents
    PROVE  AllLegible(pages)
  <1>1. pages \in Seq(ToSet(pages))
    BY CasesAssumption
  <1>2. ASSUME NEW n \in DOMAIN pages PROVE Legible(pages[n])
    <2>1. pages[n] \in ToSet(pages)
      BY DEF ToSet
    <2> QED BY <2>1, CasesAssumption DEF Legible, Sized
  <1> QED BY <1>1, <1>2 DEF AllLegible

\* The groups of a page are its paragraphs in order, each once, as tightly as the budget and
\* the headers allow, for any page (the loop and flush() of chunk_pdf).
THEOREM GroupsAlwaysTight == Spec => []GroupsTight
  <1>1. Init => GroupsTight
    BY DEF Init, GroupsTight, None0
  <1>2. GroupsTight /\ [Next]_case => GroupsTight'
    <2> SUFFICES ASSUME GroupsTight, [Next]_case PROVE GroupsTight'
      OBVIOUS
    <2>1. CASE Chunk
      <3>1. PICK pages \in Documents, excluded \in SUBSET {1, 2} :
              case' = [of |-> "chunk", pages |-> pages, excluded |-> excluded,
                       chunks |-> ChunkPdf(pages, excluded)]
        BY <2>1 DEF Chunk
      <3>2. case'.pages = pages
        BY <3>1
      <3>3. \A n \in DOMAIN pages : TightGroups(pages[n], Groups(pages[n]))
        BY DocumentsLegible, GroupsFit DEF AllLegible
      <3> QED BY <3>2, <3>3 DEF GroupsTight
    <2>2. CASE ~Chunk /\ Next
      BY <2>2, Kinds DEF GroupsTight
    <2>3. CASE UNCHANGED case
      BY <2>3 DEF GroupsTight
    <2> QED BY <2>1, <2>2, <2>3
  <1> QED BY <1>1, <1>2, PTL DEF Spec

\* Nothing a document says is lost or put under another header on its way into chunks, for
\* any document, window size and overlap (chunk_pdf).
THEOREM ParagraphsAlwaysKept == Spec => []ParagraphsKept
  <1>1. Init => ParagraphsKept
    BY DEF Init, ParagraphsKept, None0
  <1>2. ParagraphsKept /\ [Next]_case => ParagraphsKept'
    <2> SUFFICES ASSUME ParagraphsKept, [Next]_case PROVE ParagraphsKept'
      OBVIOUS
    <2>1. CASE Chunk
      <3>1. PICK pages \in Documents, excluded \in SUBSET {1, 2} :
              case' = [of |-> "chunk", pages |-> pages, excluded |-> excluded,
                       chunks |-> ChunkPdf(pages, excluded)]
        BY <2>1 DEF Chunk
      <3>2. case'.pages = pages /\ case'.excluded = excluded /\ case'.chunks = ChunkPdf(pages, excluded)
        BY <3>1
      <3>3. KeepsParagraphs(pages, excluded, ChunkPdf(pages, excluded))
        BY DocumentsLegible, NothingLost
      <3> QED BY <3>2, <3>3 DEF ParagraphsKept
    <2>2. CASE ~Chunk /\ Next
      BY <2>2, Kinds DEF ParagraphsKept
    <2>3. CASE UNCHANGED case
      BY <2>3 DEF ParagraphsKept
    <2> QED BY <2>1, <2>2, <2>3
  <1> QED BY <1>1, <1>2, PTL DEF Spec
=============================================================================
