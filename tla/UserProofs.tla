----------------------------- MODULE UserProofs -----------------------------
(***************************************************************************)
(* What one user's sessions promise, for any flips, any requirement of the *)
(* chain, any address and any scenario: that it answers as it means to     *)
(* (Answers), makes the flips it has to with the words it says (FlipQuota) *)
(* and switches its online status as told and in time (OnlineSwitch).      *)
(***************************************************************************)
EXTENDS Answers, FlipQuota, OnlineSwitch, FiniteSetTheorems, SequenceTheorems, TLAPS

-----------------------------------------------------------------------------
(* Answers: the inductive invariant                                        *)

\* What each loop has left untouched, and how far its counters can have come.
LoopsInOrder ==
  /\ pc \in {"answer", "select"} => reports = 0 /\ Reported = {}
  /\ pc = "answer" => increased <= i - 1 /\ allow = 0 /\ chosen = {}
  /\ pc = "select" => allow <= i - 1 /\ chosen \subseteq 1..(i - 1)
  /\ pc = "prepare" => reports <= i - 1 /\ \A f \in i..N : f \notin Reported

\* The flips that are not extra, of those that submitAnswers has gone through.
Considered ==
  CASE pc = "answer" -> {}
    [] pc = "select" -> (1..(i - 1)) \ extra
    [] OTHER         -> Required

\* A slot is free for every flip considered that no answered flip stands for.
SlotsCounted == Cardinality(Answered) + allow = Cardinality(Considered)

\* reportsCount counts at least the reports that were kept.
ReportsCounted ==
  Cardinality(Reported) <= reports /\ 100 * Cardinality(Reported) < 34 * N

IInv == TypeOK /\ LoopsInOrder /\ SlotsCounted /\ ReportsCounted

-----------------------------------------------------------------------------
(* Lemmas                                                                  *)

\* Every set of flips is finite, and has a number of flips.
LEMMA FlipSets ==
  ASSUME NEW S \in SUBSET Flips
  PROVE  IsFiniteSet(S) /\ Cardinality(S) \in Nat
<1>1. IsFiniteSet(Flips) BY FS_Interval, AnswersAssumption DEF Flips
<1> QED BY <1>1, FS_Subset, FS_CardinalityType

\* A flip that is new to a set makes it larger by one.
LEMMA OneMore ==
  ASSUME NEW S \in SUBSET Flips, NEW f \in Flips, f \notin S
  PROVE  Cardinality(S \cup {f}) = Cardinality(S) + 1
BY FlipSets, FS_AddElement

\* The loops count from 1 to N and no further.
LEMMA Advancing ==
  ASSUME i \in Flips, NEW next \in {"select", "prepare", "done"}, Advance(next)
  PROVE  /\ i' \in Flips /\ pc' \in {pc, next}
         /\ i = N => i' = 1 /\ pc' = next
         /\ i # N => i' = i + 1 /\ pc' = pc
BY AnswersAssumption DEF Advance, Flips

\* Grades stay grades.
LEMMA GradeType ==
  ASSUME NEW g \in Grades
  PROVE  Grade(g) \in 0..5
BY AnswersAssumption DEF Grade

\* Answers stay answers.
LEMMA IntendedType ==
  ASSUME NEW f \in Flips
  PROVE  Intended(f) \in {"none", "left", "right"}
BY AnswersAssumption DEF Intended, FlipAnswer, Reverse, Flips

-----------------------------------------------------------------------------
(* Invariance                                                              *)

\* Initially nothing has been answered and no slot is free.
THEOREM Initially == Init => IInv
<1> SUFFICES ASSUME Init PROVE IInv OBVIOUS
<1> USE AnswersAssumption
<1>1. Reported = {} BY DEF Init, Reported, NoAnswer
<1>2. Answered = {} /\ Considered = {} BY DEF Init, Answered, Considered
<1>3. Cardinality({}) = 0 BY FS_EmptySet
<1>4. TypeOK BY DEF Init, TypeOK, NoAnswer, Flips
<1>5. LoopsInOrder BY <1>1 DEF Init, LoopsInOrder
<1>6. SlotsCounted BY <1>2, <1>3 DEF Init, SlotsCounted
<1>7. ReportsCounted BY <1>1, <1>3 DEF Init, ReportsCounted
<1> QED BY <1>4, <1>5, <1>6, <1>7 DEF IInv

\* The loop of getAnswers disturbs the counters of getAnswers only.
LEMMA AnswerKeeps == IInv /\ Answer => IInv'
<1> SUFFICES ASSUME IInv, Answer PROVE IInv' OBVIOUS
<1> USE AnswersAssumption DEF given, Flips
<1>1. TypeOK /\ LoopsInOrder BY DEF IInv
<1>2. PICK g \in Grades :
        /\ answers' = [answers EXCEPT ![i] = [grade |-> Grade(g),
                                              answer |-> Intended(i)]]
        /\ increased' = IF Grade(g) > 2 THEN increased + 1 ELSE increased
      BY DEF Answer
<1>3. /\ i' \in Flips /\ pc' \in {pc, "select"}
      /\ i = N => i' = 1 /\ pc' = "select"
      /\ i # N => i' = i + 1 /\ pc' = pc
      BY <1>1, Advancing DEF Answer, TypeOK
<1>4. i \in Flips /\ pc = "answer" /\ increased \in 0..N /\ increased <= i - 1
      BY <1>1 DEF Answer, TypeOK, LoopsInOrder
<1>5. Grade(g) \in 0..5 /\ Intended(i) \in {"none", "left", "right"}
      BY <1>4, GradeType, IntendedType
<1>6. increased' \in 0..N /\ (i # N => increased' <= i' - 1)
  <2>1. increased' = increased \/ increased' = increased + 1 BY <1>2
  <2>2. i \in 1..N /\ increased \in 0..N /\ increased <= i - 1 BY <1>4
  <2> QED BY <2>1, <2>2, <1>3
<1>7. answers' \in [Flips -> [grade : 0..5, answer : {"none", "left", "right"}]]
      BY <1>1, <1>2, <1>5 DEF TypeOK
<1>8. TypeOK' BY <1>1, <1>3, <1>6, <1>7 DEF TypeOK, Answer
<1>9. Reported' = Reported /\ Answered' = Answered
      BY DEF Answer, Reported, Answered
<1>10. LoopsInOrder'
  <2>1. reports' = 0 /\ Reported' = {} /\ allow' = 0 /\ chosen' = {}
        BY <1>1, <1>4, <1>9 DEF LoopsInOrder, Answer
  <2>2. pc' = "answer" => increased' <= i' - 1
        BY <1>3, <1>4, <1>6
  <2>3. pc' = "select" => i' = 1 BY <1>3, <1>4
  <2>4. pc' \in {"answer", "select"} /\ i' \in 1..N BY <1>3, <1>4
  <2>5. pc' = "select" => allow' <= i' - 1 /\ chosen' \subseteq 1..(i' - 1)
        BY <2>1, <2>3
  <2> QED BY <2>1, <2>2, <2>4, <2>5 DEF LoopsInOrder
<1>11. Considered' = Considered
  <2>1. Considered = {} BY <1>4 DEF Considered
  <2>2. Considered' = {}
    <3>1. CASE i = N BY <1>3, <3>1 DEF Considered
    <3>2. CASE i # N BY <1>3, <1>4, <3>2 DEF Considered
    <3> QED BY <3>1, <3>2
  <2> QED BY <2>1, <2>2
<1>12. SlotsCounted' BY <1>9, <1>11 DEF IInv, SlotsCounted, Answer
<1>13. ReportsCounted' BY <1>9 DEF IInv, ReportsCounted, Answer
<1> QED BY <1>8, <1>10, <1>12, <1>13 DEF IInv

\* Skip: an extra flip without a free slot; the count of slots is unchanged.
LEMMA SkipKeeps == IInv /\ Skip => IInv'
<1> SUFFICES ASSUME IInv, Skip PROVE IInv' OBVIOUS
<1> USE AnswersAssumption DEF given, Flips
<1>1. TypeOK /\ LoopsInOrder BY DEF IInv
<1>2. /\ i' \in Flips /\ pc' \in {pc, "prepare"}
      /\ i = N => i' = 1 /\ pc' = "prepare"
      /\ i # N => i' = i + 1 /\ pc' = pc
      BY <1>1, Advancing DEF Skip, TypeOK
<1>3. /\ i \in 1..N /\ pc = "select" /\ i \in extra /\ allow = 0
      /\ chosen \subseteq 1..(i - 1) /\ reports = 0 /\ Reported = {}
      BY <1>1 DEF Skip, TypeOK, LoopsInOrder
<1>4. Reported' = Reported /\ Answered' = Answered
      BY DEF Skip, Reported, Answered
<1>5. TypeOK' BY <1>1, <1>2 DEF TypeOK, Skip
<1>6. LoopsInOrder'
  <2>1. reports' = 0 /\ Reported' = {} BY <1>3, <1>4 DEF Skip
  <2>2. pc' = "select" => allow' <= i' - 1 /\ chosen' \subseteq 1..(i' - 1)
    <3> SUFFICES ASSUME pc' = "select"
                 PROVE  allow' <= i' - 1 /\ chosen' \subseteq 1..(i' - 1)
        OBVIOUS
    <3>1. allow' = 0 /\ chosen' = chosen BY <1>3 DEF Skip
    <3>2. i' = i + 1 BY <1>2
    <3>3. i' - 1 = i BY <3>2, <1>3
    <3> QED BY <1>3, <3>1, <3>3
  <2>3. pc' = "prepare" =>
          reports' <= i' - 1 /\ \A f \in i'..N : f \notin Reported'
    <3>1. pc' = "prepare" => i' = 1 BY <1>2, <1>3
    <3> QED BY <2>1, <3>1
  <2>4. pc' = "select" \/ pc' = "prepare" BY <1>2, <1>3
  <2> QED BY <2>1, <2>2, <2>3, <2>4 DEF LoopsInOrder
<1>7. Considered' = Considered
  <2>1. Considered = (1..(i - 1)) \ extra BY <1>3 DEF Considered
  <2>2. CASE i = N
    <3>1. Considered' = (1..N) \ extra
          BY <1>2, <2>2 DEF Considered, Required, Skip
    <3> QED BY <2>1, <2>2, <3>1, <1>3
  <2>3. CASE i # N
    <3>1. Considered' = (1..i) \ extra
          BY <1>2, <1>3, <2>3 DEF Considered, Skip
    <3> QED BY <2>1, <3>1, <1>3
  <2> QED BY <2>2, <2>3
<1>8. SlotsCounted' BY <1>4, <1>7 DEF IInv, SlotsCounted, Skip
<1>9. ReportsCounted' BY <1>4 DEF IInv, ReportsCounted, Skip
<1> QED BY <1>5, <1>6, <1>8, <1>9 DEF IInv

\* Take: the flip is answered if it is ready and leaves a slot otherwise; an
\* extra flip uses one up.
LEMMA TakeKeeps == IInv /\ Take => IInv'
<1> SUFFICES ASSUME IInv, Take PROVE IInv' OBVIOUS
<1> USE AnswersAssumption DEF given, Flips
<1>1. TypeOK /\ LoopsInOrder BY DEF IInv
<1>2. /\ i' \in Flips /\ pc' \in {pc, "prepare"}
      /\ i = N => i' = 1 /\ pc' = "prepare"
      /\ i # N => i' = i + 1 /\ pc' = pc
      BY <1>1, Advancing DEF Take, TypeOK
<1>3. /\ i \in 1..N /\ pc = "select" /\ (i \in extra => allow > 0)
      /\ chosen \subseteq 1..(i - 1) /\ reports = 0 /\ Reported = {}
      /\ allow \in 0..N /\ allow <= i - 1
      BY <1>1 DEF Take, TypeOK, LoopsInOrder
<1>4. Reported' = Reported BY DEF Take, Reported
<1>5. allow' = allow - (IF i \in extra THEN 1 ELSE 0)
                     + (IF i \in ready THEN 0 ELSE 1)
      BY DEF Take
<1>6. allow' \in 0..N /\ allow' <= i BY <1>3, <1>5
<1>7. chosen' = chosen \cup {i} /\ chosen' \subseteq 1..i
      BY <1>3 DEF Take
<1>8. TypeOK'
  <2>1. chosen' \subseteq 1..N BY <1>1, <1>3, <1>7 DEF TypeOK
  <2> QED BY <1>1, <1>2, <1>6, <2>1 DEF TypeOK, Take
<1>9. LoopsInOrder'
  <2>1. reports' = 0 /\ Reported' = {} BY <1>3, <1>4 DEF Take
  <2>2. pc' = "select" => allow' <= i' - 1 /\ chosen' \subseteq 1..(i' - 1)
    <3> SUFFICES ASSUME pc' = "select"
                 PROVE  allow' <= i' - 1 /\ chosen' \subseteq 1..(i' - 1)
        OBVIOUS
    <3>1. i' = i + 1 BY <1>2
    <3>2. i' - 1 = i BY <3>1, <1>3
    <3> QED BY <1>6, <1>7, <3>2
  <2>3. pc' = "prepare" =>
          reports' <= i' - 1 /\ \A f \in i'..N : f \notin Reported'
    <3>1. pc' = "prepare" => i' = 1 BY <1>2, <1>3
    <3> QED BY <2>1, <3>1
  <2>4. pc' = "select" \/ pc' = "prepare" BY <1>2, <1>3
  <2> QED BY <2>1, <2>2, <2>3, <2>4 DEF LoopsInOrder
<1>10. Cardinality(Answered') =
         Cardinality(Answered) + (IF i \in ready THEN 1 ELSE 0)
  <2>1. Answered \subseteq 1..N /\ i \notin Answered
        BY <1>1, <1>3 DEF Answered, TypeOK
  <2>2. CASE i \in ready
    <3>1. Answered' = Answered \cup {i} BY <1>7, <2>2 DEF Answered, Take
    <3> QED BY <1>3, <2>1, <2>2, <3>1, OneMore
  <2>3. CASE i \notin ready
    <3>1. Answered' = Answered BY <1>7, <2>3 DEF Answered, Take
    <3>2. Cardinality(Answered) \in Nat BY <2>1, FlipSets
    <3> QED BY <2>3, <3>1, <3>2
  <2> QED BY <2>2, <2>3
<1>11. Cardinality(Considered') =
         Cardinality(Considered) + (IF i \in extra THEN 0 ELSE 1)
  <2>1. Considered = (1..(i - 1)) \ extra BY <1>3 DEF Considered
  <2>2. Considered' = (1..i) \ extra
    <3>1. CASE i = N
          BY <1>2, <3>1 DEF Considered, Required, Take
    <3>2. CASE i # N
          BY <1>2, <1>3, <3>2 DEF Considered, Take
    <3> QED BY <3>1, <3>2
  <2>3. Considered \subseteq 1..N /\ i \notin Considered BY <1>3, <2>1
  <2>4. CASE i \in extra
    <3>1. Considered' = Considered BY <1>3, <2>1, <2>2, <2>4
    <3>2. Cardinality(Considered) \in Nat BY <2>3, FlipSets
    <3> QED BY <2>4, <3>1, <3>2
  <2>5. CASE i \notin extra
    <3>1. Considered' = Considered \cup {i} BY <1>3, <2>1, <2>2, <2>5
    <3> QED BY <1>3, <2>3, <2>5, <3>1, OneMore
  <2> QED BY <2>4, <2>5
<1>12. SlotsCounted'
  <2>1. Answered \in SUBSET Flips /\ Considered \in SUBSET Flips
        BY <1>1, <1>3 DEF Answered, Considered, TypeOK
  <2>2. Cardinality(Answered) \in Nat /\ Cardinality(Considered) \in Nat
        BY <2>1, FlipSets
  <2>3. Cardinality(Answered) + allow = Cardinality(Considered)
        BY DEF IInv, SlotsCounted
  <2> QED BY <1>3, <1>5, <1>10, <1>11, <2>2, <2>3 DEF SlotsCounted
<1>13. ReportsCounted' BY <1>4 DEF IInv, ReportsCounted, Take
<1> QED BY <1>8, <1>9, <1>12, <1>13 DEF IInv

\* PassOver leaves everything but the position alone.
LEMMA PassOverKeeps == IInv /\ PassOver => IInv'
<1> SUFFICES ASSUME IInv, PassOver PROVE IInv' OBVIOUS
<1> USE AnswersAssumption DEF given, Flips
<1>1. TypeOK /\ LoopsInOrder BY DEF IInv
<1>2. /\ i' \in Flips /\ pc' \in {pc, "done"}
      /\ i = N => i' = 1 /\ pc' = "done"
      /\ i # N => i' = i + 1 /\ pc' = pc
      BY <1>1, Advancing DEF PassOver, TypeOK
<1>3. /\ i \in 1..N /\ pc = "prepare" /\ reports <= i - 1
      /\ \A f \in i..N : f \notin Reported
      BY <1>1 DEF PassOver, TypeOK, LoopsInOrder
<1>4. /\ Reported' = Reported /\ Answered' = Answered
      /\ Considered' = Considered
      BY <1>2, <1>3 DEF PassOver, Reported, Answered, Considered, Required
<1>5. TypeOK' BY <1>1, <1>2 DEF TypeOK, PassOver
<1>6. LoopsInOrder'
  <2>1. pc' = "prepare" => reports' <= i' - 1 /\ \A f \in i'..N : f \notin Reported'
    <3> SUFFICES ASSUME pc' = "prepare"
                 PROVE  reports' <= i' - 1 /\ \A f \in i'..N : f \notin Reported'
        OBVIOUS
    <3>1. reports' = reports /\ reports \in 0..N
          BY <1>1 DEF PassOver, TypeOK
    <3>2. i' = i + 1 BY <1>2
    <3> QED BY <1>3, <1>4, <3>1, <3>2
  <2>2. pc' \in {"prepare", "done"} BY <1>2, <1>3
  <2> QED BY <2>1, <2>2 DEF LoopsInOrder
<1>7. SlotsCounted' BY <1>4 DEF IInv, SlotsCounted, PassOver
<1>8. ReportsCounted' BY <1>4 DEF IInv, ReportsCounted, PassOver
<1> QED BY <1>5, <1>6, <1>7, <1>8 DEF IInv

\* Prepare keeps a report only while the cap allows it.
LEMMA PrepareKeeps == IInv /\ Prepare => IInv'
<1> SUFFICES ASSUME IInv, Prepare PROVE IInv' OBVIOUS
<1> USE AnswersAssumption DEF given, Flips
<1> DEFINE reported == ~isShort /\ answers[i].grade = 1
           n == IF reported THEN reports + 1 ELSE reports
           grade == IF isShort \/ (reported /\ TooMany(n)) THEN 0
                    ELSE answers[i].grade
<1>1. TypeOK /\ LoopsInOrder BY DEF IInv
<1>2. /\ i' \in Flips /\ pc' \in {pc, "done"}
      /\ i = N => i' = 1 /\ pc' = "done"
      /\ i # N => i' = i + 1 /\ pc' = pc
      BY <1>1, Advancing DEF Prepare, TypeOK
<1>3. /\ i \in 1..N /\ pc = "prepare" /\ reports <= i - 1 /\ reports \in 0..N
      /\ \A f \in i..N : f \notin Reported
      BY <1>1 DEF Prepare, TypeOK, LoopsInOrder
<1>4. /\ reports' = n
      /\ result' = [result EXCEPT ![i] = [grade |-> grade,
                                          answer |-> answers[i].answer]]
      BY DEF Prepare
<1>5. /\ answers[i].grade \in 0..5
      /\ answers[i].answer \in {"none", "left", "right"}
      BY <1>1, <1>3 DEF TypeOK
<1>6. grade \in 0..5 /\ n \in 0..N /\ n <= i /\ reports <= n
      BY <1>3, <1>5
<1> HIDE DEF grade, n
<1>7. TypeOK'
  <2>1. result' \in [Flips -> [grade : 0..5, answer : {"none", "left", "right"}]]
        BY <1>1, <1>4, <1>5, <1>6 DEF TypeOK
  <2> QED BY <1>1, <1>2, <1>4, <1>6, <2>1 DEF TypeOK, Prepare
<1>8. result \in [1..N -> [grade : 0..5, answer : {"none", "left", "right"}]]
      BY <1>1 DEF TypeOK
<1>9. i \notin Reported /\ Reported \in SUBSET Flips
      BY <1>3 DEF Reported
<1>10. Reported' = IF grade = 1 THEN Reported \cup {i} ELSE Reported
       BY <1>3, <1>4, <1>8, <1>9 DEF Reported
<1>11. LoopsInOrder'
  <2>1. pc' = "prepare" => reports' <= i' - 1 /\ \A f \in i'..N : f \notin Reported'
    <3> SUFFICES ASSUME pc' = "prepare"
                 PROVE  reports' <= i' - 1 /\ \A f \in i'..N : f \notin Reported'
        OBVIOUS
    <3>1. i' = i + 1 BY <1>2
    <3>2. reports' <= i' - 1 BY <1>3, <1>4, <1>6, <3>1
    <3>3. ASSUME NEW f \in i'..N PROVE f \notin Reported'
      <4>1. f \in i..N /\ f # i BY <1>3, <3>1
      <4> QED BY <1>3, <1>10, <4>1
    <3> QED BY <3>2, <3>3
  <2>2. pc' \in {"prepare", "done"} BY <1>2, <1>3
  <2> QED BY <2>1, <2>2 DEF LoopsInOrder
<1>12. SlotsCounted'
  <2>1. Answered' = Answered /\ Considered' = Considered
        BY <1>2, <1>3 DEF Prepare, Answered, Considered, Required
  <2> QED BY <2>1 DEF IInv, SlotsCounted, Prepare
<1>13. ReportsCounted'
  <2>1. /\ Cardinality(Reported) <= reports
        /\ 100 * Cardinality(Reported) < 34 * N
        /\ Cardinality(Reported) \in Nat
        BY <1>9, FlipSets DEF IInv, ReportsCounted
  <2>2. CASE grade = 1
    <3>1. reported /\ ~TooMany(n) BY <2>2 DEF grade
    <3>2. n = reports + 1 /\ 100 * n < 34 * N
          BY <3>1, <1>3, <1>6 DEF n, TooMany
    <3>3. Cardinality(Reported') = Cardinality(Reported) + 1
          BY <1>3, <1>9, <1>10, <2>2, OneMore
    <3> QED BY <1>3, <1>4, <2>1, <3>2, <3>3 DEF ReportsCounted
  <2>3. CASE grade # 1
    <3>1. Reported' = Reported BY <1>10, <2>3
    <3> QED BY <1>3, <1>4, <1>6, <2>1, <3>1 DEF ReportsCounted
  <2> QED BY <2>2, <2>3
<1> QED BY <1>7, <1>11, <1>12, <1>13 DEF IInv

-----------------------------------------------------------------------------
(* The theorems                                                            *)

\* Every loop of every session keeps the inductive invariant.
THEOREM Invariance == Spec => []IInv
<1>1. IInv /\ [Next]_vars => IInv'
  <2> SUFFICES ASSUME IInv, [Next]_vars PROVE IInv' OBVIOUS
  <2>1. CASE Answer BY <2>1, AnswerKeeps
  <2>2. CASE Skip BY <2>2, SkipKeeps
  <2>3. CASE Take BY <2>3, TakeKeeps
  <2>4. CASE PassOver BY <2>4, PassOverKeeps
  <2>5. CASE Prepare BY <2>5, PrepareKeeps
  <2>6. CASE UNCHANGED vars
    <3>1. UNCHANGED <<Reported, Answered, Considered>>
          BY <2>6 DEF vars, Reported, Answered, Considered, Required
    <3> QED BY <2>6, <3>1 DEF vars, IInv, TypeOK, LoopsInOrder, SlotsCounted,
                              ReportsCounted
  <2> QED BY <2>1, <2>2, <2>3, <2>4, <2>5, <2>6 DEF Next, Done
<1> QED BY <1>1, Initially, PTL DEF Spec

\* The loops of getAnswers, submitAnswers and prepareAnswers are type correct.
THEOREM TypeCorrect == Spec => []TypeOK
<1>1. IInv => TypeOK BY DEF IInv
<1> QED BY <1>1, Invariance, PTL

\* submitAnswers answers no more flips than the session has without the extra
\* ones, whatever is ready and wherever the extra flips are in the list.
THEOREM ExtrasOnlyReplace == Spec => []ExtrasReplace
<1>1. IInv => ExtrasReplace
  <2> SUFFICES ASSUME IInv PROVE ExtrasReplace OBVIOUS
  <2>1. TypeOK /\ SlotsCounted BY DEF IInv
  <2>2. /\ Answered \in SUBSET Flips /\ Required \in SUBSET Flips
        /\ Considered \subseteq Required
        BY <2>1, AnswersAssumption
        DEF TypeOK, Answered, Considered, Required, Flips
  <2>3. IsFiniteSet(Required) /\ Cardinality(Required) \in Nat
        BY <2>2, FlipSets
  <2>4. Cardinality(Considered) <= Cardinality(Required)
        BY <2>2, <2>3, FS_Subset
  <2>5. Cardinality(Answered) \in Nat /\ Cardinality(Considered) \in Nat
        BY <2>2, FlipSets
  <2>6. allow \in Nat BY <2>1, AnswersAssumption DEF TypeOK
  <2>7. Cardinality(Answered) + allow = Cardinality(Considered)
        BY <2>1 DEF SlotsCounted
  <2> QED BY <2>3, <2>4, <2>5, <2>6, <2>7 DEF ExtrasReplace
<1> QED BY <1>1, Invariance, PTL

\* prepareAnswers reports fewer than 34 % of the flips, for any number of them.
THEOREM ReportsAreCapped == Spec => []ReportsCapped
<1>1. IInv => ReportsCapped BY DEF IInv, ReportsCounted, ReportsCapped
<1> QED BY <1>1, Invariance, PTL

-----------------------------------------------------------------------------
(* What goes on chain: a second invariant, on top of the first             *)

\* What each loop hands over to the next, flip by flip.
HandedOver ==
  /\ \A f \in Flips : (pc = "answer" /\ f >= i) \/ answers[f].answer = Intended(f)
  /\ \A f \in Flips :
       result[f].answer = IF \/ pc \in {"answer", "select"}
                             \/ pc = "prepare" /\ f >= i
                             \/ f \notin chosen
                          THEN "none" ELSE Intended(f)

\* The grades that were drawn, and that no grade is raised afterwards.
GradesKept ==
  /\ \A f \in Flips : result[f].grade \in {0, answers[f].grade}
  /\ \A f \in Flips : mode = "noApproves" => answers[f].grade <= 1
  /\ mode # "several" =>
       /\ increased <= 1
       /\ \A f \in Flips : answers[f].grade > 2 => increased = 1
       /\ \A f, h \in Flips : answers[f].grade > 2 /\ answers[h].grade > 2 => f = h
  /\ pc = "answer" => \A f \in i..N : answers[f].grade = 0

ExtrasLast == \A e \in extra, f \in Required : f < e
Passed == CASE pc = "answer" -> {} [] pc = "select" -> 1..(i - 1) [] OTHER -> Flips

\* With the extra flips at the end, a flip is passed over only when no slot is
\* free, and none becomes free after it.
SlotsTaken ==
  ExtrasLast => /\ Passed \ chosen \subseteq extra
                /\ Passed \ chosen # {} => allow = 0

Chained == HandedOver /\ GradesKept /\ SlotsTaken

\* Nothing is answered yet.
LEMMA ChainedInitially == Init => Chained
<1> SUFFICES ASSUME Init PROVE Chained OBVIOUS
<1> USE AnswersAssumption DEF Init, NoAnswer, Flips
<1>1. HandedOver BY DEF HandedOver
<1>2. GradesKept BY DEF GradesKept
<1>3. SlotsTaken BY DEF SlotsTaken, Passed
<1> QED BY <1>1, <1>2, <1>3 DEF Chained

\* What is drawn for a flip: under noApproves no more than a report, and one
\* grade above D.
LEMMA GradeDrawn ==
  ASSUME NEW g \in Grades
  PROVE  /\ mode = "noApproves" => Grade(g) <= 1
         /\ mode # "several" /\ increased = 1 => Grade(g) <= 2
BY AnswersAssumption DEF Grade

\* getAnswers draws a grade for a flip that had none.
LEMMA AnswerChains == IInv /\ Chained /\ Answer => Chained'
<1> SUFFICES ASSUME IInv, Chained, Answer PROVE Chained' OBVIOUS
<1> USE AnswersAssumption DEF given, Flips
<1>1. TypeOK /\ HandedOver /\ GradesKept BY DEF IInv, Chained
<1>2. PICK g \in Grades :
        /\ answers' = [answers EXCEPT ![i] = [grade |-> Grade(g),
                                              answer |-> Intended(i)]]
        /\ increased' = IF Grade(g) > 2 THEN increased + 1 ELSE increased
      BY DEF Answer
<1>3. /\ i \in 1..N /\ i' \in 1..N /\ pc = "answer" /\ pc' \in {"answer", "select"}
      /\ i = N => i' = 1 /\ pc' = "select"
      /\ i # N => i' = i + 1 /\ pc' = pc
      BY <1>1, Advancing DEF Answer, TypeOK
<1>4. answers'[i] = [grade |-> Grade(g), answer |-> Intended(i)]
      BY <1>1, <1>2, <1>3 DEF TypeOK
<1>5. \A f \in Flips \ {i} : answers'[f] = answers[f]
      BY <1>1, <1>2 DEF TypeOK
<1>6. \A f \in Flips : Intended(f)' = Intended(f)
      BY DEF Intended, FlipAnswer, Answer
<1>7. HandedOver'
  <2>1. ASSUME NEW f \in Flips
        PROVE  (pc' = "answer" /\ f >= i') \/ answers'[f].answer = Intended(f)
    <3>1. CASE f = i BY <1>4, <3>1
    <3>2. CASE f # i BY <1>1, <1>3, <1>5, <3>2 DEF HandedOver
    <3> QED BY <3>1, <3>2
  <2>2. \A f \in Flips : result'[f].answer = "none"
        BY <1>1, <1>3 DEF HandedOver, Answer
  <2> QED BY <1>3, <1>6, <2>1, <2>2 DEF HandedOver
<1>8. GradesKept'
  <2>1. Grade(g) \in 0..5 BY GradeType
  <2>2. \A f \in Flips : answers[f].grade \in 0..5 /\ result[f].grade \in 0..5
        BY <1>1 DEF TypeOK
  <2>3. answers[i].grade = 0 /\ result'[i].grade = 0
        BY <1>1, <1>3 DEF GradesKept, Answer
  <2>4. \A f \in Flips : result'[f].grade \in {0, answers'[f].grade}
        BY <1>1, <1>3, <1>5, <2>3 DEF GradesKept, Answer
  <2>5. \A f \in Flips : mode' = "noApproves" => answers'[f].grade <= 1
        BY <1>1, <1>4, <1>5, GradeDrawn DEF GradesKept, Answer
  <2>6. pc' = "answer" => \A f \in i'..N : answers'[f].grade = 0
        BY <1>1, <1>3, <1>5 DEF GradesKept
  <2>7. ASSUME mode # "several"
        PROVE  /\ increased' <= 1
               /\ \A f \in Flips : answers'[f].grade > 2 => increased' = 1
               /\ \A f, h \in Flips :
                    answers'[f].grade > 2 /\ answers'[h].grade > 2 => f = h
    <3>1. /\ increased \in {0, 1}
          /\ \A f \in Flips : answers[f].grade > 2 => increased = 1
          /\ \A f, h \in Flips : answers[f].grade > 2 /\ answers[h].grade > 2 => f = h
          BY <1>1, <2>7 DEF GradesKept, TypeOK
    <3>2. CASE Grade(g) > 2
      <4>1. increased = 0 /\ increased' = 1 BY <1>2, <2>1, <2>7, <3>1, <3>2, GradeDrawn
      <4>2. \A f \in Flips \ {i} : ~(answers'[f].grade > 2) BY <1>5, <3>1, <4>1
      <4> QED BY <4>1, <4>2
    <3>3. CASE ~(Grade(g) > 2)
      <4>1. increased' = increased /\ ~(answers'[i].grade > 2) BY <1>2, <1>4, <3>3
      <4> QED BY <1>5, <3>1, <4>1
    <3> QED BY <3>2, <3>3
  <2> QED BY <2>4, <2>5, <2>6, <2>7 DEF GradesKept, Answer
<1>9. SlotsTaken'
  <2>1. Passed' = {} BY <1>3 DEF Passed
  <2> QED BY <2>1 DEF SlotsTaken
<1> QED BY <1>7, <1>8, <1>9 DEF Chained

\* submitAnswers changes no answer and no grade.
LEMMA SelectChains == IInv /\ Chained /\ (Skip \/ Take) => Chained'
<1> SUFFICES ASSUME IInv, Chained, Skip \/ Take PROVE Chained' OBVIOUS
<1> USE AnswersAssumption DEF given, Flips
<1>1. TypeOK /\ LoopsInOrder /\ HandedOver /\ GradesKept /\ SlotsTaken BY DEF IInv, Chained
<1>2. /\ i \in 1..N /\ i' \in 1..N /\ pc = "select" /\ pc' \in {"select", "prepare"}
      /\ i = N => i' = 1 /\ pc' = "prepare"
      /\ i # N => i' = i + 1 /\ pc' = pc
      BY <1>1, Advancing DEF Skip, Take, TypeOK
<1>3. UNCHANGED <<extra, ready, isShort, mode, fail, increased, answers, result>>
      BY DEF Skip, Take
<1>4. \A f \in Flips : Intended(f)' = Intended(f)
      BY <1>3 DEF Intended, FlipAnswer
<1>5. HandedOver'
  <2>1. \A f \in Flips : answers[f].answer = Intended(f) /\ result[f].answer = "none"
        BY <1>1, <1>2 DEF HandedOver
  <2>2. pc' = "prepare" => i' = 1 BY <1>2
  <2>3. \A f \in Flips : f >= 1 OBVIOUS
  <2> QED BY <1>2, <1>3, <1>4, <2>1, <2>2, <2>3 DEF HandedOver
<1>6. GradesKept' BY <1>1, <1>2, <1>3 DEF GradesKept
<1>7. SlotsTaken'
  <2>1. SUFFICES ASSUME ExtrasLast
                 PROVE  /\ Passed' \ chosen' \subseteq extra
                        /\ Passed' \ chosen' # {} => allow' = 0
        BY <1>3 DEF SlotsTaken, ExtrasLast, Required
  <2>2. Passed = 1..(i - 1) BY <1>2 DEF Passed
  <2>3. Passed' = 1..i
    <3>1. CASE i = N BY <1>2, <3>1 DEF Passed
    <3>2. CASE i # N BY <1>2, <3>2 DEF Passed
    <3> QED BY <3>1, <3>2
  <2>4. Passed' = Passed \cup {i} BY <1>2, <2>2, <2>3
  <2>5. Passed \ chosen \subseteq extra /\ (Passed \ chosen # {} => allow = 0)
        BY <1>1, <2>1 DEF SlotsTaken
  <2>6. CASE Skip BY <2>4, <2>5, <2>6 DEF Skip
  <2>7. CASE Take
    <3>1. chosen' = chosen \cup {i} /\ (i \in extra => allow > 0) BY <2>7 DEF Take
    <3>2. Passed \ chosen = {}
      <4>1. CASE i \in extra BY <2>5, <3>1, <4>1
      <4>2. CASE i \notin extra
        <5>1. \A e \in Passed : e \notin extra
              BY <1>1, <1>2, <2>1, <2>2, <4>2 DEF ExtrasLast, Required, TypeOK
        <5> QED BY <2>5, <5>1
      <4> QED BY <4>1, <4>2
    <3>3. Passed' \ chosen' = {} BY <2>4, <3>1, <3>2
    <3> QED BY <3>3
  <2> QED BY <2>6, <2>7
<1> QED BY <1>5, <1>6, <1>7 DEF Chained

\* prepareAnswers takes over what was chosen and has an answer, and lowers
\* grades only.
LEMMA PrepareChains == IInv /\ Chained /\ (PassOver \/ Prepare) => Chained'
<1> SUFFICES ASSUME IInv, Chained, PassOver \/ Prepare PROVE Chained' OBVIOUS
<1> USE AnswersAssumption DEF given, Flips
<1>1. TypeOK /\ HandedOver /\ GradesKept /\ SlotsTaken BY DEF IInv, Chained
<1>2. /\ i \in 1..N /\ i' \in 1..N /\ pc = "prepare" /\ pc' \in {"prepare", "done"}
      /\ i = N => i' = 1 /\ pc' = "done"
      /\ i # N => i' = i + 1 /\ pc' = pc
      BY <1>1, Advancing DEF PassOver, Prepare, TypeOK
<1>3. /\ UNCHANGED <<extra, ready, isShort, mode, fail, increased, answers, allow,
                     chosen>>
      /\ \A f \in Flips \ {i} : result'[f] = result[f]
      BY <1>1 DEF PassOver, Prepare, TypeOK
<1>4. \A f \in Flips : Intended(f)' = Intended(f) /\ answers[f].answer = Intended(f)
      BY <1>1, <1>2, <1>3 DEF Intended, FlipAnswer, HandedOver
<1>5. result'[i].answer = IF i \in chosen THEN Intended(i) ELSE "none"
  <2>1. CASE PassOver
    <3>1. result'[i].answer = "none" BY <1>1, <1>2, <2>1 DEF HandedOver, PassOver
    <3> QED BY <1>2, <1>4, <2>1, <3>1 DEF PassOver
  <2>2. CASE Prepare
    <3>1. result'[i].answer = answers[i].answer /\ i \in chosen
          BY <1>1, <1>2, <2>2 DEF Prepare, TypeOK
    <3> QED BY <1>2, <1>4, <3>1
  <2> QED BY <2>1, <2>2
<1>6. HandedOver'
  <2>1. ASSUME NEW f \in Flips
        PROVE  result'[f].answer = IF (pc' = "prepare" /\ f >= i') \/ f \notin chosen
                                   THEN "none" ELSE Intended(f)
    <3>1. CASE f = i BY <1>2, <1>5, <3>1
    <3>2. CASE f # i
      <4>1. result'[f].answer = IF f >= i \/ f \notin chosen THEN "none" ELSE Intended(f)
            BY <1>1, <1>2, <1>3, <3>2 DEF HandedOver
      <4>2. (pc' = "prepare" /\ f >= i') <=> f >= i BY <1>2, <3>2
      <4> QED BY <4>1, <4>2
    <3> QED BY <3>1, <3>2
  <2> QED BY <1>2, <1>3, <1>4, <2>1 DEF HandedOver
<1>7. GradesKept'
  <2>1. result'[i].grade \in {0, answers[i].grade}
    <3>1. CASE PassOver BY <1>1, <1>2, <3>1 DEF GradesKept, PassOver
    <3>2. CASE Prepare BY <1>1, <1>2, <3>2 DEF Prepare, TypeOK
    <3> QED BY <3>1, <3>2
  <2>2. \A f \in Flips : result'[f].grade \in {0, answers'[f].grade}
        BY <1>1, <1>3, <2>1 DEF GradesKept
  <2> QED BY <1>1, <1>2, <1>3, <2>2 DEF GradesKept
<1>8. SlotsTaken'
  <2>1. Passed = Flips BY <1>2 DEF Passed
  <2>2. Passed' = Flips BY <1>2 DEF Passed
  <2> QED BY <1>1, <1>3, <2>1, <2>2 DEF SlotsTaken, ExtrasLast, Required
<1> QED BY <1>6, <1>7, <1>8 DEF Chained

\* The second invariant is kept by all three loops.
THEOREM Chaining == Spec => []Chained
<1>1. IInv /\ Chained /\ [Next]_vars => Chained'
  <2> SUFFICES ASSUME IInv, Chained, [Next]_vars PROVE Chained' OBVIOUS
  <2>1. CASE Answer BY <2>1, AnswerChains
  <2>2. CASE Skip \/ Take BY <2>2, SelectChains
  <2>3. CASE PassOver \/ Prepare BY <2>3, PrepareChains
  <2>4. CASE UNCHANGED vars
    <3>1. \A f : Intended(f)' = Intended(f) BY <2>4 DEF vars, Intended, FlipAnswer
    <3>2. Passed' = Passed /\ ExtrasLast' = ExtrasLast
          BY <2>4 DEF vars, Passed, ExtrasLast, Required
    <3> QED BY <2>4, <3>1, <3>2 DEF vars, Chained, HandedOver, GradesKept, SlotsTaken
  <2> QED BY <2>1, <2>2, <2>3, <2>4 DEF Next, Done
<1> QED BY <1>1, ChainedInitially, Invariance, PTL DEF Spec

\* What goes on chain is what was meant: for any flips, grades and modes.
THEOREM AnsweredAsMeant == Spec => []AnsweredAsIntended
<1>1. IInv /\ Chained => AnsweredAsIntended
  <2> SUFFICES ASSUME IInv, Chained PROVE AnsweredAsIntended OBVIOUS
  <2> USE AnswersAssumption DEF Flips
  <2>1. TypeOK /\ HandedOver /\ GradesKept BY DEF IInv, Chained
  <2>2. ASSUME pc = "done", NEW f \in Flips
        PROVE  result[f].answer =
                 IF f \notin Answered THEN "none"
                 ELSE IF fail /\ isShort THEN Reverse(Truth[f]) ELSE Truth[f]
    <3>1. result[f].answer = IF f \notin chosen THEN "none" ELSE Intended(f)
          BY <2>1, <2>2 DEF HandedOver
    <3>2. f \notin ready => Intended(f) = "none"
          BY DEF Intended, FlipAnswer, Reverse
    <3>3. f \in ready =>
            Intended(f) = IF fail /\ isShort THEN Reverse(Truth[f]) ELSE Truth[f]
          BY DEF Intended, FlipAnswer
    <3> QED BY <3>1, <3>2, <3>3 DEF Answered
  <2>3. \A f \in Flips : result[f].grade \in 0..5 /\ answers[f].grade \in 0..5
        BY <2>1 DEF TypeOK
  <2>4. mode = "noApproves" => \A f \in Flips : result[f].grade <= 1
        BY <2>1, <2>3 DEF GradesKept
  <2>5. ASSUME mode # "several" PROVE Cardinality(Increased) <= 1
    <3>1. \A f, h \in Increased : f = h
          BY <2>1, <2>3, <2>5 DEF GradesKept, Increased
    <3>2. CASE Increased = {} BY <3>2, FS_EmptySet
    <3>3. CASE Increased # {}
      <4>1. PICK f : Increased = {f} BY <3>1, <3>3
      <4>2. Cardinality({f}) = 1 BY FS_Singleton
      <4> QED BY <4>1, <4>2
    <3> QED BY <3>2, <3>3
  <2> QED BY <2>2, <2>4, <2>5 DEF AnsweredAsIntended
<1> QED BY <1>1, Invariance, Chaining, PTL

\* With the extra flips at the end, submitAnswers wastes no slot.
THEOREM NoSlotWasted == Spec => []SlotsUsed
<1>1. IInv /\ Chained => SlotsUsed
  <2> SUFFICES ASSUME IInv, Chained, pc \in {"prepare", "done"}, ExtrasLast
               PROVE  \/ Cardinality(Answered) = Cardinality(Required)
                      \/ Answered = ready
      BY DEF SlotsUsed, ExtrasLast
  <2>1. TypeOK /\ SlotsCounted /\ SlotsTaken BY DEF IInv, Chained
  <2>2. Considered = Required /\ Passed = Flips BY DEF Considered, Passed
  <2>3. CASE allow = 0
    <3>1. Cardinality(Answered) \in Nat /\ Cardinality(Required) \in Nat
          BY <2>1, FlipSets DEF Answered, Required, TypeOK
    <3> QED BY <2>1, <2>2, <2>3, <3>1 DEF SlotsCounted
  <2>4. CASE allow # 0
    <3>1. Flips \subseteq chosen BY <2>1, <2>2, <2>4 DEF SlotsTaken
    <3> QED BY <2>1, <3>1 DEF Answered, TypeOK
  <2> QED BY <2>3, <2>4
<1> QED BY <1>1, Invariance, Chaining, PTL

-----------------------------------------------------------------------------
(* FlipQuota: the inductive invariant                                      *)

\* The flips of the user, wherever they are, in the order of the chain.
There == flips \o pool

Submitting == qpc \in {"loop", "request", "wait", "store", "submitted"}

\* How many times the loop has asked for a flip.
Asked == IF qpc \in {"wait", "store"} THEN idx + 1 ELSE idx

\* The epoch begins with nothing of the last one.
NothingYet ==
  /\ qpc \in {"init", "ask"} =>
       /\ flips = <<>> /\ pool = <<>> /\ faults = 0 /\ refused = FALSE
  /\ qpc = "ask" => made = 0 /\ DOMAIN words = {}

\* The loop goes up to a number within the limits of the chain, unless the
\* scenario has told it.
LoopBounded ==
  Submitting =>
    /\ count \in Nat
    /\ override = NoOverride =>
         \/ identity.required <= count /\ count <= identity.available
         \/ epoch = 0 /\ god = TRUE /\ identity.required = 0 /\ count = 1
    /\ qpc \in {"request", "wait", "store"} => idx < count
    /\ qpc = "loop" => idx <= count
    /\ qpc = "submitted" => idx = count

\* Every flip was asked for, with a pair that was not asked for before; and
\* without a failure the node has all of them.
FlipsCounted ==
  Submitting =>
    /\ made <= Asked /\ Len(There) <= Asked
    /\ faults = 0 => made = Len(There)
    /\ faults = 0 /\ refused = FALSE => Len(There) = Asked
    /\ epoch > 0 => \A n \in 1..Len(There) : There[n] < Asked

Unrefused == override = NoOverride => refused = FALSE /\ qpc # "panicked"

\* The flip that is waited for is the only one that is not on the chain, and
\* goes to the place after those that were there before the request.
OneAwaited ==
  epoch > 0 =>
    /\ botMode # "validationOnly" =>
         /\ qpc \in {"ask", "loop", "request", "store"} => pool = <<>>
         /\ qpc = "request" => before = Len(flips)
    /\ qpc = "wait" =>
         /\ botMode # "validationOnly" /\ before >= 0
         /\ Len(There) <= before + 1
         /\ Len(There) = before + 1 => There[before + 1] = wordPairIdx
    /\ qpc = "store" /\ before >= 0 =>
         before + 1 <= Len(There) /\ There[before + 1] = wordPairIdx

WordsKept ==
  qpc # "init" =>
    /\ DOMAIN words \subseteq 1..Len(There)
    /\ \A n \in DOMAIN words : words[n] = There[n]

QuotaInv == /\ QuotaTypeOK /\ NothingYet /\ LoopBounded /\ FlipsCounted /\ Unrefused
            /\ OneAwaited /\ WordsKept

\* What the chain may report.
LEMMA Limits ==
  ASSUME QuotaTypeOK
  PROVE  /\ identity.required \in Nat /\ identity.available \in Nat
         /\ identity.pairs \in Nat /\ identity.required <= identity.available
         /\ identity.available < 256 /\ identity.available <= identity.pairs
         /\ identity.available - identity.required <= AddressLen
<1>1. \A id \in Identities :
        /\ id.required \in 0..255 /\ id.available \in id.required..255
        /\ id.available - id.required <= AddressLen
        /\ id.pairs \in Nat /\ id.available <= id.pairs
  <2>1. Byte - 1 = 255 BY DEF Byte
  <2> QED BY <2>1, QuotaAssumption
<1>2. identity \in Identities BY DEF QuotaTypeOK
<1>3. /\ identity.required \in 0..255 /\ identity.available \in identity.required..255
      /\ identity.available - identity.required <= AddressLen
      /\ identity.pairs \in Nat /\ identity.available <= identity.pairs
  BY <1>1, <1>2
<1> QED BY <1>3

\* The even bytes are no more than the flips that may be added, and neither
\* number leaves its eight bits.
LEMMA Extras ==
  ASSUME QuotaTypeOK
  PROVE  /\ Additional = identity.available - identity.required
         /\ EvenBytes \in Nat /\ EvenBytes <= Additional
<1>1. Additional = identity.available - identity.required
  BY Limits DEF Additional, Byte
<1>2. Additional \in Nat BY <1>1, Limits
<1>3. IsFiniteSet(1..Additional) /\ Cardinality(1..Additional) = Additional
  BY <1>2, FS_Interval
<1>4. Even \cap 1..Additional \in SUBSET (1..Additional) OBVIOUS
<1>5. IsFiniteSet(Even \cap 1..Additional)
      /\ Cardinality(Even \cap 1..Additional) <= Additional
  BY <1>3, <1>4, FS_Subset
<1>6. Cardinality(Even \cap 1..Additional) \in Nat BY <1>5, FS_CardinalityType
<1> QED BY <1>1, <1>5, <1>6 DEF EvenBytes

\* As long as there are no flips, the number to submit is within the limits.
LEMMA Wanted ==
  ASSUME QuotaTypeOK, flips = <<>>
  PROVE  /\ flipsCountToSubmit \in Nat
         /\ override = NoOverride =>
              \/ /\ identity.required <= flipsCountToSubmit
                 /\ flipsCountToSubmit <= identity.available
              \/ /\ epoch = 0 /\ god = TRUE
                 /\ identity.required = 0 /\ flipsCountToSubmit = 1
<1>1. Len(flips) = 0 BY EmptySeq
<1>2. identity.required + EvenBytes \in Nat /\ identity.required + EvenBytes < 256
      /\ identity.required + EvenBytes <= identity.available
  BY Limits, Extras
<1>3. requiredFlipsCount = identity.required + EvenBytes
  BY <1>1, <1>2 DEF requiredFlipsCount, Byte
<1>4. CASE override # NoOverride
  <2>1. override \in Nat BY <1>4, QuotaAssumption DEF QuotaTypeOK
  <2> QED BY <1>4, <2>1 DEF flipsCountToSubmit
<1>5. CASE override = NoOverride /\ epoch = 0 /\ god /\ requiredFlipsCount = 0
  <2>1. flipsCountToSubmit = 1 BY <1>5 DEF flipsCountToSubmit, initialRequiredFlips
  <2>2. identity.required = 0 BY <1>5, <1>3, Limits, Extras
  <2>3. god = TRUE BY <1>5 DEF QuotaTypeOK
  <2> QED BY <1>5, <2>1, <2>2, <2>3
<1>6. CASE override = NoOverride /\ ~(epoch = 0 /\ god /\ requiredFlipsCount = 0)
  <2>1. flipsCountToSubmit = requiredFlipsCount BY <1>6 DEF flipsCountToSubmit
  <2> QED BY <1>2, <1>3, <2>1, Limits, Extras
<1> QED BY <1>4, <1>5, <1>6

\* The flips of the user, and the pair of the next one.
LEMMA FlipsThere ==
  ASSUME QuotaTypeOK
  PROVE  /\ There \in Seq(Nat) /\ Len(There) \in Nat
         /\ Len(flips) \in Nat /\ Len(pool) \in Nat
         /\ Len(There) = Len(flips) + Len(pool)
         /\ DOMAIN There = 1..Len(There)
         /\ wordPairIdx \in Nat /\ wordPairIdx <= idx
<1>1. flips \in Seq(Nat) /\ pool \in Seq(Nat) /\ idx \in Nat BY DEF QuotaTypeOK
<1>2. There \in Seq(Nat) /\ Len(There) = Len(flips) + Len(pool)
  BY <1>1, ConcatProperties DEF There
<1>3. wordPairIdx \in Nat /\ wordPairIdx <= idx
  BY <1>1 DEF wordPairIdx, Byte
<1> QED BY <1>1, <1>2, <1>3, LenProperties

LEMMA PairOfLater ==
  ASSUME epoch > 0, idx \in Nat, epoch \in Nat
  PROVE  wordPairIdx = idx % 256 /\ ~InARow
BY DEF wordPairIdx, InARow, Byte

\* Mining moves a flip within There.
LEMMA MinedStays ==
  ASSUME NEW s \in Seq(Nat), NEW t \in Seq(Nat), t # <<>>
  PROVE  /\ Append(s, Head(t)) \in Seq(Nat) /\ Tail(t) \in Seq(Nat)
         /\ Append(s, Head(t)) \o Tail(t) = s \o t
<1> DEFINE a == Append(s, Head(t))
           b == Tail(t)
<1>1. Head(t) \in Nat /\ b \in Seq(Nat) /\ Len(b) = Len(t) - 1
      /\ (\A m \in 1..Len(b) : b[m] = t[m + 1])
  BY HeadTailProperties
<1>2. a \in Seq(Nat) /\ Len(a) = Len(s) + 1
      /\ (\A m \in 1..Len(s) : a[m] = s[m]) /\ a[Len(s) + 1] = t[1]
  BY <1>1, AppendProperties
<1>3. Len(s) \in Nat /\ Len(t) \in Nat /\ Len(t) # 0 BY LenProperties, EmptySeq
<1> HIDE DEF a, b
<1>4. a \o b \in Seq(Nat) /\ Len(a \o b) = Len(s) + Len(t)
      /\ \A m \in 1..(Len(s) + Len(t)) :
           (a \o b)[m] = IF m <= Len(s) + 1 THEN a[m] ELSE b[m - (Len(s) + 1)]
  <2>1. a \o b \in Seq(Nat) /\ Len(a \o b) = Len(a) + Len(b)
        /\ \A m \in 1..(Len(a) + Len(b)) :
             (a \o b)[m] = IF m <= Len(a) THEN a[m] ELSE b[m - Len(a)]
    BY <1>1, <1>2, ConcatProperties
  <2>2. Len(a) = Len(s) + 1 /\ Len(a) + Len(b) = Len(s) + Len(t) BY <1>1, <1>2, <1>3
  <2> QED BY <2>1, <2>2, Zenon
<1>5. s \o t \in Seq(Nat) /\ Len(s \o t) = Len(s) + Len(t)
      /\ \A m \in 1..(Len(s) + Len(t)) :
           (s \o t)[m] = IF m <= Len(s) THEN s[m] ELSE t[m - Len(s)]
  BY ConcatProperties
<1>6. ASSUME NEW m \in 1..(Len(s) + Len(t)) PROVE (a \o b)[m] = (s \o t)[m]
  <2>1. CASE m <= Len(s) BY <2>1, <1>2, <1>3, <1>4, <1>5
  <2>2. CASE m = Len(s) + 1
    <3>1. (a \o b)[m] = t[1] BY <2>2, <1>2, <1>3, <1>4
    <3>2. (s \o t)[m] = t[m - Len(s)] BY <2>2, <1>3, <1>5
    <3>3. m - Len(s) = 1 BY <2>2, <1>3
    <3> QED BY <3>1, <3>2, <3>3
  <2>3. CASE m > Len(s) + 1
    <3>1. (a \o b)[m] = b[m - (Len(s) + 1)] BY <2>3, <1>3, <1>4
    <3>2. m - (Len(s) + 1) \in 1..Len(b) BY <2>3, <1>1, <1>3
    <3>3. b[m - (Len(s) + 1)] = t[m - (Len(s) + 1) + 1] BY <3>2, <1>1
    <3>4. m - (Len(s) + 1) + 1 = m - Len(s) BY <1>3
    <3>5. (s \o t)[m] = t[m - Len(s)] BY <2>3, <1>3, <1>5
    <3> QED BY <3>1, <3>3, <3>4, <3>5
  <2>4. m <= Len(s) \/ m = Len(s) + 1 \/ m > Len(s) + 1 BY <1>3
  <2> QED BY <2>1, <2>2, <2>3, <2>4
<1>7. a \o b = s \o t BY <1>4, <1>5, <1>6, SeqEqual
<1> QED BY <1>1, <1>2, <1>7 DEF a, b

\* A flip that the node accepts is the last one.
LEMMA AcceptedLast ==
  ASSUME NEW s \in Seq(Nat), NEW t \in Seq(Nat), NEW e \in Nat
  PROVE  /\ Append(t, e) \in Seq(Nat)
         /\ Len(s \o Append(t, e)) = Len(s \o t) + 1
         /\ \A n \in 1..Len(s \o t) : (s \o Append(t, e))[n] = (s \o t)[n]
         /\ (s \o Append(t, e))[Len(s \o t) + 1] = e
<1> DEFINE b == Append(t, e)
<1>1. b \in Seq(Nat) /\ Len(b) = Len(t) + 1
      /\ (\A m \in 1..Len(t) : b[m] = t[m]) /\ b[Len(t) + 1] = e
  BY AppendProperties
<1>2. Len(s) \in Nat /\ Len(t) \in Nat BY LenProperties
<1> HIDE DEF b
<1>3. s \o b \in Seq(Nat) /\ Len(s \o b) = Len(s) + Len(t) + 1
      /\ \A m \in 1..(Len(s) + Len(t) + 1) :
           (s \o b)[m] = IF m <= Len(s) THEN s[m] ELSE b[m - Len(s)]
  <2>1. s \o b \in Seq(Nat) /\ Len(s \o b) = Len(s) + Len(b)
        /\ \A m \in 1..(Len(s) + Len(b)) :
             (s \o b)[m] = IF m <= Len(s) THEN s[m] ELSE b[m - Len(s)]
    BY <1>1, ConcatProperties
  <2>2. Len(s) + Len(b) = Len(s) + Len(t) + 1 BY <1>1, <1>2
  <2> QED BY <2>1, <2>2, Zenon
<1>4. s \o t \in Seq(Nat) /\ Len(s \o t) = Len(s) + Len(t)
      /\ \A m \in 1..(Len(s) + Len(t)) :
           (s \o t)[m] = IF m <= Len(s) THEN s[m] ELSE t[m - Len(s)]
  BY ConcatProperties
<1>5. ASSUME NEW n \in 1..Len(s \o t) PROVE (s \o b)[n] = (s \o t)[n]
  <2>1. CASE n <= Len(s) BY <2>1, <1>2, <1>3, <1>4
  <2>2. CASE n > Len(s)
    <3>1. n - Len(s) \in 1..Len(t) BY <2>2, <1>2, <1>4
    <3>2. (s \o b)[n] = b[n - Len(s)] BY <2>2, <1>2, <1>3, <1>4
    <3>3. (s \o t)[n] = t[n - Len(s)] BY <2>2, <1>2, <1>4
    <3> QED BY <3>1, <3>2, <3>3, <1>1
  <2>3. n <= Len(s) \/ n > Len(s) BY <1>2, <1>4
  <2> QED BY <2>1, <2>2, <2>3
<1>6. (s \o b)[Len(s \o t) + 1] = e
  <2>1. (s \o b)[Len(s) + Len(t) + 1] = b[Len(s) + Len(t) + 1 - Len(s)] BY <1>2, <1>3
  <2>2. Len(s) + Len(t) + 1 - Len(s) = Len(t) + 1 BY <1>2
  <2> QED BY <2>1, <2>2, <1>1, <1>4
<1> QED BY <1>1, <1>2, <1>3, <1>4, <1>5, <1>6 DEF b

LEMMA QuotaInitially == QuotaInit => QuotaInv
<1> SUFFICES ASSUME QuotaInit PROVE QuotaInv OBVIOUS
<1> USE DEF QuotaInit
<1>1. flips = <<>> /\ pool = <<>> /\ <<>> \in Seq(Nat) BY EmptySeq
<1>2. QuotaTypeOK
  <2>1. MaxEpoch \in Nat /\ MaxFaults \in Nat BY QuotaAssumption
  <2>2. epoch \in 0..MaxEpoch /\ faults \in 0..MaxFaults BY <2>1
  <2>3. /\ count \in Int /\ idx \in Nat /\ before \in Nat \cup {-1}
        /\ made \in 0..(idx + 1)
    OBVIOUS
  <2>4. refused \in BOOLEAN OBVIOUS
  <2> QED BY <1>1, <2>2, <2>3, <2>4 DEF QuotaTypeOK
<1>3. NothingYet BY DEF NothingYet
<1>4. LoopBounded /\ FlipsCounted BY DEF LoopBounded, FlipsCounted, Submitting
<1>5. Unrefused BY DEF Unrefused
<1>6. OneAwaited BY DEF OneAwaited
<1>7. WordsKept BY DEF WordsKept
<1> QED BY <1>2, <1>3, <1>4, <1>5, <1>6, <1>7 DEF QuotaInv

LEMMA InitTestKeeps == QuotaInv /\ initTest => QuotaInv'
<1> SUFFICES ASSUME QuotaInv, initTest PROVE QuotaInv' OBVIOUS
<1> USE DEF initTest, chain
<1>1. QuotaTypeOK /\ NothingYet /\ Unrefused BY DEF QuotaInv
<1>2. UNCHANGED <<flips, pool, identity, refused>> OBVIOUS
<1>3. There' = There /\ Len(There) \in Nat BY <1>1, <1>2, FlipsThere DEF There
<1>4. DOMAIN words' = {} OBVIOUS
<1>5. QuotaTypeOK' BY <1>1, <1>2, <1>4 DEF QuotaTypeOK
<1>6. NothingYet' BY <1>1, <1>2, <1>4 DEF NothingYet
<1>7. LoopBounded' /\ FlipsCounted' BY DEF LoopBounded, FlipsCounted, Submitting
<1>8. Unrefused' BY <1>1, <1>2 DEF Unrefused
<1>9. OneAwaited' BY <1>1, <1>2 DEF OneAwaited, NothingYet
<1>10. WordsKept' BY <1>4 DEF WordsKept
<1> QED BY <1>5, <1>6, <1>7, <1>8, <1>9, <1>10 DEF QuotaInv

LEMMA GetFlipsInfoKeeps == QuotaInv /\ getFlipsInfoToSubmit => QuotaInv'
<1> SUFFICES ASSUME QuotaInv, getFlipsInfoToSubmit PROVE QuotaInv' OBVIOUS
<1> USE DEF getFlipsInfoToSubmit, chain
<1>1. QuotaTypeOK /\ NothingYet /\ Unrefused /\ OneAwaited BY DEF QuotaInv
<1>2. UNCHANGED <<flips, pool, identity, refused>> OBVIOUS
<1>3. flips = <<>> /\ pool = <<>> /\ faults = 0 /\ refused = FALSE /\ made = 0
      /\ DOMAIN words = {}
  BY <1>1 DEF NothingYet
<1>4. There' = There /\ Len(There) = 0
  BY <1>1, <1>2, <1>3, FlipsThere, EmptySeq DEF There
<1>5. qpc' = "loop"
  <2>1. AddressLen \in Nat BY QuotaAssumption
  <2>2. ~(Additional > AddressLen) BY <1>1, <2>1, Extras, Limits
  <2> QED BY <2>2
<1>6. count' = flipsCountToSubmit /\ idx' = 0 OBVIOUS
<1>7. count' \in Nat BY <1>1, <1>3, <1>6, Wanted
<1>8. QuotaTypeOK' BY <1>1, <1>2, <1>3, <1>5, <1>6, <1>7 DEF QuotaTypeOK
<1>9. NothingYet' BY <1>5 DEF NothingYet
<1>10. LoopBounded'
  <2>1. override = NoOverride =>
         \/ identity.required <= count' /\ count' <= identity.available
         \/ epoch = 0 /\ god = TRUE /\ identity.required = 0 /\ count' = 1
    BY <1>1, <1>3, <1>6, Wanted
  <2>2. UNCHANGED <<override, identity, epoch, god>> OBVIOUS
  <2> QED BY <1>5, <1>6, <1>7, <2>1, <2>2 DEF LoopBounded
<1>11. FlipsCounted' BY <1>2, <1>3, <1>4, <1>5, <1>6 DEF FlipsCounted, Asked
<1>12. Unrefused' BY <1>1, <1>2, <1>5 DEF Unrefused
<1>13. OneAwaited' BY <1>2, <1>3, <1>5 DEF OneAwaited
<1>14. WordsKept' BY <1>3 DEF WordsKept
<1> QED BY <1>8, <1>9, <1>10, <1>11, <1>12, <1>13, <1>14 DEF QuotaInv

\* The loop asks for another flip or ends.
LEMMA NextFlipKeeps == QuotaInv /\ NextFlip => QuotaInv'
<1> SUFFICES ASSUME QuotaInv, NextFlip PROVE QuotaInv' OBVIOUS
<1> USE DEF NextFlip, chain
<1>1. QuotaTypeOK /\ LoopBounded /\ FlipsCounted /\ Unrefused /\ OneAwaited /\ WordsKept
  BY DEF QuotaInv
<1>2. UNCHANGED <<flips, pool, identity, refused>> OBVIOUS
<1>3. There' = There BY <1>2 DEF There
<1>4. count \in Nat /\ idx \in Nat /\ idx <= count /\ Len(flips) \in Nat
  BY <1>1, FlipsThere DEF LoopBounded, Submitting, QuotaTypeOK
<1>5. \/ qpc' = "submitted" /\ idx = count
      \/ qpc' = "request" /\ idx < count
  BY <1>4
<1>6. QuotaTypeOK' BY <1>1, <1>2, <1>4, <1>5 DEF QuotaTypeOK
<1>7. NothingYet' BY <1>5 DEF NothingYet
<1>8. LoopBounded' BY <1>1, <1>2, <1>4, <1>5 DEF LoopBounded, Submitting
<1>9. FlipsCounted'
  <2>1. Asked' = Asked BY <1>5 DEF Asked
  <2>2. Submitting BY DEF Submitting
  <2> QED BY <1>1, <1>2, <1>3, <2>1, <2>2 DEF FlipsCounted
<1>10. Unrefused' BY <1>1, <1>2, <1>5 DEF Unrefused
<1>11. OneAwaited'
  <2> SUFFICES ASSUME epoch > 0 PROVE OneAwaited' BY DEF OneAwaited
  <2>1. ~InARow BY <1>1, <1>4, PairOfLater DEF QuotaTypeOK
  <2>2. qpc' = "request" => before' = Len(flips) BY <1>4, <1>5, <2>1
  <2> QED BY <1>1, <1>2, <1>5, <2>2 DEF OneAwaited
<1>12. WordsKept' BY <1>1, <1>3, <1>5 DEF WordsKept
<1> QED BY <1>6, <1>7, <1>8, <1>9, <1>10, <1>11, <1>12 DEF QuotaInv

\* A failure to ask, or to see the flip mined, ends the bot.
LEMMA QuotaExitKeeps == QuotaInv /\ (InfoFails \/ TimedOut) => QuotaInv'
<1> SUFFICES ASSUME QuotaInv, InfoFails \/ TimedOut PROVE QuotaInv' OBVIOUS
<1>1. QuotaTypeOK /\ Unrefused /\ WordsKept BY DEF QuotaInv
<1>2. /\ UNCHANGED <<flips, pool, identity, refused, words, made, idx, count, before>>
      /\ UNCHANGED <<epoch, botMode, god, override>> /\ qpc' = "exited" /\ qpc # "init"
  BY DEF InfoFails, TimedOut, chain
<1>3. faults' \in 0..MaxFaults
  BY <1>1, QuotaAssumption DEF InfoFails, TimedOut, QuotaTypeOK
<1>4. There' = There BY <1>2 DEF There
<1>5. QuotaTypeOK' BY <1>1, <1>2, <1>3 DEF QuotaTypeOK
<1>6. NothingYet' /\ LoopBounded' /\ FlipsCounted'
  BY <1>2 DEF NothingYet, LoopBounded, FlipsCounted, Submitting
<1>7. Unrefused' BY <1>1, <1>2 DEF Unrefused
<1>8. OneAwaited' BY <1>2 DEF OneAwaited
<1>9. WordsKept' BY <1>1, <1>2, <1>4 DEF WordsKept
<1> QED BY <1>5, <1>6, <1>7, <1>8, <1>9 DEF QuotaInv

\* The flip that was waited for is there.
LEMMA MinedKeeps == QuotaInv /\ Mined => QuotaInv'
<1> SUFFICES ASSUME QuotaInv, Mined PROVE QuotaInv' OBVIOUS
<1> USE DEF Mined, chain
<1>1. QuotaTypeOK /\ LoopBounded /\ FlipsCounted /\ Unrefused /\ OneAwaited /\ WordsKept
  BY DEF QuotaInv
<1>2. UNCHANGED <<flips, pool, identity, refused>> OBVIOUS
<1>3. There' = There BY <1>2 DEF There
<1>4. wordPairIdx' = wordPairIdx BY DEF wordPairIdx, InARow
<1>5. QuotaTypeOK' BY <1>1, <1>2 DEF QuotaTypeOK
<1>6. NothingYet' BY DEF NothingYet
<1>7. LoopBounded' BY <1>1, <1>2 DEF LoopBounded, Submitting
<1>8. FlipsCounted'
  <2>1. Asked' = Asked BY DEF Asked
  <2>2. Submitting BY DEF Submitting
  <2> QED BY <1>1, <1>2, <1>3, <2>1, <2>2 DEF FlipsCounted
<1>9. Unrefused' BY <1>1, <1>2 DEF Unrefused
<1>10. OneAwaited'
  <2> SUFFICES ASSUME epoch > 0 PROVE OneAwaited' BY DEF OneAwaited
  <2>1. /\ before >= 0 /\ Len(There) <= before + 1
        /\ Len(There) = before + 1 => There[before + 1] = wordPairIdx
    BY <1>1 DEF OneAwaited
  <2>2. Len(There) = before + 1 /\ Len(pool) = 0
    <3>1. Len(flips) = before + 1 OBVIOUS
    <3> QED BY <1>1, <2>1, <3>1, FlipsThere
  <2>3. pool = <<>> BY <1>1, <2>2, EmptySeq DEF QuotaTypeOK
  <2> QED BY <1>2, <1>3, <1>4, <2>1, <2>2, <2>3 DEF OneAwaited
<1>11. WordsKept' BY <1>1, <1>3 DEF WordsKept
<1> QED BY <1>5, <1>6, <1>7, <1>8, <1>9, <1>10, <1>11 DEF QuotaInv


\* The words of the flip are remembered, and the loop goes on.
LEMMA StoreKeeps == QuotaInv /\ Store => QuotaInv'
<1> SUFFICES ASSUME QuotaInv, Store PROVE QuotaInv' OBVIOUS
<1> USE DEF Store, chain
<1>1. QuotaTypeOK /\ LoopBounded /\ FlipsCounted /\ Unrefused /\ OneAwaited /\ WordsKept
  BY DEF QuotaInv
<1>2. UNCHANGED <<flips, pool, identity, refused>> OBVIOUS
<1>3. There' = There BY <1>2 DEF There
<1>4. idx \in Nat /\ count \in Nat /\ idx < count /\ wordPairIdx \in Nat
      /\ wordPairIdx <= idx /\ Len(There) \in Nat /\ Submitting
  BY <1>1, FlipsThere DEF LoopBounded, Submitting, QuotaTypeOK
<1>5. CASE epoch > 0 /\ wordPairIdx >= identity.pairs
  <2>1. qpc' = "panicked" /\ UNCHANGED <<idx, words>> BY <1>5
  <2>2. override # NoOverride
    <3> SUFFICES ASSUME override = NoOverride PROVE FALSE OBVIOUS
    <3>1. epoch # 0 BY <1>5, <1>1 DEF QuotaTypeOK
    <3>2. count <= identity.available BY <1>1, <1>4, <3>1 DEF LoopBounded
    <3> QED BY <1>1, <1>4, <1>5, <3>2, Limits
  <2>3. QuotaTypeOK' BY <1>1, <1>2, <2>1 DEF QuotaTypeOK
  <2>4. NothingYet' /\ LoopBounded' /\ FlipsCounted'
    BY <2>1 DEF NothingYet, LoopBounded, FlipsCounted, Submitting
  <2>5. Unrefused' BY <2>2 DEF Unrefused
  <2>6. OneAwaited' BY <2>1 DEF OneAwaited
  <2>7. WordsKept' BY <1>1, <1>3, <2>1 DEF WordsKept
  <2> QED BY <2>3, <2>4, <2>5, <2>6, <2>7 DEF QuotaInv
<1>6. CASE ~(epoch > 0 /\ wordPairIdx >= identity.pairs)
  <2>1. qpc' = "loop" /\ idx' = idx + 1 BY <1>6
  <2>2. /\ DOMAIN words' \subseteq 1..Len(There)
        /\ \A n \in DOMAIN words' : words'[n] = There[n]
    <3>1. CASE epoch > 0 /\ before >= 0
      <4>1. words' = [n \in DOMAIN words \cup {before + 1} |->
                        IF n = before + 1 THEN wordPairIdx ELSE words[n]]
        BY <1>6, <3>1
      <4>2. before + 1 \in 1..Len(There) /\ There[before + 1] = wordPairIdx
        BY <1>1, <1>4, <3>1 DEF OneAwaited, QuotaTypeOK
      <4> QED BY <1>1, <4>1, <4>2 DEF WordsKept
    <3>2. CASE ~(epoch > 0 /\ before >= 0)
      <4>1. words' = words BY <1>6, <3>2
      <4> QED BY <1>1, <4>1 DEF WordsKept
    <3> QED BY <3>1, <3>2
  <2>3. Asked' = Asked BY <2>1 DEF Asked
  <2>4. FlipsCounted' BY <1>1, <1>2, <1>3, <1>4, <2>3 DEF FlipsCounted
  <2>5. WordsKept' BY <1>3, <2>2 DEF WordsKept
  <2>6. QuotaTypeOK'
    <3>1. made' \in 0..(idx' + 1) BY <1>1, <2>1 DEF QuotaTypeOK
    <3>2. DOMAIN words' \subseteq 1..Len(flips' \o pool')
      BY <1>2, <2>2 DEF There
    <3> QED BY <1>1, <1>2, <1>4, <2>1, <3>1, <3>2 DEF QuotaTypeOK
  <2>7. NothingYet' BY <2>1 DEF NothingYet
  <2>8. LoopBounded' BY <1>1, <1>2, <1>4, <2>1 DEF LoopBounded, Submitting
  <2>9. Unrefused' BY <1>1, <1>2, <2>1 DEF Unrefused
  <2>10. OneAwaited' BY <1>1, <1>2, <2>1 DEF OneAwaited
  <2> QED BY <2>4, <2>5, <2>6, <2>7, <2>8, <2>9, <2>10 DEF QuotaInv
<1> QED BY <1>5, <1>6

\* A flip is mined: nothing changes but where it is.
LEMMA MineKeeps == QuotaInv /\ Mine => QuotaInv'
<1> SUFFICES ASSUME QuotaInv, Mine PROVE QuotaInv' OBVIOUS
<1>1. QuotaTypeOK /\ NothingYet /\ LoopBounded /\ FlipsCounted /\ Unrefused
      /\ OneAwaited /\ WordsKept
  BY DEF QuotaInv
<1>2. /\ flips' = Append(flips, Head(pool)) /\ pool' = Tail(pool) /\ pool # <<>>
      /\ UNCHANGED <<epoch, botMode, god, identity, refused, override, qpc, count, idx>>
      /\ UNCHANGED <<before, made, words, faults>>
  BY DEF Mine
<1>3. flips' \in Seq(Nat) /\ pool' \in Seq(Nat) /\ There' = There
  BY <1>1, <1>2, MinedStays DEF QuotaTypeOK, There
<1>4. flips' \o pool' = flips \o pool BY <1>3 DEF There
<1>5. Asked' = Asked /\ wordPairIdx' = wordPairIdx /\ Submitting' = Submitting
  BY <1>2 DEF Asked, wordPairIdx, InARow, Submitting
<1>6. QuotaTypeOK' BY <1>1, <1>2, <1>3, <1>4 DEF QuotaTypeOK
<1>7. NothingYet' BY <1>1, <1>2 DEF NothingYet
<1>8. LoopBounded' BY <1>1, <1>2, <1>5 DEF LoopBounded
<1>9. FlipsCounted' BY <1>1, <1>2, <1>3, <1>5 DEF FlipsCounted
<1>10. Unrefused' BY <1>1, <1>2 DEF Unrefused
<1>11. OneAwaited' BY <1>1, <1>2, <1>3, <1>5 DEF OneAwaited
<1>12. WordsKept' BY <1>1, <1>2, <1>3 DEF WordsKept
<1> QED BY <1>6, <1>7, <1>8, <1>9, <1>10, <1>11, <1>12 DEF QuotaInv

LEMMA NextEpochKeeps == QuotaInv /\ NextEpoch => QuotaInv'
<1> SUFFICES ASSUME QuotaInv, NextEpoch PROVE QuotaInv' OBVIOUS
<1>1. QuotaTypeOK /\ Unrefused /\ WordsKept BY DEF QuotaInv
<1>2. UNCHANGED <<botMode, god, pool, count, idx, before, made, words>> BY DEF NextEpoch
<1>3. pool = <<>> /\ qpc = "submitted" BY DEF NextEpoch
<1>4. CASE epoch = MaxEpoch
  <2>1. qpc' = "over" /\ UNCHANGED <<epoch, identity, flips, override, refused, faults>>
    BY <1>4 DEF NextEpoch
  <2>2. There' = There BY <1>2, <2>1 DEF There
  <2>3. QuotaTypeOK' BY <1>1, <1>2, <1>3, <2>1 DEF QuotaTypeOK
  <2>4. NothingYet' /\ LoopBounded' /\ FlipsCounted'
    BY <2>1 DEF NothingYet, LoopBounded, FlipsCounted, Submitting
  <2>5. Unrefused' BY <1>1, <2>1 DEF Unrefused
  <2>6. OneAwaited' BY <2>1 DEF OneAwaited
  <2>7. WordsKept' BY <1>1, <1>2, <1>3, <2>1, <2>2 DEF WordsKept
  <2> QED BY <2>3, <2>4, <2>5, <2>6, <2>7 DEF QuotaInv
<1>5. CASE epoch # MaxEpoch
  <2>1. /\ qpc' = "init" /\ epoch' = epoch + 1 /\ identity' \in Identities
        /\ override' \in Overrides \cup {NoOverride}
        /\ flips' = <<>> /\ refused' = FALSE /\ faults' = 0
    BY <1>5 DEF NextEpoch
  <2>2. epoch' \in 0..MaxEpoch /\ faults' \in 0..MaxFaults
    <3>1. MaxEpoch \in Nat /\ MaxFaults \in Nat BY QuotaAssumption
    <3> QED BY <1>1, <1>5, <2>1, <3>1 DEF QuotaTypeOK
  <2>3. flips' \in Seq(Nat) BY <2>1, EmptySeq
  <2>4. QuotaTypeOK' BY <1>1, <1>2, <2>1, <2>2, <2>3 DEF QuotaTypeOK
  <2>5. NothingYet' BY <1>2, <1>3, <2>1 DEF NothingYet
  <2>6. LoopBounded' /\ FlipsCounted' BY <2>1 DEF LoopBounded, FlipsCounted, Submitting
  <2>7. Unrefused' BY <2>1 DEF Unrefused
  <2>8. OneAwaited' BY <2>1 DEF OneAwaited
  <2>9. WordsKept' BY <2>1 DEF WordsKept
  <2> QED BY <2>4, <2>5, <2>6, <2>7, <2>8, <2>9 DEF QuotaInv
<1> QED BY <1>4, <1>5

-----------------------------------------------------------------------------
(* The requests                                                            *)

\* What the three outcomes of a request have in common: at most one flip more,
\* the last one, and the loop is one request further.
Outcome(at) ==
  /\ qpc = "request" /\ AfterRequest(at) /\ UNCHANGED flips
  /\ UNCHANGED <<epoch, botMode, god, identity, override, count, words>>
  /\ \/ pool' = Append(pool, wordPairIdx) /\ at \in {0, Len(There) + 1}
     \/ pool' = pool /\ at = 0

\* The outcome in terms of the flips.
OneMoreAtMost ==
  /\ \A n \in 1..Len(There) : There'[n] = There[n]
  /\ \/ There' = There
     \/ Len(There') = Len(There) + 1 /\ There'[Len(There) + 1] = wordPairIdx

LEMMA RequestAdds ==
  ASSUME QuotaTypeOK, NEW at, Outcome(at)
  PROVE  /\ OneMoreAtMost /\ pool' \in Seq(Nat) /\ flips' \in Seq(Nat)
         /\ pool' = pool => There' = There
         /\ pool' # pool => /\ pool' = Append(pool, wordPairIdx)
                           /\ Len(There') = Len(There) + 1
<1>1. flips \in Seq(Nat) /\ pool \in Seq(Nat) /\ wordPairIdx \in Nat /\ flips' = flips
  BY FlipsThere DEF Outcome, QuotaTypeOK
<1>2. CASE pool' = pool
  <2>1. There' = There BY <1>1, <1>2 DEF There
  <2> QED BY <1>1, <1>2, <2>1 DEF OneMoreAtMost
<1>3. CASE pool' = Append(pool, wordPairIdx)
  <2>1. There' = flips \o Append(pool, wordPairIdx) BY <1>1, <1>3 DEF There
  <2>2. Append(pool, wordPairIdx) \in Seq(Nat) BY <1>1, AcceptedLast
  <2>3. /\ Len(There') = Len(There) + 1
        /\ \A n \in 1..Len(There) : There'[n] = There[n]
        /\ There'[Len(There) + 1] = wordPairIdx
    BY <1>1, <2>1, AcceptedLast DEF There
  <2>4. pool' # pool
    <3>1. Len(Append(pool, wordPairIdx)) = Len(pool) + 1 /\ Len(pool) \in Nat
      BY <1>1, AppendProperties, LenProperties
    <3> QED BY <1>3, <3>1
  <2> QED BY <1>1, <1>3, <2>2, <2>3, <2>4 DEF OneMoreAtMost
<1> QED BY <1>2, <1>3 DEF Outcome

\* Where the session goes.
LEMMA RequestGoesOn ==
  ASSUME QuotaTypeOK, NEW at \in Nat, Outcome(at)
  PROVE  /\ \/ InARow /\ qpc' = "loop" /\ idx' = idx + 1 /\ before' = before
            \/ ~InARow /\ botMode # "validationOnly" /\ qpc' = "wait"
               /\ idx' = idx /\ before' = before
            \/ ~InARow /\ botMode = "validationOnly" /\ qpc' = "store"
               /\ idx' = idx /\ before' = at - 1
         /\ Asked = idx /\ Asked' = idx + 1
         /\ ~InARow => wordPairIdx' = wordPairIdx
         /\ epoch > 0 => ~InARow
         /\ idx' \in Nat /\ before' \in Nat \cup {-1}
<1>1. \/ InARow /\ qpc' = "loop" /\ idx' = idx + 1 /\ before' = before
      \/ ~InARow /\ botMode # "validationOnly" /\ qpc' = "wait"
         /\ idx' = idx /\ before' = before
      \/ ~InARow /\ botMode = "validationOnly" /\ qpc' = "store"
         /\ idx' = idx /\ before' = at - 1
  BY DEF Outcome, AfterRequest
<1>2. Asked = idx /\ Asked' = idx + 1 BY <1>1 DEF Asked, Outcome
<1>3. epoch > 0 => ~InARow BY PairOfLater DEF QuotaTypeOK
<1>4. InARow' <=> InARow BY DEF InARow, Outcome
<1>5. ~InARow => wordPairIdx' = wordPairIdx BY <1>1, <1>4 DEF wordPairIdx
<1>6. idx' \in Nat BY <1>1 DEF QuotaTypeOK
<1>7. before' \in Nat \cup {-1} BY <1>1 DEF QuotaTypeOK
<1> QED BY <1>1, <1>2, <1>3, <1>5, <1>6, <1>7

\* The parts that do not depend on what the outcome is.
LEMMA OutcomeKeeps ==
  ASSUME QuotaInv, NEW at \in Nat, Outcome(at)
  PROVE  /\ NothingYet' /\ LoopBounded' /\ OneAwaited' /\ WordsKept'
         /\ epoch' > 0 => \A n \in 1..Len(There') : There'[n] < Asked'
         /\ Len(There') <= Asked' /\ qpc' \in {"loop", "wait", "store"}
<1>1. QuotaTypeOK /\ LoopBounded /\ FlipsCounted /\ OneAwaited /\ WordsKept
  BY DEF QuotaInv
<1>2. OneMoreAtMost /\ (pool' = pool => There' = There)
      /\ (pool' # pool => Len(There') = Len(There) + 1)
  BY <1>1, RequestAdds
<1>3. /\ \/ InARow /\ qpc' = "loop" /\ idx' = idx + 1 /\ before' = before
         \/ ~InARow /\ botMode # "validationOnly" /\ qpc' = "wait"
            /\ idx' = idx /\ before' = before
         \/ ~InARow /\ botMode = "validationOnly" /\ qpc' = "store"
            /\ idx' = idx /\ before' = at - 1
      /\ Asked = idx /\ Asked' = idx + 1
      /\ ~InARow => wordPairIdx' = wordPairIdx
      /\ epoch > 0 => ~InARow
  BY <1>1, RequestGoesOn
<1>4. /\ Len(There) \in Nat /\ idx \in Nat /\ wordPairIdx \in Nat /\ wordPairIdx <= idx
      /\ Len(There) = Len(flips) + Len(pool)
  BY <1>1, FlipsThere DEF QuotaTypeOK
<1>5. /\ qpc = "request"
      /\ UNCHANGED <<epoch, botMode, god, identity, override, count, words, flips>>
  BY DEF Outcome
<1>6. Submitting BY <1>5 DEF Submitting
<1>7. NothingYet' BY <1>3 DEF NothingYet
<1>8. LoopBounded' BY <1>1, <1>3, <1>4, <1>5, <1>6 DEF LoopBounded
<1>9. WordsKept'
  <2>1. Len(There') >= Len(There) BY <1>2, <1>4
  <2> QED BY <1>1, <1>2, <1>4, <1>5, <2>1 DEF WordsKept, OneMoreAtMost
<1>10. Len(There') <= Asked' BY <1>1, <1>2, <1>3, <1>4, <1>6 DEF FlipsCounted
<1>11. ASSUME epoch' > 0, NEW n \in 1..Len(There') PROVE There'[n] < Asked'
  <2>1. \A m \in 1..Len(There) : There[m] \in Nat /\ There[m] < idx
    <3>1. There \in Seq(Nat) BY <1>1, FlipsThere
    <3> QED BY <1>1, <1>3, <1>5, <1>6, <1>11, <3>1, ElementOfSeq DEF FlipsCounted
  <2>2. CASE n \in 1..Len(There) BY <1>2, <1>3, <1>4, <2>1, <2>2 DEF OneMoreAtMost
  <2>3. CASE n \notin 1..Len(There)
    <3>1. n = Len(There) + 1 /\ There'[n] = wordPairIdx
      BY <1>2, <1>4, <2>3 DEF OneMoreAtMost
    <3> QED BY <1>3, <1>4, <3>1
  <2> QED BY <2>2, <2>3
<1>12. OneAwaited'
  <2> SUFFICES ASSUME epoch > 0 PROVE OneAwaited' BY <1>5 DEF OneAwaited
  <2>1. CASE botMode # "validationOnly" /\ qpc' = "wait" /\ before' = before
    <3>1. pool = <<>> /\ before = Len(flips) BY <1>1, <1>5, <2>1 DEF OneAwaited
    <3>2. Len(There) = before /\ before \in Nat BY <1>4, <3>1, EmptySeq
    <3>3. There' = There => Len(There') # before + 1 BY <3>2
    <3>4. Len(There') <= before + 1 BY <1>2, <3>2
    <3>5. Len(There') = before + 1 => There'[before + 1] = wordPairIdx
      BY <1>2, <3>2, <3>3 DEF OneMoreAtMost
    <3> QED BY <1>3, <1>5, <2>1, <3>2, <3>4, <3>5 DEF OneAwaited
  <2>2. CASE botMode = "validationOnly" /\ qpc' = "store" /\ before' = at - 1
    <3>1. CASE at = 0 BY <1>5, <2>2, <3>1 DEF OneAwaited
    <3>2. CASE at # 0
      <4>1. at = Len(There) + 1 /\ pool' = Append(pool, wordPairIdx) BY <3>2 DEF Outcome
      <4>2. pool' # pool
        <5>1. Len(Append(pool, wordPairIdx)) = Len(pool) + 1 /\ Len(pool) \in Nat
          BY <1>1, <1>4, AppendProperties, LenProperties DEF QuotaTypeOK
        <5> QED BY <4>1, <5>1
      <4>3. Len(There') = Len(There) + 1 BY <1>2, <4>2
      <4>4. There'[Len(There) + 1] = wordPairIdx
        BY <1>2, <1>4, <4>3 DEF OneMoreAtMost
      <4>5. before' + 1 = Len(There) + 1 BY <1>4, <2>2, <4>1
      <4> QED BY <1>3, <1>4, <1>5, <2>2, <4>3, <4>4, <4>5 DEF OneAwaited
    <3> QED BY <3>1, <3>2
  <2> QED BY <1>3, <2>1, <2>2
<1> QED BY <1>3, <1>7, <1>8, <1>9, <1>10, <1>11, <1>12

\* The type of what an outcome leaves.
LEMMA OutcomeTyped ==
  ASSUME QuotaInv, NEW at \in Nat, Outcome(at),
         made' \in {made, made + 1}, refused' \in BOOLEAN, faults' \in 0..MaxFaults
  PROVE  QuotaTypeOK' /\ made' <= Asked'
<1>1. QuotaTypeOK /\ FlipsCounted /\ WordsKept' BY OutcomeKeeps DEF QuotaInv
<1>2. pool' \in Seq(Nat) /\ flips' \in Seq(Nat) BY <1>1, RequestAdds
<1>3. idx' \in Nat /\ before' \in Nat \cup {-1} /\ Asked = idx /\ Asked' = idx + 1
      /\ (idx' = idx \/ idx' = idx + 1)
  BY <1>1, RequestGoesOn
<1>4. qpc' \in {"loop", "wait", "store"} BY OutcomeKeeps
<1>5. made \in Nat /\ made <= idx /\ idx \in Nat
  BY <1>1, <1>3 DEF FlipsCounted, Submitting, Outcome, QuotaTypeOK
<1>6. made' \in 0..(idx' + 1) /\ made' <= Asked'
  <2>1. made' = made \/ made' = made + 1 OBVIOUS
  <2>2. made' \in Nat /\ made' <= idx + 1 BY <1>5, <2>1
  <2>3. idx' = idx \/ idx' = idx + 1 BY <1>3
  <2>4. made' \in 0..(idx' + 1) BY <1>5, <2>2, <2>3
  <2>5. made' <= Asked' BY <1>3, <2>2
  <2> QED BY <2>4, <2>5
<1>7. DOMAIN words' \subseteq 1..Len(flips' \o pool') BY <1>1, <1>4 DEF WordsKept, There
<1>8. UNCHANGED <<epoch, botMode, god, identity, override, count>> BY DEF Outcome
<1> QED BY <1>1, <1>2, <1>3, <1>4, <1>6, <1>7, <1>8 DEF QuotaTypeOK

\* The node accepts the flip.
LEMMA SubmitFlipKeeps == QuotaInv /\ SubmitFlip => QuotaInv'
<1> SUFFICES ASSUME QuotaInv, SubmitFlip PROVE QuotaInv' OBVIOUS
<1> DEFINE at == Len(There) + 1
<1>1. QuotaTypeOK /\ FlipsCounted /\ Unrefused BY DEF QuotaInv
<1>2. Len(There) \in Nat /\ idx \in Nat /\ made \in Nat
  BY <1>1, FlipsThere DEF QuotaTypeOK
<1>3. at \in Nat /\ Outcome(at) BY <1>2 DEF SubmitFlip, Outcome, There
<1>4. made' = made + 1 /\ UNCHANGED <<refused, faults, override>>
      /\ pool' = Append(pool, wordPairIdx) /\ qpc = "request"
  BY DEF SubmitFlip
<1> HIDE DEF at
<1>5. NothingYet' /\ LoopBounded' /\ OneAwaited' /\ WordsKept'
      /\ (epoch' > 0 => \A n \in 1..Len(There') : There'[n] < Asked')
      /\ Len(There') <= Asked' /\ qpc' \in {"loop", "wait", "store"}
  BY <1>3, OutcomeKeeps
<1>6. refused' \in BOOLEAN /\ faults' \in 0..MaxFaults BY <1>1, <1>4 DEF QuotaTypeOK
<1>7. QuotaTypeOK' /\ made' <= Asked' BY <1>3, <1>4, <1>6, OutcomeTyped
<1>8. Len(There') = Len(There) + 1
  <2>1. Len(Append(pool, wordPairIdx)) = Len(pool) + 1 /\ Len(pool) \in Nat
    BY <1>1, FlipsThere, AppendProperties, LenProperties DEF QuotaTypeOK
  <2>2. pool' # pool BY <1>4, <2>1
  <2> QED BY <1>1, <1>3, <2>2, RequestAdds
<1>9. Asked = idx /\ Asked' = idx + 1 BY <1>1, <1>3, RequestGoesOn
<1>10. FlipsCounted'
  <2>1. Submitting BY <1>4 DEF Submitting
  <2> QED BY <1>1, <1>2, <1>4, <1>5, <1>7, <1>8, <1>9, <2>1 DEF FlipsCounted
<1>11. Unrefused' BY <1>1, <1>4, <1>5 DEF Unrefused
<1> QED BY <1>5, <1>7, <1>10, <1>11 DEF QuotaInv

\* The node has to refuse a flip only if the scenario has asked for it.
LEMMA RefusedFlipKeeps == QuotaInv /\ SubmitFlipRefused => QuotaInv'
<1> SUFFICES ASSUME QuotaInv, SubmitFlipRefused PROVE QuotaInv' OBVIOUS
<1>1. QuotaTypeOK /\ FlipsCounted /\ LoopBounded /\ Unrefused BY DEF QuotaInv
<1>2. Len(There) \in Nat /\ idx \in Nat /\ made \in Nat /\ epoch \in Nat
  BY <1>1, FlipsThere DEF QuotaTypeOK
<1>3. Outcome(0) BY DEF SubmitFlipRefused, Outcome
<1>4. /\ UNCHANGED <<made, faults, override, pool>> /\ refused' = TRUE /\ qpc = "request"
      /\ ~Acceptable(wordPairIdx)
  BY DEF SubmitFlipRefused
<1>5. NothingYet' /\ LoopBounded' /\ OneAwaited' /\ WordsKept'
      /\ (epoch' > 0 => \A n \in 1..Len(There') : There'[n] < Asked')
      /\ Len(There') <= Asked' /\ qpc' \in {"loop", "wait", "store"}
  BY <1>3, OutcomeKeeps
<1>6. faults' \in 0..MaxFaults BY <1>1, <1>4 DEF QuotaTypeOK
<1>7. refused' \in BOOLEAN BY <1>4
<1>8. QuotaTypeOK' /\ made' <= Asked' BY <1>3, <1>4, <1>6, <1>7, OutcomeTyped
<1>9. There' = There BY <1>1, <1>3, <1>4, RequestAdds
<1>10. Submitting BY <1>4 DEF Submitting
<1>11. FlipsCounted'
  BY <1>1, <1>2, <1>4, <1>5, <1>8, <1>9, <1>10 DEF FlipsCounted
<1>12. override # NoOverride
  <2> SUFFICES ASSUME override = NoOverride PROVE FALSE OBVIOUS
  <2>1. Len(There) <= idx /\ idx < count /\ count \in Nat
        /\ (epoch > 0 => \A n \in 1..Len(There) : There[n] < idx)
    BY <1>1, <1>4, <1>10 DEF FlipsCounted, LoopBounded, Asked
  <2>2. CASE epoch = 0 /\ god BY <1>4, <2>2 DEF Acceptable
  <2>3. CASE ~(epoch = 0 /\ god)
    <3>1. count <= identity.available
      BY <1>1, <1>10, <2>3 DEF LoopBounded, QuotaTypeOK
    <3>2. Len(There) < identity.available /\ idx < 256
      BY <1>1, <1>2, <2>1, <3>1, Limits
    <3>3. ASSUME epoch > 0, NEW n \in 1..Len(There) PROVE There[n] # wordPairIdx
      <4>1. wordPairIdx = idx BY <1>2, <3>2, <3>3, PairOfLater
      <4>2. There[n] \in Nat BY <1>1, FlipsThere, ElementOfSeq
      <4> QED BY <1>2, <2>1, <3>3, <4>1, <4>2
    <3>4. DOMAIN There = 1..Len(There) BY <1>1, FlipsThere
    <3>5. Acceptable(wordPairIdx) BY <3>2, <3>3, <3>4 DEF Acceptable, There
    <3> QED BY <1>4, <3>5
  <2> QED BY <2>2, <2>3
<1>13. Unrefused' BY <1>4, <1>12 DEF Unrefused
<1> QED BY <1>5, <1>8, <1>11, <1>13 DEF QuotaInv

\* The request fails, with the flip in the pool or without.
LEMMA FailedFlipKeeps == QuotaInv /\ SubmitFlipFails => QuotaInv'
<1> SUFFICES ASSUME QuotaInv, SubmitFlipFails PROVE QuotaInv' OBVIOUS
<1>1. QuotaTypeOK /\ FlipsCounted /\ Unrefused BY DEF QuotaInv
<1>2. Outcome(0) BY DEF SubmitFlipFails, Outcome
<1>3. /\ UNCHANGED <<made, refused, override>> /\ faults' = faults + 1
      /\ faults < MaxFaults /\ qpc = "request"
  BY DEF SubmitFlipFails
<1>4. NothingYet' /\ LoopBounded' /\ OneAwaited' /\ WordsKept'
      /\ (epoch' > 0 => \A n \in 1..Len(There') : There'[n] < Asked')
      /\ Len(There') <= Asked' /\ qpc' \in {"loop", "wait", "store"}
  BY <1>2, OutcomeKeeps
<1>5. faults' \in 0..MaxFaults /\ faults' # 0
  <2>1. MaxFaults \in Nat BY QuotaAssumption
  <2> QED BY <1>1, <1>3, <2>1 DEF QuotaTypeOK
<1>6. refused' \in BOOLEAN BY <1>1, <1>3 DEF QuotaTypeOK
<1>7. QuotaTypeOK' /\ made' <= Asked' BY <1>2, <1>3, <1>5, <1>6, OutcomeTyped
<1>8. FlipsCounted' BY <1>4, <1>5, <1>7 DEF FlipsCounted
<1>9. Unrefused' BY <1>1, <1>3, <1>4 DEF Unrefused
<1> QED BY <1>4, <1>7, <1>8, <1>9 DEF QuotaInv

-----------------------------------------------------------------------------
(* The theorems about the flips of a user                                  *)

\* The inductive invariant holds throughout every epoch.
THEOREM QuotaInvariance == QuotaSpec => []QuotaInv
<1>1. QuotaInv /\ [QuotaNext]_quotaVars => QuotaInv'
  <2> SUFFICES ASSUME QuotaInv, [QuotaNext]_quotaVars PROVE QuotaInv' OBVIOUS
  <2>1. CASE UNCHANGED quotaVars
    BY <2>1 DEF QuotaInv, quotaVars, chain, QuotaTypeOK, NothingYet, LoopBounded,
                FlipsCounted, Unrefused, OneAwaited, WordsKept, Submitting, Asked, There,
                wordPairIdx, InARow
  <2>2. CASE QuotaNext
    <3>1. CASE QuotaEnded BY <2>1, <3>1 DEF QuotaEnded
    <3> QED BY <2>2, <3>1, InitTestKeeps, GetFlipsInfoKeeps, QuotaExitKeeps, NextFlipKeeps,
               SubmitFlipKeeps, RefusedFlipKeeps, FailedFlipKeeps, MineKeeps, MinedKeeps,
               StoreKeeps, NextEpochKeeps
            DEF QuotaNext
  <2> QED BY <2>1, <2>2
<1> QED BY <1>1, QuotaInitially, PTL DEF QuotaSpec

\* Type correctness of submitFlips, with at most one flip known for every
\* turn of its loop.
THEOREM QuotaTypeCorrect == QuotaSpec => []QuotaTypeOK
BY QuotaInvariance, PTL DEF QuotaInv

\* For every requirement of the chain and every address: the bytes of the
\* address never take a session over the limit or out of its pairs, and it
\* ends with the flips that the chain requires (user.go:279,
\* verification.go:355).
THEOREM QuotaIsMet == QuotaSpec => []QuotaMet
<1>1. QuotaInv => QuotaMet
  <2> SUFFICES ASSUME QuotaInv PROVE QuotaMet OBVIOUS
  <2>1. QuotaTypeOK /\ LoopBounded /\ FlipsCounted /\ Unrefused BY DEF QuotaInv
  <2>2. override = NoOverride => ~refused /\ qpc # "panicked" BY <2>1 DEF Unrefused
  <2>3. ASSUME qpc = "submitted", faults = 0
        PROVE  /\ made > 0 <=> flips \o pool # <<>>
               /\ override = NoOverride =>
                    /\ Len(flips \o pool) >= identity.required
                    /\ ~(epoch = 0 /\ god) => Len(flips \o pool) <= identity.available
    <3>1. Submitting /\ Asked = idx BY <2>3 DEF Submitting, Asked
    <3>2. made = Len(There) /\ There \in Seq(Nat) /\ Len(There) \in Nat
      BY <2>1, <2>3, <3>1, FlipsThere DEF FlipsCounted
    <3>3. made > 0 <=> There # <<>> BY <3>2, EmptySeq
    <3>4. ASSUME override = NoOverride
          PROVE  /\ Len(There) >= identity.required
                 /\ ~(epoch = 0 /\ god) => Len(There) <= identity.available
      <4>1. refused = FALSE BY <2>1, <3>4 DEF Unrefused
      <4>2. Len(There) = idx /\ idx = count /\ count \in Nat
        BY <2>1, <2>3, <3>1, <4>1 DEF FlipsCounted, LoopBounded
      <4>3. CASE identity.required <= count /\ count <= identity.available
        BY <2>1, <4>2, <4>3, Limits
      <4>4. CASE epoch = 0 /\ god = TRUE /\ identity.required = 0 /\ count = 1
        BY <4>2, <4>4
      <4> QED BY <2>1, <3>1, <3>4, <4>3, <4>4 DEF LoopBounded
    <3> QED BY <3>3, <3>4 DEF There
  <2> QED BY <2>2, <2>3 DEF QuotaMet
<1> QED BY <1>1, QuotaInvariance, PTL

\* For every order in which flips are accepted, lost, mined and waited for:
\* the words stored under a flip are those of its pair (verification.go:398).
THEOREM WordsAreOfTheFlip == QuotaSpec => []WordsOfTheFlip
<1>1. QuotaInv => WordsOfTheFlip
  <2> SUFFICES ASSUME QuotaInv, qpc # "init", NEW n \in DOMAIN words, n \in DOMAIN flips
               PROVE  words[n] = flips[n]
    BY DEF WordsOfTheFlip
  <2>1. QuotaTypeOK /\ WordsKept BY DEF QuotaInv
  <2>2. words[n] = There[n] BY <2>1 DEF WordsKept
  <2>3. flips \in Seq(Nat) /\ pool \in Seq(Nat) BY <2>1 DEF QuotaTypeOK
  <2>4. n \in 1..Len(flips) /\ Len(flips) \in Nat /\ Len(pool) \in Nat
    BY <2>3, LenProperties
  <2>5. n \in 1..(Len(flips) + Len(pool)) /\ n <= Len(flips) BY <2>4
  <2>6. There[n] = flips[n] BY <2>3, <2>5, ConcatProperties DEF There
  <2> QED BY <2>2, <2>6
<1> QED BY <1>1, QuotaInvariance, PTL

-----------------------------------------------------------------------------
(* OnlineSwitch: the inductive invariant                                   *)

\* The flag is set by the automatic switch and by nothing else, and an
\* automatic switch is only ever planned as long as it is not.
AutoOnce ==
  /\ auto = IF autoSent THEN 1 ELSE 0
  /\ modes = <<"auto">> => ~autoSent
  /\ auto = 0 => wanted = "none"
  /\ wanted # "none" => status = wanted

\* When the last attempt of the first switch begins at the latest: a pause ends
\* that began before the deadline, or the session begins.
LastStart == IF began > deadline + Pause THEN began ELSE deadline + Pause

\* Past that, each switch makes one attempt.
TimeSpent ==
  /\ opc \in {"begin", "skipped"} => now <= Validation
  /\ opc = "pause" => spent <= Pause /\ now <= deadline + spent
  /\ opc = "try" => /\ spent <= Longest
                    /\ now <= LastStart + (IF Len(modes) = 2 THEN 0 ELSE Longest) + spent
  /\ opc = "flips" => now <= LastStart + 2 * Longest

OnlineInv == OnlineTypeOK /\ AutoOnce /\ TimeSpent

Plans == {<<>>, <<"online">>, <<"offline">>, <<"auto">>, <<"online", "offline">>}

\* What an epoch begins with; the automatic switch only if it is not made yet.
LEMMA PlanOfEpoch ==
  Modes \in Plans /\ (Modes = <<"auto">> => ~autoSent)
<1>1. <<>> \o <<>> = <<>> OBVIOUS
<1>2. <<"online">> \o <<>> = <<"online">> OBVIOUS
<1>3. <<>> \o <<"offline">> = <<"offline">> OBVIOUS
<1>4. <<"online">> \o <<"offline">> = <<"online", "offline">>
  <2> DEFINE S == {"online", "offline"}
  <2>1. <<"online">> \in Seq(S) /\ <<"offline">> \in Seq(S) OBVIOUS
  <2>2. <<"online", "offline">> \in Seq(S) OBVIOUS
  <2>3. Len(<<"online">>) = 1 /\ Len(<<"offline">>) = 1 OBVIOUS
  <2>4. /\ <<"online">> \o <<"offline">> \in Seq(S)
        /\ Len(<<"online">> \o <<"offline">>) = 2
        /\ (<<"online">> \o <<"offline">>)[1] = "online"
        /\ (<<"online">> \o <<"offline">>)[2] = "offline"
        BY <2>1, <2>3, ConcatProperties
  <2>5. \A n \in 1..2 :
          (<<"online">> \o <<"offline">>)[n] = <<"online", "offline">>[n]
        BY <2>4
  <2>6. Len(<<"online", "offline">>) = 2 OBVIOUS
  <2> HIDE DEF S
  <2> QED BY <2>2, <2>4, <2>5, <2>6, SeqEqual
<1>5. Listed \in {<<>>, <<"online">>, <<"offline">>, <<"online", "offline">>}
      BY <1>1, <1>2, <1>3, <1>4 DEF Listed
<1>6. <<"auto">> \notin {<<>>, <<"online">>, <<"offline">>, <<"online", "offline">>}
      OBVIOUS
<1> QED BY <1>5, <1>6 DEF Modes, Plans

\* What is left of a plan.
LEMMA RestOfPlan ==
  ASSUME NEW m \in Plans, m # <<>>
  PROVE  /\ Head(m) \in {"online", "offline", "auto"}
         /\ Head(m) = "auto" <=> m = <<"auto">>
         /\ Tail(m) \in Plans /\ Tail(m) # <<"auto">>
         /\ Len(m) = 2 <=> Tail(m) # <<>>
         /\ Len(Tail(m)) # 2
<1>1. CASE m \in {<<"online">>, <<"offline">>, <<"auto">>}
  <2>1. Head(m) \in {"online", "offline", "auto"} /\ Len(m) = 1 BY <1>1
  <2>2. Tail(m) = <<>>
    <3>1. Tail(<<"online">>) = <<>> OBVIOUS
    <3>2. Tail(<<"offline">>) = <<>> OBVIOUS
    <3>3. Tail(<<"auto">>) = <<>> OBVIOUS
    <3> QED BY <1>1, <3>1, <3>2, <3>3
  <2>3. Head(m) = "auto" <=> m = <<"auto">> BY <1>1
  <2>4. Len(<<>>) # 2 /\ <<>> # <<"auto">> OBVIOUS
  <2> QED BY <2>1, <2>2, <2>3, <2>4 DEF Plans
<1>2. CASE m = <<"online", "offline">>
  <2>1. Head(m) = "online" /\ Len(m) = 2 /\ m # <<"auto">> BY <1>2
  <2>2. Tail(m) = <<"offline">> BY <1>2
  <2>3. Len(<<"offline">>) # 2 /\ <<"offline">> # <<>> /\ <<"offline">> # <<"auto">>
        OBVIOUS
  <2> QED BY <2>1, <2>2, <2>3 DEF Plans
<1> QED BY <1>1, <1>2 DEF Plans

\* An epoch begins with nothing planned.
LEMMA OnlineInitially == OnlineInit => OnlineInv
<1> SUFFICES ASSUME OnlineInit PROVE OnlineInv OBVIOUS
<1> USE OnlineAssumption DEF OnlineInit
<1>1. OnlineTypeOK
  <2>1. testIndex \in 0..MaxTestIndex /\ now \in Nat /\ began \in 0..Validation OBVIOUS
  <2>2. modes = <<>> /\ opc = "begin" OBVIOUS
  <2>3. opc \in {"try", "pause"} <=> (modes # <<>> /\ opc # "exited") BY <2>2
  <2>4. auto \in Nat /\ spent \in Nat OBVIOUS
  <2>5. validated \in BOOLEAN /\ autoSent \in BOOLEAN BY Zenon
  <2>6. status \in {"online", "offline"} /\ wanted \in {"none", "online", "offline"}
        OBVIOUS
  <2>7. modes \in {<<>>, <<"online">>, <<"offline">>, <<"auto">>, <<"online", "offline">>}
        BY <2>2
  <2> QED BY <2>1, <2>2, <2>3, <2>4, <2>5, <2>6, <2>7 DEF OnlineTypeOK
<1>2. AutoOnce BY DEF AutoOnce
<1>3. TimeSpent BY DEF TimeSpent
<1> QED BY <1>1, <1>2, <1>3 DEF OnlineInv

\* The next switch of the plan, or the flips.
LEMMA Proceeding ==
  ASSUME OnlineInv, opc = "try", Proceed, UNCHANGED <<now, began>>
  PROVE  /\ modes' \in Plans /\ modes' # <<"auto">>
         /\ opc' \in {"try", "flips"} /\ (opc' = "try" <=> modes' # <<>>)
         /\ spent' = 0 /\ TimeSpent'
<1> USE OnlineAssumption DEF deadline
<1>1. modes \in Plans /\ modes # <<>> BY DEF OnlineInv, OnlineTypeOK, Plans
<1>2. /\ modes' = Tail(modes) /\ opc' = IF modes' = <<>> THEN "flips" ELSE "try"
      /\ spent' = 0
      BY DEF Proceed
<1>3. /\ modes' \in Plans /\ modes' # <<"auto">> /\ Len(modes') # 2
      /\ Len(modes) = 2 <=> modes' # <<>>
      BY <1>1, <1>2, RestOfPlan
<1>4. now \in Nat /\ spent \in Nat /\ LastStart \in Int
      BY DEF OnlineInv, OnlineTypeOK, LastStart
<1>5. TimeSpent'
  <2>1. /\ spent <= Longest
        /\ now <= LastStart + (IF Len(modes) = 2 THEN 0 ELSE Longest) + spent
        BY DEF OnlineInv, TimeSpent
  <2>2. now <= LastStart + 2 * Longest BY <1>4, <2>1
  <2>3. modes' # <<>> => now <= LastStart + Longest BY <1>3, <1>4, <2>1
  <2>4. LastStart' = LastStart BY DEF LastStart
  <2> QED BY <1>2, <1>3, <1>4, <2>2, <2>3, <2>4 DEF TimeSpent
<1> QED BY <1>2, <1>3, <1>5

\* Every step of a session keeps the plan, the flag and the clock in order.
LEMMA OnlineKeeps == OnlineInv /\ OnlineNext => OnlineInv'
<1> SUFFICES ASSUME OnlineInv, OnlineNext PROVE OnlineInv' OBVIOUS
<1> USE OnlineAssumption
<1>1. OnlineTypeOK /\ AutoOnce /\ TimeSpent BY DEF OnlineInv
<1>2. modes \in Plans BY <1>1 DEF OnlineTypeOK, Plans
<1>3. CASE Begin
  <2>1. modes' \in Plans /\ (modes' = <<"auto">> => ~autoSent)
        BY <1>3, PlanOfEpoch DEF Begin
  <2>2. OnlineTypeOK'
    <3>1. now \in 0..Validation BY <1>1, <1>3 DEF OnlineTypeOK, TimeSpent, Begin
    <3> QED BY <1>1, <1>3, <2>1, <3>1 DEF OnlineTypeOK, Begin, Plans
  <2>3. AutoOnce' BY <1>1, <1>3, <2>1 DEF AutoOnce, Begin
  <2>4. TimeSpent' BY <1>1, <1>3 DEF TimeSpent, LastStart, Begin, OnlineTypeOK, deadline
  <2> QED BY <2>2, <2>3, <2>4 DEF OnlineInv
<1>4. CASE Accepted
  <2>1. /\ modes' \in Plans /\ modes' # <<"auto">>
        /\ opc' \in {"try", "flips"} /\ (opc' = "try" <=> modes' # <<>>)
        /\ spent' = 0 /\ TimeSpent'
        BY <1>4, Proceeding DEF Accepted
  <2>2. /\ Head(modes) \in {"online", "offline", "auto"}
        /\ Head(modes) = "auto" <=> modes = <<"auto">>
        BY <1>1, <1>2, <1>4, RestOfPlan DEF OnlineTypeOK, Accepted
  <2>3. /\ status' = IF Head(modes) = "auto" THEN "online" ELSE Head(modes)
        /\ autoSent' = (autoSent \/ Head(modes) = "auto")
        /\ auto' = IF Head(modes) = "auto" THEN auto + 1 ELSE auto
        /\ wanted' = IF Head(modes) # "auto" /\ auto > 0 THEN Head(modes) ELSE wanted
        BY <1>4 DEF Accepted
  <2>4. autoSent' \in BOOLEAN BY <1>1, <2>3 DEF OnlineTypeOK
  <2>5. OnlineTypeOK'
        BY <1>1, <1>4, <2>1, <2>2, <2>3, <2>4 DEF OnlineTypeOK, Accepted, Plans
  <2>6. AutoOnce'
    <3>1. CASE Head(modes) = "auto"
      <4>1. ~autoSent /\ auto = 0 /\ wanted = "none" BY <1>1, <2>2, <3>1 DEF AutoOnce
      <4>2. autoSent' BY <2>3, <3>1
      <4>3. auto' = 1 /\ wanted' = "none" BY <2>3, <3>1, <4>1
      <4> QED BY <2>1, <4>2, <4>3 DEF AutoOnce
    <3>2. CASE Head(modes) # "auto"
      <4>1. autoSent' = autoSent /\ auto' = auto BY <1>1, <2>3, <3>2 DEF OnlineTypeOK
      <4> QED BY <1>1, <2>1, <2>3, <3>2, <4>1 DEF AutoOnce, OnlineTypeOK
    <3> QED BY <3>1, <3>2
  <2> QED BY <2>1, <2>5, <2>6 DEF OnlineInv
<1>5. CASE TryLater
  <2>1. OnlineTypeOK' BY <1>1, <1>5 DEF OnlineTypeOK, TryLater
  <2>2. AutoOnce' BY <1>1, <1>5 DEF AutoOnce, TryLater
  <2>3. TimeSpent' BY <1>1, <1>5 DEF TimeSpent, LastStart, TryLater, OnlineTypeOK, deadline
  <2> QED BY <2>1, <2>2, <2>3 DEF OnlineInv
<1>6. CASE TryAgain
  <2>1. OnlineTypeOK' BY <1>1, <1>6 DEF OnlineTypeOK, TryAgain
  <2>2. AutoOnce' BY <1>1, <1>6 DEF AutoOnce, TryAgain
  <2>3. TimeSpent' BY <1>1, <1>6 DEF TimeSpent, LastStart, TryAgain, OnlineTypeOK, deadline
  <2> QED BY <2>1, <2>2, <2>3 DEF OnlineInv
<1>7. CASE GiveUp
  <2>1. CASE Proceed
    <3>1. /\ modes' \in Plans /\ modes' # <<"auto">>
          /\ opc' \in {"try", "flips"} /\ (opc' = "try" <=> modes' # <<>>)
          /\ spent' = 0 /\ TimeSpent'
          BY <1>7, <2>1, Proceeding DEF GiveUp
    <3>2. OnlineTypeOK' BY <1>1, <1>7, <3>1 DEF OnlineTypeOK, GiveUp, Plans
    <3>3. AutoOnce' BY <1>1, <1>7, <3>1 DEF AutoOnce, GiveUp
    <3> QED BY <3>1, <3>2, <3>3 DEF OnlineInv
  <2>2. CASE opc' = "exited" /\ UNCHANGED <<modes, spent>>
    <3>1. OnlineTypeOK' BY <1>1, <1>7, <2>2 DEF OnlineTypeOK, GiveUp
    <3>2. AutoOnce' BY <1>1, <1>7, <2>2 DEF AutoOnce, GiveUp
    <3>3. TimeSpent' BY <1>1, <1>7, <2>2 DEF TimeSpent, GiveUp
    <3> QED BY <3>1, <3>2, <3>3 DEF OnlineInv
  <2> QED BY <1>7, <2>1, <2>2 DEF GiveUp
<1>8. CASE Minute
  <2>1. TimeSpent' BY <1>1, <1>8 DEF TimeSpent, LastStart, Minute, OnlineTypeOK, deadline
  <2>2. now' \in Nat /\ spent' \in Nat BY <1>1, <1>8 DEF OnlineTypeOK, Minute
  <2>3. OnlineTypeOK' BY <1>1, <1>8, <2>2 DEF OnlineTypeOK, Minute
  <2>4. AutoOnce' BY <1>1, <1>8 DEF AutoOnce, Minute
  <2> QED BY <2>1, <2>3, <2>4 DEF OnlineInv
<1>9. CASE SkipSession
  <2>1. OnlineTypeOK' BY <1>1, <1>9 DEF OnlineTypeOK, SkipSession
  <2>2. AutoOnce' BY <1>1, <1>9 DEF AutoOnce, SkipSession
  <2>3. TimeSpent' BY <1>1, <1>9 DEF TimeSpent, SkipSession
  <2> QED BY <2>1, <2>2, <2>3 DEF OnlineInv
<1>10. CASE NextTest
  <2>1. OnlineTypeOK' BY <1>1, <1>10 DEF OnlineTypeOK, NextTest
  <2>2. AutoOnce' BY <1>1, <1>10 DEF AutoOnce, NextTest
  <2>3. TimeSpent' BY <1>1, <1>10 DEF TimeSpent, NextTest
  <2> QED BY <2>1, <2>2, <2>3 DEF OnlineInv
<1>11. CASE OnlineEnded
       BY <1>1, <1>11 DEF OnlineEnded, onlineVars, OnlineInv, OnlineTypeOK, AutoOnce,
                          TimeSpent, LastStart
<1> QED BY <1>3, <1>4, <1>5, <1>6, <1>7, <1>8, <1>9, <1>10, <1>11 DEF OnlineNext

\* The invariant of the online switches, for any epochs and any scenario.
THEOREM OnlineInvariance == OnlineSpec => []OnlineInv
<1>1. OnlineInv /\ UNCHANGED onlineVars => OnlineInv'
      BY DEF onlineVars, OnlineInv, OnlineTypeOK, AutoOnce, TimeSpent, LastStart
<1> QED BY <1>1, OnlineInitially, OnlineKeeps, PTL DEF OnlineSpec

\* The sessions of switchOnlineState are type correct.
THEOREM OnlineTypeCorrect == OnlineSpec => []OnlineTypeOK
<1>1. OnlineInv => OnlineTypeOK BY DEF OnlineInv
<1> QED BY <1>1, OnlineInvariance, PTL

\* Over any number of epochs a user switches by itself at most once, and never
\* against the scenario afterwards.
THEOREM SwitchedByItselfOnce == OnlineSpec => []SwitchesByItselfOnce
<1>1. OnlineInv => SwitchesByItselfOnce BY DEF OnlineInv, AutoOnce, SwitchesByItselfOnce
<1> QED BY <1>1, OnlineInvariance, PTL

\* However often a switch is tried again and however long an attempt takes,
\* the flips lose no more than two attempts after the deadline, or after a
\* later beginning.
THEOREM FlipsHaveTime == OnlineSpec => []TimeForFlips
<1>1. OnlineInv => TimeForFlips
      BY OnlineAssumption DEF OnlineInv, TimeSpent, LastStart, TimeForFlips, deadline,
                              OnlineTypeOK
<1> QED BY <1>1, OnlineInvariance, PTL
=============================================================================
