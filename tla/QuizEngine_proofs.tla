-------------------------- MODULE QuizEngine_proofs --------------------------
(***************************************************************************)
(* Proofs about QuizEngine for any finite set of devices and any bank of   *)
(* questions: the counters that the engine keeps incrementally are the     *)
(* cardinalities of what was answered.                                     *)
(***************************************************************************)
EXTENDS QuizEngine, FiniteSetTheorems, TLAPS

-----------------------------------------------------------------------------
(***************************************************************************)
(* Counting devices.                                                       *)
(***************************************************************************)
\* A set of devices that is left by d, and joined again if b holds.
Rejoin(S, d, b) == IF b THEN S \cup {d} ELSE S \ {d}

\* A set of devices is finite and has a size.
LEMMA CountType ==
  ASSUME NEW S, S \subseteq Device
  PROVE  IsFiniteSet(S) /\ Cardinality(S) \in Nat
BY FS_Subset, FS_CardinalityType, EngineAssumption

\* Leaving and joining moves the size by what changed, which is what the
\* engine's Math.max(0, x - 1) and x + 1 do to its counters.
LEMMA CountRejoin ==
  ASSUME NEW S, S \subseteq Device, NEW d, NEW b \in BOOLEAN
  PROVE  Cardinality(Rejoin(S, d, b)) = Cardinality(S) + BoolToNat(b) - BoolToNat(d \in S)
<1>1. IsFiniteSet(S) /\ Cardinality(S) \in Nat
  BY CountType
<1>2. Cardinality(S \cup {d}) = IF d \in S THEN Cardinality(S) ELSE Cardinality(S) + 1
  BY <1>1, FS_AddElement
<1>3. Cardinality(S \ {d}) = IF d \in S THEN Cardinality(S) - 1 ELSE Cardinality(S)
  BY <1>1, FS_RemoveElement
<1> QED  BY <1>1, <1>2, <1>3 DEF Rejoin, BoolToNat

\* A counter that is decremented for an element of S is not zero.
LEMMA CountPositive ==
  ASSUME NEW S, S \subseteq Device, NEW d \in S
  PROVE  Cardinality(S) > 0
<1>1. IsFiniteSet(S) /\ Cardinality(S) \in Nat
  BY CountType
<1>2. Cardinality(S) # 0
  BY <1>1, FS_EmptySet
<1> QED  BY <1>1, <1>2

-----------------------------------------------------------------------------
(***************************************************************************)
(* The inductive invariant.                                                *)
(***************************************************************************)
\* Nothing is answered before the question is opened: opening a table question
\* sets its heat map to zero.
ReadyIsUnanswered == \A q \in Question : qstate[q] = "ready" => Answered(q) = {}

\* Openings have different stamps, none of them later than now.
Stamped ==
  /\ \A q \in Question : /\ opened_at[q] <= clock
                         /\ opened_at[q] = 0 <=> qstate[q] = "ready"
  /\ \A q, x \in Question : opened_at[q] = opened_at[x] /\ opened_at[q] # 0 => q = x

IInv == /\ TypeOK
        /\ OneOpenQuestion
        /\ AnswersHaveNames
        /\ ReadyIsUnanswered
        /\ Stamped
        /\ CountsMatchAnswers
        /\ OptionCountsMatch
        /\ CellStatsMatch

\* A new engine: nothing is answered and every counter is zero.
LEMMA InitInv == Init => IInv
<1> SUFFICES ASSUME Init PROVE IInv
  OBVIOUS
<1>1. \A q \in Question : Answered(q) = {}
  BY DEF Init, Answered
<1>2. TypeOK
  BY DEF Init, TypeOK
<1>3. OneOpenQuestion /\ AnswersHaveNames /\ ReadyIsUnanswered /\ Stamped
  BY <1>1 DEF Init, OneOpenQuestion, AnswersHaveNames, ReadyIsUnanswered, Stamped
<1>4. \A q \in Question : AnsweredRight(q) = {}
  BY <1>1 DEF AnsweredRight
<1>5. CountsMatchAnswers
  BY <1>1, <1>4, FS_EmptySet DEF Init, CountsMatchAnswers
<1>6. OptionCountsMatch
  <2>1. \A q \in ChoiceQuestion, o \in Option : Chose(q, o) = {} /\ q \in Question
    BY <1>1 DEF Chose, Question
  <2> QED  BY <2>1, FS_EmptySet DEF Init, OptionCountsMatch
<1>7. CellStatsMatch
  <2>1. \A q \in TableQuestion, c \in Cell : GotWrong(q, c) = {} /\ q \in Question
    BY <1>1 DEF GotWrong, Question
  <2> QED  BY <2>1, FS_EmptySet DEF Init, CellStatsMatch
<1> QED  BY <1>2, <1>3, <1>5, <1>6, <1>7 DEF IInv

-----------------------------------------------------------------------------
(***************************************************************************)
(* An accepted answer.                                                     *)
(***************************************************************************)
\* What Put does to the answers of a question.
LEMMA AnswersAfter ==
  ASSUME TypeOK, NEW d \in Device, NEW q \in Question, NEW a, CountAnswer(d, q, a)
  PROVE  /\ DOMAIN answers' = Question
         /\ \A x \in Question \ {q} : answers'[x] = answers[x]
         /\ answers'[q] = Put(answers[q], d, a)
         /\ Answered(q)' = Answered(q) \cup {d}
         /\ answers'[q][d] = a
         /\ \A e \in Answered(q) \ {d} : answers'[q][e] = answers[q][e]
BY DEF TypeOK, CountAnswer, Put, Answered

\* The part of an accepted answer that both kinds of question share keeps
\* answer_count and correct_count equal to the sizes of the sets they count.
LEMMA CountAnswerInv ==
  ASSUME IInv, NEW d \in Device, NEW q \in Question, NEW a \in AnswersTo(q),
         CountAnswer(d, q, a), MayAnswer(d, q), UNCHANGED <<qstate, participants>>
  PROVE  /\ answer_count' \in [Question -> Nat]
         /\ correct_count' \in [Question -> Int]
         /\ \A x \in Question : /\ DOMAIN answers'[x] \subseteq Device
                                /\ answers'[x] \in [DOMAIN answers'[x] -> AnswersTo(x)]
         /\ AnswersHaveNames'
         /\ ReadyIsUnanswered'
         /\ CountsMatchAnswers'
<1> USE DEF IInv
<1> DEFINE right == AnsweredRight(q)
<1>1. /\ DOMAIN answers' = Question
      /\ \A x \in Question \ {q} : answers'[x] = answers[x]
      /\ answers'[q] = Put(answers[q], d, a)
      /\ Answered(q)' = Answered(q) \cup {d}
      /\ answers'[q][d] = a
      /\ \A e \in Answered(q) \ {d} : answers'[q][e] = answers[q][e]
  BY AnswersAfter
<1>2. \A x \in Question : Answered(x) \subseteq Device
  BY DEF TypeOK, Answered
<1>3. /\ answer_count' = [answer_count EXCEPT ![q] = IF d \in Answered(q) THEN @ ELSE @ + 1]
      /\ correct_count' = [correct_count EXCEPT
           ![q] = @ + BoolToNat(IsRight(q, a)) - BoolToNat(d \in right)]
  BY DEF CountAnswer, Existing, Answered, AnsweredRight
<1>4. IsRight(q, a) \in BOOLEAN
  BY DEF IsRight
<1>5. answer_count' \in [Question -> Nat] /\ correct_count' \in [Question -> Int]
  BY <1>3 DEF TypeOK, BoolToNat
<1>6. \A x \in Question : /\ DOMAIN answers'[x] \subseteq Device
                          /\ answers'[x] \in [DOMAIN answers'[x] -> AnswersTo(x)]
  <2>1. Put(answers[q], d, a) \in [DOMAIN answers[q] \cup {d} -> AnswersTo(q)]
    BY DEF Put, TypeOK
  <2> QED  BY <1>1, <2>1 DEF TypeOK
<1>7. AnswersHaveNames' /\ ReadyIsUnanswered'
  BY <1>1 DEF MayAnswer, AnswersHaveNames, ReadyIsUnanswered, Answered
<1>8. \A x \in Question \ {q} : /\ Answered(x)' = Answered(x)
                                /\ AnsweredRight(x)' = AnsweredRight(x)
                                /\ answer_count'[x] = answer_count[x]
                                /\ correct_count'[x] = correct_count[x]
  BY <1>1, <1>3 DEF Answered, AnsweredRight, TypeOK
<1>9. AnsweredRight(q)' = Rejoin(right, d, IsRight(q, a))
  BY <1>1 DEF AnsweredRight, Rejoin, IsRight
<1>10. right \subseteq Device
  BY <1>2 DEF AnsweredRight
<1>11. correct_count'[q] = Cardinality(AnsweredRight(q)')
  <2>1. correct_count'[q] = correct_count[q] + BoolToNat(IsRight(q, a)) - BoolToNat(d \in right)
    BY <1>3 DEF TypeOK
  <2>2. correct_count[q] = Cardinality(right)
    BY DEF CountsMatchAnswers
  <2> QED  BY <2>1, <2>2, <1>4, <1>9, <1>10, CountRejoin
<1>12. answer_count'[q] = Cardinality(Answered(q)')
  <2>1. answer_count[q] = Cardinality(Answered(q)) /\ IsFiniteSet(Answered(q))
    BY <1>2, CountType DEF CountsMatchAnswers
  <2>2. answer_count'[q] = IF d \in Answered(q) THEN answer_count[q] ELSE answer_count[q] + 1
    BY <1>3 DEF TypeOK
  <2> QED  BY <2>1, <2>2, <1>1, FS_AddElement
<1>13. CountsMatchAnswers'
  BY <1>8, <1>11, <1>12 DEF CountsMatchAnswers
<1> QED  BY <1>5, <1>6, <1>7, <1>13

\* answerChoice keeps the invariant: the option that loses one had the device.
LEMMA AnswerChoiceInv ==
  ASSUME IInv, NEW d \in Device, NEW q \in ChoiceQuestion, NEW a \in AnswersTo(q),
         AnswerChoice(d, q, a)
  PROVE  IInv'
<1> USE DEF IInv
<1>0. q \in Question /\ a \in Option /\ AnswersTo(q) = Option
  BY DEF Question, AnswersTo
<1>1. /\ CountAnswer(d, q, a) /\ MayAnswer(d, q)
      /\ option_counts' = [option_counts EXCEPT ![q] = MoveOption(@, answers[q], d, a)]
      /\ UNCHANGED <<qstate, opened_at, clock, participants, cell_stats>>
  BY DEF AnswerChoice
<1>2. /\ answer_count' \in [Question -> Nat]
      /\ correct_count' \in [Question -> Int]
      /\ \A x \in Question : /\ DOMAIN answers'[x] \subseteq Device
                             /\ answers'[x] \in [DOMAIN answers'[x] -> AnswersTo(x)]
      /\ AnswersHaveNames'
      /\ ReadyIsUnanswered'
      /\ CountsMatchAnswers'
  BY <1>0, <1>1, CountAnswerInv
<1>3. /\ DOMAIN answers' = Question
      /\ \A x \in Question \ {q} : answers'[x] = answers[x]
      /\ Answered(q)' = Answered(q) \cup {d}
      /\ answers'[q][d] = a
      /\ \A e \in Answered(q) \ {d} : answers'[q][e] = answers[q][e]
  BY <1>0, <1>1, AnswersAfter
<1>4. \A o \in Option : Chose(q, o)' = Rejoin(Chose(q, o), d, o = a)
  BY <1>3 DEF Chose, Rejoin
<1>5. ASSUME NEW o \in Option
      PROVE  /\ option_counts'[q] \in [Option -> Nat]
             /\ option_counts'[q][o] = option_counts[q][o] + BoolToNat(o = a)
                                         - BoolToNat(d \in Chose(q, o))
  <2>1. option_counts[q] \in [Option -> Nat]
    BY DEF TypeOK
  <2>2. option_counts'[q] = MoveOption(option_counts[q], answers[q], d, a)
    BY <1>1 DEF TypeOK
  <2>3. CASE d \in Answered(q)
    <3> DEFINE old == answers[q][d]
    <3>1. old \in Option /\ d \in Chose(q, old)
      BY <1>0, <2>3 DEF TypeOK, Answered, Chose
    <3>2. option_counts[q][old] > 0
      <4>1. Chose(q, old) \subseteq Device
        BY <1>0 DEF TypeOK, Answered, Chose
      <4> QED  BY <3>1, <4>1, CountPositive DEF OptionCountsMatch
    <3>3. d \in Chose(q, o) <=> o = old
      BY <2>3 DEF Chose
    <3>4. option_counts'[q] = [x \in Option |->
            option_counts[q][x] + (IF x = a THEN 1 ELSE 0) - (IF x = old THEN 1 ELSE 0)]
      BY <1>0, <2>1, <2>2, <2>3, <3>1, <3>2 DEF MoveOption, OneLess, Answered
    <3> HIDE DEF old
    <3> QED  BY <2>1, <3>1, <3>2, <3>3, <3>4 DEF BoolToNat
  <2>4. CASE d \notin Answered(q)
    <3>1. d \notin Chose(q, o)
      BY <2>4 DEF Chose
    <3>2. option_counts'[q] = [option_counts[q] EXCEPT ![a] = @ + 1]
      BY <2>2, <2>4 DEF MoveOption, Answered
    <3> QED  BY <1>0, <2>1, <3>1, <3>2 DEF BoolToNat
  <2> QED  BY <2>3, <2>4
<1>6. OptionCountsMatch'
  <2> SUFFICES ASSUME NEW x \in ChoiceQuestion, NEW o \in Option
               PROVE  option_counts'[x][o] = Cardinality(Chose(x, o)')
    BY DEF OptionCountsMatch
  <2>1. CASE x # q
    <3>1. Chose(x, o)' = Chose(x, o) /\ option_counts'[x] = option_counts[x]
      BY <1>1, <1>3, <2>1 DEF Chose, Answered, Question, TypeOK
    <3> QED  BY <3>1 DEF OptionCountsMatch
  <2>2. CASE x = q
    <3>1. Chose(q, o) \subseteq Device
      BY <1>0 DEF TypeOK, Answered, Chose
    <3>2. option_counts[q][o] = Cardinality(Chose(q, o))
      BY DEF OptionCountsMatch
    <3>3. Cardinality(Rejoin(Chose(q, o), d, o = a)) =
             Cardinality(Chose(q, o)) + BoolToNat(o = a) - BoolToNat(d \in Chose(q, o))
      BY <3>1, CountRejoin
    <3> QED  BY <1>4, <1>5, <2>2, <3>2, <3>3
  <2> QED  BY <2>1, <2>2
<1>7. CellStatsMatch'
  <2> SUFFICES ASSUME NEW x \in TableQuestion, NEW c \in Cell
               PROVE  cell_stats'[x][c] = Cardinality(GotWrong(x, c)')
    BY DEF CellStatsMatch
  <2>1. x \in Question \ {q}
    BY EngineAssumption DEF Question
  <2>2. GotWrong(x, c)' = GotWrong(x, c) /\ cell_stats' = cell_stats
    BY <1>1, <1>3, <2>1 DEF GotWrong, Answered
  <2> QED  BY <2>2 DEF CellStatsMatch
<1>8. TypeOK'
  <2>1. option_counts' \in [ChoiceQuestion -> [Option -> Nat]]
    <3>1. option_counts'[q] \in [Option -> Nat]
      BY <1>0, <1>5
    <3> QED  BY <1>1, <3>1 DEF TypeOK
  <2> QED  BY <1>1, <1>2, <1>3, <2>1 DEF TypeOK
<1>9. OneOpenQuestion' /\ Stamped'
  BY <1>1 DEF OneOpenQuestion, Stamped
<1> QED  BY <1>2, <1>6, <1>7, <1>8, <1>9

\* answerTable keeps the invariant: a cell that loses one had the device wrong.
LEMMA AnswerTableInv ==
  ASSUME IInv, NEW d \in Device, NEW q \in TableQuestion, NEW a \in AnswersTo(q),
         AnswerTable(d, q, a)
  PROVE  IInv'
<1> USE DEF IInv
<1>0. q \in Question /\ a \subseteq Cell /\ AnswersTo(q) = SUBSET Cell
  BY EngineAssumption DEF Question, AnswersTo
<1>1. /\ CountAnswer(d, q, a) /\ MayAnswer(d, q)
      /\ cell_stats' = [cell_stats EXCEPT ![q] = MoveCells(@, answers[q], d, a)]
      /\ UNCHANGED <<qstate, opened_at, clock, participants, option_counts>>
  BY DEF AnswerTable
<1>2. /\ answer_count' \in [Question -> Nat]
      /\ correct_count' \in [Question -> Int]
      /\ \A x \in Question : /\ DOMAIN answers'[x] \subseteq Device
                             /\ answers'[x] \in [DOMAIN answers'[x] -> AnswersTo(x)]
      /\ AnswersHaveNames'
      /\ ReadyIsUnanswered'
      /\ CountsMatchAnswers'
  BY <1>0, <1>1, CountAnswerInv
<1>3. /\ DOMAIN answers' = Question
      /\ \A x \in Question \ {q} : answers'[x] = answers[x]
      /\ Answered(q)' = Answered(q) \cup {d}
      /\ answers'[q][d] = a
      /\ \A e \in Answered(q) \ {d} : answers'[q][e] = answers[q][e]
  BY <1>0, <1>1, AnswersAfter
<1>4. \A c \in Cell : GotWrong(q, c)' = Rejoin(GotWrong(q, c), d, c \notin a)
  BY <1>3 DEF GotWrong, Rejoin
<1>5. \A c \in Cell : GotWrong(q, c) \subseteq Device
                      /\ cell_stats[q][c] = Cardinality(GotWrong(q, c))
                      /\ cell_stats[q][c] \in Nat
  BY <1>0 DEF TypeOK, Answered, GotWrong, CellStatsMatch
<1>6. \A c \in Cell : d \in GotWrong(q, c) => cell_stats[q][c] > 0
  BY <1>5, CountPositive
<1>7. /\ DOMAIN cell_stats'[q] = Cell
      /\ \A c \in Cell : cell_stats'[q][c] = cell_stats[q][c] + BoolToNat(c \notin a)
                                               - BoolToNat(d \in GotWrong(q, c))
  <2>1. cell_stats'[q] = MoveCells(cell_stats[q], answers[q], d, a)
    BY <1>1 DEF TypeOK
  <2>2. CASE d \in Answered(q)
    <3>1. \A c \in Cell : d \in GotWrong(q, c) <=> c \notin answers[q][d]
      BY <2>2 DEF GotWrong
    <3>2. cell_stats'[q] = [c \in Cell |->
            (IF c \in answers[q][d] THEN cell_stats[q][c] ELSE OneLess(cell_stats[q][c]))
              + (IF c \in a THEN 0 ELSE 1)]
      BY <1>5, <2>1, <2>2 DEF MoveCells, Answered, OneLess
    <3> QED  BY <1>5, <1>6, <3>1, <3>2 DEF OneLess, BoolToNat
  <2>3. CASE d \notin Answered(q)
    <3>1. \A c \in Cell : d \notin GotWrong(q, c)
      BY <2>3 DEF GotWrong
    <3>2. cell_stats'[q] = [c \in Cell |-> IF c \in a THEN cell_stats[q][c]
                                                      ELSE cell_stats[q][c] + 1]
      BY <2>1, <2>3 DEF MoveCells, Answered
    <3> QED  BY <1>5, <3>1, <3>2 DEF BoolToNat
  <2> QED  BY <2>2, <2>3
<1>8. CellStatsMatch'
  <2> SUFFICES ASSUME NEW x \in TableQuestion, NEW c \in Cell
               PROVE  cell_stats'[x][c] = Cardinality(GotWrong(x, c)')
    BY DEF CellStatsMatch
  <2>1. CASE x # q
    <3>1. GotWrong(x, c)' = GotWrong(x, c) /\ cell_stats'[x] = cell_stats[x]
      BY <1>1, <1>3, <2>1 DEF GotWrong, Answered, Question, TypeOK
    <3> QED  BY <3>1 DEF CellStatsMatch
  <2>2. CASE x = q
    <3>1. Cardinality(Rejoin(GotWrong(q, c), d, c \notin a)) =
             Cardinality(GotWrong(q, c)) + BoolToNat(c \notin a) - BoolToNat(d \in GotWrong(q, c))
      BY <1>5, CountRejoin
    <3> QED  BY <1>4, <1>5, <1>7, <2>2, <3>1
  <2> QED  BY <2>1, <2>2
<1>9. OptionCountsMatch'
  <2> SUFFICES ASSUME NEW x \in ChoiceQuestion, NEW o \in Option
               PROVE  option_counts'[x][o] = Cardinality(Chose(x, o)')
    BY DEF OptionCountsMatch
  <2>1. x \in Question \ {q}
    BY EngineAssumption DEF Question
  <2>2. Chose(x, o)' = Chose(x, o) /\ option_counts' = option_counts
    BY <1>1, <1>3, <2>1 DEF Chose, Answered
  <2> QED  BY <2>2 DEF OptionCountsMatch
<1>10. TypeOK'
  <2>1. cell_stats'[q] \in [Cell -> Nat]
    <3>1. \A c \in Cell : cell_stats'[q][c] \in Nat
      BY <1>5, <1>6, <1>7 DEF BoolToNat
    <3>2. cell_stats'[q] = [c \in Cell |-> cell_stats'[q][c]]
      <4>1. cell_stats'[q] = MoveCells(cell_stats[q], answers[q], d, a)
        BY <1>1 DEF TypeOK
      <4> QED  BY <4>1 DEF MoveCells
    <3> QED  BY <3>1, <3>2
  <2>2. cell_stats' \in [TableQuestion -> [Cell -> Nat]]
    BY <1>1, <2>1 DEF TypeOK
  <2> QED  BY <1>1, <1>2, <1>3, <2>2 DEF TypeOK
<1>11. OneOpenQuestion' /\ Stamped'
  BY <1>1 DEF OneOpenQuestion, Stamped
<1> QED  BY <1>2, <1>8, <1>9, <1>10, <1>11

-----------------------------------------------------------------------------
(***************************************************************************)
(* The other actions, and the theorems.                                    *)
(***************************************************************************)
\* hello adds a participant and touches nothing that is counted.
LEMMA HelloInv ==
  ASSUME IInv, NEW d \in Device, Hello(d)
  PROVE  IInv'
<1> USE DEF IInv
<1>1. participants' = participants \cup {d}
      /\ UNCHANGED <<qstate, opened_at, clock, answers, answer_count, correct_count,
                     option_counts, cell_stats>>
  BY DEF Hello, answered
<1>2. TypeOK' /\ AnswersHaveNames'
  BY <1>1 DEF TypeOK, AnswersHaveNames, Answered
<1>3. OneOpenQuestion' /\ Stamped' /\ ReadyIsUnanswered'
  BY <1>1 DEF OneOpenQuestion, Stamped, ReadyIsUnanswered, Answered
<1>4. CountsMatchAnswers' /\ OptionCountsMatch' /\ CellStatsMatch'
  BY <1>1 DEF CountsMatchAnswers, OptionCountsMatch, CellStatsMatch, Answered,
              AnsweredRight, Chose, GotWrong
<1> QED  BY <1>2, <1>3, <1>4

\* close moves a question from open (or closed) to closed.
LEMMA CloseInv ==
  ASSUME IInv, NEW q \in Question, Close(q)
  PROVE  IInv'
<1> USE DEF IInv
<1>1. /\ qstate[q] # "ready" /\ qstate' = [qstate EXCEPT ![q] = "closed"]
      /\ UNCHANGED <<opened_at, clock, participants, answers, answer_count, correct_count,
                     option_counts, cell_stats>>
  BY DEF Close, answered
<1>2. TypeOK' /\ AnswersHaveNames'
  BY <1>1 DEF TypeOK, AnswersHaveNames, Answered
<1>3. OneOpenQuestion' /\ Stamped' /\ ReadyIsUnanswered'
  BY <1>1 DEF TypeOK, OneOpenQuestion, Stamped, ReadyIsUnanswered, Answered
<1>4. CountsMatchAnswers' /\ OptionCountsMatch' /\ CellStatsMatch'
  BY <1>1 DEF CountsMatchAnswers, OptionCountsMatch, CellStatsMatch, Answered,
              AnsweredRight, Chose, GotWrong
<1> QED  BY <1>2, <1>3, <1>4

\* trigger gives the question a stamp of its own, and finds its heat map empty.
LEMMA TriggerInv ==
  ASSUME IInv, NEW q \in Question, Trigger(q)
  PROVE  IInv'
<1> USE DEF IInv
<1>0. UNCHANGED <<participants, answers, answer_count, correct_count, option_counts>>
  BY DEF Trigger
<1>1. CASE qstate[q] = "ready"
  <2>1. /\ qstate' = [qstate EXCEPT ![q] = "open"]
        /\ clock' = clock + 1
        /\ opened_at' = [opened_at EXCEPT ![q] = clock + 1]
        /\ \A x \in Question : qstate[x] # "open"
    BY <1>1 DEF Trigger, MayOpen, Stamp
  <2>2. cell_stats' = IF q \in TableQuestion
                      THEN [cell_stats EXCEPT ![q] = [c \in Cell |-> 0]] ELSE cell_stats
    BY <1>1 DEF Trigger
  <2>3. Answered(q) = {}
    BY <1>1 DEF ReadyIsUnanswered
  <2>4. TypeOK'
    BY <1>0, <2>1, <2>2 DEF TypeOK
  <2>5. OneOpenQuestion' /\ AnswersHaveNames' /\ ReadyIsUnanswered'
    BY <1>0, <2>1 DEF TypeOK, OneOpenQuestion, AnswersHaveNames, ReadyIsUnanswered, Answered
  <2>6. Stamped'
    <3>1. \A x \in Question : opened_at'[x] = IF x = q THEN clock + 1 ELSE opened_at[x]
      BY <2>1 DEF TypeOK
    <3>2. \A x \in Question : qstate'[x] = IF x = q THEN "open" ELSE qstate[x]
      BY <2>1 DEF TypeOK
    <3>3. \A x \in Question : opened_at[x] \in Nat /\ opened_at[x] <= clock /\ clock \in Nat
      BY DEF TypeOK, Stamped
    <3> QED  BY <2>1, <3>1, <3>2, <3>3 DEF Stamped
  <2>7. CountsMatchAnswers' /\ OptionCountsMatch'
    BY <1>0 DEF CountsMatchAnswers, OptionCountsMatch, Answered, AnsweredRight, Chose
  <2>8. CellStatsMatch'
    <3> SUFFICES ASSUME NEW x \in TableQuestion, NEW c \in Cell
                 PROVE  cell_stats'[x][c] = Cardinality(GotWrong(x, c))
      BY <1>0 DEF CellStatsMatch, GotWrong, Answered
    <3>1. CASE x = q
      <4>1. cell_stats'[x][c] = 0
        BY <2>2, <3>1 DEF TypeOK
      <4>2. GotWrong(x, c) = {}
        BY <2>3, <3>1 DEF GotWrong
      <4> QED  BY <4>1, <4>2, FS_EmptySet
    <3>2. CASE x # q
      BY <2>2, <3>2 DEF CellStatsMatch, TypeOK
    <3> QED  BY <3>1, <3>2
  <2> QED  BY <2>4, <2>5, <2>6, <2>7, <2>8
<1>2. CASE qstate[q] # "ready"
  <2>1. UNCHANGED <<qstate, clock, opened_at, cell_stats>>
    BY <1>2 DEF Trigger
  <2>2. TypeOK' /\ AnswersHaveNames' /\ OneOpenQuestion' /\ Stamped' /\ ReadyIsUnanswered'
    BY <1>0, <2>1 DEF TypeOK, AnswersHaveNames, OneOpenQuestion, Stamped, ReadyIsUnanswered,
                      Answered
  <2>3. CountsMatchAnswers' /\ OptionCountsMatch' /\ CellStatsMatch'
    BY <1>0, <2>1 DEF CountsMatchAnswers, OptionCountsMatch, CellStatsMatch, Answered,
                      AnsweredRight, Chose, GotWrong
  <2> QED  BY <2>2, <2>3
<1> QED  BY <1>1, <1>2

\* A late answer of a device that has answered changes nothing.
LEMMA StutterInv ==
  ASSUME IInv, UNCHANGED engineVars
  PROVE  IInv'
<1> USE DEF IInv
<1>1. UNCHANGED <<qstate, opened_at, clock, participants, answers, answer_count,
                  correct_count, option_counts, cell_stats>>
  BY DEF engineVars, answered
<1>2. TypeOK' /\ AnswersHaveNames' /\ OneOpenQuestion' /\ Stamped' /\ ReadyIsUnanswered'
  BY <1>1 DEF TypeOK, AnswersHaveNames, OneOpenQuestion, Stamped, ReadyIsUnanswered, Answered
<1>3. CountsMatchAnswers' /\ OptionCountsMatch' /\ CellStatsMatch'
  BY <1>1 DEF CountsMatchAnswers, OptionCountsMatch, CellStatsMatch, Answered,
              AnsweredRight, Chose, GotWrong
<1> QED  BY <1>2, <1>3

\* The invariant is inductive.
LEMMA NextInv == IInv /\ [Next]_engineVars => IInv'
<1> SUFFICES ASSUME IInv, [Next]_engineVars PROVE IInv'
  OBVIOUS
<1>1. ASSUME NEW d \in Device, Hello(d) PROVE IInv'
  BY <1>1, HelloInv
<1>2. ASSUME NEW q \in Question, Trigger(q) PROVE IInv'
  BY <1>2, TriggerInv
<1>3. ASSUME NEW q \in Question, Close(q) PROVE IInv'
  BY <1>3, CloseInv
<1>4. ASSUME NEW d \in Device, NEW q \in Question, NEW a \in AnswersTo(q), Accept(d, q, a)
      PROVE  IInv'
  <2>1. CASE q \in ChoiceQuestion /\ AnswerChoice(d, q, a)
    BY <2>1, AnswerChoiceInv
  <2>2. CASE q \in TableQuestion /\ AnswerTable(d, q, a)
    BY <2>2, AnswerTableInv
  <2>3. CASE AnswerLate(d, q)
    BY <2>3, StutterInv DEF AnswerLate
  <2> QED  BY <1>4, <2>1, <2>2, <2>3 DEF Accept
<1>5. CASE UNCHANGED engineVars
  BY <1>5, StutterInv
<1> QED  BY <1>1, <1>2, <1>3, <1>4, <1>5 DEF Next

\* The strengthened invariant holds in every reachable state of the engine.
THEOREM Inductive == Spec => []IInv
BY InitInv, NextInv, PTL DEF Spec

\* The closure variables of createEngine keep their types; the counters never go
\* negative.
THEOREM TypeCorrect == Spec => []TypeOK
<1>1. IInv => TypeOK
  BY DEF IInv
<1> QED  BY <1>1, Inductive, PTL

\* Never two open questions, whatever the teacher triggers and closes.
THEOREM OneOpen == Spec => []OneOpenQuestion
<1>1. IInv => OneOpenQuestion
  BY DEF IInv
<1> QED  BY <1>1, Inductive, PTL

\* responses() and exportSession() find a participant for every recorded answer.
THEOREM NamesFound == Spec => []AnswersHaveNames
<1>1. IInv => AnswersHaveNames
  BY DEF IInv
<1> QED  BY <1>1, Inductive, PTL

\* The incremental counters are the cardinalities of what was answered.
THEOREM CountsCorrect == Spec => []CountsMatchAnswers
<1>1. IInv => CountsMatchAnswers
  BY DEF IInv
<1> QED  BY <1>1, Inductive, PTL

\* The votes of an option are the devices whose answer it is.
THEOREM OptionsCorrect == Spec => []OptionCountsMatch
<1>1. IInv => OptionCountsMatch
  BY DEF IInv
<1> QED  BY <1>1, Inductive, PTL

\* The heat map counts, for each cell, the devices that have it wrong.
THEOREM CellsCorrect == Spec => []CellStatsMatch
<1>1. IInv => CellStatsMatch
  BY DEF IInv
<1> QED  BY <1>1, Inductive, PTL

\* With one open question and different stamps the two rules choose the same one.
LEMMA ShownAgrees == IInv => SameQuestionShown
<1> SUFFICES ASSUME IInv PROVE SameQuestionShown
  OBVIOUS
<1> USE DEF IInv
<1>1. \A q \in Question : /\ opened_at[q] \in Nat
                          /\ qstate[q] \in {"ready", "open", "closed"}
                          /\ opened_at[q] = 0 <=> qstate[q] = "ready"
  BY DEF TypeOK, Stamped
<1>2. CASE InState("open") # {}
  <2>1. PICK q \in Question : qstate[q] = "open"
    BY <1>2 DEF InState
  <2>2. InState("open") = {q}
    BY <2>1 DEF InState, OneOpenQuestion
  <2>3. OpenedLast({q}) = {q}
    BY <1>1 DEF OpenedLast
  <2> QED  BY <1>2, <2>2, <2>3 DEF SameQuestionShown, StatsQuestion, ActiveQuestion
<1>3. CASE InState("open") = {}
  <2>1. InState("closed") = {q \in Question : opened_at[q] # 0}
    BY <1>1, <1>3 DEF InState
  <2>2. ASSUME NEW q \in OpenedLast(InState("closed")), NEW x \in OpenedLast(InState("closed"))
        PROVE  q = x
    <3>1. /\ q \in Question /\ x \in Question /\ opened_at[q] # 0
          /\ opened_at[q] <= opened_at[x] /\ opened_at[x] <= opened_at[q]
      BY <2>1 DEF OpenedLast
    <3> QED  BY <1>1, <3>1 DEF Stamped
  <2> QED  BY <1>3, <2>1, <2>2 DEF SameQuestionShown, StatsQuestion, ActiveQuestion
<1> QED  BY <1>2, <1>3

\* stats() and studentState() are always about the same question.
THEOREM ShownSame == Spec => []SameQuestionShown
BY Inductive, ShownAgrees, PTL

\* The step formula of ClosedIsFinal.
Final(q) ==
  /\ Answered(q) \subseteq DOMAIN answers'[q]
  /\ qstate[q] = "closed" =>
       /\ qstate'[q] = "closed"
       /\ answers'[q] = answers[q]
       /\ answer_count'[q] = answer_count[q] /\ correct_count'[q] = correct_count[q]
       /\ q \in ChoiceQuestion => option_counts'[q] = option_counts[q]
       /\ q \in TableQuestion => cell_stats'[q] = cell_stats[q]

\* No step of the engine touches a closed question or forgets an answer.
LEMMA FinalStep ==
  ASSUME TypeOK, Next, NEW q \in Question
  PROVE  Final(q)
<1>1. ASSUME NEW d \in Device, Hello(d) PROVE Final(q)
  BY <1>1 DEF Hello, answered, Final, Answered
<1>2. ASSUME NEW x \in Question, Trigger(x) PROVE Final(q)
  <2>1. qstate[q] = "closed" => qstate'[q] = "closed"
    BY <1>2 DEF Trigger, TypeOK
  <2>2. q \in TableQuestion /\ qstate[q] = "closed" => cell_stats'[q] = cell_stats[q]
    BY <1>2 DEF Trigger, TypeOK
  <2> QED  BY <1>2, <2>1, <2>2 DEF Trigger, Final, Answered
<1>3. ASSUME NEW x \in Question, Close(x) PROVE Final(q)
  BY <1>3 DEF Close, answered, TypeOK, Final, Answered
<1>4. ASSUME NEW d \in Device, NEW x \in Question, NEW a \in AnswersTo(x), Accept(d, x, a)
      PROVE  Final(q)
  <2>1. CASE AnswerLate(d, x)
    BY <2>1 DEF AnswerLate, engineVars, answered, Final, Answered
  <2>2. CASE \/ x \in ChoiceQuestion /\ AnswerChoice(d, x, a)
             \/ x \in TableQuestion /\ AnswerTable(d, x, a)
    <3>1. CountAnswer(d, x, a) /\ qstate' = qstate /\ qstate[x] = "open"
      BY <2>2 DEF AnswerChoice, AnswerTable, MayAnswer
    <3>2. Answered(q) \subseteq DOMAIN answers'[q]
      BY <3>1, AnswersAfter DEF Answered
    <3>3. qstate[q] = "closed" =>
            /\ answers'[q] = answers[q]
            /\ answer_count'[q] = answer_count[q] /\ correct_count'[q] = correct_count[q]
      BY <3>1 DEF CountAnswer, TypeOK
    <3>4. qstate[q] = "closed" /\ q \in ChoiceQuestion => option_counts'[q] = option_counts[q]
      BY <2>2, <3>1 DEF AnswerChoice, AnswerTable, TypeOK
    <3>5. qstate[q] = "closed" /\ q \in TableQuestion => cell_stats'[q] = cell_stats[q]
      BY <2>2, <3>1 DEF AnswerChoice, AnswerTable, TypeOK
    <3> QED  BY <3>1, <3>2, <3>3, <3>4, <3>5 DEF Final
  <2> QED  BY <1>4, <2>1, <2>2 DEF Accept
<1> QED  BY <1>1, <1>2, <1>3, <1>4 DEF Next

\* A closed question keeps its answers and its numbers for ever, and no device
\* loses its answer to any question.
THEOREM ClosedStays == Spec => ClosedIsFinal
<1>1. TypeOK /\ [Next]_engineVars => [\A q \in Question : Final(q)]_engineVars
  BY FinalStep
<1>2. TypeOK /\ [Next]_engineVars =>
        [\A q \in Question :
           /\ Answered(q) \subseteq DOMAIN answers'[q]
           /\ qstate[q] = "closed" =>
                /\ qstate'[q] = "closed"
                /\ answers'[q] = answers[q]
                /\ answer_count'[q] = answer_count[q] /\ correct_count'[q] = correct_count[q]
                /\ q \in ChoiceQuestion => option_counts'[q] = option_counts[q]
                /\ q \in TableQuestion => cell_stats'[q] = cell_stats[q]]_engineVars
  BY <1>1 DEF Final
<1> QED  BY <1>2, TypeCorrect, PTL DEF Spec, ClosedIsFinal

=============================================================================
