----------------------------- MODULE QuizEngine -----------------------------
(***************************************************************************)
(* The scoring engine of a live class, in the teacher's browser tab:       *)
(* createEngine of gdbgui/src/js/liveQuizEngine.ts.  It owns the questions *)
(* of the class, the devices that have said hello, and each device's       *)
(* answer; the counters that the teacher watches and that the server       *)
(* stores at the end are kept up to date incrementally, answer by answer.  *)
(*                                                                         *)
(* A call that the engine rejects throws before it changes anything, so a  *)
(* rejection is an action that is not enabled.  A choice answer is an      *)
(* option; a table answer is the set of cells it has right (gradeTable     *)
(* looks at nothing else).  `clock' counts the openings: the model assumes *)
(* that the wall clock advances between two openings.                      *)
(***************************************************************************)
EXTENDS Integers, FiniteSets

CONSTANTS
  Device,         \* device_ids of the students
  ChoiceQuestion, \* the questions with kind "choice"
  TableQuestion,  \* the questions with kind "table"
  Option,         \* the options of a choice question
  correct_option, \* correct_option_id of each choice question
  Cell            \* the cells of a table question

Question == ChoiceQuestion \cup TableQuestion
\* The answers that fit the kind of a question.
AnswersTo(q) == IF q \in ChoiceQuestion THEN Option ELSE SUBSET Cell

ASSUME EngineAssumption ==
  /\ IsFiniteSet(Device)
  /\ ChoiceQuestion \cap TableQuestion = {}
  /\ correct_option \in [ChoiceQuestion -> Option]
  /\ Cell # {}

VARIABLES
  qstate,         \* state of each question
  opened_at,      \* when it was opened, 0 for null
  clock,          \* openings so far
  participants,   \* the devices that have said hello
  answers,        \* answers[q]: a Map from the devices that answered
  answer_count, correct_count, option_counts, cell_stats

answered == <<answers, answer_count, correct_count, option_counts, cell_stats>>
engineVars == <<qstate, opened_at, clock, participants, answered>>

IsRight(q, a) == IF q \in ChoiceQuestion THEN a = correct_option[q] ELSE a = Cell

BoolToNat(b) == IF b THEN 1 ELSE 0

\* byDevice.set(d, a)
Put(byDevice, d, a) ==
  [x \in DOMAIN byDevice \cup {d} |-> IF x = d THEN a ELSE byDevice[x]]

\* Math.max(0, value - 1)
OneLess(value) == IF value > 0 THEN value - 1 ELSE 0

-----------------------------------------------------------------------------
Init ==
  /\ qstate = [q \in Question |-> "ready"]
  /\ opened_at = [q \in Question |-> 0]
  /\ clock = 0
  /\ participants = {}
  /\ answers = [q \in Question |-> << >>]
  /\ answer_count = [q \in Question |-> 0]
  /\ correct_count = [q \in Question |-> 0]
  /\ option_counts = [q \in ChoiceQuestion |-> [o \in Option |-> 0]]
  /\ cell_stats = [q \in TableQuestion |-> [c \in Cell |-> 0]]

\* hello: a known device keeps its entry.
Hello(d) ==
  /\ participants' = participants \cup {d}
  /\ UNCHANGED <<qstate, opened_at, clock, answered>>

\* Mutant: opened_at in whole seconds, with two openings in the first one.
MutantCoarseStamp(at) == IF at > 2 THEN at ELSE 1

\* now(), at the opening with this number.
Stamp(at) == at

\* Mutant: no look at the other questions.
MutantMayAlwaysOpen(q) == TRUE

\* trigger answers 409 while another question is open.
MayOpen(q) == qstate[q] = "ready" => \A x \in Question : qstate[x] # "open"

\* trigger, for a question whose anchor matches; a question that is open or closed stays as it is.  (A table that does
\* not validate is rejected before anything changes.)
Trigger(q) ==
  /\ MayOpen(q)
  /\ IF qstate[q] = "ready"
     THEN /\ qstate' = [qstate EXCEPT ![q] = "open"]
          /\ clock' = clock + 1
          /\ opened_at' = [opened_at EXCEPT ![q] = Stamp(clock + 1)]
          /\ cell_stats' = IF q \in TableQuestion
                           THEN [cell_stats EXCEPT ![q] = [c \in Cell |-> 0]]
                           ELSE cell_stats
     ELSE UNCHANGED <<qstate, clock, opened_at, cell_stats>>
  /\ UNCHANGED <<participants, answers, answer_count, correct_count, option_counts>>

\* close: 409 before it was opened, otherwise it is closed from now on.
Close(q) ==
  /\ qstate[q] # "ready"
  /\ qstate' = [qstate EXCEPT ![q] = "closed"]
  /\ UNCHANGED <<opened_at, clock, participants, answered>>

\* Mutant: every accepted answer counts as a first one.
MutantCountEach(d, q) == FALSE

\* existing = byDevice.get(device_id) is there.
Existing(d, q) == d \in DOMAIN answers[q]

\* What an accepted answer to an open question does to the counters of either
\* kind: a first answer counts, a changed one only moves correct_count.
CountAnswer(d, q, a) ==
  LET existing == Existing(d, q)
      oldRight == existing /\ IsRight(q, answers[q][d])
  IN  /\ answer_count' = [answer_count EXCEPT ![q] = IF existing THEN @ ELSE @ + 1]
      /\ correct_count' = [correct_count EXCEPT
                             ![q] = @ + BoolToNat(IsRight(q, a)) - BoolToNat(oldRight)]
      /\ answers' = [answers EXCEPT ![q] = Put(@, d, a)]

\* Mutants: the new option or the new wrong cells are counted and the old answer
\* is left in; the wrong cells of the new answer are subtracted.
MutantOptionStays(counts, byDevice, d, new) == [counts EXCEPT ![new] = @ + 1]
MutantCellsStay(stats, byDevice, d, new) ==
  [c \in Cell |-> IF c \in new THEN stats[c] ELSE stats[c] + 1]
MutantCellsSubtract(stats, byDevice, d, new) ==
  [c \in Cell |-> IF c \in new THEN stats[c] ELSE stats[c] - 1]

\* option_counts: the old option loses one, the new option gains one.
MoveOption(counts, byDevice, d, new) ==
  LET less == IF d \in DOMAIN byDevice
              THEN [counts EXCEPT ![byDevice[d]] = OneLess(@)] ELSE counts
  IN  [less EXCEPT ![new] = @ + 1]

\* adjustCellStats: a cell counts the answers that have it wrong; first the old
\* answer is taken out (delta = -1), then the new one is put in.
MoveCells(stats, byDevice, d, new) ==
  LET less == IF d \in DOMAIN byDevice
              THEN [c \in Cell |-> IF c \in byDevice[d] THEN stats[c]
                                                        ELSE OneLess(stats[c])]
              ELSE stats
  IN  [c \in Cell |-> IF c \in new THEN less[c] ELSE less[c] + 1]

\* Mutant: a closed question still takes answers.
MutantAfterClose(d, q) == qstate[q] # "ready" /\ d \in participants

\* The engine takes an answer of d to q.
MayAnswer(d, q) == qstate[q] = "open" /\ d \in participants

AnswerChoice(d, q, o) ==
  /\ MayAnswer(d, q)
  /\ CountAnswer(d, q, o)
  /\ option_counts' = [option_counts EXCEPT ![q] = MoveOption(@, answers[q], d, o)]
  /\ UNCHANGED <<qstate, opened_at, clock, participants, cell_stats>>

AnswerTable(d, q, right) ==
  /\ MayAnswer(d, q)
  /\ CountAnswer(d, q, right)
  /\ cell_stats' = [cell_stats EXCEPT ![q] = MoveCells(@, answers[q], d, right)]
  /\ UNCHANGED <<qstate, opened_at, clock, participants, option_counts>>

\* An answer to a question that is not open, from a device that has answered
\* it: accepted without an error, and without any effect.
AnswerLate(d, q) ==
  /\ qstate[q] # "open"
  /\ d \in participants
  /\ d \in DOMAIN answers[q]
  /\ UNCHANGED engineVars

\* answerChoice or answerTable, as the kind of the question has it, when the
\* call returns instead of throwing.
Accept(d, q, a) ==
  \/ q \in ChoiceQuestion /\ AnswerChoice(d, q, a)
  \/ q \in TableQuestion /\ AnswerTable(d, q, a)
  \/ AnswerLate(d, q)

\* ... and when it throws: 409, and 409 for a device that is not registered.
Rejects(d, q) ==
  \/ d \notin participants
  \/ qstate[q] # "open" /\ d \notin DOMAIN answers[q]

\* The questions of a set that were opened last.
OpenedLast(qs) == {q \in qs : \A x \in qs : opened_at[x] <= opened_at[q]}
InState(state) == {q \in Question : qstate[q] = state}

\* stats(): the question whose numbers the teacher sees, if there is one.
StatsQuestion ==
  IF InState("open") # {} THEN InState("open")
                          ELSE OpenedLast({q \in Question : opened_at[q] # 0})

\* studentState(): the question that a student is shown, if there is one.
ActiveQuestion ==
  IF InState("open") # {} THEN OpenedLast(InState("open"))
                          ELSE OpenedLast(InState("closed"))

Next ==
  \/ \E d \in Device : Hello(d)
  \/ \E q \in Question : Trigger(q) \/ Close(q)
  \/ \E d \in Device, q \in Question : \E a \in AnswersTo(q) : Accept(d, q, a)

Spec == Init /\ [][Next]_engineVars

-----------------------------------------------------------------------------
(***************************************************************************)
(* Properties.                                                             *)
(***************************************************************************)
\* The type invariant of the engine's closure variables.
TypeOK ==
  /\ qstate \in [Question -> {"ready", "open", "closed"}]
  /\ opened_at \in [Question -> Nat]
  /\ clock \in Nat
  /\ participants \in SUBSET Device
  /\ DOMAIN answers = Question
  /\ \A q \in Question : /\ DOMAIN answers[q] \subseteq Device
                         /\ answers[q] \in [DOMAIN answers[q] -> AnswersTo(q)]
  /\ answer_count \in [Question -> Nat]
  /\ correct_count \in [Question -> Int]
  /\ option_counts \in [ChoiceQuestion -> [Option -> Nat]]
  /\ cell_stats \in [TableQuestion -> [Cell -> Nat]]

Answered(q) == DOMAIN answers[q]
AnsweredRight(q) == {d \in Answered(q) : IsRight(q, answers[q][d])}
Chose(q, o) == {d \in Answered(q) : answers[q][d] = o}
GotWrong(q, c) == {d \in Answered(q) : c \notin answers[q][d]}

\* answer_count and correct_count are the numbers of devices that have an
\* answer and the right answer: resent, repeated and changed answers are counted
\* once, and correct_count never goes negative.
CountsMatchAnswers ==
  \A q \in Question :
    /\ answer_count[q] = Cardinality(Answered(q))
    /\ correct_count[q] = Cardinality(AnsweredRight(q))

\* An option's counter is the number of devices whose answer it is now: moving
\* an answer never loses or doubles a vote and Math.max(0, ..) never cuts in.
OptionCountsMatch ==
  \A q \in ChoiceQuestion, o \in Option :
    option_counts[q][o] = Cardinality(Chose(q, o))

\* A heat-map cell is the number of devices whose table is wrong there, however
\* often they changed their tables.
CellStatsMatch ==
  \A q \in TableQuestion, c \in Cell :
    cell_stats[q][c] = Cardinality(GotWrong(q, c))

\* At most one question takes answers at a time.
OneOpenQuestion ==
  \A q, x \in Question : qstate[q] = "open" /\ qstate[x] = "open" => q = x

\* The teacher's numbers and the students' pages are about the same question,
\* and about one question only, although stats() and studentState() choose it
\* by different rules.
SameQuestionShown ==
  /\ StatsQuestion = ActiveQuestion
  /\ \A q, x \in ActiveQuestion : q = x

\* Every recorded answer is of a device that said hello: responses() and
\* exportSession() read participants.get(deviceId)!.nickname without a check.
AnswersHaveNames == \A q \in Question : Answered(q) \subseteq participants

\* What was answered stays answered, and once a question is closed nothing about
\* it changes: no late answer, second close or second trigger touches it.
ClosedIsFinal ==
  [][\A q \in Question :
       /\ Answered(q) \subseteq DOMAIN answers'[q]
       /\ qstate[q] = "closed" =>
            /\ qstate'[q] = "closed"
            /\ answers'[q] = answers[q]
            /\ answer_count'[q] = answer_count[q] /\ correct_count'[q] = correct_count[q]
            /\ q \in ChoiceQuestion => option_counts'[q] = option_counts[q]
            /\ q \in TableQuestion => cell_stats'[q] = cell_stats[q]]_engineVars

=============================================================================
