-------------------------- MODULE LiveClass_proofs --------------------------
(***************************************************************************)
(* Theorems about a live class as the teacher's client, the relay and the  *)
(* pages run it: its types, and that whatever the network does the engine  *)
(* behind it is the engine of QuizEngine.  Sound, the invariant that proves *)
(* them, is what LivePages_proofs starts from.                             *)
(***************************************************************************)
EXTENDS LiveClass, SequenceTheorems, WellFoundedInduction, TLAPS

-----------------------------------------------------------------------------
(***************************************************************************)
(* Numbers, sequences and For, which picks what is addressed to one        *)
(* connection.  Induction is on the set of the numbers for which a fact    *)
(* holds.                                                                  *)
(***************************************************************************)

\* Every set of natural numbers has a least one.
LEMMA LeastNat ==
  ASSUME NEW T \in SUBSET Nat, T # {}
  PROVE  \E x \in T : \A y \in T : x <= y
<1> DEFINE R == OpToRel(<, Nat)
<1>1. IsWellFoundedOn(R, Nat)
  BY NatLessThanWellFounded
<1>2. \A x, y \in Nat : <<y, x>> \in R <=> y < x
  BY DEF OpToRel
<1> HIDE DEF R
<1>3. PICK x \in T : \A y \in T : ~ (<<y, x>> \in R)
  BY <1>1, WFMin
<1>4. \A y \in T : x <= y
  <2> SUFFICES ASSUME NEW y \in T PROVE x <= y
    OBVIOUS
  <2>1. x \in Nat /\ y \in Nat
    OBVIOUS
  <2>2. ~ (y < x)
    BY <1>2, <1>3, <2>1
  <2> QED
    BY <2>1, <2>2
<1> QED
  BY <1>4

\* Induction: a set that holds 0, and the next number with every number it holds.
LEMMA NatInductionSet ==
  ASSUME NEW S, 0 \in S, \A n \in Nat : n \in S => n + 1 \in S
  PROVE  Nat \subseteq S
<1> SUFFICES ASSUME Nat \ S # {} PROVE FALSE
  OBVIOUS
<1>1. PICK x \in Nat \ S : \A y \in Nat \ S : x <= y
  BY LeastNat
<1>2. x # 0 /\ x - 1 \in Nat
  OBVIOUS
<1>3. x - 1 \in S
  BY <1>1, <1>2
<1>4. (x - 1) + 1 = x
  OBVIOUS
<1> QED
  BY <1>2, <1>3, <1>4

-----------------------------------------------------------------------------
\* What For picks of the first n items: an increasing list of positions that has
\* every one for sid.
Picks(h, sid, out, n, r) ==
  /\ h \in [1 .. Len(r) -> 1 .. n]
  /\ \A k \in 1 .. Len(r) : sid \in out[h[k]].to /\ r[k] = out[h[k]].msg
  /\ \A k, m \in 1 .. Len(r) : k < m => h[k] < h[m]
  /\ \A i \in 1 .. n : sid \in out[i].to => \E k \in 1 .. Len(r) : h[k] = i

Item(M) == [to : SUBSET Sid, msg : M]

\* f is what the recursion in For describes, for the first n items.
Solves(f, sid, out, n) ==
  f = [i \in 0 .. n |-> IF i = 0 THEN << >>
                        ELSE IF sid \in out[i].to THEN Append(f[i - 1], out[i].msg)
                        ELSE f[i - 1]]

\* There is such a function.
LEMMA ForDefined ==
  ASSUME NEW sid, NEW out, NEW n \in Nat
  PROVE  \E f : Solves(f, sid, out, n)
<1> DEFINE Value(f, i) == IF i = 0 THEN << >>
                          ELSE IF sid \in out[i].to THEN Append(f[i - 1], out[i].msg)
                          ELSE f[i - 1]
           S == {m \in Nat : \E f : f = [i \in 0 .. m |-> Value(f, i)]}
<1>1. 0 \in S
  <2>1. [i \in 0 .. 0 |-> << >>] = [i \in 0 .. 0 |-> Value([j \in 0 .. 0 |-> << >>], i)]
    OBVIOUS
  <2> QED
    BY <2>1
<1>2. ASSUME NEW m \in Nat, m \in S
      PROVE  m + 1 \in S
  <2>1. PICK h : h = [i \in 0 .. m |-> Value(h, i)]
    BY <1>2
  <2> DEFINE g == [i \in 0 .. m + 1 |-> IF i = m + 1 THEN Value(h, i) ELSE h[i]]
  <2>2. ASSUME NEW i \in 0 .. m + 1
        PROVE  g[i] = Value(g, i)
    <3>1. i # 0 => i - 1 \in 0 .. m + 1 /\ i - 1 # m + 1
      OBVIOUS
    <3>2. i # 0 => g[i - 1] = h[i - 1]
      BY <3>1
    <3>3. Value(g, i) = Value(h, i)
      BY <3>2
    <3>4. i # m + 1 => i \in 0 .. m
      OBVIOUS
    <3>5. i # m + 1 => h[i] = Value(h, i)
      <4> HIDE DEF Value
      <4> QED  BY <3>4, <2>1
    <3> QED
      BY <3>3, <3>5
  <2>3. g = [i \in 0 .. m + 1 |-> Value(g, i)]
    <3> HIDE DEF Value
    <3> QED  BY <2>2
  <2>4. \E f : f = [i \in 0 .. m + 1 |-> Value(f, i)]
    <3> HIDE DEF Value, g
    <3> QED  BY <2>3
  <2> QED
    <3> HIDE DEF Value, g
    <3> QED  BY <2>4
<1>3. Nat \subseteq S
  <2> HIDE DEF S
  <2> QED  BY <1>1, <1>2, NatInductionSet
<1>4. \E f : f = [i \in 0 .. n |-> Value(f, i)]
  <2> HIDE DEF Value
  <2> QED  BY <1>3
<1> QED
  BY <1>4 DEF Solves

\* For is the subsequence of what is addressed to sid.
LEMMA ForPicks ==
  ASSUME NEW M, NEW sid, NEW out \in Seq(Item(M))
  PROVE  /\ For(sid, out) \in Seq(M)
         /\ \E h : Picks(h, sid, out, Len(out), For(sid, out))
<1> DEFINE n == Len(out)
           F == CHOOSE f : Solves(f, sid, out, n)
<1>1. n \in Nat /\ \A i \in 1 .. n : out[i] \in Item(M)
  OBVIOUS
<1>2. For(sid, out) = F[n]
  BY DEF For, Solves
<1>3. Solves(F, sid, out, n)
  BY <1>1, ForDefined
<1> HIDE DEF F
<1> DEFINE Good(i) == F[i] \in Seq(M) /\ \E h : Picks(h, sid, out, i, F[i])
           S == {i \in Nat : i <= n => Good(i)}
<1>4. Good(0)
  <2>1. F[0] = << >>
    BY <1>1, <1>3 DEF Solves
  <2>2. Picks([k \in 1 .. 0 |-> k], sid, out, 0, F[0])
    BY <2>1 DEF Picks
  <2> QED
    BY <2>1, <2>2
<1>5. ASSUME NEW i \in Nat, i + 1 <= n, Good(i)
      PROVE  Good(i + 1)
  <2>1. i + 1 \in 1 .. n /\ i + 1 \in 0 .. n /\ i + 1 # 0 /\ (i + 1) - 1 = i
    BY <1>1, <1>5
  <2>2. F[i + 1] = IF sid \in out[i + 1].to THEN Append(F[i], out[i + 1].msg) ELSE F[i]
    BY <1>3, <2>1 DEF Solves
  <2>3. PICK h : Picks(h, sid, out, i, F[i])
    BY <1>5
  <2>4. CASE sid \notin out[i + 1].to
    <3>1. F[i + 1] = F[i]
      BY <2>2, <2>4
    <3>2. Picks(h, sid, out, i + 1, F[i])
      BY <2>3, <2>4, <1>5 DEF Picks
    <3> QED
      BY <3>1, <3>2, <1>5
  <2>5. CASE sid \in out[i + 1].to
    <3> DEFINE L == Len(F[i])
               g == [k \in 1 .. L + 1 |-> IF k = L + 1 THEN i + 1 ELSE h[k]]
    <3>1. F[i] \in Seq(M) /\ L \in Nat /\ out[i + 1].msg \in M
      BY <1>5, <1>1, <2>1 DEF Item
    <3>2. /\ F[i + 1] \in Seq(M) /\ Len(F[i + 1]) = L + 1
          /\ \A k \in 1 .. L : F[i + 1][k] = F[i][k]
          /\ F[i + 1][L + 1] = out[i + 1].msg
      <4>1. F[i + 1] = Append(F[i], out[i + 1].msg)
        BY <2>2, <2>5
      <4> QED
        BY <3>1, <4>1, AppendProperties
    <3>3. /\ DOMAIN g = 1 .. L + 1 /\ g[L + 1] = i + 1
          /\ \A k \in 1 .. L : g[k] = h[k] /\ g[k] \in 1 .. i
      <4>1. h \in [1 .. L -> 1 .. i]
        BY <2>3 DEF Picks
      <4> HIDE DEF L
      <4>2. L \in Nat
        BY <3>1
      <4> QED
        BY <4>1, <4>2
    <3>4. g = [k \in 1 .. L + 1 |-> g[k]]
      OBVIOUS
    <3>5. \A k \in 1 .. L + 1 : k = L + 1 \/ k \in 1 .. L
      BY <3>1
    <3> HIDE DEF g
    <3>6. g \in [1 .. L + 1 -> 1 .. i + 1]
      <4> HIDE DEF L
      <4>1. \A k \in 1 .. L + 1 : g[k] \in 1 .. i + 1
        BY <3>3, <3>5
      <4> QED
        BY <4>1, <3>4
    <3>7. \A k \in 1 .. L + 1 : sid \in out[g[k]].to /\ F[i + 1][k] = out[g[k]].msg
      BY <3>2, <3>3, <3>5, <2>3, <2>5 DEF Picks
    <3>8. \A k, m \in 1 .. L + 1 : k < m => g[k] < g[m]
      <4> SUFFICES ASSUME NEW k \in 1 .. L + 1, NEW m \in 1 .. L + 1, k < m
                   PROVE  g[k] < g[m]
        OBVIOUS
      <4>1. k \in 1 .. L
        BY <3>1
      <4>2. CASE m = L + 1
        BY <4>1, <4>2, <3>3
      <4>3. CASE m \in 1 .. L
        BY <4>1, <4>3, <3>3, <2>3 DEF Picks
      <4> QED
        BY <4>2, <4>3, <3>5
    <3>9. \A j \in 1 .. i + 1 : sid \in out[j].to => \E k \in 1 .. L + 1 : g[k] = j
      <4> SUFFICES ASSUME NEW j \in 1 .. i + 1, sid \in out[j].to
                   PROVE  \E k \in 1 .. L + 1 : g[k] = j
        OBVIOUS
      <4>1. CASE j = i + 1
        BY <4>1, <3>1, <3>3
      <4>2. CASE j \in 1 .. i
        <5>1. PICK k \in 1 .. L : h[k] = j
          BY <4>2, <2>3 DEF Picks
        <5>2. k \in 1 .. L + 1
          BY <3>1
        <5> QED
          BY <5>1, <5>2, <3>3
      <4> QED
        BY <4>1, <4>2
    <3>10. Picks(g, sid, out, i + 1, F[i + 1])
      <4> HIDE DEF L
      <4> QED  BY <3>2, <3>6, <3>7, <3>8, <3>9 DEF Picks
    <3> QED
      BY <3>2, <3>10
  <2> QED
    BY <2>4, <2>5
<1>6. Nat \subseteq S
  <2> HIDE DEF Good
  <2>1. 0 \in S
    BY <1>4
  <2>2. ASSUME NEW i \in Nat, i \in S PROVE i + 1 \in S
    BY <1>1, <1>5, <2>2
  <2> HIDE DEF S
  <2> QED
    BY <2>1, <2>2, NatInductionSet
<1>7. Good(n)
  <2> HIDE DEF Good
  <2> QED  BY <1>1, <1>6
<1> QED
  BY <1>2, <1>7

-----------------------------------------------------------------------------
\* For, of no message, of one, and of two.
LEMMA ForNone ==
  ASSUME NEW sid
  PROVE  For(sid, << >>) = << >>
<1> DEFINE F == CHOOSE f : Solves(f, sid, << >>, 0)
<1>1. For(sid, << >>) = F[0]
  BY DEF For, Solves
<1>2. Solves(F, sid, << >>, 0)
  BY ForDefined
<1> HIDE DEF F
<1> QED  BY <1>1, <1>2 DEF Solves

\* Of one item For picks its message, or nothing.
LEMMA ForOne ==
  ASSUME NEW sid, NEW x
  PROVE  For(sid, << x >>) = IF sid \in x.to THEN << x.msg >> ELSE << >>
<1> DEFINE F == CHOOSE f : Solves(f, sid, << x >>, 1)
<1>1. For(sid, << x >>) = F[1]
  BY DEF For, Solves
<1>2. Solves(F, sid, << x >>, 1)
  BY ForDefined
<1> HIDE DEF F
<1>3. F[0] = << >>
  BY <1>2 DEF Solves
<1>4. F[1] = IF sid \in << x >>[1].to THEN Append(F[0], << x >>[1].msg) ELSE F[0]
  <2>1. 1 - 1 = 0 /\ 1 \in 0 .. 1 /\ 1 \in 0 .. 2 /\ 1 # 0
    OBVIOUS
  <2> QED  BY <1>2, <2>1 DEF Solves
<1> QED  BY <1>1, <1>3, <1>4

\* Of two items For picks the messages that are for sid.
LEMMA ForTwo ==
  ASSUME NEW sid, NEW x, NEW y, sid \in x.to
  PROVE  For(sid, << x, y >>) = IF sid \in y.to THEN << x.msg, y.msg >> ELSE << x.msg >>
<1> DEFINE F == CHOOSE f : Solves(f, sid, << x, y >>, 2)
<1>1. For(sid, << x, y >>) = F[2]
  BY DEF For, Solves
<1>2. Solves(F, sid, << x, y >>, 2)
  BY ForDefined
<1> HIDE DEF F
<1>3. F[0] = << >>
  BY <1>2 DEF Solves
<1>4. F[1] = IF sid \in << x, y >>[1].to THEN Append(F[0], << x, y >>[1].msg) ELSE F[0]
  <2>1. 1 - 1 = 0 /\ 1 \in 0 .. 1 /\ 1 \in 0 .. 2 /\ 1 # 0
    OBVIOUS
  <2> QED  BY <1>2, <2>1 DEF Solves
<1>5. F[2] = IF sid \in << x, y >>[2].to THEN Append(F[1], << x, y >>[2].msg) ELSE F[1]
  <2>1. 2 - 1 = 1 /\ 2 \in 0 .. 2 /\ 2 # 0
    OBVIOUS
  <2> QED  BY <1>2, <2>1 DEF Solves
<1>6. F[1] = << x.msg >>
  BY <1>3, <1>4
<1> QED  BY <1>1, <1>5, <1>6

\* The elements of a queue, which Range is.
LEMMA RangeEmpty == Range(<< >>) = {}
BY DEF Range

\* The elements of a sequence of one.
LEMMA RangeOne ==
  ASSUME NEW x PROVE Range(<< x >>) = {x}
BY DEF Range

\* The elements of a sequence of two.
LEMMA RangeTwo ==
  ASSUME NEW x, NEW y PROVE Range(<< x, y >>) = {x, y}
BY DEF Range

\* The elements of a sequence are its head and those of its tail.
LEMMA RangeHeadTail ==
  ASSUME NEW S, NEW s \in Seq(S), s # << >>
  PROVE  Range(s) = {Head(s)} \cup Range(Tail(s))
<1>1. /\ Tail(s) \in Seq(S) /\ Len(Tail(s)) = Len(s) - 1
      /\ \A i \in 1 .. Len(Tail(s)) : Tail(s)[i] = s[i + 1]
  BY HeadTailProperties
<1>2. Head(s) = s[1] /\ Len(s) \in Nat \ {0}
  BY EmptySeq
<1>3. Range(s) = {s[i] : i \in 1 .. Len(s)} /\ Range(Tail(s)) = {Tail(s)[i] : i \in 1 .. Len(Tail(s))}
  BY <1>1, RangeEquality
<1>4. ASSUME NEW i \in 1 .. Len(s) PROVE s[i] \in {Head(s)} \cup Range(Tail(s))
  <2>1. CASE i = 1
    BY <2>1, <1>2
  <2>2. CASE i # 1
    <3>1. i - 1 \in 1 .. Len(Tail(s)) /\ (i - 1) + 1 = i
      BY <2>2, <1>1, <1>2
    <3> QED  BY <3>1, <1>1, <1>3
  <2> QED  BY <2>1, <2>2
<1>5. ASSUME NEW i \in 1 .. Len(Tail(s)) PROVE Tail(s)[i] \in Range(s)
  BY <1>1, <1>2, <1>3
<1>6. Head(s) \in Range(s)
  BY <1>2, <1>3
<1> QED  BY <1>3, <1>4, <1>5, <1>6

\* What For picks is among what is sent.
LEMMA ForRange ==
  ASSUME NEW M, NEW sid, NEW out \in Seq(Item(M)), NEW m \in Range(For(sid, out))
  PROVE  \E x \in Range(out) : sid \in x.to /\ m = x.msg
<1>1. PICK h : Picks(h, sid, out, Len(out), For(sid, out))
  BY ForPicks
<1>2. For(sid, out) \in Seq(M)
  BY ForPicks
<1>3. PICK k \in 1 .. Len(For(sid, out)) : m = For(sid, out)[k]
  BY <1>2, RangeEquality
<1>4. h[k] \in 1 .. Len(out) /\ sid \in out[h[k]].to /\ m = out[h[k]].msg
  BY <1>1, <1>3 DEF Picks
<1> QED  BY <1>4, RangeEquality

-----------------------------------------------------------------------------
(***************************************************************************)
(* What the engine shows.                                                  *)
(***************************************************************************)

\* The proofs about the engine, for a class of choice questions.
EP == INSTANCE QuizEngine_proofs WITH TableQuestion <- {}, Cell <- {None}

\* The question that was opened last is the one that is open, if one is.
Latest ==
  /\ clock # 0 => \E q \in ChoiceQuestion : opened_at[q] = clock
  /\ \A q \in ChoiceQuestion : qstate[q] = "open" => opened_at[q] = clock

\* That question.
Current == IF clock = 0 THEN None ELSE CHOOSE q \in ChoiceQuestion : opened_at[q] = clock

\* The types of the engine's variables for choice questions.
EngineTypes ==
  /\ qstate \in [ChoiceQuestion -> {"ready", "open", "closed"}]
  /\ opened_at \in [ChoiceQuestion -> Nat]
  /\ clock \in Nat
  /\ participants \in SUBSET Device
  /\ DOMAIN answers = ChoiceQuestion
  /\ \A q \in ChoiceQuestion : /\ DOMAIN answers[q] \subseteq Device
                               /\ answers[q] \in [DOMAIN answers[q] -> Option]

\* What the engine shows a student, in terms of the question that was opened last.
Facing ==
  /\ EngineTypes
  /\ \A q \in ChoiceQuestion :
       /\ opened_at[q] <= clock
       /\ opened_at[q] = 0 <=> qstate[q] = "ready"
       /\ clock # 0 /\ opened_at[q] = clock => q = Current
       /\ qstate[q] = "open" => q = Current
       /\ qstate[q] = "ready" => DOMAIN answers[q] = {}
  /\ clock = 0 => Current = None
  /\ clock # 0 => /\ Current \in ChoiceQuestion /\ opened_at[Current] = clock
                  /\ qstate[Current] \in {"open", "closed"}
  /\ \A d \in Device :
       StudentState(d) =
         IF clock = 0
         THEN [type |-> "state", question |-> None, state |-> None, answer |-> None]
         ELSE [type |-> "state", question |-> Current, state |-> qstate[Current],
               answer |-> AnswerOf(d, Current)]
  /\ \A q, x \in ChoiceQuestion : opened_at[q] = opened_at[x] /\ opened_at[q] # 0 => q = x

\* What the engine's invariant says of what it shows a student.
LEMMA FacingHolds == EP!IInv /\ Latest => Facing
<1> SUFFICES ASSUME EP!IInv, Latest PROVE Facing
  OBVIOUS
<1>1. EngineTypes
  BY DEF EP!IInv, EP!TypeOK, EP!Question, EP!AnswersTo, EngineTypes
<1>2. \A q \in ChoiceQuestion :
        /\ opened_at[q] <= clock
        /\ opened_at[q] = 0 <=> qstate[q] = "ready"
        /\ qstate[q] = "ready" => DOMAIN answers[q] = {}
  BY DEF EP!IInv, EP!Stamped, EP!ReadyIsUnanswered, EP!Question, EP!Answered
<1>3. \A q, x \in ChoiceQuestion : opened_at[q] = opened_at[x] /\ opened_at[q] # 0 => q = x
  BY DEF EP!IInv, EP!Stamped, EP!Question
<1>4. clock # 0 => Current \in ChoiceQuestion /\ opened_at[Current] = clock
  BY DEF Latest, Current
<1>5. \A q \in ChoiceQuestion : clock # 0 /\ opened_at[q] = clock => q = Current
  BY <1>3, <1>4
<1>6. \A q \in ChoiceQuestion : qstate[q] = "open" => clock # 0 /\ q = Current
  <2> SUFFICES ASSUME NEW q \in ChoiceQuestion, qstate[q] = "open"
               PROVE  clock # 0 /\ q = Current
    OBVIOUS
  <2>1. opened_at[q] = clock /\ opened_at[q] # 0
    BY <1>2 DEF Latest
  <2> QED  BY <2>1, <1>5
<1>7. clock # 0 => qstate[Current] \in {"open", "closed"}
  BY <1>1, <1>2, <1>4 DEF EngineTypes
<1>8. clock = 0 => Current = None
  BY DEF Current
<1>9. CASE clock = 0
  <2>1. \A q \in ChoiceQuestion : qstate[q] = "ready"
    BY <1>1, <1>2, <1>9 DEF EngineTypes
  <2>2. Engine!InState("open") = {} /\ Engine!InState("closed") = {}
    BY <2>1 DEF Engine!InState, Engine!Question
  <2>3. ActiveQuestion = {}
    BY <2>2 DEF ActiveQuestion, Engine!ActiveQuestion, Engine!OpenedLast
  <2> QED
    BY <2>3, <1>1, <1>2, <1>3, <1>5, <1>6, <1>8, <1>9 DEF Facing, StudentState
<1>10. CASE clock # 0
  <2>1. ActiveQuestion = {Current}
    <3>1. CASE qstate[Current] = "open"
      <4>1. Engine!InState("open") = {Current}
        BY <3>1, <1>4, <1>6, <1>10 DEF Engine!InState, Engine!Question
      <4>2. Engine!OpenedLast({Current}) = {Current}
        BY <1>1, <1>4, <1>10 DEF Engine!OpenedLast, EngineTypes
      <4> QED  BY <4>1, <4>2 DEF ActiveQuestion, Engine!ActiveQuestion
    <3>2. CASE qstate[Current] = "closed"
      <4>1. Engine!InState("open") = {}
        BY <3>2, <1>6 DEF Engine!InState, Engine!Question
      <4>2. Current \in Engine!InState("closed") /\ Engine!InState("closed") \subseteq ChoiceQuestion
        BY <3>2, <1>4, <1>10 DEF Engine!InState, Engine!Question
      <4>3. Engine!OpenedLast(Engine!InState("closed")) = {Current}
        <5>1. Current \in Engine!OpenedLast(Engine!InState("closed"))
          BY <4>2, <1>2, <1>4, <1>10 DEF Engine!OpenedLast
        <5>2. ASSUME NEW q \in Engine!OpenedLast(Engine!InState("closed"))
              PROVE  q = Current
          <6>1. q \in ChoiceQuestion /\ clock <= opened_at[q]
            BY <4>2, <1>4, <1>10 DEF Engine!OpenedLast
          <6>2. opened_at[q] = clock
            BY SMTT(30), <6>1, <1>1, <1>2 DEF EngineTypes
          <6> QED  BY <6>1, <6>2, <1>5, <1>10
        <5> QED  BY <5>1, <5>2
      <4> QED  BY <4>1, <4>3 DEF ActiveQuestion, Engine!ActiveQuestion
    <3> QED  BY <3>1, <3>2, <1>7, <1>10
  <2>2. \A d \in Device :
          StudentState(d) = [type |-> "state", question |-> Current, state |-> qstate[Current],
                             answer |-> AnswerOf(d, Current)]
    BY <2>1 DEF StudentState
  <2> QED
    BY <2>2, <1>1, <1>2, <1>3, <1>4, <1>5, <1>6, <1>7, <1>10 DEF Facing
<1> QED  BY <1>9, <1>10

-----------------------------------------------------------------------------
\* What the client says on its own: states and questions.
NoQuestion ==
  [type : {"state"}, question : {None}, state : {None}, answer : {None}]
StateOf ==
  [type : {"state"}, question : ChoiceQuestion, state : {"open", "closed"},
   answer : Option \cup {None}]
QuestionMsg ==
  [type : {"question"}, question : ChoiceQuestion, state : {"open", "closed"}]
Spoken == NoQuestion \cup StateOf \cup QuestionMsg
ReceivedMsg == [type : {"received"}, nonce : Nonce]
Notice == [type : {"teacher-online", "ended"}]
PageMsg == Spoken \cup ReceivedMsg \cup Notice

\* What is under way to the teacher; the answers in the buffer of a page have yet
\* to be given the sid of the connection they leave by.
HelloMsg == [type : {"hello"}, device : Device, sid : Sid]
AnswerMsg(ds, sids) ==
  [type : {"answer"}, device : ds, sid : sids, question : ChoiceQuestion,
   answer : Option, nonce : Nonce]
PresenceMsg == [type : {"presence"}, device : Device, sid : Sid, connected : BOOLEAN]
RosterMsg ==
  [type : {"roster"}, sids : [Device -> SUBSET Sid], pinned : [Device -> SUBSET Sid]]
InboxMsg == HelloMsg \cup AnswerMsg(Device, Sid) \cup PresenceMsg \cup RosterMsg

Types ==
  /\ deviceBySid \in [Device -> SUBSET Sid] /\ connectedSids \in [Device -> SUBSET Sid]
  /\ teacherLink \in {"up", "broken", "down", "closed"}
  /\ teacherLinks \in 0 .. MaxTeacherLinks
  /\ inbox \in Seq(InboxMsg)
  /\ sendBuffer \in [Device -> Seq(Item(Spoken))]
  /\ session \in {"lobby", "ended"}
  /\ SIDS \in [Device -> SUBSET Sid] /\ pinned \in [Device -> SUBSET Sid]
  /\ link \in [Device -> {"up", "broken", "down", "closed"}]
  /\ links \in [Device -> 0 .. MaxLinks]
  /\ down \in [Device -> Seq(PageMsg)]
  /\ buffer \in [Device -> Seq(AnswerMsg(Device, Sid \cup {0}))]
  /\ page \in [Device -> Page]
  /\ sent \in [Device -> 0 .. MaxAnswers]

\* The teacher's link and its queues.
TeacherShape ==
  /\ teacherLink \in {"broken", "down"} => teacherLinks < MaxTeacherLinks
  /\ teacherLink # "up" => inbox = << >>
  /\ teacherLink \in {"up", "broken"} => sendBuffer = Nothing
  /\ session = "ended" <=> teacherLink = "closed"

\* A page's link, its queues and the relay's idea of it.
LinkShape(d) ==
  /\ link[d] \in {"broken", "down"} => links[d] < MaxLinks /\ down[d] = << >>
  /\ link[d] = "up" => links[d] \in Sid
  /\ link[d] \in {"up", "broken"} => buffer[d] = << >>
  /\ session = "lobby" /\ link[d] = "up" => links[d] \in SIDS[d] \cap pinned[d]
  /\ session = "ended" => SIDS[d] = {}
  /\ pinned[d] \subseteq SIDS[d]
  /\ \A sid \in SIDS[d] : sid <= links[d]
  /\ buffer[d] \in Seq(AnswerMsg({d}, Sid \cup {0}))

\* What a page shows: a state with every question, and nothing to confirm or
\* under way but for that question.
PageShape(p) ==
  /\ p.state = None <=> p.question = None
  /\ p.question = None => p.pending = None
  /\ p.flight # None => p.flight.question = p.question

Shape ==
  /\ Types
  /\ TeacherShape
  /\ \A d \in Device : LinkShape(d) /\ PageShape(page[d])

Sound == Shape /\ EP!IInv /\ Latest

-----------------------------------------------------------------------------
(***************************************************************************)
(* The steps of the engine.                                                *)
(***************************************************************************)

\* The engine is proved about for a finite set of participants.
LEMMA DeviceFinite == EP!IsFiniteSet(Device)
BY ClassAssumption DEF EP!IsFiniteSet, IsFiniteSet, ClassAssumption

\* A step of the class, as the engine sees it.
EngineStep == [EP!Next]_(EP!engineVars)

\* Every step of the engine keeps the engine's invariant.
LEMMA EngineKept ==
  ASSUME EP!IInv, EngineStep PROVE EP!IInv'
BY EP!NextInv, DeviceFinite, ClassAssumption DEF ClassAssumption, EngineStep

\* A step that leaves the engine alone.
LEMMA UnchangedStep ==
  ASSUME UNCHANGED engine PROVE EngineStep
BY DEF EngineStep, engine, EP!engineVars, EP!answered

\* A participant's hello is a step of the engine.
LEMMA HelloStep ==
  ASSUME NEW d \in Device, Engine!Hello(d) PROVE EngineStep
<1>1. EP!Hello(d)
  BY DEF EP!Hello, Engine!Hello, EP!answered, Engine!answered
<1> QED  BY <1>1 DEF EngineStep, EP!Next

\* Opening a question is a step of the engine.
LEMMA TriggerStep ==
  ASSUME NEW q \in ChoiceQuestion, Engine!Trigger(q) PROVE EngineStep
<1>1. EP!Trigger(q)
  BY DEF EP!Trigger, Engine!Trigger, EP!MayOpen, Engine!MayOpen, EP!Stamp, Engine!Stamp,
         EP!Question, Engine!Question
<1>2. q \in EP!Question
  BY DEF EP!Question
<1> QED  BY <1>1, <1>2 DEF EngineStep, EP!Next

\* Closing a question is a step of the engine.
LEMMA CloseStep ==
  ASSUME NEW q \in ChoiceQuestion, Engine!Close(q) PROVE EngineStep
<1>1. EP!Close(q)
  BY DEF EP!Close, Engine!Close, EP!answered, Engine!answered
<1>2. q \in EP!Question
  BY DEF EP!Question
<1> QED  BY <1>1, <1>2 DEF EngineStep, EP!Next

\* Taking an answer is a step of the engine.
LEMMA AcceptStep ==
  ASSUME NEW d \in Device, NEW q \in ChoiceQuestion, NEW a \in Option, Engine!Accept(d, q, a)
  PROVE  EngineStep
<1>1. EP!Accept(d, q, a)
  <2>1. CASE Engine!AnswerChoice(d, q, a)
    <3>1. EP!AnswerChoice(d, q, a)
      BY <2>1 DEF EP!AnswerChoice, Engine!AnswerChoice, EP!MayAnswer, Engine!MayAnswer,
           EP!CountAnswer, Engine!CountAnswer, EP!Existing, Engine!Existing,
           EP!IsRight, Engine!IsRight, EP!BoolToNat, Engine!BoolToNat, EP!Put, Engine!Put,
           EP!MoveOption, Engine!MoveOption, EP!OneLess, Engine!OneLess
    <3> QED  BY <3>1 DEF EP!Accept
  <2>2. CASE Engine!AnswerLate(d, q)
    BY <2>2 DEF Engine!AnswerLate, EP!AnswerLate, EP!Accept, EP!engineVars, Engine!engineVars,
                EP!answered, Engine!answered
  <2> QED  BY <2>1, <2>2 DEF Engine!Accept
<1>2. q \in EP!Question /\ a \in EP!AnswersTo(q)
  BY DEF EP!Question, EP!AnswersTo
<1> QED  BY <1>1, <1>2 DEF EngineStep, EP!Next

\* Where the engine may go: a question is opened later than every other, and is
\* not opened again; answers stay.
EngineMoves ==
  /\ clock' = clock \/ clock' = clock + 1
  /\ \A q \in ChoiceQuestion :
       /\ DOMAIN answers[q] \subseteq DOMAIN answers'[q]
       /\ qstate[q] # "ready" => qstate'[q] # "ready" /\ opened_at'[q] = opened_at[q]
       /\ qstate[q] = "closed" => qstate'[q] = "closed"

\* What a step of the engine never undoes: what was opened stays opened, at its time,
\* what was closed stays closed, and an answer stays.
LEMMA EngineEffects ==
  ASSUME EP!IInv, Facing, Latest, EngineStep
  PROVE  Latest' /\ EngineMoves
<1>0. EngineTypes /\ EP!Question = ChoiceQuestion /\ Engine!Question = ChoiceQuestion
  BY DEF Facing, EP!Question, Engine!Question
<1>1. CASE UNCHANGED EP!engineVars
  <2>1. UNCHANGED <<qstate, opened_at, clock, answers>>
    BY <1>1 DEF EP!engineVars, EP!answered
  <2> QED  BY <2>1 DEF Latest, EngineMoves
<1>2. ASSUME NEW d \in Device, EP!Hello(d) PROVE Latest' /\ EngineMoves
  <2>1. UNCHANGED <<qstate, opened_at, clock, answers>>
    BY <1>2 DEF EP!Hello, EP!answered
  <2> QED  BY <2>1 DEF Latest, EngineMoves
<1>3. ASSUME NEW q \in ChoiceQuestion, EP!Trigger(q) PROVE Latest' /\ EngineMoves
  <2>1. UNCHANGED answers
    BY <1>3 DEF EP!Trigger
  <2>2. CASE qstate[q] = "ready"
    <3>1. /\ qstate' = [qstate EXCEPT ![q] = "open"]
          /\ clock' = clock + 1
          /\ opened_at' = [opened_at EXCEPT ![q] = clock + 1]
          /\ \A x \in ChoiceQuestion : qstate[x] # "open"
      BY <1>3, <1>0, <2>2 DEF EP!Trigger, EP!Stamp, EP!MayOpen
    <3>2. Latest'
      BY <3>1, <1>0 DEF Latest, EngineTypes
    <3>3. EngineMoves
      BY <3>1, <1>0, <2>1, <2>2 DEF EngineMoves, EngineTypes
    <3> QED  BY <3>2, <3>3
  <2>3. CASE qstate[q] # "ready"
    <3>1. UNCHANGED <<qstate, opened_at, clock>>
      BY <1>3, <2>3 DEF EP!Trigger
    <3> QED  BY <3>1, <2>1 DEF Latest, EngineMoves
  <2> QED  BY <2>2, <2>3
<1>4. ASSUME NEW q \in ChoiceQuestion, EP!Close(q) PROVE Latest' /\ EngineMoves
  <2>1. /\ qstate[q] # "ready" /\ qstate' = [qstate EXCEPT ![q] = "closed"]
        /\ UNCHANGED <<opened_at, clock, answers>>
    BY <1>4 DEF EP!Close, EP!answered
  <2> QED  BY <2>1, <1>0 DEF Latest, EngineMoves, EngineTypes
<1>5. ASSUME NEW d \in Device, NEW q \in ChoiceQuestion, NEW a, EP!Accept(d, q, a)
      PROVE  Latest' /\ EngineMoves
  <2>1. UNCHANGED <<qstate, opened_at, clock>>
    BY <1>5 DEF EP!Accept, EP!AnswerChoice, EP!AnswerLate, EP!AnswerTable, EP!engineVars
  <2>2. answers' = [answers EXCEPT ![q] = EP!Put(@, d, a)] \/ UNCHANGED answers
    BY <1>5 DEF EP!Accept, EP!AnswerChoice, EP!AnswerLate, EP!engineVars, EP!answered,
                EP!CountAnswer
  <2>3. \A x \in ChoiceQuestion : DOMAIN answers[x] \subseteq DOMAIN answers'[x]
    BY <2>2, <1>0 DEF EP!Put, EngineTypes
  <2> QED  BY <2>1, <2>3 DEF Latest, EngineMoves
<1> QED
  BY <1>0, <1>1, <1>2, <1>3, <1>4, <1>5 DEF EngineStep, EP!Next

-----------------------------------------------------------------------------
(***************************************************************************)
(* What the client says has the types of messages.                         *)
(***************************************************************************)

\* The state that the engine shows is a message that the client says.
LEMMA StateSpoken == Facing => \A d \in Device : StudentState(d) \in Spoken
<1> SUFFICES ASSUME Facing, NEW d \in Device PROVE StudentState(d) \in Spoken
  OBVIOUS
<1>1. CASE clock = 0
  BY <1>1 DEF Facing, Spoken, NoQuestion
<1>2. CASE clock # 0
  <2>1. Current \in ChoiceQuestion /\ qstate[Current] \in {"open", "closed"}
    BY <1>2 DEF Facing
  <2>2. AnswerOf(d, Current) \in Option \cup {None}
    BY <2>1 DEF Facing, EngineTypes, AnswerOf
  <2>3. StudentState(d) \in StateOf
    BY <1>2, <2>1, <2>2 DEF Facing, StateOf
  <2> QED  BY <2>3 DEF Spoken
<1> QED  BY <1>1, <1>2

\* The same after a step.
LEMMA StateSpokenNext == Facing' => \A d \in Device : StudentState(d)' \in Spoken
<1>1. Facing' => (\A d \in Device : StudentState(d) \in Spoken)'
  BY StateSpoken, PTL
<1> QED  BY <1>1

\* A message with an address, a broadcast, and a personal state.
LEMMA AddressedType ==
  ASSUME NEW M, NEW to \in SUBSET Sid, NEW msg \in M
  PROVE  Addressed(to, msg) \in Seq(Item(M))
BY DEF Addressed, Item

\* A broadcast is one message for every connection.
LEMMA BroadcastType ==
  ASSUME NEW q \in ChoiceQuestion, qstate'[q] \in {"open", "closed"}
  PROVE  Broadcast(q) \in Seq(Item(Spoken))
<1>1. [type |-> "question", question |-> q, state |-> qstate'[q]] \in Spoken
  BY DEF Spoken, QuestionMsg
<1> QED  BY <1>1, AddressedType DEF Broadcast

\* Sending the state is one message, or none.
LEMMA SendStudentStateType ==
  ASSUME Facing', NEW d \in Device, NEW sids \in SUBSET Sid
  PROVE  SendStudentState(d, sids) \in Seq(Item(Spoken))
<1>1. StudentState(d)' \in Spoken
  BY StateSpokenNext
<1> QED  BY <1>1, AddressedType, EmptySeq DEF SendStudentState

\* Messages of a kind are messages of every wider kind.
LEMMA ItemMonotonic ==
  ASSUME NEW M, NEW N, M \subseteq N, NEW out \in Seq(Item(M))
  PROVE  out \in Seq(Item(N))
<1>1. Item(M) \subseteq Item(N)
  BY DEF Item
<1> QED  BY <1>1, SeqMonotonic

\* What reaches a page is what is sent, and nothing reaches one that is not there.
LEMMA ReachingType ==
  ASSUME NEW M, NEW d, NEW out \in Seq(Item(M))
  PROVE  /\ Reaching(d, out) \in Seq(M)
         /\ link[d] # "up" => Reaching(d, out) = << >>
<1>1. For(links[d], out) \in Seq(M)
  BY ForPicks
<1> QED  BY <1>1, EmptySeq DEF Reaching

\* What the teacher's client may emit: a question and states, and while its link
\* is up acknowledgements too.
Emittable(out) ==
  /\ \A d \in Device : out[d] \in Seq(Item(Spoken \cup ReceivedMsg))
  /\ teacherLink = "up" \/ \A d \in Device : out[d] \in Seq(Item(Spoken))

\* What the client says keeps the types of the queues and of its buffer.
LEMMA EmitsType ==
  ASSUME Types, NEW out, Emittable(out), TeacherEmits(out)
  PROVE  /\ down' \in [Device -> Seq(PageMsg)]
         /\ sendBuffer' \in [Device -> Seq(Item(Spoken))]
         /\ \A d \in Device : link[d] # "up" => down'[d] = down[d]
         /\ teacherLink # "down" => sendBuffer' = sendBuffer
<1>1. ASSUME NEW d \in Device
      PROVE  /\ down[d] \o Reaching(d, out[d]) \in Seq(PageMsg)
             /\ link[d] # "up" => down[d] \o Reaching(d, out[d]) = down[d]
  <2>1. Reaching(d, out[d]) \in Seq(Spoken \cup ReceivedMsg)
        /\ (link[d] # "up" => Reaching(d, out[d]) = << >>)
    BY ReachingType DEF Emittable
  <2>2. Reaching(d, out[d]) \in Seq(PageMsg)
    BY <2>1, SeqMonotonic DEF PageMsg
  <2>3. down[d] \in Seq(PageMsg)
    BY DEF Types
  <2> QED  BY <2>1, <2>2, <2>3, ConcatProperties, ConcatEmptySeq
<1>2. ASSUME NEW d \in Device, teacherLink = "down"
      PROVE  sendBuffer[d] \o out[d] \in Seq(Item(Spoken))
  <2>1. out[d] \in Seq(Item(Spoken)) /\ sendBuffer[d] \in Seq(Item(Spoken))
    BY <1>2 DEF Emittable, Types
  <2> QED  BY <2>1, ConcatProperties
<1>3. down' = [d \in Device |-> IF teacherLink = "up" THEN down[d] \o Reaching(d, out[d])
                                                     ELSE down[d]]
  BY DEF TeacherEmits
<1>4. sendBuffer' = [d \in Device |-> IF teacherLink = "down" THEN sendBuffer[d] \o out[d]
                                                             ELSE sendBuffer[d]]
  BY DEF TeacherEmits
<1>5. down \in [Device -> Seq(PageMsg)] /\ sendBuffer \in [Device -> Seq(Item(Spoken))]
  BY DEF Types
<1>6. \A d \in Device : down'[d] \in Seq(PageMsg) /\ (link[d] # "up" => down'[d] = down[d])
  BY <1>1, <1>3, <1>5
<1>7. \A d \in Device : sendBuffer'[d] \in Seq(Item(Spoken))
  BY <1>2, <1>4, <1>5
<1>8. down' \in [Device -> Seq(PageMsg)]
  BY <1>3, <1>6
<1>9. sendBuffer' \in [Device -> Seq(Item(Spoken))]
  BY <1>4, <1>7
<1>10. teacherLink # "down" => sendBuffer' = sendBuffer
  BY <1>4, <1>5
<1> QED  BY <1>6, <1>8, <1>9, <1>10

\* A step of the teacher's tab, in which its client says something.
LEMMA TeacherSpeaks ==
  ASSUME Shape, NEW out, Emittable(out), TeacherEmits(out),
         UNCHANGED <<teacherLink, teacherLinks, relay, link, links, buffer, pages>>,
         inbox' \in Seq(InboxMsg), teacherLink # "up" => inbox' = << >>,
         deviceBySid' \in [Device -> SUBSET Sid], connectedSids' \in [Device -> SUBSET Sid]
  PROVE  Shape'
<1>1. /\ down' \in [Device -> Seq(PageMsg)]
      /\ sendBuffer' \in [Device -> Seq(Item(Spoken))]
      /\ \A d \in Device : link[d] # "up" => down'[d] = down[d]
      /\ teacherLink # "down" => sendBuffer' = sendBuffer
  BY EmitsType DEF Shape
<1>2. UNCHANGED <<teacherLink, teacherLinks, session, SIDS, pinned, link, links, buffer,
                  page, sent>>
  BY DEF relay, pages
<1>3. Types'
  BY <1>1, <1>2 DEF Shape, Types
<1>4. TeacherShape'
  BY <1>1, <1>2 DEF Shape, TeacherShape, Nothing
<1>5. ASSUME NEW d \in Device PROVE LinkShape(d)' /\ PageShape(page[d])'
  BY <1>1, <1>2 DEF Shape, LinkShape, PageShape
<1> QED  BY <1>3, <1>4, <1>5 DEF Shape

\* A step of one page, or of the relay about it.
LEMMA PageStep ==
  ASSUME Shape, NEW d \in Device,
         UNCHANGED <<client, teacherLink, teacherLinks, sendBuffer, session>>,
         inbox' \in Seq(InboxMsg), teacherLink # "up" => inbox' = << >>,
         SIDS' \in [Device -> SUBSET Sid], pinned' \in [Device -> SUBSET Sid],
         link' \in [Device -> {"up", "broken", "down", "closed"}],
         links' \in [Device -> 0 .. MaxLinks],
         down' \in [Device -> Seq(PageMsg)],
         buffer' \in [Device -> Seq(AnswerMsg(Device, Sid \cup {0}))],
         page' \in [Device -> Page], sent' \in [Device -> 0 .. MaxAnswers],
         \A x \in Device \ {d} :
           /\ SIDS'[x] = SIDS[x] /\ pinned'[x] = pinned[x]
           /\ link'[x] = link[x] /\ links'[x] = links[x]
           /\ down'[x] = down[x] /\ buffer'[x] = buffer[x] /\ page'[x] = page[x],
         LinkShape(d)', PageShape(page'[d])
  PROVE  Shape'
<1>1. Types'
  BY DEF Shape, Types, client
<1>2. TeacherShape'
  BY DEF Shape, TeacherShape, Nothing
<1>3. ASSUME NEW x \in Device PROVE LinkShape(x)' /\ PageShape(page[x])'
  <2>1. CASE x = d
    BY <2>1
  <2>2. CASE x # d
    <3>1. /\ SIDS'[x] = SIDS[x] /\ pinned'[x] = pinned[x]
          /\ link'[x] = link[x] /\ links'[x] = links[x]
          /\ down'[x] = down[x] /\ buffer'[x] = buffer[x] /\ page'[x] = page[x]
          /\ session' = session
      BY <2>2
    <3>2. LinkShape(x) /\ PageShape(page[x])
      BY DEF Shape
    <3>3. PageShape(page[x])'
      BY <3>1, <3>2
    <3>4. LinkShape(x)'
      BY <3>1, <3>2 DEF LinkShape
    <3> QED  BY <3>3, <3>4
  <2> QED  BY <2>1, <2>2
<1> QED  BY <1>1, <1>2, <1>3 DEF Shape

\* One message put at the end of a queue.
LEMMA QueueOne ==
  ASSUME NEW S, NEW s \in Seq(S), NEW m \in S
  PROVE  s \o << m >> \in Seq(S)
BY ConcatProperties

\* The steps of the teacher and of her link.
LEMMA ShapeTrigger ==
  ASSUME Shape, Facing, Facing', NEW q \in ChoiceQuestion, TriggerLiveQuestion(q)
  PROVE  Shape'
<1>1. /\ qstate[q] = "ready" /\ Engine!Trigger(q)
      /\ TeacherEmits([d \in Device |-> Broadcast(q)])
      /\ UNCHANGED <<client, teacherLink, teacherLinks, inbox, relay, link, links, buffer, pages>>
  BY DEF TriggerLiveQuestion
<1>2. qstate'[q] = "open"
  BY <1>1 DEF Engine!Trigger, Facing, EngineTypes
<1>3. Emittable([d \in Device |-> Broadcast(q)])
  BY <1>2, BroadcastType, ItemMonotonic DEF Emittable
<1>4. /\ inbox' \in Seq(InboxMsg) /\ (teacherLink # "up" => inbox' = << >>)
      /\ deviceBySid' \in [Device -> SUBSET Sid] /\ connectedSids' \in [Device -> SUBSET Sid]
  BY <1>1 DEF Shape, Types, TeacherShape, client
<1> QED  BY <1>1, <1>3, <1>4, TeacherSpeaks

\* Closing a question keeps the shape.
LEMMA ShapeClose ==
  ASSUME Shape, Facing, Facing', NEW q \in ChoiceQuestion, CloseLiveQuestion(q)
  PROVE  Shape'
<1> DEFINE out == [d \in Device |->
              Broadcast(q) \o SendStudentState(d, connectedSids[d] \cap deviceBySid[d])]
<1>1. /\ Engine!Close(q)
      /\ TeacherEmits(out)
      /\ UNCHANGED <<client, teacherLink, teacherLinks, inbox, relay, link, links, buffer, pages>>
  BY DEF CloseLiveQuestion
<1>2. qstate'[q] = "closed"
  BY <1>1 DEF Engine!Close, Facing, EngineTypes
<1>3. ASSUME NEW d \in Device
      PROVE  out[d] \in Seq(Item(Spoken))
  <2>1. connectedSids[d] \cap deviceBySid[d] \in SUBSET Sid
    BY DEF Shape, Types
  <2> QED  BY <1>2, <2>1, BroadcastType, SendStudentStateType, ConcatProperties
<1> HIDE DEF out
<1>4. Emittable(out)
  BY <1>3, ItemMonotonic DEF Emittable
<1>5. /\ inbox' \in Seq(InboxMsg) /\ (teacherLink # "up" => inbox' = << >>)
      /\ deviceBySid' \in [Device -> SUBSET Sid] /\ connectedSids' \in [Device -> SUBSET Sid]
  BY <1>1 DEF Shape, Types, TeacherShape, client
<1> QED  BY <1>1, <1>4, <1>5, TeacherSpeaks

\* Saying nothing.
LEMMA Silent ==
  ASSUME Types, UNCHANGED <<down, sendBuffer>>
  PROVE  TeacherEmits(Nothing) /\ Emittable(Nothing)
<1>1. ASSUME NEW d \in Device PROVE Reaching(d, Nothing[d]) = << >> /\ Nothing[d] = << >>
  BY ForNone DEF Nothing, Reaching
<1>2. \A d \in Device : down[d] \o << >> = down[d] /\ sendBuffer[d] \o << >> = sendBuffer[d]
  BY ConcatEmptySeq DEF Types
<1>3. down' = [d \in Device |-> down[d]] /\ sendBuffer' = [d \in Device |-> sendBuffer[d]]
  BY DEF Types
<1>4. TeacherEmits(Nothing)
  BY <1>1, <1>2, <1>3 DEF TeacherEmits
<1> QED  BY <1>1, <1>4, EmptySeq DEF Emittable

\* Saying something about one device.
LEMMA AboutOne ==
  ASSUME teacherLink = "up", NEW d \in Device, NEW o \in Seq(Item(Spoken \cup ReceivedMsg))
  PROVE  Emittable([Nothing EXCEPT ![d] = o])
BY EmptySeq DEF Emittable, Nothing

\* The handlers, by the kind of the next event.
LEMMA ReceivesCases ==
  ASSUME Shape, TeacherReceives, NEW m, m = Head(inbox)
  PROVE  /\ teacherLink = "up" /\ inbox # << >> /\ inbox' = Tail(inbox)
         /\ inbox' \in Seq(InboxMsg) /\ m \in InboxMsg
         /\ UNCHANGED <<teacherLink, teacherLinks, relay, link, links, buffer, pages>>
         /\ \/ m \in HelloMsg /\ OnStudentHello(m.device, m.sid)
            \/ m \in AnswerMsg(Device, Sid) /\ OnAnswerAccepted(m.device, m)
            \/ m \in AnswerMsg(Device, Sid) /\ OnAnswerRejected(m.device, m)
            \/ m \in PresenceMsg /\ OnPresence(m.device, m)
            \/ m \in RosterMsg /\ OnRoster(m)
<1>1. /\ teacherLink = "up" /\ inbox # << >> /\ inbox' = Tail(inbox)
      /\ UNCHANGED <<teacherLink, teacherLinks, relay, link, links, buffer, pages>>
  BY DEF TeacherReceives
<1>2. inbox \in Seq(InboxMsg)
  BY DEF Shape, Types
<1>3. m \in InboxMsg /\ inbox' \in Seq(InboxMsg)
  BY <1>1, <1>2, HeadTailProperties
<1>4. \/ m.type = "hello" /\ OnStudentHello(m.device, m.sid)
      \/ m.type = "answer" /\ OnAnswerAccepted(m.device, m)
      \/ m.type = "answer" /\ OnAnswerRejected(m.device, m)
      \/ m.type = "presence" /\ OnPresence(m.device, m)
      \/ m.type = "roster" /\ OnRoster(m)
  BY DEF TeacherReceives
<1>5. /\ m.type = "hello" => m \in HelloMsg
      /\ m.type = "answer" => m \in AnswerMsg(Device, Sid)
      /\ m.type = "presence" => m \in PresenceMsg
      /\ m.type = "roster" => m \in RosterMsg
  BY <1>3 DEF InboxMsg, HelloMsg, AnswerMsg, PresenceMsg, RosterMsg
<1> QED  BY <1>1, <1>3, <1>4, <1>5

\* What is said when the next event is handled is about its device, and goes to
\* the connection that it names.
SaidTo(d, sid, o) ==
  \/ o = << >>
  \/ o = Addressed({sid}, StudentState(d)')
  \/ \E n \in Nonce : o = Addressed({sid}, [type |-> "received", nonce |-> n])

\* What is said to one device is made of messages.
LEMMA SaidType ==
  ASSUME Facing', NEW d \in Device, NEW sid \in Sid, NEW o, SaidTo(d, sid, o)
  PROVE  o \in Seq(Item(Spoken \cup ReceivedMsg))
<1>1. {sid} \in SUBSET Sid
  OBVIOUS
<1>2. CASE o = << >>
  BY <1>2, EmptySeq
<1>3. CASE o = Addressed({sid}, StudentState(d)')
  BY <1>1, <1>3, StateSpokenNext, AddressedType
<1>4. CASE \E n \in Nonce : o = Addressed({sid}, [type |-> "received", nonce |-> n])
  <2>1. PICK n \in Nonce : o = Addressed({sid}, [type |-> "received", nonce |-> n])
    BY <1>4
  <2>2. [type |-> "received", nonce |-> n] \in Spoken \cup ReceivedMsg
    BY DEF ReceivedMsg
  <2> QED  BY <1>1, <2>1, <2>2, AddressedType
<1> QED  BY <1>2, <1>3, <1>4 DEF SaidTo

\* Whatever the next event is, the client says something about one device.
LEMMA ReceivesSays ==
  ASSUME Shape, Facing', TeacherReceives, NEW m, m = Head(inbox)
  PROVE  \E out : /\ TeacherEmits(out) /\ Emittable(out)
                  /\ \/ m \in RosterMsg /\ out = Nothing
                     \/ /\ m \in HelloMsg \cup AnswerMsg(Device, Sid) \cup PresenceMsg
                        /\ \E o : SaidTo(m.device, m.sid, o) /\ out = [Nothing EXCEPT ![m.device] = o]
<1> DEFINE Goal(out) == /\ TeacherEmits(out) /\ Emittable(out)
                  /\ \/ m \in RosterMsg /\ out = Nothing
                     \/ /\ m \in HelloMsg \cup AnswerMsg(Device, Sid) \cup PresenceMsg
                        /\ \E o : SaidTo(m.device, m.sid, o) /\ out = [Nothing EXCEPT ![m.device] = o]
<1>0. teacherLink = "up" /\ Types
  BY ReceivesCases DEF Shape
<1>1. CASE m \in RosterMsg /\ OnRoster(m)
  <2>1. UNCHANGED <<down, sendBuffer>>
    BY <1>1 DEF OnRoster
  <2>2. Goal(Nothing)
    BY <1>0, <1>1, <2>1, Silent
  <2> QED  BY <2>2
<1>2. ASSUME NEW o, SaidTo(m.device, m.sid, o), TeacherEmits([Nothing EXCEPT ![m.device] = o]),
             m \in HelloMsg \cup AnswerMsg(Device, Sid) \cup PresenceMsg
      PROVE  \E out : Goal(out)
  <2>1. m.device \in Device /\ m.sid \in Sid
    BY <1>2 DEF HelloMsg, AnswerMsg, PresenceMsg
  <2>2. Emittable([Nothing EXCEPT ![m.device] = o])
    BY <1>0, <1>2, <2>1, SaidType, AboutOne
  <2>3. Goal([Nothing EXCEPT ![m.device] = o])
    BY <1>2, <2>2
  <2> QED  BY <2>3
<1>3. ASSUME NEW d, NEW sid, NEW sids \in {{}, {sid}}
      PROVE  SaidTo(d, sid, SendStudentState(d, sids))
  BY DEF SendStudentState, SaidTo
<1>4. CASE m \in HelloMsg /\ OnStudentHello(m.device, m.sid)
  <2>1. TeacherEmits([Nothing EXCEPT ![m.device] = SendStudentState(m.device, {m.sid})])
    BY <1>4 DEF OnStudentHello
  <2>2. SaidTo(m.device, m.sid, SendStudentState(m.device, {m.sid}))
    BY <1>3
  <2> HIDE DEF Goal
  <2>3. \E out : Goal(out)
    BY <1>2, <1>4, <2>1, <2>2
  <2> QED  BY <2>3 DEF Goal
<1>5. CASE m \in AnswerMsg(Device, Sid) /\ OnAnswerAccepted(m.device, m)
  <2> DEFINE o == Addressed({m.sid}, [type |-> "received", nonce |-> m.nonce])
  <2>1. TeacherEmits([Nothing EXCEPT ![m.device] = o])
    BY <1>5 DEF OnAnswerAccepted
  <2>2. SaidTo(m.device, m.sid, o)
    <3>1. m.nonce \in Nonce
      BY <1>5 DEF AnswerMsg
    <3> QED  BY <3>1 DEF SaidTo
  <2> HIDE DEF Goal, o
  <2>3. \E out : Goal(out)
    BY <1>2, <1>5, <2>1, <2>2
  <2> QED  BY <2>3 DEF Goal
<1>6. CASE m \in AnswerMsg(Device, Sid) /\ OnAnswerRejected(m.device, m)
  <2>1. TeacherEmits([Nothing EXCEPT ![m.device] = SendStudentState(m.device, {m.sid})])
    BY <1>6 DEF OnAnswerRejected
  <2>2. SaidTo(m.device, m.sid, SendStudentState(m.device, {m.sid}))
    BY <1>3
  <2> HIDE DEF Goal
  <2>3. \E out : Goal(out)
    BY <1>2, <1>6, <2>1, <2>2
  <2> QED  BY <2>3 DEF Goal
<1>7. CASE m \in PresenceMsg /\ OnPresence(m.device, m)
  <2>1. CASE m.connected
    <3> DEFINE o == SendStudentState(m.device, {m.sid} \cap deviceBySid[m.device])
    <3>1. TeacherEmits([Nothing EXCEPT ![m.device] = o])
      BY <1>7, <2>1 DEF OnPresence
    <3>2. {m.sid} \cap deviceBySid[m.device] \in {{}, {m.sid}}
      OBVIOUS
    <3>3. SaidTo(m.device, m.sid, o)
      BY <1>3, <3>2
    <3> HIDE DEF Goal, o
    <3>4. \E out : Goal(out)
      BY <1>2, <1>7, <3>1, <3>3
    <3> QED  BY <3>4 DEF Goal
  <2>2. CASE ~ m.connected
    <3>1. UNCHANGED <<down, sendBuffer>>
      BY <1>7, <2>2 DEF OnPresence
    <3>2. TeacherEmits(Nothing)
      BY <3>1, <1>0, Silent
    <3>3. Nothing = [Nothing EXCEPT ![m.device] = << >>]
      BY DEF Nothing
    <3>4. SaidTo(m.device, m.sid, << >>)
      BY DEF SaidTo
    <3> HIDE DEF Goal
    <3>5. \E out : Goal(out)
      BY <1>2, <1>7, <3>2, <3>3, <3>4
    <3> QED  BY <3>5 DEF Goal
  <2> QED  BY <2>1, <2>2
<1> QED  BY <1>1, <1>4, <1>5, <1>6, <1>7, ReceivesCases

\* Whatever event the client handles, the shape is kept.
LEMMA ShapeReceives ==
  ASSUME Shape, Facing', TeacherReceives
  PROVE  Shape'
<1> DEFINE m == Head(inbox)
<1>1. PICK out : TeacherEmits(out) /\ Emittable(out)
  BY ReceivesSays
<1>2. /\ teacherLink = "up" /\ inbox' \in Seq(InboxMsg)
      /\ UNCHANGED <<teacherLink, teacherLinks, relay, link, links, buffer, pages>>
      /\ \/ m \in HelloMsg /\ OnStudentHello(m.device, m.sid)
         \/ m \in AnswerMsg(Device, Sid) /\ OnAnswerAccepted(m.device, m)
         \/ m \in AnswerMsg(Device, Sid) /\ OnAnswerRejected(m.device, m)
         \/ m \in PresenceMsg /\ OnPresence(m.device, m)
         \/ m \in RosterMsg /\ OnRoster(m)
  BY ReceivesCases
<1> HIDE DEF m
<1>3. deviceBySid' \in [Device -> SUBSET Sid] /\ connectedSids' \in [Device -> SUBSET Sid]
  <2>0. deviceBySid \in [Device -> SUBSET Sid] /\ connectedSids \in [Device -> SUBSET Sid]
    BY DEF Shape, Types
  <2>1. CASE m \in HelloMsg /\ OnStudentHello(m.device, m.sid)
    BY <2>0, <2>1 DEF OnStudentHello, HelloMsg
  <2>2. CASE m \in AnswerMsg(Device, Sid) /\ OnAnswerAccepted(m.device, m)
    BY <2>0, <2>2 DEF OnAnswerAccepted, AnswerMsg
  <2>3. CASE m \in AnswerMsg(Device, Sid) /\ OnAnswerRejected(m.device, m)
    BY <2>0, <2>3 DEF OnAnswerRejected, client
  <2>4. CASE m \in PresenceMsg /\ OnPresence(m.device, m)
    BY <2>0, <2>4 DEF OnPresence, PresenceMsg
  <2>5. CASE m \in RosterMsg /\ OnRoster(m)
    BY <2>0, <2>5 DEF OnRoster, RosterMsg
  <2> QED  BY <1>2, <2>1, <2>2, <2>3, <2>4, <2>5
<1> QED  BY <1>1, <1>2, <1>3, TeacherSpeaks

-----------------------------------------------------------------------------
(***************************************************************************)
(* The links of the teacher, and the end of the class.                     *)
(***************************************************************************)

\* The teacher's link breaks.
LEMMA ShapeBreaks ==
  ASSUME Shape, TeacherLinkBreaks PROVE Shape'
<1>1. /\ teacherLink = "up" /\ teacherLinks < MaxTeacherLinks
      /\ teacherLink' = "broken" /\ inbox' = << >>
      /\ UNCHANGED <<deviceBySid, connectedSids, teacherLinks, sendBuffer, session, SIDS, pinned,
                     link, links, down, buffer, page, sent>>
  BY DEF TeacherLinkBreaks, client, relay, pageNet, pages
<1>2. Types'
  BY <1>1, EmptySeq DEF Shape, Types
<1>3. TeacherShape'
  BY <1>1 DEF Shape, TeacherShape, Nothing
<1>4. ASSUME NEW d \in Device PROVE LinkShape(d)' /\ PageShape(page[d])'
  BY <1>1 DEF Shape, LinkShape, PageShape
<1> QED  BY <1>2, <1>3, <1>4 DEF Shape

\* The client notices that its link is broken.
LEMMA ShapeNotices ==
  ASSUME Shape, TeacherNotices PROVE Shape'
<1>1. /\ teacherLink = "broken" /\ teacherLink' = "down"
      /\ UNCHANGED <<deviceBySid, connectedSids, teacherLinks, inbox, sendBuffer, session, SIDS,
                     pinned, link, links, down, buffer, page, sent>>
  BY DEF TeacherNotices, client, relay, pageNet, pages
<1>2. Types'
  BY <1>1 DEF Shape, Types
<1>3. TeacherShape'
  BY <1>1 DEF Shape, TeacherShape, Nothing
<1>4. ASSUME NEW d \in Device PROVE LinkShape(d)' /\ PageShape(page[d])'
  BY <1>1 DEF Shape, LinkShape, PageShape
<1> QED  BY <1>2, <1>3, <1>4 DEF Shape

\* What the relay sends to a page when the teacher is back.
Welcome(d) == Addressed(Sid, [type |-> "teacher-online"]) \o sendBuffer[d]

\* What the relay and the client say when the teacher connects are messages.
LEMMA WelcomeType ==
  ASSUME Types, NEW d \in Device
  PROVE  /\ Welcome(d) \in Seq(Item(PageMsg))
         /\ Reaching(d, Welcome(d)) \in Seq(PageMsg)
         /\ link[d] # "up" => Reaching(d, Welcome(d)) = << >>
<1>1. [type |-> "teacher-online"] \in PageMsg
  BY DEF PageMsg, Notice
<1>2. Addressed(Sid, [type |-> "teacher-online"]) \in Seq(Item(PageMsg))
  BY <1>1, AddressedType
<1>3. sendBuffer[d] \in Seq(Item(PageMsg))
  <2>1. sendBuffer[d] \in Seq(Item(Spoken)) /\ Spoken \subseteq PageMsg
    BY DEF Types, PageMsg
  <2> QED  BY <2>1, ItemMonotonic
<1>4. Welcome(d) \in Seq(Item(PageMsg))
  BY <1>2, <1>3, ConcatProperties DEF Welcome
<1> QED  BY <1>4, ReachingType

\* The teacher connects.
LEMMA ShapeConnects ==
  ASSUME Shape, TeacherConnects PROVE Shape'
<1>1. /\ teacherLink = "down" /\ session = "lobby"
      /\ teacherLink' = "up" /\ teacherLinks' = teacherLinks + 1
      /\ inbox' = << [type |-> "roster", sids |-> SIDS, pinned |-> pinned] >>
      /\ down' = [d \in Device |-> down[d] \o Reaching(d, Welcome(d))]
      /\ sendBuffer' = Nothing
      /\ UNCHANGED <<deviceBySid, connectedSids, session, SIDS, pinned, link, links, buffer,
                     page, sent>>
  BY DEF TeacherConnects, client, relay, pages, Welcome
<1>2. ASSUME NEW d \in Device
      PROVE  /\ down'[d] \in Seq(PageMsg)
             /\ link[d] # "up" => down'[d] = down[d]
  <2>1. /\ down[d] \in Seq(PageMsg) /\ Reaching(d, Welcome(d)) \in Seq(PageMsg)
        /\ link[d] # "up" => Reaching(d, Welcome(d)) = << >>
    BY WelcomeType DEF Shape, Types
  <2>2. down'[d] = down[d] \o Reaching(d, Welcome(d))
    BY <1>1
  <2> QED  BY <2>1, <2>2, ConcatProperties, ConcatEmptySeq
<1>3. down' \in [Device -> Seq(PageMsg)]
  BY <1>1, <1>2
<1>4. inbox' \in Seq(InboxMsg)
  <2>1. [type |-> "roster", sids |-> SIDS, pinned |-> pinned] \in InboxMsg
    BY DEF Shape, Types, InboxMsg, RosterMsg
  <2> QED  BY <1>1, <2>1
<1>5. Nothing \in [Device -> Seq(Item(Spoken))]
  BY EmptySeq DEF Nothing
<1>6. teacherLinks + 1 \in 0 .. MaxTeacherLinks
  BY <1>1, ClassAssumption DEF Shape, Types, TeacherShape, ClassAssumption
<1>7. Types'
  BY <1>1, <1>3, <1>4, <1>5, <1>6 DEF Shape, Types
<1>8. TeacherShape'
  BY <1>1 DEF Shape, TeacherShape, Nothing
<1>9. ASSUME NEW d \in Device PROVE LinkShape(d)' /\ PageShape(page[d])'
  BY <1>1, <1>2 DEF Shape, LinkShape, PageShape
<1> QED  BY <1>7, <1>8, <1>9 DEF Shape

\* The end of the class is told in a message.
LEMMA FarewellType ==
  ASSUME Types, NEW d \in Device, NEW o, o = Addressed(Sid, [type |-> "ended"])
  PROVE  /\ Reaching(d, o) \in Seq(PageMsg)
         /\ link[d] # "up" => Reaching(d, o) = << >>
<1>1. [type |-> "ended"] \in PageMsg
  BY DEF PageMsg, Notice
<1> QED  BY <1>1, AddressedType, ReachingType

\* The class ends.
LEMMA ShapeEnds ==
  ASSUME Shape, SessionEnds PROVE Shape'
<1> DEFINE o == Addressed(Sid, [type |-> "ended"])
<1>1. /\ session = "lobby" /\ session' = "ended" /\ teacherLink' = "closed"
      /\ SIDS' = [d \in Device |-> {}] /\ pinned' = [d \in Device |-> {}]
      /\ down' = [d \in Device |-> down[d] \o Reaching(d, o)]
      /\ inbox' = << >>
      /\ UNCHANGED <<deviceBySid, connectedSids, teacherLinks, sendBuffer, link, links, buffer,
                     page, sent>>
  BY DEF SessionEnds, client, pages
<1> HIDE DEF o
<1>2. ASSUME NEW d \in Device
      PROVE  /\ down'[d] \in Seq(PageMsg)
             /\ link[d] # "up" => down'[d] = down[d]
  <2>1. /\ down[d] \in Seq(PageMsg) /\ Reaching(d, o) \in Seq(PageMsg)
        /\ link[d] # "up" => Reaching(d, o) = << >>
    BY FarewellType DEF Shape, Types, o
  <2>2. down'[d] = down[d] \o Reaching(d, o)
    BY <1>1
  <2> QED  BY <2>1, <2>2, ConcatProperties, ConcatEmptySeq
<1>3. down' \in [Device -> Seq(PageMsg)]
  BY <1>1, <1>2
<1>4. Types'
  BY <1>1, <1>3, EmptySeq DEF Shape, Types
<1>5. TeacherShape'
  BY <1>1 DEF Shape, TeacherShape
<1>6. ASSUME NEW d \in Device PROVE LinkShape(d)' /\ PageShape(page[d])'
  BY <1>1, <1>2 DEF Shape, LinkShape, PageShape
<1> QED  BY <1>4, <1>5, <1>6 DEF Shape

-----------------------------------------------------------------------------
\* The relay forwards to the teacher, if she is there.
LEMMA ToTeacherType ==
  ASSUME Shape, NEW msgs \in Seq(InboxMsg)
  PROVE  ToTeacher(msgs) \in Seq(InboxMsg) /\ (teacherLink # "up" => ToTeacher(msgs) = << >>)
BY ConcatProperties DEF Shape, Types, TeacherShape, ToTeacher

\* What the page of d emits is right for the queue that it goes to.
LEMMA PageEmitsType ==
  ASSUME Shape, NEW d \in Device, NEW msgs, PageEmits(d, msgs),
         link[d] = "up" => msgs \in Seq(InboxMsg),
         link[d] = "down" => msgs \in Seq(AnswerMsg({d}, Sid \cup {0}))
  PROVE  /\ inbox' \in Seq(InboxMsg) /\ (teacherLink # "up" => inbox' = << >>)
         /\ pinned' \in [Device -> SUBSET Sid]
         /\ pinned[d] \subseteq pinned'[d] /\ pinned'[d] \subseteq SIDS[d]
         /\ buffer' \in [Device -> Seq(AnswerMsg(Device, Sid \cup {0}))]
         /\ buffer'[d] \in Seq(AnswerMsg({d}, Sid \cup {0}))
         /\ link[d] \in {"up", "broken"} => buffer'[d] = << >>
         /\ \A x \in Device \ {d} : pinned'[x] = pinned[x] /\ buffer'[x] = buffer[x]
<1>0. Types /\ LinkShape(d) /\ pinned[d] \subseteq SIDS[d]
  BY DEF Shape, LinkShape
<1>1. CASE link[d] = "up" /\ links[d] \in SIDS[d]
  <2>1. /\ inbox' = ToTeacher(msgs)
        /\ pinned' = [pinned EXCEPT ![d] = IF msgs = << >> THEN @ ELSE @ \cup {links[d]}]
        /\ buffer' = buffer
    BY <1>1 DEF PageEmits
  <2>2. links[d] \in Sid
    BY <1>0, <1>1 DEF Types
  <2>3. inbox' \in Seq(InboxMsg) /\ (teacherLink # "up" => inbox' = << >>)
    BY <1>1, <2>1, ToTeacherType
  <2>4. /\ pinned' \in [Device -> SUBSET Sid]
        /\ pinned[d] \subseteq pinned'[d] /\ pinned'[d] \subseteq SIDS[d]
        /\ \A x \in Device \ {d} : pinned'[x] = pinned[x]
    <3>1. pinned'[d] = pinned[d] \/ pinned'[d] = pinned[d] \cup {links[d]}
      BY <1>0, <2>1 DEF Types
    <3>2. pinned \in [Device -> SUBSET Sid]
      BY <1>0 DEF Types
    <3> QED  BY <1>0, <1>1, <2>1, <2>2, <3>1, <3>2
  <2>5. /\ buffer' \in [Device -> Seq(AnswerMsg(Device, Sid \cup {0}))]
        /\ buffer'[d] \in Seq(AnswerMsg({d}, Sid \cup {0}))
        /\ link[d] \in {"up", "broken"} => buffer'[d] = << >>
        /\ \A x \in Device \ {d} : buffer'[x] = buffer[x]
    BY <1>0, <2>1 DEF Types, LinkShape
  <2> QED  BY <2>3, <2>4, <2>5
<1>2. CASE ~ (link[d] = "up" /\ links[d] \in SIDS[d])
  <2>1. /\ buffer' = [buffer EXCEPT ![d] = IF link[d] = "down" THEN @ \o msgs ELSE @]
        /\ UNCHANGED <<inbox, pinned>>
    BY <1>2 DEF PageEmits
  <2>2. inbox' \in Seq(InboxMsg) /\ (teacherLink # "up" => inbox' = << >>)
    BY <2>1 DEF Shape, Types, TeacherShape
  <2>3. buffer'[d] \in Seq(AnswerMsg({d}, Sid \cup {0}))
    <3>1. buffer[d] \in Seq(AnswerMsg({d}, Sid \cup {0}))
      BY <1>0 DEF LinkShape
    <3>2. buffer'[d] = IF link[d] = "down" THEN buffer[d] \o msgs ELSE buffer[d]
      BY <1>0, <2>1 DEF Types
    <3> QED  BY <3>1, <3>2, ConcatProperties
  <2>4. buffer'[d] \in Seq(AnswerMsg(Device, Sid \cup {0}))
    <3> DEFINE A == AnswerMsg({d}, Sid \cup {0})
               B == AnswerMsg(Device, Sid \cup {0})
    <3>1. A \subseteq B
      BY DEF AnswerMsg
    <3> HIDE DEF A, B
    <3>2. buffer'[d] \in Seq(B)
      BY <2>3, <3>1, SeqMonotonic DEF A
    <3> QED  BY <3>2 DEF B
  <2>5. buffer' \in [Device -> Seq(AnswerMsg(Device, Sid \cup {0}))]
    <3>1. \A x \in Device : buffer'[x] \in Seq(AnswerMsg(Device, Sid \cup {0}))
      BY <1>0, <2>1, <2>4 DEF Types
    <3>2. buffer' = [x \in Device |-> buffer'[x]]
      BY <1>0, <2>1 DEF Types
    <3> QED  BY <3>1, <3>2
  <2>6. link[d] \in {"up", "broken"} => buffer'[d] = << >>
    BY <1>0, <2>1 DEF Types, LinkShape
  <2>7. \A x \in Device \ {d} : buffer'[x] = buffer[x]
    BY <1>0, <2>1 DEF Types
  <2> QED  BY <1>0, <2>1, <2>2, <2>3, <2>5, <2>6, <2>7 DEF Types
<1> QED  BY <1>1, <1>2

-----------------------------------------------------------------------------
(***************************************************************************)
(* What a student does, and what the page makes of a message.              *)
(***************************************************************************)

\* What a page changes in itself: what waits to be confirmed, or what is under way.
LEMMA EditType ==
  ASSUME Shape, NEW d \in Device, NEW p \in Page, PageShape(p),
         page' = [page EXCEPT ![d] = p],
         UNCHANGED <<engine, client, teacherNet, relay, pageNet, sent>>
  PROVE  Shape'
<1>1. UNCHANGED <<deviceBySid, connectedSids, teacherLink, teacherLinks, inbox, sendBuffer,
                  session, SIDS, pinned, link, links, down, buffer, sent>>
  BY DEF client, teacherNet, relay, pageNet
<1>2. Types /\ LinkShape(d)
  BY DEF Shape
<1>3. page' \in [Device -> Page] /\ page'[d] = p /\ \A x \in Device \ {d} : page'[x] = page[x]
  BY <1>2 DEF Types
<1>4. LinkShape(d)'
  BY <1>1, <1>2 DEF LinkShape
<1>5. PageShape(page'[d])
  BY <1>3
<1>6. Types'
  BY <1>1, <1>2, <1>3 DEF Types
<1>7. TeacherShape'
  BY <1>1 DEF Shape, TeacherShape, Nothing
<1>8. ASSUME NEW x \in Device \ {d} PROVE LinkShape(x)' /\ PageShape(page[x])'
  BY <1>1, <1>3 DEF Shape, LinkShape, PageShape
<1>9. \A x \in Device : LinkShape(x)' /\ PageShape(page[x])'
  BY <1>4, <1>5, <1>8
<1> QED  BY <1>6, <1>7, <1>9 DEF Shape

\* The student picks an option.
LEMMA ShapeRequest ==
  ASSUME Shape, NEW d \in Device, NEW o \in Option, RequestSubmit(d, o)
  PROVE  Shape'
<1> DEFINE p == [page[d] EXCEPT !.pending = o]
<1>1. page[d] \in Page /\ PageShape(page[d]) /\ page \in [Device -> Page]
  BY DEF Shape, Types
<1>2. page[d].state = "open" /\ page' = [page EXCEPT ![d].pending = o] /\ onlyPage(d)
  BY DEF RequestSubmit
<1>3. p \in Page
  BY <1>1 DEF Page
<1>4. PageShape(p)
  <2>1. None # "open"
    BY ClassAssumption DEF ClassAssumption
  <2> QED  BY <1>1, <1>2, <2>1 DEF PageShape, Page
<1> HIDE DEF p
<1>5. page' = [page EXCEPT ![d] = p]
  BY <1>1, <1>2 DEF p
<1> QED  BY <1>2, <1>3, <1>4, <1>5, EditType DEF onlyPage

\* The student takes it back.
LEMMA ShapeCancel ==
  ASSUME Shape, NEW d \in Device, CancelPending(d)
  PROVE  Shape'
<1> DEFINE p == [page[d] EXCEPT !.pending = None]
<1>1. page[d] \in Page /\ PageShape(page[d]) /\ page \in [Device -> Page]
  BY DEF Shape, Types
<1>2. page' = [page EXCEPT ![d].pending = None] /\ onlyPage(d)
  BY DEF CancelPending
<1>3. p \in Page /\ PageShape(p)
  BY <1>1 DEF Page, PageShape
<1> HIDE DEF p
<1>5. page' = [page EXCEPT ![d] = p]
  BY <1>1, <1>2 DEF p
<1> QED  BY <1>2, <1>3, <1>5, EditType DEF onlyPage

\* The answer is not confirmed in time.
LEMMA ShapeTimeout ==
  ASSUME Shape, NEW d \in Device, AckTimeout(d)
  PROVE  Shape'
<1> DEFINE p == [page[d] EXCEPT !.flight = [page[d].flight EXCEPT !.phase = "failed"]]
<1>1. page[d] \in Page /\ PageShape(page[d]) /\ page \in [Device -> Page]
  BY DEF Shape, Types
<1>2. /\ page[d].flight # None
      /\ page' = [page EXCEPT ![d].flight.phase = "failed"] /\ onlyPage(d)
  BY DEF AckTimeout, Submitting
<1>3. page[d].flight \in InFlight /\ p.flight = [page[d].flight EXCEPT !.phase = "failed"]
  BY <1>1, <1>2 DEF Page
<1>4. p.flight \in InFlight /\ p.flight.question = page[d].flight.question
  BY <1>3 DEF InFlight
<1>5. p \in Page /\ PageShape(p)
  <2>1. /\ p.question = page[d].question /\ p.state = page[d].state
        /\ p.pending = page[d].pending
    BY <1>1 DEF Page
  <2>2. p \in Page
    BY <1>1, <1>4 DEF Page
  <2> HIDE DEF p
  <2> QED  BY <1>1, <1>2, <1>4, <2>1, <2>2 DEF PageShape
<1> HIDE DEF p
<1>6. page' = [page EXCEPT ![d] = p]
  BY <1>1, <1>2 DEF p
<1> QED  BY <1>2, <1>5, <1>6, EditType DEF onlyPage

\* An answer leaves the page, which remembers it.
LEMMA TransmitEffects ==
  ASSUME Shape, NEW d \in Device, NEW q, NEW o \in Option, NEW pending \in Option \cup {None},
         q = page[d].question, q # None, Transmit(d, q, o, pending)
  PROVE  /\ Shape'
         /\ sent'[d] = sent[d] + 1 /\ sent'[d] \in Nonce
         /\ page'[d] = [page[d] EXCEPT !.pending = pending,
                                       !.flight = [nonce |-> sent'[d], question |-> q, answer |-> o,
                                                   phase |-> "sending"]]
         /\ PageEmits(d, << [type |-> "answer", device |-> d, sid |-> links[d],
                             question |-> q, answer |-> o, nonce |-> sent'[d]] >>)
         /\ \A x \in Device \ {d} : page'[x] = page[x] /\ sent'[x] = sent[x]
         /\ UNCHANGED <<engine, client, teacherLink, teacherLinks, sendBuffer, session,
                        SIDS, link, links, down>>
<1> DEFINE nonce == sent[d] + 1
           f == [nonce |-> nonce, question |-> q, answer |-> o, phase |-> "sending"]
           msgs == << [type |-> "answer", device |-> d, sid |-> links[d],
                       question |-> q, answer |-> o, nonce |-> nonce] >>
           p == [page[d] EXCEPT !.pending = pending, !.flight = f]
<1>1. Types /\ LinkShape(d) /\ PageShape(page[d]) /\ page[d] \in Page
  BY DEF Shape, Types
<1>2. /\ sent[d] < MaxAnswers
      /\ sent' = [sent EXCEPT ![d] = nonce]
      /\ page' = [page EXCEPT ![d].pending = pending, ![d].flight = f]
      /\ PageEmits(d, msgs)
      /\ UNCHANGED <<engine, client, teacherLink, teacherLinks, sendBuffer, session,
                     SIDS, link, links, down>>
  BY DEF Transmit
<1>3. q \in ChoiceQuestion
  BY <1>1 DEF Page
<1>4. nonce \in Nonce /\ sent[d] \in 0 .. MaxAnswers
  BY <1>1, <1>2, ClassAssumption DEF Types, Nonce, ClassAssumption
<1>5. f \in InFlight /\ f.question = q
  BY <1>3, <1>4 DEF InFlight
<1>6. /\ link[d] = "up" => msgs \in Seq(InboxMsg)
      /\ link[d] = "down" => msgs \in Seq(AnswerMsg({d}, Sid \cup {0}))
  <2> DEFINE m == [type |-> "answer", device |-> d, sid |-> links[d],
                   question |-> q, answer |-> o, nonce |-> nonce]
  <2>1. links[d] \in Sid \cup {0}
    BY <1>1, ClassAssumption DEF Types, Sid, ClassAssumption
  <2>2. m \in AnswerMsg({d}, Sid \cup {0})
    BY <1>3, <1>4, <2>1 DEF AnswerMsg
  <2>3. link[d] = "up" => m \in InboxMsg
    BY <1>1, <1>3, <1>4 DEF LinkShape, AnswerMsg, InboxMsg
  <2> HIDE DEF m
  <2>4. << m >> \in Seq(AnswerMsg({d}, Sid \cup {0})) /\ (link[d] = "up" => << m >> \in Seq(InboxMsg))
    BY <2>2, <2>3
  <2> QED  BY <2>4 DEF m
<1>7. p \in Page /\ PageShape(p)
  <2>1. /\ p.question = page[d].question /\ p.state = page[d].state
        /\ p.pending = pending /\ p.flight = f
    BY <1>1 DEF Page
  <2>2. p \in Page
    BY <1>1, <1>5 DEF Page
  <2> HIDE DEF p, f
  <2> QED  BY <1>1, <1>5, <2>1, <2>2 DEF PageShape
<1> HIDE DEF nonce, f, msgs, p
<1>8. /\ page' \in [Device -> Page] /\ page'[d] = p
      /\ \A x \in Device \ {d} : page'[x] = page[x]
  <2>1. page' = [page EXCEPT ![d] = p]
    BY <1>1, <1>2 DEF p, Types
  <2> QED  BY <1>1, <1>7, <2>1 DEF Types
<1>9. /\ sent' \in [Device -> 0 .. MaxAnswers] /\ sent'[d] = nonce
      /\ \A x \in Device \ {d} : sent'[x] = sent[x]
  BY <1>1, <1>2, <1>4 DEF Types, Nonce
<1>10. /\ inbox' \in Seq(InboxMsg) /\ (teacherLink # "up" => inbox' = << >>)
       /\ pinned' \in [Device -> SUBSET Sid]
       /\ pinned[d] \subseteq pinned'[d] /\ pinned'[d] \subseteq SIDS[d]
       /\ buffer' \in [Device -> Seq(AnswerMsg(Device, Sid \cup {0}))]
       /\ buffer'[d] \in Seq(AnswerMsg({d}, Sid \cup {0}))
       /\ link[d] \in {"up", "broken"} => buffer'[d] = << >>
       /\ \A x \in Device \ {d} : pinned'[x] = pinned[x] /\ buffer'[x] = buffer[x]
  BY <1>2, <1>6, PageEmitsType
<1>11. LinkShape(d)'
  BY <1>1, <1>2, <1>10 DEF LinkShape
<1>12. Shape'
  <2>1. /\ SIDS' \in [Device -> SUBSET Sid]
        /\ link' \in [Device -> {"up", "broken", "down", "closed"}]
        /\ links' \in [Device -> 0 .. MaxLinks]
        /\ down' \in [Device -> Seq(PageMsg)]
    BY <1>1, <1>2 DEF Types
  <2>2. \A x \in Device \ {d} :
           /\ SIDS'[x] = SIDS[x] /\ pinned'[x] = pinned[x]
           /\ link'[x] = link[x] /\ links'[x] = links[x]
           /\ down'[x] = down[x] /\ buffer'[x] = buffer[x] /\ page'[x] = page[x]
    BY <1>2, <1>8, <1>10
  <2>3. PageShape(page'[d])
    BY <1>7, <1>8
  <2> QED  BY <1>2, <1>8, <1>9, <1>10, <1>11, <2>1, <2>2, <2>3, PageStep
<1>13. p = [page[d] EXCEPT !.pending = pending,
                          !.flight = [nonce |-> sent'[d], question |-> q, answer |-> o,
                                      phase |-> "sending"]]
  BY <1>9 DEF p, f
<1>14. msgs = << [type |-> "answer", device |-> d, sid |-> links[d],
                 question |-> q, answer |-> o, nonce |-> sent'[d]] >>
  BY <1>9 DEF msgs
<1>15. sent'[d] = sent[d] + 1 /\ sent'[d] \in Nonce
  BY <1>4, <1>9 DEF nonce
<1> QED  BY <1>2, <1>8, <1>9, <1>12, <1>13, <1>14, <1>15

\* Confirming and sending again are both that.
LEMMA ConfirmTransmits ==
  ASSUME Shape, NEW d \in Device, ConfirmPending(d)
  PROVE  /\ page[d].pending \in Option /\ page[d].question # None
         /\ Transmit(d, page[d].question, page[d].pending, None)
<1>1. page[d] \in Page /\ PageShape(page[d])
  BY DEF Shape, Types
<1>2. page[d].pending # None /\ Transmit(d, page[d].question, page[d].pending, None)
  BY DEF ConfirmPending
<1>3. page[d].pending \in Option /\ page[d].question # None
  BY <1>1, <1>2 DEF Page, PageShape
<1> QED  BY <1>2, <1>3

\* Resending is a transmission.
LEMMA ResendTransmits ==
  ASSUME Shape, NEW d \in Device, Resend(d)
  PROVE  /\ page[d].flight \in InFlight /\ page[d].pending \in Option \cup {None}
         /\ page[d].question # None /\ page[d].flight.question = page[d].question
         /\ page[d].flight.answer \in Option
         /\ Transmit(d, page[d].question, page[d].flight.answer, page[d].pending)
<1>1. page[d] \in Page /\ PageShape(page[d])
  BY DEF Shape, Types
<1>2. page[d].flight # None /\ Transmit(d, page[d].flight.question, page[d].flight.answer, page[d].pending)
  BY DEF Resend
<1>3. page[d].flight \in InFlight /\ page[d].pending \in Option \cup {None}
  BY <1>1, <1>2 DEF Page
<1>4. page[d].flight.question \in ChoiceQuestion /\ page[d].flight.answer \in Option
  BY <1>3 DEF InFlight
<1>5. page[d].flight.question = page[d].question /\ page[d].question # None
  BY <1>1, <1>2, <1>4, ClassAssumption DEF PageShape, ClassAssumption
<1> QED  BY <1>2, <1>3, <1>4, <1>5

\* A transmission keeps the shape.
LEMMA ShapeTransmits ==
  ASSUME Shape, NEW d \in Device, ConfirmPending(d) \/ Resend(d)
  PROVE  Shape'
<1>1. CASE ConfirmPending(d)
  BY <1>1, ConfirmTransmits, TransmitEffects
<1>2. CASE Resend(d)
  BY <1>2, ResendTransmits, TransmitEffects
<1> QED  BY <1>1, <1>2

\* What a page says of itself when it is connected.
LEMMA HelloType ==
  ASSUME Shape, NEW d \in Device, link[d] = "up"
  PROVE  Hello(d, links[d]) \in Seq(InboxMsg)
<1> DEFINE m == [type |-> "hello", device |-> d, sid |-> links[d]]
<1>1. m \in InboxMsg
  BY DEF Shape, LinkShape, InboxMsg, HelloMsg
<1> HIDE DEF m
<1>2. << m >> \in Seq(InboxMsg)
  BY <1>1
<1> QED  BY <1>2 DEF m, Hello

\* Saying hello keeps the shape.
LEMMA ShapeHello ==
  ASSUME Shape, NEW d \in Device, link[d] = "up", PageEmits(d, Hello(d, links[d])),
         UNCHANGED <<client, teacherLink, teacherLinks, sendBuffer, session, SIDS, link, links,
                     page, sent>>,
         down' \in [Device -> Seq(PageMsg)], \A x \in Device \ {d} : down'[x] = down[x]
  PROVE  Shape'
<1>1. Types /\ LinkShape(d) /\ PageShape(page[d])
  BY DEF Shape
<1>2. /\ inbox' \in Seq(InboxMsg) /\ (teacherLink # "up" => inbox' = << >>)
      /\ pinned' \in [Device -> SUBSET Sid]
      /\ pinned[d] \subseteq pinned'[d] /\ pinned'[d] \subseteq SIDS[d]
      /\ buffer' \in [Device -> Seq(AnswerMsg(Device, Sid \cup {0}))]
      /\ buffer'[d] \in Seq(AnswerMsg({d}, Sid \cup {0}))
      /\ link[d] \in {"up", "broken"} => buffer'[d] = << >>
      /\ \A x \in Device \ {d} : pinned'[x] = pinned[x] /\ buffer'[x] = buffer[x]
  BY HelloType, PageEmitsType
<1>3. LinkShape(d)'
  BY <1>1, <1>2 DEF LinkShape
<1>4. PageShape(page'[d])
  BY <1>1
<1>5. /\ SIDS' \in [Device -> SUBSET Sid]
      /\ link' \in [Device -> {"up", "broken", "down", "closed"}]
      /\ links' \in [Device -> 0 .. MaxLinks]
      /\ page' \in [Device -> Page] /\ sent' \in [Device -> 0 .. MaxAnswers]
  BY <1>1 DEF Types
<1>6. \A x \in Device \ {d} :
         /\ SIDS'[x] = SIDS[x] /\ pinned'[x] = pinned[x]
         /\ link'[x] = link[x] /\ links'[x] = links[x]
         /\ down'[x] = down[x] /\ buffer'[x] = buffer[x] /\ page'[x] = page[x]
  BY <1>2
<1> QED  BY <1>2, <1>3, <1>4, <1>5, <1>6, PageStep

\* A page that is looked at again keeps the shape.
LEMMA ShapeResync ==
  ASSUME Shape, NEW d \in Device, Resync(d)
  PROVE  Shape'
<1>1. /\ link[d] = "up" /\ PageEmits(d, Hello(d, links[d]))
      /\ UNCHANGED <<client, teacherLink, teacherLinks, sendBuffer, session, SIDS, link, links,
                     down, page, sent>>
  BY DEF Resync, pages
<1>2. down' \in [Device -> Seq(PageMsg)] /\ \A x \in Device \ {d} : down'[x] = down[x]
  BY <1>1 DEF Shape, Types
<1> QED  BY <1>1, <1>2, ShapeHello

\* The page of d takes the next message off its queue.
LEMMA DownTail ==
  ASSUME Types, NEW d \in Device, down[d] # << >>,
         down' = [down EXCEPT ![d] = Tail(@)]
  PROVE  /\ down' \in [Device -> Seq(PageMsg)] /\ down'[d] = Tail(down[d])
         /\ Head(down[d]) \in PageMsg
         /\ \A x \in Device \ {d} : down'[x] = down[x]
<1>1. down[d] \in Seq(PageMsg) /\ down \in [Device -> Seq(PageMsg)]
  BY DEF Types
<1>2. Tail(down[d]) \in Seq(PageMsg) /\ Head(down[d]) \in PageMsg
  BY <1>1, HeadTailProperties
<1> QED  BY <1>1, <1>2

\* A snapshot keeps the page in shape.
LEMMA SnapshotShape ==
  ASSUME NEW p \in Page, PageShape(p), NEW q \in ChoiceQuestion \cup {None},
         NEW state \in {"open", "closed", None}, state = None <=> q = None,
         NEW selected \in Option \cup {None}
  PROVE  AfterSnapshot(p, q, state, selected) \in Page
         /\ PageShape(AfterSnapshot(p, q, state, selected))
<1> DEFINE status == CASE q = None -> "waiting"
                       [] state = "closed" -> "closed"
                       [] OTHER -> IF selected = None THEN "open" ELSE "answered"
           pending == IF q = p.question THEN p.pending ELSE None
           flight == IF p.flight # None /\ (q # p.flight.question \/ state = "closed")
                     THEN None ELSE p.flight
           n == [p EXCEPT !.status = status, !.question = q, !.state = state,
                          !.selected = selected, !.pending = pending, !.flight = flight]
<1>1. AfterSnapshot(p, q, state, selected) = n
  BY DEF AfterSnapshot
<1>2. status \in {"waiting", "open", "answered", "closed"}
  OBVIOUS
<1>3. pending \in Option \cup {None} /\ (q = None => pending = None)
  BY DEF Page, PageShape
<1>4. flight \in InFlight \cup {None} /\ (flight # None => flight.question = q)
  BY DEF Page, PageShape
<1> HIDE DEF status, pending, flight
<1>5. n \in Page
  BY <1>2, <1>3, <1>4 DEF Page
<1>6. n.question = q /\ n.state = state /\ n.pending = pending /\ n.flight = flight
  BY DEF Page
<1> HIDE DEF n
<1>7. PageShape(n)
  BY <1>3, <1>4, <1>6 DEF PageShape
<1> QED  BY <1>1, <1>5, <1>7

\* A page that has nothing to show is a page.
LEMMA BlankType ==
  ASSUME NEW status \in {"waiting", "open", "answered", "closed", "ended", "error"}
  PROVE  BlankPage(status) \in Page /\ PageShape(BlankPage(status)) /\ FreshPage \in Page
         /\ PageShape(FreshPage)
BY DEF BlankPage, FreshPage, Page, PageShape

\* What a page becomes that handles a question, a state or an acknowledgement.
LEMMA ReceivedShape ==
  ASSUME NEW p \in Page, PageShape(p), NEW nonce
  PROVE  AfterReceived(p, nonce) \in Page /\ PageShape(AfterReceived(p, nonce))
<1>1. CASE p.flight # None /\ p.flight.nonce = nonce
  <2>1. p.flight.answer \in Option
    BY <1>1 DEF Page, InFlight
  <2> DEFINE a == p.flight.answer
             n == [p EXCEPT !.status = "answered", !.selected = a, !.flight = None]
  <2>2. AfterReceived(p, nonce) = n
    BY <1>1 DEF AfterReceived
  <2> HIDE DEF a
  <2>3. n \in Page /\ n.question = p.question /\ n.state = p.state /\ n.pending = p.pending
        /\ n.flight = None
    BY <2>1 DEF Page, a
  <2> HIDE DEF n
  <2> QED  BY <2>2, <2>3 DEF PageShape
<1>2. CASE ~ (p.flight # None /\ p.flight.nonce = nonce)
  BY <1>2 DEF AfterReceived
<1> QED  BY <1>1, <1>2

\* A broadcast makes a page a page.
LEMMA BroadcastShape ==
  ASSUME NEW p \in Page, PageShape(p), NEW m \in QuestionMsg
  PROVE  AfterBroadcast(p, m) \in Page /\ PageShape(AfterBroadcast(p, m))
<1> DEFINE s == IF m.question = p.question THEN p.selected ELSE None
<1>1. s \in Option \cup {None} /\ m.question \in ChoiceQuestion /\ m.state \in {"open", "closed"}
  BY DEF Page, QuestionMsg
<1>2. m.state = None <=> m.question = None
  BY <1>1, ClassAssumption DEF ClassAssumption
<1> HIDE DEF s
<1>3. AfterSnapshot(p, m.question, m.state, s) \in Page
      /\ PageShape(AfterSnapshot(p, m.question, m.state, s))
  BY <1>1, <1>2, SnapshotShape
<1> QED  BY <1>3 DEF AfterBroadcast, s

\* A state makes a page a page.
LEMMA StateShape ==
  ASSUME NEW p \in Page, PageShape(p), NEW m \in NoQuestion \cup StateOf
  PROVE  /\ AfterSnapshot(p, m.question, m.state, m.answer) \in Page
         /\ PageShape(AfterSnapshot(p, m.question, m.state, m.answer))
<1>1. /\ m.question \in ChoiceQuestion \cup {None} /\ m.state \in {"open", "closed", None}
      /\ m.answer \in Option \cup {None} /\ (m.state = None <=> m.question = None)
  BY ClassAssumption DEF NoQuestion, StateOf, ClassAssumption
<1> QED  BY <1>1, SnapshotShape

\* A message to a page is of one kind.
LEMMA MessageKinds ==
  ASSUME NEW m \in PageMsg
  PROVE  /\ m.type = "question" => m \in QuestionMsg
         /\ m.type = "state" => m \in NoQuestion \cup StateOf
         /\ m.type = "received" => m \in ReceivedMsg
         /\ m.type \in {"question", "state", "received", "teacher-online", "ended"}
BY DEF PageMsg, Spoken, NoQuestion, StateOf, QuestionMsg, ReceivedMsg, Notice

\* The kinds of steps of a page that handles the next message.
LEMMA PageReceivesCases ==
  ASSUME Shape, NEW d \in Device, PageReceives(d), NEW m, m = Head(down[d])
  PROVE  /\ link[d] = "up" /\ down[d] # << >> /\ m \in PageMsg
         /\ down' = [down EXCEPT ![d] = Tail(@)]
         /\ UNCHANGED <<engine, client, teacherLink, teacherLinks, sendBuffer, session,
                        SIDS, links, sent>>
         /\ \/ /\ m \in QuestionMsg /\ m.type = "question"
               /\ page' = [page EXCEPT ![d] = AfterBroadcast(page[d], m)]
               /\ UNCHANGED <<inbox, pinned, link, buffer>>
            \/ /\ m \in NoQuestion \cup StateOf /\ m.type = "state"
               /\ page' = [page EXCEPT ![d] = AfterSnapshot(page[d], m.question, m.state, m.answer)]
               /\ UNCHANGED <<inbox, pinned, link, buffer>>
            \/ /\ m \in ReceivedMsg /\ m.type = "received"
               /\ page' = [page EXCEPT ![d] = AfterReceived(page[d], m.nonce)]
               /\ UNCHANGED <<inbox, pinned, link, buffer>>
            \/ /\ m.type = "teacher-online"
               /\ PageEmits(d, Hello(d, links[d])) /\ UNCHANGED <<page, link>>
            \/ /\ m.type = "ended"
               /\ page' = [page EXCEPT ![d] = BlankPage("ended")]
               /\ link' = [link EXCEPT ![d] = "closed"]
               /\ UNCHANGED <<inbox, pinned, buffer>>
<1>1. /\ link[d] = "up" /\ down[d] # << >>
      /\ down' = [down EXCEPT ![d] = Tail(@)]
      /\ UNCHANGED <<engine, client, teacherLink, teacherLinks, sendBuffer, session,
                        SIDS, links, sent>>
  BY DEF PageReceives
<1>2. m \in PageMsg
  BY <1>1, DownTail DEF Shape
<1>3. \/ /\ m.type = "question"
         /\ page' = [page EXCEPT ![d] = AfterBroadcast(page[d], m)]
         /\ UNCHANGED <<inbox, pinned, link, buffer>>
      \/ /\ m.type = "state"
         /\ page' = [page EXCEPT ![d] = AfterSnapshot(page[d], m.question, m.state, m.answer)]
         /\ UNCHANGED <<inbox, pinned, link, buffer>>
      \/ /\ m.type = "received"
         /\ page' = [page EXCEPT ![d] = AfterReceived(page[d], m.nonce)]
         /\ UNCHANGED <<inbox, pinned, link, buffer>>
      \/ /\ m.type = "teacher-online"
         /\ PageEmits(d, Hello(d, links[d])) /\ UNCHANGED <<page, link>>
      \/ /\ m.type = "ended"
         /\ page' = [page EXCEPT ![d] = BlankPage("ended")]
         /\ link' = [link EXCEPT ![d] = "closed"]
         /\ UNCHANGED <<inbox, pinned, buffer>>
  BY DEF PageReceives, OnTeacherOnline
<1> QED  BY <1>1, <1>2, <1>3, MessageKinds

\* A message that changes the page and nothing else.
LEMMA ShapeBecomes ==
  ASSUME Shape, NEW d \in Device, link[d] = "up", down[d] # << >>,
         down' = [down EXCEPT ![d] = Tail(@)],
         UNCHANGED <<client, teacherLink, teacherLinks, inbox, sendBuffer, session,
                     SIDS, pinned, link, links, buffer, sent>>,
         NEW p \in Page, PageShape(p), page' = [page EXCEPT ![d] = p]
  PROVE  Shape'
<1>1. Types /\ LinkShape(d)
  BY DEF Shape
<1>2. /\ down' \in [Device -> Seq(PageMsg)] /\ \A x \in Device \ {d} : down'[x] = down[x]
      /\ page' \in [Device -> Page] /\ page'[d] = p
      /\ \A x \in Device \ {d} : page'[x] = page[x]
  BY <1>1, DownTail DEF Types
<1>3. LinkShape(d)'
  BY <1>1 DEF LinkShape
<1>4. /\ inbox' \in Seq(InboxMsg) /\ (teacherLink # "up" => inbox' = << >>)
      /\ SIDS' \in [Device -> SUBSET Sid] /\ pinned' \in [Device -> SUBSET Sid]
      /\ link' \in [Device -> {"up", "broken", "down", "closed"}]
      /\ links' \in [Device -> 0 .. MaxLinks]
      /\ buffer' \in [Device -> Seq(AnswerMsg(Device, Sid \cup {0}))]
      /\ sent' \in [Device -> 0 .. MaxAnswers]
  BY <1>1 DEF Types, Shape, TeacherShape
<1>5. \A x \in Device \ {d} :
         /\ SIDS'[x] = SIDS[x] /\ pinned'[x] = pinned[x]
         /\ link'[x] = link[x] /\ links'[x] = links[x]
         /\ down'[x] = down[x] /\ buffer'[x] = buffer[x] /\ page'[x] = page[x]
  BY <1>2
<1>6. PageShape(page'[d])
  BY <1>2
<1> QED  BY <1>2, <1>3, <1>4, <1>5, <1>6, PageStep

\* Whatever message the page handles, the shape is kept.
LEMMA ShapePageReceives ==
  ASSUME Shape, NEW d \in Device, PageReceives(d)
  PROVE  Shape'
<1> DEFINE m == Head(down[d])
<1>1. /\ link[d] = "up" /\ down[d] # << >> /\ m \in PageMsg
      /\ down' = [down EXCEPT ![d] = Tail(@)]
      /\ UNCHANGED <<engine, client, teacherLink, teacherLinks, sendBuffer, session,
                     SIDS, links, sent>>
  BY PageReceivesCases
<1>2. page[d] \in Page /\ PageShape(page[d]) /\ Types /\ LinkShape(d)
  BY DEF Shape, Types
<1> HIDE DEF m
<1>3. CASE /\ m \in QuestionMsg
           /\ page' = [page EXCEPT ![d] = AfterBroadcast(page[d], m)]
           /\ UNCHANGED <<inbox, pinned, link, buffer>>
  BY <1>1, <1>2, <1>3, BroadcastShape, ShapeBecomes
<1>4. CASE /\ m \in NoQuestion \cup StateOf
           /\ page' = [page EXCEPT ![d] = AfterSnapshot(page[d], m.question, m.state, m.answer)]
           /\ UNCHANGED <<inbox, pinned, link, buffer>>
  BY <1>1, <1>2, <1>4, StateShape, ShapeBecomes
<1>5. CASE /\ page' = [page EXCEPT ![d] = AfterReceived(page[d], m.nonce)]
           /\ UNCHANGED <<inbox, pinned, link, buffer>>
  BY <1>1, <1>2, <1>5, ReceivedShape, ShapeBecomes
<1>6. CASE PageEmits(d, Hello(d, links[d])) /\ UNCHANGED <<page, link>>
  BY <1>1, <1>2, <1>6, DownTail, ShapeHello
<1>7. CASE /\ page' = [page EXCEPT ![d] = BlankPage("ended")]
           /\ link' = [link EXCEPT ![d] = "closed"]
           /\ UNCHANGED <<inbox, pinned, buffer>>
  <2>1. /\ down' \in [Device -> Seq(PageMsg)] /\ \A x \in Device \ {d} : down'[x] = down[x]
    BY <1>1, <1>2, DownTail
  <2>2. BlankPage("ended") \in Page /\ PageShape(BlankPage("ended"))
    BY BlankType
  <2>3. /\ page' \in [Device -> Page] /\ page'[d] = BlankPage("ended")
        /\ \A x \in Device \ {d} : page'[x] = page[x]
        /\ link' \in [Device -> {"up", "broken", "down", "closed"}] /\ link'[d] = "closed"
        /\ \A x \in Device \ {d} : link'[x] = link[x]
    BY <1>2, <1>7, <2>2 DEF Types
  <2>4. LinkShape(d)'
    BY <1>1, <1>2, <1>7, <2>3 DEF LinkShape
  <2>5. /\ inbox' \in Seq(InboxMsg) /\ (teacherLink # "up" => inbox' = << >>)
        /\ SIDS' \in [Device -> SUBSET Sid] /\ pinned' \in [Device -> SUBSET Sid]
        /\ links' \in [Device -> 0 .. MaxLinks]
        /\ buffer' \in [Device -> Seq(AnswerMsg(Device, Sid \cup {0}))]
        /\ sent' \in [Device -> 0 .. MaxAnswers]
    BY <1>1, <1>2, <1>7 DEF Types, Shape, TeacherShape
  <2>6. \A x \in Device \ {d} :
           /\ SIDS'[x] = SIDS[x] /\ pinned'[x] = pinned[x]
           /\ link'[x] = link[x] /\ links'[x] = links[x]
           /\ down'[x] = down[x] /\ buffer'[x] = buffer[x] /\ page'[x] = page[x]
    BY <1>1, <1>7, <2>1, <2>3
  <2>7. PageShape(page'[d])
    BY <2>2, <2>3
  <2> QED  BY <1>1, <2>1, <2>3, <2>4, <2>5, <2>6, <2>7, PageStep
<1> QED  BY <1>3, <1>4, <1>5, <1>6, <1>7, PageReceivesCases DEF m

-----------------------------------------------------------------------------
(***************************************************************************)
(* The links of the pages.                                                 *)
(***************************************************************************)

\* The answers that were buffered, as they leave by the new connection.
Flushed(d) ==
  [i \in DOMAIN buffer[d] |-> [buffer[d][i] EXCEPT !.sid = links[d] + 1]]

\* The buffered answers, with the sid of the new connection, are answers.
LEMMA FlushedType ==
  ASSUME Shape, NEW d \in Device, links[d] + 1 \in Sid
  PROVE  /\ Flushed(d) \in Seq(AnswerMsg({d}, Sid)) /\ Flushed(d) \in Seq(InboxMsg)
         /\ Len(Flushed(d)) = Len(buffer[d])
         /\ \A i \in 1 .. Len(buffer[d]) :
              Flushed(d)[i] = [buffer[d][i] EXCEPT !.sid = links[d] + 1]
<1> DEFINE A == AnswerMsg({d}, Sid \cup {0})
           B == AnswerMsg({d}, Sid)
           n == Len(buffer[d])
<1>1. buffer[d] \in Seq(A) /\ n \in Nat /\ DOMAIN buffer[d] = 1 .. n
  BY LenProperties DEF Shape, LinkShape
<1>2. ASSUME NEW i \in 1 .. n PROVE [buffer[d][i] EXCEPT !.sid = links[d] + 1] \in B
  <2>1. buffer[d][i] \in A
    BY <1>1, ElementOfSeq
  <2> QED  BY <2>1 DEF AnswerMsg
<1>3. B \subseteq InboxMsg
  BY DEF AnswerMsg, InboxMsg
<1> HIDE DEF A, B
<1>4. Flushed(d) \in [1 .. n -> B]
  BY <1>1, <1>2 DEF Flushed
<1>5. Flushed(d) \in Seq(B)
  BY <1>1, <1>4, SeqDef
<1>6. Flushed(d) \in Seq(InboxMsg)
  BY <1>3, <1>5, SeqMonotonic
<1>7. Len(Flushed(d)) = n
  BY <1>1, <1>4, <1>5, LenProperties
<1> QED  BY <1>1, <1>5, <1>6, <1>7 DEF B, Flushed

\* What the relay hears of a connection and the page of it when it is made.
Arrival(d) ==
  Presence(d, links[d] + 1, TRUE) \o Flushed(d) \o Hello(d, links[d] + 1)

\* What reaches the teacher when a page connects are events.
LEMMA ArrivalType ==
  ASSUME Shape, NEW d \in Device, links[d] + 1 \in Sid
  PROVE  /\ Presence(d, links[d] + 1, TRUE) \in Seq(InboxMsg)
         /\ Hello(d, links[d] + 1) \in Seq(InboxMsg)
         /\ Arrival(d) \in Seq(InboxMsg)
<1> DEFINE m == [type |-> "presence", device |-> d, sid |-> links[d] + 1, connected |-> TRUE]
           h == [type |-> "hello", device |-> d, sid |-> links[d] + 1]
<1>1. m \in InboxMsg /\ h \in InboxMsg
  BY DEF InboxMsg, PresenceMsg, HelloMsg
<1> HIDE DEF m, h
<1>2. << m >> \in Seq(InboxMsg) /\ << h >> \in Seq(InboxMsg)
  BY <1>1
<1>3. Presence(d, links[d] + 1, TRUE) \in Seq(InboxMsg) /\ Hello(d, links[d] + 1) \in Seq(InboxMsg)
  BY <1>2 DEF m, h, Presence, Hello
<1>4. Flushed(d) \in Seq(InboxMsg)
  BY FlushedType
<1>5. Presence(d, links[d] + 1, TRUE) \o Flushed(d) \in Seq(InboxMsg)
  BY <1>3, <1>4, ConcatProperties
<1> QED  BY <1>3, <1>5, ConcatProperties DEF Arrival

\* What a page that connects changes.
LEMMA ConnectsEffects ==
  ASSUME Shape, NEW d \in Device, PageConnects(d)
  PROVE  /\ link[d] = "down" /\ session = "lobby" /\ links[d] + 1 \in Sid
         /\ link' = [link EXCEPT ![d] = "up"] /\ links' = [links EXCEPT ![d] = @ + 1]
         /\ SIDS' = [SIDS EXCEPT ![d] = @ \cup {links[d] + 1}]
         /\ pinned' = [pinned EXCEPT ![d] = @ \cup {links[d] + 1}]
         /\ inbox' = ToTeacher(Arrival(d))
         /\ buffer' = [buffer EXCEPT ![d] = << >>]
         /\ UNCHANGED <<engine, client, teacherLink, teacherLinks, sendBuffer, session,
                        down, pages>>
<1>1. link[d] = "down" /\ session = "lobby"
  BY DEF PageConnects
<1>2. links[d] + 1 \in Sid
  <2>1. links[d] \in 0 .. MaxLinks /\ LinkShape(d)
    BY DEF Shape, Types
  <2>2. links[d] < MaxLinks
    BY <1>1, <2>1 DEF LinkShape
  <2>3. MaxLinks \in Nat
    BY ClassAssumption DEF ClassAssumption
  <2> QED  BY <2>1, <2>2, <2>3 DEF Sid
<1> QED  BY <1>1, <1>2 DEF PageConnects, Arrival, Flushed

\* A page connects.
LEMMA ShapePageConnects ==
  ASSUME Shape, NEW d \in Device, PageConnects(d)
  PROVE  Shape'
<1> DEFINE sid == links[d] + 1
<1>1. /\ link[d] = "down" /\ session = "lobby" /\ sid \in Sid
      /\ link' = [link EXCEPT ![d] = "up"] /\ links' = [links EXCEPT ![d] = sid]
      /\ SIDS' = [SIDS EXCEPT ![d] = @ \cup {sid}]
      /\ pinned' = [pinned EXCEPT ![d] = @ \cup {sid}]
      /\ inbox' = ToTeacher(Arrival(d))
      /\ buffer' = [buffer EXCEPT ![d] = << >>]
      /\ UNCHANGED <<client, teacherLink, teacherLinks, sendBuffer, session, down, page, sent>>
  BY ConnectsEffects DEF pages
<1>2. Types /\ LinkShape(d) /\ PageShape(page[d])
  BY DEF Shape
<1>3. inbox' \in Seq(InboxMsg) /\ (teacherLink # "up" => inbox' = << >>)
  BY <1>1, ArrivalType, ToTeacherType
<1>4. sid \in 0 .. MaxLinks /\ sid = links[d] + 1 /\ links[d] \in Nat
  BY <1>1, <1>2, ClassAssumption DEF Sid, Types, ClassAssumption
<1> HIDE DEF sid
<1>5. /\ link' \in [Device -> {"up", "broken", "down", "closed"}] /\ link'[d] = "up"
      /\ links' \in [Device -> 0 .. MaxLinks] /\ links'[d] = sid
      /\ SIDS' \in [Device -> SUBSET Sid] /\ SIDS'[d] = SIDS[d] \cup {sid}
      /\ pinned' \in [Device -> SUBSET Sid] /\ pinned'[d] = pinned[d] \cup {sid}
      /\ buffer' \in [Device -> Seq(AnswerMsg(Device, Sid \cup {0}))] /\ buffer'[d] = << >>
      /\ \A x \in Device \ {d} : /\ link'[x] = link[x] /\ links'[x] = links[x]
                                 /\ SIDS'[x] = SIDS[x] /\ pinned'[x] = pinned[x]
                                 /\ buffer'[x] = buffer[x]
  BY <1>1, <1>2, <1>4, EmptySeq DEF Types
<1>6. \A s \in SIDS[d] : s <= sid
  BY <1>2, <1>4 DEF LinkShape, Types, Sid
<1>7. LinkShape(d)'
  BY <1>1, <1>2, <1>4, <1>5, <1>6, EmptySeq DEF LinkShape
<1>8. /\ down' \in [Device -> Seq(PageMsg)] /\ page' \in [Device -> Page]
      /\ sent' \in [Device -> 0 .. MaxAnswers] /\ PageShape(page'[d])
  BY <1>1, <1>2 DEF Types
<1>9. \A x \in Device \ {d} :
         /\ SIDS'[x] = SIDS[x] /\ pinned'[x] = pinned[x]
         /\ link'[x] = link[x] /\ links'[x] = links[x]
         /\ down'[x] = down[x] /\ buffer'[x] = buffer[x] /\ page'[x] = page[x]
  BY <1>1, <1>5
<1> QED  BY <1>1, <1>3, <1>5, <1>7, <1>8, <1>9, PageStep

\* The page loses its link, notices, starts over, or is refused.
LEMMA ShapeLink ==
  ASSUME Shape, NEW d \in Device, NEW l \in {"broken", "down", "closed"},
         link' = [link EXCEPT ![d] = l],
         UNCHANGED <<client, teacherNet, relay, links, sent>>,
         l # "closed" => links[d] < MaxLinks,
         NEW queue \in Seq(PageMsg), down' = [down EXCEPT ![d] = queue],
         l # "closed" => queue = << >>,
         NEW kept \in Seq(AnswerMsg({d}, Sid \cup {0})), buffer' = [buffer EXCEPT ![d] = kept],
         l = "broken" => kept = << >>,
         NEW p \in Page, PageShape(p), page' = [page EXCEPT ![d] = p]
  PROVE  Shape'
<1>0. UNCHANGED <<teacherLink, teacherLinks, inbox, sendBuffer, session, SIDS, pinned>>
  BY DEF teacherNet, relay
<1>1. Types /\ LinkShape(d)
  BY DEF Shape
<1>2. kept \in Seq(AnswerMsg(Device, Sid \cup {0}))
  <2> DEFINE A == AnswerMsg({d}, Sid \cup {0})
             B == AnswerMsg(Device, Sid \cup {0})
  <2>1. A \subseteq B
    BY DEF AnswerMsg
  <2> HIDE DEF A, B
  <2>2. kept \in Seq(B)
    BY <2>1, SeqMonotonic DEF A
  <2> QED  BY <2>2 DEF B
<1>3. /\ link' \in [Device -> {"up", "broken", "down", "closed"}] /\ link'[d] = l
      /\ down' \in [Device -> Seq(PageMsg)] /\ down'[d] = queue
      /\ buffer' \in [Device -> Seq(AnswerMsg(Device, Sid \cup {0}))] /\ buffer'[d] = kept
      /\ page' \in [Device -> Page] /\ page'[d] = p
      /\ \A x \in Device \ {d} : /\ link'[x] = link[x] /\ down'[x] = down[x]
                                 /\ buffer'[x] = buffer[x] /\ page'[x] = page[x]
  BY <1>1, <1>2 DEF Types
<1>4. LinkShape(d)'
  BY <1>0, <1>1, <1>3 DEF LinkShape
<1>5. /\ inbox' \in Seq(InboxMsg) /\ (teacherLink # "up" => inbox' = << >>)
      /\ SIDS' \in [Device -> SUBSET Sid] /\ pinned' \in [Device -> SUBSET Sid]
      /\ links' \in [Device -> 0 .. MaxLinks] /\ sent' \in [Device -> 0 .. MaxAnswers]
  BY <1>0, <1>1 DEF Types, Shape, TeacherShape
<1>6. \A x \in Device \ {d} :
         /\ SIDS'[x] = SIDS[x] /\ pinned'[x] = pinned[x]
         /\ link'[x] = link[x] /\ links'[x] = links[x]
         /\ down'[x] = down[x] /\ buffer'[x] = buffer[x] /\ page'[x] = page[x]
  BY <1>0, <1>3
<1>7. PageShape(page'[d])
  BY <1>3
<1> QED  BY <1>0, <1>3, <1>4, <1>5, <1>6, <1>7, PageStep

\* A page's link is refused, breaks, is noticed to be broken, or is given up by a reload.
LEMMA ShapeLinkSteps ==
  ASSUME Shape, NEW d \in Device,
         PageRefused(d) \/ PageLinkBreaks(d) \/ PageNotices(d) \/ Reload(d)
  PROVE  Shape'
<1>1. /\ down[d] \in Seq(PageMsg) /\ << >> \in Seq(PageMsg)
      /\ buffer[d] \in Seq(AnswerMsg({d}, Sid \cup {0}))
      /\ << >> \in Seq(AnswerMsg({d}, Sid \cup {0}))
      /\ page[d] \in Page /\ PageShape(page[d])
      /\ BlankPage("error") \in Page /\ PageShape(BlankPage("error"))
      /\ FreshPage \in Page /\ PageShape(FreshPage)
  BY EmptySeq, BlankType DEF Shape, Types, LinkShape
<1>2. /\ down = [down EXCEPT ![d] = down[d]] /\ buffer = [buffer EXCEPT ![d] = buffer[d]]
      /\ page = [page EXCEPT ![d] = page[d]]
  BY DEF Shape, Types
<1>3. LinkShape(d) /\ Types
  BY DEF Shape
<1>4. CASE PageRefused(d)
  <2>1. /\ link' = [link EXCEPT ![d] = "closed"] /\ page' = [page EXCEPT ![d] = BlankPage("error")]
        /\ down' = down /\ buffer' = buffer /\ UNCHANGED <<client, teacherNet, relay, links, sent>>
    BY <1>4 DEF PageRefused
  <2>2. down' = [down EXCEPT ![d] = down[d]] /\ buffer' = [buffer EXCEPT ![d] = buffer[d]]
    BY <1>2, <2>1
  <2> QED  BY <1>1, <2>1, <2>2, ShapeLink
<1>5. CASE PageLinkBreaks(d)
  <2>1. /\ link[d] = "up" /\ links[d] < MaxLinks
        /\ link' = [link EXCEPT ![d] = "broken"] /\ page' = page
        /\ down' = [down EXCEPT ![d] = << >>]
        /\ buffer' = buffer /\ UNCHANGED <<client, teacherNet, relay, links, sent>>
    BY <1>5 DEF PageLinkBreaks, pages
  <2>2. page' = [page EXCEPT ![d] = page[d]] /\ buffer' = [buffer EXCEPT ![d] = buffer[d]]
    BY <1>2, <2>1
  <2>3. buffer[d] = << >>
    BY <1>3, <2>1 DEF LinkShape
  <2> QED  BY <1>1, <2>1, <2>2, <2>3, ShapeLink
<1>6. CASE PageNotices(d)
  <2>1. /\ link[d] = "broken" /\ link' = [link EXCEPT ![d] = "down"] /\ page' = page
        /\ down' = down /\ buffer' = buffer /\ UNCHANGED <<client, teacherNet, relay, links, sent>>
    BY <1>6 DEF PageNotices, pages
  <2>2. /\ page' = [page EXCEPT ![d] = page[d]] /\ buffer' = [buffer EXCEPT ![d] = buffer[d]]
        /\ down' = [down EXCEPT ![d] = down[d]]
    BY <1>2, <2>1
  <2>3. down[d] = << >> /\ links[d] < MaxLinks
    BY <1>3, <2>1 DEF LinkShape
  <2> QED  BY <1>1, <2>1, <2>2, <2>3, ShapeLink
<1>7. CASE Reload(d)
  <2>1. /\ links[d] < MaxLinks
        /\ link' = [link EXCEPT ![d] = "down"] /\ page' = [page EXCEPT ![d] = FreshPage]
        /\ down' = [down EXCEPT ![d] = << >>] /\ buffer' = [buffer EXCEPT ![d] = << >>]
        /\ UNCHANGED <<client, teacherNet, relay, links, sent>>
    BY <1>7 DEF Reload
  <2> QED  BY <1>1, <2>1, ShapeLink
<1> QED  BY <1>4, <1>5, <1>6, <1>7

-----------------------------------------------------------------------------
(***************************************************************************)
(* The invariant, and what follows from it.                                *)
(***************************************************************************)

\* A presence event is an event.
LEMMA PresenceType ==
  ASSUME NEW d \in Device, NEW sid \in Sid, NEW connected \in BOOLEAN
  PROVE  Presence(d, sid, connected) \in Seq(InboxMsg)
<1> DEFINE m == [type |-> "presence", device |-> d, sid |-> sid, connected |-> connected]
<1>1. m \in InboxMsg
  BY DEF InboxMsg, PresenceMsg
<1> HIDE DEF m
<1>2. << m >> \in Seq(InboxMsg)
  BY <1>1
<1> QED  BY <1>2 DEF m, Presence

\* The relay notices that a connection of a page is gone.
LEMMA ShapeRelayNotices ==
  ASSUME Shape, NEW d \in Device, NEW sid \in Sid, RelayNotices(d, sid)
  PROVE  Shape'
<1>1. /\ sid \in SIDS[d] /\ (sid # links[d] \/ link[d] # "up")
      /\ SIDS' = [SIDS EXCEPT ![d] = @ \ {sid}]
      /\ pinned' = [pinned EXCEPT ![d] = @ \ {sid}]
      /\ inbox' = ToTeacher(Presence(d, sid, FALSE))
      /\ UNCHANGED <<client, teacherLink, teacherLinks, sendBuffer, session,
                     link, links, down, buffer, page, sent>>
  BY DEF RelayNotices, pageNet, pages
<1>2. Types /\ LinkShape(d) /\ PageShape(page[d])
  BY DEF Shape
<1>3. inbox' \in Seq(InboxMsg) /\ (teacherLink # "up" => inbox' = << >>)
  BY <1>1, PresenceType, ToTeacherType
<1>4. /\ SIDS' \in [Device -> SUBSET Sid] /\ SIDS'[d] = SIDS[d] \ {sid}
      /\ pinned' \in [Device -> SUBSET Sid] /\ pinned'[d] = pinned[d] \ {sid}
      /\ \A x \in Device \ {d} : SIDS'[x] = SIDS[x] /\ pinned'[x] = pinned[x]
  BY <1>1, <1>2 DEF Types
<1>5. LinkShape(d)'
  BY <1>1, <1>2, <1>4 DEF LinkShape
<1>6. /\ link' \in [Device -> {"up", "broken", "down", "closed"}]
      /\ links' \in [Device -> 0 .. MaxLinks]
      /\ down' \in [Device -> Seq(PageMsg)]
      /\ buffer' \in [Device -> Seq(AnswerMsg(Device, Sid \cup {0}))]
      /\ page' \in [Device -> Page] /\ sent' \in [Device -> 0 .. MaxAnswers]
      /\ PageShape(page'[d])
  BY <1>1, <1>2 DEF Types
<1>7. \A x \in Device \ {d} :
         /\ SIDS'[x] = SIDS[x] /\ pinned'[x] = pinned[x]
         /\ link'[x] = link[x] /\ links'[x] = links[x]
         /\ down'[x] = down[x] /\ buffer'[x] = buffer[x] /\ page'[x] = page[x]
  BY <1>1, <1>4
<1> QED  BY <1>1, <1>3, <1>4, <1>5, <1>6, <1>7, PageStep

\* Every step of the class is one of the engine's or leaves the engine alone.
LEMMA ClassEngineStep ==
  ASSUME Shape, [Next]_vars
  PROVE  EngineStep
<1>1. CASE UNCHANGED vars
  BY <1>1, UnchangedStep DEF vars
<1>2. ASSUME NEW q \in ChoiceQuestion, TriggerLiveQuestion(q) PROVE EngineStep
  BY <1>2, TriggerStep DEF TriggerLiveQuestion
<1>3. ASSUME NEW q \in ChoiceQuestion, CloseLiveQuestion(q) PROVE EngineStep
  BY <1>3, CloseStep DEF CloseLiveQuestion
<1>4. CASE TeacherReceives
  <2> DEFINE m == Head(inbox)
  <2>0. \/ m \in HelloMsg /\ OnStudentHello(m.device, m.sid)
        \/ m \in AnswerMsg(Device, Sid) /\ OnAnswerAccepted(m.device, m)
        \/ m \in AnswerMsg(Device, Sid) /\ OnAnswerRejected(m.device, m)
        \/ m \in PresenceMsg /\ OnPresence(m.device, m)
        \/ m \in RosterMsg /\ OnRoster(m)
    BY <1>4, ReceivesCases
  <2> HIDE DEF m
  <2>1. CASE m \in HelloMsg /\ OnStudentHello(m.device, m.sid)
    <3>1. m.device \in Device /\ Engine!Hello(m.device)
      BY <2>1 DEF OnStudentHello, HelloMsg
    <3> QED  BY <3>1, HelloStep
  <2>2. CASE m \in AnswerMsg(Device, Sid) /\ OnAnswerAccepted(m.device, m)
    <3>1. /\ m.device \in Device /\ m.question \in ChoiceQuestion /\ m.answer \in Option
          /\ Engine!Accept(m.device, m.question, m.answer)
      BY <2>2 DEF OnAnswerAccepted, AnswerMsg
    <3> QED  BY <3>1, AcceptStep
  <2>3. CASE m \in AnswerMsg(Device, Sid) /\ OnAnswerRejected(m.device, m)
    BY <2>3, UnchangedStep DEF OnAnswerRejected
  <2>4. CASE m \in PresenceMsg /\ OnPresence(m.device, m)
    BY <2>4, UnchangedStep DEF OnPresence
  <2>5. CASE m \in RosterMsg /\ OnRoster(m)
    BY <2>5, UnchangedStep DEF OnRoster
  <2> QED  BY <2>0, <2>1, <2>2, <2>3, <2>4, <2>5
<1>5. CASE TeacherLinkBreaks \/ TeacherNotices \/ TeacherConnects \/ SessionEnds
  BY <1>5, UnchangedStep DEF TeacherLinkBreaks, TeacherNotices, TeacherConnects, SessionEnds
<1>6. ASSUME NEW d \in Device,
             PageConnects(d) \/ PageRefused(d) \/ PageLinkBreaks(d) \/ PageNotices(d)
             \/ Reload(d) \/ PageReceives(d) \/ Resync(d)
      PROVE  EngineStep
  <2>1. UNCHANGED engine
    BY <1>6 DEF PageConnects, PageRefused, PageLinkBreaks, PageNotices, Reload, PageReceives, Resync
  <2> QED  BY <2>1, UnchangedStep
<1>7. ASSUME NEW d \in Device,
             CancelPending(d) \/ ConfirmPending(d) \/ AckTimeout(d) \/ Resend(d)
             \/ (\E o \in Option : RequestSubmit(d, o)) \/ (\E sid \in Sid : RelayNotices(d, sid))
      PROVE  EngineStep
  <2>1. UNCHANGED engine
    BY <1>7 DEF CancelPending, ConfirmPending, AckTimeout, Resend, RequestSubmit, RelayNotices,
                onlyPage, Transmit
  <2> QED  BY <2>1, UnchangedStep
<1> QED  BY <1>1, <1>2, <1>3, <1>4, <1>5, <1>6, <1>7 DEF Next

\* The engine's part of a step: its invariant, what it shows then, how it moves.
LEMMA SoundEngine ==
  ASSUME Sound, [Next]_vars
  PROVE  EP!IInv' /\ Latest' /\ Facing /\ Facing' /\ EngineMoves
<1>1. EngineStep
  BY ClassEngineStep DEF Sound
<1>2. Facing
  BY FacingHolds DEF Sound
<1>3. EP!IInv'
  BY <1>1, EngineKept DEF Sound
<1>4. Latest' /\ EngineMoves
  BY <1>1, <1>2, EngineEffects DEF Sound
<1>5. EP!IInv' /\ Latest' => Facing'
  BY FacingHolds, PTL
<1> QED  BY <1>2, <1>3, <1>4, <1>5

\* The invariant holds at first.
LEMMA SoundInit == Init => Sound
<1> SUFFICES ASSUME Init PROVE Sound
  OBVIOUS
<1>1. EP!Init
  BY DEF Init, Engine!Init, EP!Init, EP!Question, Engine!Question
<1>2. EP!IInv
  BY <1>1, EP!InitInv, DeviceFinite, ClassAssumption DEF ClassAssumption
<1>3. Latest
  BY DEF Init, Engine!Init, Engine!Question, Latest
<1>4. FreshPage \in Page /\ PageShape(FreshPage)
  BY BlankType
<1>5. 0 \in 0 .. MaxTeacherLinks /\ 0 \in 0 .. MaxLinks /\ 0 \in 0 .. MaxAnswers
      /\ 0 < MaxTeacherLinks /\ 0 < MaxLinks
  BY ClassAssumption DEF ClassAssumption
<1>6. Types
  BY <1>4, <1>5, EmptySeq DEF Init, Types, Nothing
<1>7. TeacherShape
  BY <1>5 DEF Init, TeacherShape
<1>8. ASSUME NEW d \in Device PROVE LinkShape(d) /\ PageShape(page[d])
  BY <1>4, <1>5, EmptySeq DEF Init, LinkShape
<1> QED  BY <1>2, <1>3, <1>6, <1>7, <1>8 DEF Sound, Shape

\* Every step keeps the invariant.
LEMMA SoundStep ==
  ASSUME Sound, [Next]_vars
  PROVE  Sound'
<1>1. EP!IInv' /\ Latest' /\ Facing /\ Facing' /\ Shape
  BY SoundEngine DEF Sound
<1>2. CASE UNCHANGED vars
  <2>1. UNCHANGED <<deviceBySid, connectedSids, teacherLink, teacherLinks, inbox, sendBuffer,
                    session, SIDS, pinned, link, links, down, buffer, page, sent>>
    BY <1>2 DEF vars, client, teacherNet, relay, pageNet, pages
  <2>2. Shape'
    BY <1>1, <2>1 DEF Shape, Types, TeacherShape, LinkShape, PageShape, Nothing
  <2> QED  BY <1>1, <2>2 DEF Sound
<1>3. ASSUME NEW q \in ChoiceQuestion, TriggerLiveQuestion(q) \/ CloseLiveQuestion(q) PROVE Shape'
  BY <1>1, <1>3, ShapeTrigger, ShapeClose
<1>4. ASSUME TeacherReceives PROVE Shape'
  BY <1>1, <1>4, ShapeReceives
<1>5. ASSUME TeacherLinkBreaks \/ TeacherNotices \/ TeacherConnects \/ SessionEnds
      PROVE  Shape'
  BY <1>1, <1>5, ShapeBreaks, ShapeNotices, ShapeConnects, ShapeEnds
<1>6. ASSUME NEW d \in Device,
             PageConnects(d) \/ PageRefused(d) \/ PageLinkBreaks(d) \/ PageNotices(d)
             \/ Reload(d) \/ PageReceives(d) \/ Resync(d)
      PROVE  Shape'
  BY <1>1, <1>6, ShapePageConnects, ShapeLinkSteps, ShapePageReceives, ShapeResync
<1>7. ASSUME NEW d \in Device,
             CancelPending(d) \/ ConfirmPending(d) \/ AckTimeout(d) \/ Resend(d)
             \/ (\E o \in Option : RequestSubmit(d, o)) \/ (\E sid \in Sid : RelayNotices(d, sid))
      PROVE  Shape'
  BY <1>1, <1>7, ShapeCancel, ShapeTransmits, ShapeTimeout, ShapeRequest, ShapeRelayNotices
<1>8. CASE Next
  <2>1. Shape'
    BY <1>3, <1>4, <1>5, <1>6, <1>7, <1>8 DEF Next
  <2> QED  BY <1>1, <2>1 DEF Sound
<1> QED  BY <1>2, <1>8

\* The inductive invariant that the others build on.
THEOREM SoundAlways == Spec => []Sound
BY SoundInit, SoundStep, PTL DEF Spec

\* What the engine shows is always about the question that was opened last.
LEMMA FacingAlways == Spec => []Facing
<1>1. Sound => Facing
  BY FacingHolds DEF Sound
<1> QED  BY <1>1, SoundAlways, PTL

\* The invariant has the types of the model.
LEMMA SoundTypes == Sound => TypeOK
<1> SUFFICES ASSUME Types PROVE TypeOK
  BY DEF Sound, Shape
<1>1. InboxMsg \subseteq TeacherMessage
  BY DEF InboxMsg, TeacherMessage, HelloMsg, AnswerMsg, PresenceMsg, RosterMsg
<1>2. AnswerMsg(Device, Sid \cup {0}) \subseteq TeacherMessage
  BY DEF TeacherMessage, AnswerMsg
<1>3. Spoken \subseteq PageMessage /\ PageMsg \subseteq PageMessage
  BY DEF PageMsg, Spoken, NoQuestion, StateOf, QuestionMsg, ReceivedMsg, Notice,
         PageMessage, StateMessage
<1>4. inbox \in Seq(TeacherMessage)
  BY <1>1, SeqMonotonic DEF Types
<1>5. \A d \in Device : down[d] \in Seq(PageMessage)
  BY <1>3, SeqMonotonic DEF Types
<1>6. \A d \in Device : buffer[d] \in Seq(TeacherMessage)
  <2> DEFINE B == AnswerMsg(Device, Sid \cup {0})
  <2>1. B \subseteq TeacherMessage /\ \A d \in Device : buffer[d] \in Seq(B)
    BY <1>2 DEF Types
  <2> HIDE DEF B
  <2> QED  BY <2>1, SeqMonotonic
<1>7. \A d \in Device : sendBuffer[d] \in Seq(Item(PageMessage))
  BY <1>3, ItemMonotonic DEF Types
<1>8. /\ down \in [Device -> Seq(PageMessage)] /\ buffer \in [Device -> Seq(TeacherMessage)]
      /\ sendBuffer \in [Device -> Seq(Item(PageMessage))]
  BY <1>5, <1>6, <1>7 DEF Types
<1> QED  BY <1>4, <1>8 DEF Types, TypeOK, Item

\* The client, the links and the pages keep their types.
THEOREM ClassTypeCorrect == Spec => []TypeOK
BY SoundAlways, SoundTypes, PTL

\* Whatever is lost, late or resent on the way, the class drives the engine by the
\* engine's own steps: it implements QuizEngine.
THEOREM ClassImplementsEngine == Spec => EP!Spec
<1>1. Init => EP!Init
  BY DEF Init, Engine!Init, EP!Init, EP!Question, Engine!Question
<1>2. Sound /\ [Next]_vars => [EP!Next]_(EP!engineVars)
  BY ClassEngineStep DEF Sound, EngineStep
<1> QED  BY <1>1, <1>2, SoundAlways, PTL DEF Spec, EP!Spec

=============================================================================
