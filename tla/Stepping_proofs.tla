-------------------------- MODULE Stepping_proofs --------------------------
(***************************************************************************)
(* Theorems about Stepping, for any program, trace and breakpoints: the    *)
(* frame that is selected is on the stack, no breakpoint is passed, every  *)
(* move moves, a finish unwinds the stack and a next keeps its frame.      *)
(*                                                                         *)
(* First comes what TraceModel computes: the start and the caller of a     *)
(* frame, and the chain of steps that is shown as the stack.  The chain is *)
(* a recursive function of the step, and what can be recorded one of the   *)
(* length: both are shown to be defined, and their properties follow by    *)
(* induction, in the form of sets that contain 0 and every successor.      *)
(* Then comes GoodTrace, what is true of every trace that can be recorded, *)
(* then the invariant of the debugger, then the moves.                     *)
(***************************************************************************)
EXTENDS Stepping, SequenceTheorems, FiniteSetTheorems, WellFoundedInduction, TLAPS

-----------------------------------------------------------------------------
(* Numbers                                                                 *)

\* Every set of natural numbers has a least one.
LEMMA LeastNat ==
  ASSUME NEW T \in SUBSET Nat, T # {}
  PROVE  \E x \in T : \A y \in T : x <= y
<1> DEFINE R == OpToRel(<, Nat)
<1>1. IsWellFoundedOn(R, Nat)
  BY NatLessThanWellFounded
<1>2. \A x, y \in Nat : <<y, x>> \in R <=> y < x
  BY DEF OpToRel
<1> HIDE DEF R
<1>3. PICK x \in T : \A y \in T : ~ (<<y, x>> \in R)
  BY <1>1, WFMin
<1>4. \A y \in T : x <= y
  <2> SUFFICES ASSUME NEW y \in T PROVE x <= y
    OBVIOUS
  <2>1. x \in Nat /\ y \in Nat
    OBVIOUS
  <2>2. ~ (y < x)
    BY <1>2, <1>3, <2>1
  <2> QED
    BY <2>1, <2>2
<1> QED
  BY <1>4

\* Induction: a set that holds 0, and the next number with every number it holds.
LEMMA NatInductionSet ==
  ASSUME NEW S, 0 \in S, \A n \in Nat : n \in S => n + 1 \in S
  PROVE  Nat \subseteq S
<1> SUFFICES ASSUME Nat \ S # {} PROVE FALSE
  OBVIOUS
<1>1. PICK x \in Nat \ S : \A y \in Nat \ S : x <= y
  BY LeastNat
<1>2. x # 0 /\ x - 1 \in Nat
  OBVIOUS
<1>3. x - 1 \in S
  BY <1>1, <1>2
<1>4. (x - 1) + 1 = x
  OBVIOUS
<1> QED
  BY <1>2, <1>3, <1>4

\* What the two operators of the community modules choose.
LEMMA MinIs ==
  ASSUME NEW S \in SUBSET Nat, S # {}
  PROVE  Min(S) \in S /\ \A y \in S : Min(S) <= y
BY LeastNat DEF Min

LEMMA MaxIs ==
  ASSUME NEW n \in Nat, NEW S \in SUBSET (0 .. n), S # {}
  PROVE  Max(S) \in S /\ \A y \in S : Max(S) >= y
<1> DEFINE T == {n - y : y \in S}
<1>1. T \in SUBSET Nat /\ T # {}
  <2>1. \A y \in S : n - y \in Nat
    OBVIOUS
  <2>2. PICK y \in S : TRUE
    OBVIOUS
  <2>3. n - y \in T
    OBVIOUS
  <2> QED  BY <2>1, <2>3
<1>2. PICK x \in T : \A y \in T : x <= y
  BY <1>1, LeastNat
<1>3. PICK m \in S : x = n - m
  BY <1>2
<1>4. \A y \in S : m >= y
  <2> SUFFICES ASSUME NEW y \in S PROVE m >= y
    OBVIOUS
  <2>1. n - m <= n - y
    BY <1>2, <1>3
  <2> QED  BY <2>1
<1> QED  BY <1>4 DEF Max

LEMMA MinOfTwo ==
  ASSUME NEW a \in Nat, NEW b \in Nat
  PROVE  Min({a, b}) = IF a <= b THEN a ELSE b
<1>1. {a, b} \in SUBSET Nat /\ {a, b} # {}
  OBVIOUS
<1>2. Min({a, b}) \in {a, b} /\ \A y \in {a, b} : Min({a, b}) <= y
  BY <1>1, MinIs
<1> HIDE DEF Min
<1> QED  BY <1>2

-----------------------------------------------------------------------------
(* The stack of a step                                                     *)

Starts(t, f) == Min({j \in DOMAIN t : t[j].frame = f})
CallsBefore(t, i) == {j \in 1 .. i - 1 : t[j].depth = t[i].depth - 1}

\* The first step of a frame.
LEMMA StartsIs ==
  ASSUME NEW M, NEW t \in Seq(M), NEW i \in 1 .. Len(t)
  PROVE  LET s == Starts(t, t[i].frame)
         IN  /\ s \in 1 .. i /\ t[s].frame = t[i].frame
             /\ \A j \in 1 .. s - 1 : t[j].frame # t[i].frame
<1> DEFINE n == Len(t)
           S == {j \in DOMAIN t : t[j].frame = t[i].frame}
<1>1. n \in Nat /\ DOMAIN t = 1 .. n
  OBVIOUS
<1>2. S \in SUBSET Nat /\ i \in S /\ S # {}
  BY <1>1
<1>3. Min(S) \in S /\ \A y \in S : Min(S) <= y
  <2> HIDE DEF S
  <2> QED  BY <1>2, MinIs
<1>4. Starts(t, t[i].frame) = Min(S)
  BY DEF Starts
<1> DEFINE s == Min(S)
<1>5. s \in 1 .. i /\ t[s].frame = t[i].frame
  BY <1>1, <1>2, <1>3
<1>6. \A j \in 1 .. s - 1 : t[j].frame # t[i].frame
  <2> SUFFICES ASSUME NEW j \in 1 .. s - 1, t[j].frame = t[i].frame PROVE FALSE
    OBVIOUS
  <2>1. j \in 1 .. n /\ j \in Nat /\ s \in Nat /\ j < s
    BY <1>1, <1>5
  <2>2. j \in S
    BY <1>1, <2>1
  <2>3. s <= j
    BY <1>3, <2>2
  <2> HIDE DEF s
  <2> QED  BY <2>1, <2>3
<1> QED  BY <1>4, <1>5, <1>6

\* The step that called a frame is before the frame.
LEMMA CallerIs ==
  ASSUME NEW M, NEW t \in Seq(M), NEW i \in 1 .. Len(t)
  PROVE  LET s == Starts(t, t[i].frame)
             c == callerStep(t, t[i].frame)
         IN  /\ c \in 0 .. s - 1
             /\ c # 0 => t[c].depth = t[s].depth - 1
             /\ \A j \in c + 1 .. s - 1 : t[j].depth # t[s].depth - 1
<1> DEFINE s == Starts(t, t[i].frame)
           C == CallsBefore(t, s)
           c == callerStep(t, t[i].frame)
<1>1. s \in 1 .. i /\ i \in Nat
  BY StartsIs
<1>2. c = IF C = {} THEN 0 ELSE Max(C)
  BY DEF callerStep, Starts, CallsBefore
<1>3. \A j : j \in C <=> j \in 1 .. s - 1 /\ t[j].depth = t[s].depth - 1
  BY DEF CallsBefore
<1>4. s - 1 \in Nat
  BY <1>1
<1> HIDE DEF s, C, c
<1>5. C \in SUBSET (0 .. s - 1)
  BY <1>3, <1>4
<1>6. /\ c \in 0 .. s - 1
      /\ c # 0 => t[c].depth = t[s].depth - 1
      /\ \A j \in c + 1 .. s - 1 : t[j].depth # t[s].depth - 1
  <2>1. CASE C = {}
    BY <1>2, <1>3, <1>4, <2>1
  <2>2. CASE C # {}
    <3>1. c \in C /\ \A y \in C : c >= y
      BY <1>2, <1>4, <1>5, <2>2, MaxIs
    <3>2. \A j \in c + 1 .. s - 1 : t[j].depth # t[s].depth - 1
      <4> SUFFICES ASSUME NEW j \in c + 1 .. s - 1, t[j].depth = t[s].depth - 1 PROVE FALSE
        OBVIOUS
      <4>1. c \in 1 .. s - 1
        BY <1>3, <3>1
      <4>2. j \in 1 .. s - 1 /\ ~(c >= j)
        BY <4>1, <1>4
      <4> QED  BY <1>3, <3>1, <4>2
    <3> QED  BY <1>3, <1>4, <3>1, <3>2
  <2> QED  BY <2>1, <2>2
<1> QED  BY <1>6 DEF s, c

\* Strong induction.
LEMMA StrongInduction ==
  ASSUME NEW S, \A n \in Nat : (\A m \in 0 .. n - 1 : m \in S) => n \in S
  PROVE  Nat \subseteq S
<1> SUFFICES ASSUME Nat \ S # {} PROVE FALSE
  OBVIOUS
<1>1. PICK x \in Nat \ S : \A y \in Nat \ S : x <= y
  BY LeastNat
<1>2. \A m \in 0 .. x - 1 : m \in S
  <2> SUFFICES ASSUME NEW m \in 0 .. x - 1, m \notin S PROVE FALSE
    OBVIOUS
  <2>1. m \in Nat /\ m < x
    BY <1>1
  <2> QED  BY <1>1, <2>1
<1> QED  BY <1>1, <1>2

\* The caller of the frame of step i: what CallerIs says, for short.
Caller(t, i) == callerStep(t, t[i].frame)

LEMMA CallerBefore ==
  ASSUME NEW M, NEW t \in Seq(M), NEW i \in 1 .. Len(t)
  PROVE  Caller(t, i) \in 0 .. i - 1
<1> DEFINE s == Starts(t, t[i].frame)
           c == Caller(t, i)
<1>1. s \in 1 .. i
  BY StartsIs
<1>2. c \in 0 .. s - 1
  BY CallerIs DEF Caller
<1>3. i \in Nat
  OBVIOUS
<1> HIDE DEF s, c
<1>4. c \in 0 .. i - 1
  BY <1>1, <1>2, <1>3
<1> QED  BY <1>4 DEF c

\* f is what the recursion in Chain describes, for the first n steps.
Chains(f, t, n) ==
  f = [i \in 0 .. n |-> IF i = 0 THEN << >>
                        ELSE <<i>> \o f[callerStep(t, t[i].frame)]]

LEMMA ChainDefined ==
  ASSUME NEW M, NEW t \in Seq(M)
  PROVE  \E f : Chains(f, t, Len(t))
<1> DEFINE N0 == Len(t)
           Value(f, i) == IF i = 0 THEN << >> ELSE <<i>> \o f[Caller(t, i)]
           S == {m \in Nat : m <= N0 => \E f : f = [i \in 0 .. m |-> Value(f, i)]}
<1>0. N0 \in Nat /\ \A i \in 1 .. N0 : Caller(t, i) \in 0 .. i - 1
  BY CallerBefore
<1> HIDE DEF N0
<1>1. 0 \in S
  <2>1. [i \in 0 .. 0 |-> << >>] = [i \in 0 .. 0 |-> Value([j \in 0 .. 0 |-> << >>], i)]
    OBVIOUS
  <2>2. \E f : f = [i \in 0 .. 0 |-> Value(f, i)]
    <3> HIDE DEF Value
    <3> QED  BY <2>1
  <2> QED  BY <2>2
<1>2. ASSUME NEW m \in Nat, m \in S
      PROVE  m + 1 \in S
  <2> SUFFICES ASSUME m + 1 <= N0
               PROVE  \E f : f = [i \in 0 .. m + 1 |-> Value(f, i)]
    OBVIOUS
  <2>1. PICK f : f = [i \in 0 .. m |-> Value(f, i)]
    <3> HIDE DEF Value
    <3> QED  BY <1>0, <1>2
  <2> DEFINE g == [i \in 0 .. m + 1 |-> IF i = m + 1 THEN Value(f, i) ELSE f[i]]
  <2>2. ASSUME NEW i \in 0 .. m + 1
        PROVE  g[i] = Value(g, i)
    <3>1. i # 0 => Caller(t, i) \in 0 .. m + 1 /\ Caller(t, i) # m + 1
      <4>1. i # 0 => i \in 1 .. N0
        BY <1>0
      <4> HIDE DEF g, Value
      <4> QED  BY <1>0, <4>1
    <3>2. i # 0 => g[Caller(t, i)] = f[Caller(t, i)]
      BY <3>1
    <3>3. Value(g, i) = Value(f, i)
      BY <3>2
    <3>4. i # m + 1 => i \in 0 .. m
      OBVIOUS
    <3>5. i # m + 1 => f[i] = Value(f, i)
      <4> HIDE DEF Value
      <4> QED  BY <3>4, <2>1
    <3> QED
      BY <3>3, <3>5
  <2>3. g = [i \in 0 .. m + 1 |-> Value(g, i)]
    <3> HIDE DEF Value
    <3> QED  BY <2>2
  <2> QED
    <3> HIDE DEF Value, g
    <3> QED  BY <2>3
<1>3. Nat \subseteq S
  <2> HIDE DEF S
  <2> QED  BY <1>1, <1>2, NatInductionSet
<1>4. \E f : f = [i \in 0 .. N0 |-> Value(f, i)]
  <2> HIDE DEF Value
  <2> QED  BY <1>0, <1>3
<1> QED
  BY <1>4 DEF Chains, N0, Caller

\* The recursion of Chain: a step on the stack of its caller.
LEMMA ChainIs ==
  ASSUME NEW M, NEW t \in Seq(M)
  PROVE  /\ Chain(t)[0] = << >>
         /\ \A i \in 1 .. Len(t) : Chain(t)[i] = <<i>> \o Chain(t)[Caller(t, i)]
<1> DEFINE n == Len(t)
           F == CHOOSE f : Chains(f, t, n)
<1>0. n \in Nat
  OBVIOUS
<1>1. Chain(t) = F
  BY DEF Chain, Chains
<1>2. Chains(F, t, n)
  BY ChainDefined
<1> HIDE DEF F, n
<1>3. F[0] = << >> /\ \A i \in 1 .. n : F[i] = <<i>> \o F[Caller(t, i)]
  <2> DEFINE Value(i) == IF i = 0 THEN << >> ELSE <<i>> \o F[Caller(t, i)]
  <2>1. F = [i \in 0 .. n |-> Value(i)]
    BY <1>2 DEF Chains, Caller
  <2>2. \A i \in 0 .. n : F[i] = Value(i)
    <3> HIDE DEF Value
    <3> QED  BY <2>1
  <2>3. F[0] = Value(0) /\ \A i \in 1 .. n : F[i] = Value(i) /\ i # 0
    <3> HIDE DEF Value
    <3> QED  BY <1>0, <2>2
  <2> QED  BY <2>3
<1> QED  BY <1>1, <1>3 DEF n

\* A number that is as the start of a frame is said to be is the start of it.
LEMMA StartsUnique ==
  ASSUME NEW M, NEW t \in Seq(M), NEW i \in 1 .. Len(t), NEW s \in 1 .. Len(t),
         t[s].frame = t[i].frame, \A j \in 1 .. s - 1 : t[j].frame # t[i].frame
  PROVE  s = Starts(t, t[i].frame)
<1> DEFINE r == Starts(t, t[i].frame)
<1>1. r \in 1 .. i /\ t[r].frame = t[i].frame /\ \A j \in 1 .. r - 1 : t[j].frame # t[i].frame
  BY StartsIs
<1> HIDE DEF r
<1>2. ~(r < s) /\ ~(s < r)
  BY <1>1
<1> QED  BY <1>1, <1>2 DEF r

LEMMA CallerUnique ==
  ASSUME NEW M, NEW t \in Seq(M), NEW i \in 1 .. Len(t), NEW s, NEW c,
         s = Starts(t, t[i].frame), c \in 0 .. s - 1,
         c # 0 => t[c].depth = t[s].depth - 1,
         \A j \in c + 1 .. s - 1 : t[j].depth # t[s].depth - 1
  PROVE  c = Caller(t, i)
<1> DEFINE d == Caller(t, i)
<1>1. /\ d \in 0 .. s - 1
      /\ d # 0 => t[d].depth = t[s].depth - 1
      /\ \A j \in d + 1 .. s - 1 : t[j].depth # t[s].depth - 1
  BY CallerIs DEF Caller
<1>2. s \in Nat
  BY StartsIs
<1> HIDE DEF d
<1>3. ~(c < d) /\ ~(d < c)
  BY <1>1, <1>2
<1>4. c = d
  BY <1>1, <1>2, <1>3
<1> QED  BY <1>4 DEF d

\* One more step leaves what was before as it was.
LEMMA PrefixIs ==
  ASSUME NEW M, NEW t \in Seq(M), NEW e \in M
  PROVE  LET u == Append(t, e)
         IN  /\ u \in Seq(M) /\ Len(u) = Len(t) + 1 /\ u[Len(t) + 1] = e
             /\ \A i \in 1 .. Len(t) : u[i] = t[i]
BY AppendProperties

LEMMA PrefixCaller ==
  ASSUME NEW M, NEW t \in Seq(M), NEW e \in M, NEW i \in 1 .. Len(t)
  PROVE  Caller(Append(t, e), i) = Caller(t, i)
<1> DEFINE u == Append(t, e)
           n == Len(t)
           s == Starts(t, t[i].frame)
           c == Caller(t, i)
<1>1. /\ u \in Seq(M) /\ Len(u) = n + 1 /\ n \in Nat
      /\ \A j \in 1 .. n : u[j] = t[j]
  BY PrefixIs
<1>2. s \in 1 .. i /\ t[s].frame = t[i].frame /\ \A j \in 1 .. s - 1 : t[j].frame # t[i].frame
  BY StartsIs
<1>3. /\ c \in 0 .. s - 1
      /\ c # 0 => t[c].depth = t[s].depth - 1
      /\ \A j \in c + 1 .. s - 1 : t[j].depth # t[s].depth - 1
  BY CallerIs DEF Caller
<1> HIDE DEF u, n, s, c
<1>4. i \in 1 .. n
  BY DEF n
<1>5. i \in 1 .. Len(u) /\ s \in 1 .. Len(u) /\ s \in 1 .. n
  BY <1>1, <1>2, <1>4
<1>6. /\ u[s].frame = u[i].frame
      /\ \A j \in 1 .. s - 1 : u[j].frame # u[i].frame
  BY <1>1, <1>2, <1>4, <1>5
<1>7. s = Starts(u, u[i].frame)
  BY <1>1, <1>5, <1>6, StartsUnique
<1>8. /\ c # 0 => u[c].depth = u[s].depth - 1
      /\ \A j \in c + 1 .. s - 1 : u[j].depth # u[s].depth - 1
  BY <1>1, <1>3, <1>5
<1>9. c = Caller(u, i)
  BY <1>1, <1>3, <1>5, <1>7, <1>8, CallerUnique
<1> QED  BY <1>9 DEF c, u

LEMMA PrefixChain ==
  ASSUME NEW M, NEW t \in Seq(M), NEW e \in M
  PROVE  \A i \in 0 .. Len(t) : Chain(Append(t, e))[i] = Chain(t)[i]
<1> DEFINE u == Append(t, e)
           n == Len(t)
           S == {i \in Nat : i <= n => Chain(u)[i] = Chain(t)[i]}
<1>1. u \in Seq(M) /\ Len(u) = n + 1 /\ n \in Nat
  BY PrefixIs
<1>2. \A i \in 1 .. n : Caller(u, i) = Caller(t, i) /\ Caller(t, i) \in 0 .. i - 1
  BY PrefixCaller, CallerBefore
<1>3. /\ Chain(t)[0] = << >> /\ Chain(u)[0] = << >>
      /\ \A i \in 1 .. n : Chain(t)[i] = <<i>> \o Chain(t)[Caller(t, i)]
      /\ \A i \in 1 .. n + 1 : Chain(u)[i] = <<i>> \o Chain(u)[Caller(u, i)]
  BY <1>1, ChainIs
<1> HIDE DEF u, n
<1>4. ASSUME NEW i \in Nat, \A m \in 0 .. i - 1 : m \in S, i <= n
      PROVE  Chain(u)[i] = Chain(t)[i]
  <2>1. CASE i = 0
    BY <1>3, <2>1
  <2>2. CASE i # 0
    <3>1. i \in 1 .. n /\ i \in 1 .. n + 1
      BY <1>1, <1>4, <2>2
    <3>2. Caller(t, i) \in 0 .. i - 1 /\ Caller(u, i) = Caller(t, i)
      BY <1>2, <3>1
    <3>3. Caller(t, i) <= n
      BY <1>1, <3>1, <3>2
    <3>4. Chain(u)[Caller(t, i)] = Chain(t)[Caller(t, i)]
      BY <1>4, <3>2, <3>3
    <3> QED  BY <1>3, <3>1, <3>2, <3>4
  <2> QED  BY <2>1, <2>2
<1>5. Nat \subseteq S
  <2>1. \A i \in Nat : (\A m \in 0 .. i - 1 : m \in S) => i \in S
    BY <1>4
  <2> HIDE DEF S
  <2> QED  BY <2>1, StrongInduction
<1>6. \A i \in 0 .. n : Chain(u)[i] = Chain(t)[i]
  BY <1>1, <1>5
<1> QED  BY <1>6 DEF u, n

\* A stack begins with the step itself and goes back in the trace.
Falling(r, i) ==
  /\ r \in Seq(1 .. i) /\ Len(r) >= 1 /\ r[1] = i

LEMMA ChainFalls ==
  ASSUME NEW M, NEW t \in Seq(M)
  PROVE  /\ \A i \in 0 .. Len(t) : Chain(t)[i] \in Seq(1 .. i)
         /\ \A i \in 1 .. Len(t) : Falling(Chain(t)[i], i)
<1> DEFINE n == Len(t)
           C == Chain(t)
           S == {i \in Nat : i <= n => C[i] \in Seq(1 .. i)}
<1>1. /\ n \in Nat /\ C[0] = << >>
      /\ \A i \in 1 .. n : C[i] = <<i>> \o C[Caller(t, i)]
      /\ \A i \in 1 .. n : Caller(t, i) \in 0 .. i - 1
  BY ChainIs, CallerBefore
<1> HIDE DEF n, C
<1>2. ASSUME NEW i \in 1 .. n, C[Caller(t, i)] \in Seq(1 .. Caller(t, i))
      PROVE  C[i] \in Seq(1 .. i) /\ Falling(C[i], i)
  <2> DEFINE r == C[Caller(t, i)]
             c == Caller(t, i)
  <2>1. c \in 0 .. i - 1 /\ i \in Nat
    BY <1>1
  <2>2. r \in Seq(1 .. c) /\ C[i] = <<i>> \o r
    BY <1>1, <1>2
  <2> HIDE DEF r, c
  <2>3. 1 .. c \subseteq 1 .. i
    BY <2>1
  <2>4. r \in Seq(1 .. i) /\ <<i>> \in Seq(1 .. i) /\ Len(<<i>>) = 1
    BY <2>1, <2>2, <2>3
  <2>5. /\ C[i] \in Seq(1 .. i) /\ Len(C[i]) = 1 + Len(r)
        /\ C[i][1] = <<i>>[1]
    BY <2>2, <2>4, ConcatProperties
  <2>6. Len(r) \in Nat
    BY <2>4
  <2> QED  BY <2>5, <2>6 DEF Falling
<1>3. ASSUME NEW i \in Nat, \A m \in 0 .. i - 1 : m \in S, i <= n
      PROVE  C[i] \in Seq(1 .. i)
  <2>1. CASE i = 0
    <3>1. << >> \in Seq(1 .. i)
      OBVIOUS
    <3> QED  BY <1>1, <2>1, <3>1
  <2>2. CASE i # 0
    <3>1. i \in 1 .. n
      BY <1>1, <1>3, <2>2
    <3>2. Caller(t, i) \in 0 .. i - 1 /\ Caller(t, i) <= n
      BY <1>1, <3>1
    <3>3. C[Caller(t, i)] \in Seq(1 .. Caller(t, i))
      BY <1>3, <3>2
    <3> QED  BY <1>2, <3>1, <3>3
  <2> QED  BY <2>1, <2>2
<1>4. Nat \subseteq S
  <2>1. \A i \in Nat : (\A m \in 0 .. i - 1 : m \in S) => i \in S
    BY <1>3
  <2> HIDE DEF S
  <2> QED  BY <2>1, StrongInduction
<1>5. \A i \in 0 .. n : C[i] \in Seq(1 .. i)
  BY <1>1, <1>4
<1>6. \A i \in 1 .. n : Falling(C[i], i)
  <2> SUFFICES ASSUME NEW i \in 1 .. n PROVE Falling(C[i], i)
    OBVIOUS
  <2>1. Caller(t, i) \in 0 .. n
    BY <1>1
  <2> QED  BY <1>2, <1>5, <2>1
<1> QED  BY <1>5, <1>6 DEF n, C

\* The steps on the stack at step i.
Stack(t, i) == ToSet(Chain(t)[i])

LEMMA StackIs ==
  ASSUME NEW M, NEW t \in Seq(M), NEW i \in 1 .. Len(t)
  PROVE  LET a == Chain(t)[i]
             b == Chain(t)[Caller(t, i)]
         IN  /\ a \in Seq(1 .. i) /\ b \in Seq(1 .. Caller(t, i))
             /\ Len(a) = Len(b) + 1 /\ a[1] = i
             /\ \A k \in 1 .. Len(b) : a[k + 1] = b[k]
<1> DEFINE c == Caller(t, i)
           a == Chain(t)[i]
           b == Chain(t)[c]
<1>1. c \in 0 .. i - 1 /\ i \in Nat
  BY CallerBefore
<1>2. c \in 0 .. Len(t) /\ i \in 0 .. Len(t)
  <2> HIDE DEF c
  <2> QED  BY <1>1
<1>3. a = <<i>> \o b /\ b \in Seq(1 .. c) /\ a \in Seq(1 .. i)
  BY <1>2, ChainIs, ChainFalls
<1> HIDE DEF a, b, c
<1>4. b \in Seq(1 .. i)
  <2>1. 1 .. c \subseteq 1 .. i
    BY <1>1
  <2> QED  BY <1>3, <2>1
<1>5. <<i>> \in Seq(1 .. i) /\ Len(<<i>>) = 1 /\ <<i>>[1] = i
  BY <1>1
<1>6. /\ Len(a) = 1 + Len(b)
      /\ \A k \in 1 .. Len(a) : a[k] = IF k <= 1 THEN <<i>>[k] ELSE b[k - 1]
  BY <1>3, <1>4, <1>5, ConcatProperties
<1>7. Len(b) \in Nat
  BY <1>4
<1>8. /\ Len(a) = Len(b) + 1 /\ a[1] = i
      /\ \A k \in 1 .. Len(b) : a[k + 1] = b[k]
  BY <1>5, <1>6, <1>7
<1> QED  BY <1>3, <1>8 DEF a, b, c

LEMMA StackSets ==
  ASSUME NEW M, NEW t \in Seq(M)
  PROVE  /\ Stack(t, 0) = {}
         /\ \A i \in 1 .. Len(t) : Stack(t, i) = {i} \cup Stack(t, Caller(t, i))
         /\ \A i \in 1 .. Len(t) : Stack(t, i) \subseteq 1 .. i
<1>1. Stack(t, 0) = {}
  BY ChainIs DEF Stack, ToSet
<1>2. ASSUME NEW i \in 1 .. Len(t)
      PROVE  /\ Stack(t, i) = {i} \cup Stack(t, Caller(t, i))
             /\ Stack(t, i) \subseteq 1 .. i
  <2> DEFINE a == Chain(t)[i]
             b == Chain(t)[Caller(t, i)]
             m == Len(b)
  <2>1. /\ a \in Seq(1 .. i) /\ b \in Seq(1 .. Caller(t, i))
        /\ Len(a) = m + 1 /\ a[1] = i
        /\ \A k \in 1 .. m : a[k + 1] = b[k]
    BY StackIs
  <2>2. Stack(t, i) = {a[k] : k \in DOMAIN a} /\ Stack(t, Caller(t, i)) = {b[k] : k \in DOMAIN b}
    BY DEF Stack, ToSet
  <2>3. DOMAIN a = 1 .. m + 1 /\ DOMAIN b = 1 .. m /\ m \in Nat
    BY <2>1
  <2> HIDE DEF a, b, m
  <2>4. \A k \in 1 .. m + 1 : k = 1 \/ k - 1 \in 1 .. m
    BY <2>3
  <2>5. \A k \in 1 .. m + 1 : a[k] = i \/ \E j \in 1 .. m : a[k] = b[j]
    <3> SUFFICES ASSUME NEW k \in 1 .. m + 1, k # 1 PROVE \E j \in 1 .. m : a[k] = b[j]
      BY <2>1
    <3>1. k - 1 \in 1 .. m /\ (k - 1) + 1 = k
      BY <2>4
    <3> QED  BY <2>1, <3>1
  <2>6. \A j \in 1 .. m : j + 1 \in 1 .. m + 1 /\ a[j + 1] = b[j]
    BY <2>1, <2>3
  <2>7. 1 \in 1 .. m + 1
    BY <2>3
  <2>8. Stack(t, i) = {i} \cup Stack(t, Caller(t, i))
    <3>1. ASSUME NEW x \in Stack(t, i) PROVE x = i \/ x \in Stack(t, Caller(t, i))
      BY <2>2, <2>3, <2>5, <3>1
    <3>2. i \in Stack(t, i)
      BY <2>1, <2>2, <2>3, <2>7
    <3>3. ASSUME NEW x \in Stack(t, Caller(t, i)) PROVE x \in Stack(t, i)
      <4>1. PICK j \in 1 .. m : x = b[j]
        BY <2>2, <2>3, <3>3
      <4>2. j + 1 \in DOMAIN a /\ x = a[j + 1]
        BY <2>3, <2>6, <4>1
      <4> QED  BY <2>2, <4>2
    <3> QED  BY <3>1, <3>2, <3>3
  <2>9. Stack(t, i) \subseteq 1 .. i
    BY <2>1, <2>2, <2>3
  <2> QED  BY <2>8, <2>9
<1> QED  BY <1>1, <1>2

\* What is on the stack of a step on the stack is on the stack.
LEMMA StackNests ==
  ASSUME NEW M, NEW t \in Seq(M)
  PROVE  \A i \in 1 .. Len(t) : \A o \in Stack(t, i) : Stack(t, o) \subseteq Stack(t, i)
<1> DEFINE n == Len(t)
           Nests(i) == \A o \in Stack(t, i) : Stack(t, o) \subseteq Stack(t, i)
           S == {i \in Nat : i <= n => Nests(i)}
<1>1. /\ n \in Nat /\ Stack(t, 0) = {}
      /\ \A i \in 1 .. n : Stack(t, i) = {i} \cup Stack(t, Caller(t, i))
      /\ \A i \in 1 .. n : Caller(t, i) \in 0 .. i - 1
  BY StackSets, CallerBefore
<1> HIDE DEF n
<1>2. ASSUME NEW i \in Nat, \A m \in 0 .. i - 1 : m \in S, i <= n
      PROVE  Nests(i)
  <2>1. CASE i = 0
    BY <1>1, <2>1
  <2>2. CASE i # 0
    <3>1. i \in 1 .. n
      BY <1>1, <1>2, <2>2
    <3>2. Caller(t, i) \in 0 .. i - 1 /\ Caller(t, i) <= n
      BY <1>1, <3>1
    <3>3. Nests(Caller(t, i))
      BY <1>2, <3>2
    <3> QED  BY <1>1, <3>1, <3>3
  <2> QED  BY <2>1, <2>2
<1>3. Nat \subseteq S
  <2>1. \A i \in Nat : (\A m \in 0 .. i - 1 : m \in S) => i \in S
    BY <1>2
  <2> HIDE DEF S
  <2> QED  BY <2>1, StrongInduction
<1>4. \A i \in 1 .. n : Nests(i)
  <2> HIDE DEF Nests
  <2> QED  BY <1>1, <1>3
<1> QED  BY <1>4 DEF n

\* The rest of a stack, below one of its steps, is the stack of the caller.
Rest(a, k, r) == Len(r) = Len(a) - k /\ \A j \in 1 .. Len(r) : r[j] = a[k + j]

LEMMA StackRests ==
  ASSUME NEW M, NEW t \in Seq(M)
  PROVE  \A i \in 1 .. Len(t) : \A k \in 1 .. Len(Chain(t)[i]) :
             Rest(Chain(t)[i], k, Chain(t)[Caller(t, Chain(t)[i][k])])
<1> DEFINE n == Len(t)
           C == Chain(t)
           Rests(i) == \A k \in 1 .. Len(C[i]) : Rest(C[i], k, C[Caller(t, C[i][k])])
           S == {i \in Nat : i <= n => Rests(i)}
<1>1. /\ n \in Nat /\ C[0] = << >>
      /\ \A i \in 1 .. n : Caller(t, i) \in 0 .. i - 1
  BY ChainIs, CallerBefore
<1>2. \A i \in 1 .. n : /\ Len(C[Caller(t, i)]) \in Nat
                        /\ Len(C[i]) = Len(C[Caller(t, i)]) + 1 /\ C[i][1] = i
                        /\ \A k \in 1 .. Len(C[Caller(t, i)]) : C[i][k + 1] = C[Caller(t, i)][k]
  <2> SUFFICES ASSUME NEW i \in 1 .. n
               PROVE  /\ Len(C[Caller(t, i)]) \in Nat
                      /\ Len(C[i]) = Len(C[Caller(t, i)]) + 1 /\ C[i][1] = i
                      /\ \A k \in 1 .. Len(C[Caller(t, i)]) : C[i][k + 1] = C[Caller(t, i)][k]
    OBVIOUS
  <2>1. C[Caller(t, i)] \in Seq(1 .. Caller(t, i))
    BY StackIs
  <2>2. Len(C[Caller(t, i)]) \in Nat
    BY <2>1
  <2> QED  BY <2>2, StackIs
<1> HIDE DEF n, C
<1>3. ASSUME NEW i \in Nat, \A m \in 0 .. i - 1 : m \in S, i <= n
      PROVE  Rests(i)
  <2>1. CASE i = 0
    BY <1>1, <2>1
  <2>2. CASE i # 0
    <3>1. i \in 1 .. n
      BY <1>1, <1>3, <2>2
    <3> DEFINE c == Caller(t, i)
               a == C[i]
               b == C[c]
    <3>2. c \in 0 .. i - 1 /\ c <= n
      BY <1>1, <3>1
    <3>3. Rests(c)
      BY <1>3, <3>2
    <3>4. /\ Len(b) \in Nat /\ Len(a) = Len(b) + 1 /\ a[1] = i
          /\ \A k \in 1 .. Len(b) : a[k + 1] = b[k]
      BY <1>2, <3>1
    <3> SUFFICES ASSUME NEW k \in 1 .. Len(a) PROVE Rest(a, k, C[Caller(t, a[k])])
      OBVIOUS
    <3>5. CASE k = 1
      <4>1. C[Caller(t, a[k])] = b
        BY <3>4, <3>5
      <4> HIDE DEF a, b
      <4>2. \A j \in 1 .. Len(b) : b[j] = a[1 + j]
        BY <3>4
      <4> QED  BY <3>4, <3>5, <4>1, <4>2 DEF Rest
    <3>6. CASE k # 1
      <4> DEFINE m == k - 1
                 r == C[Caller(t, b[m])]
      <4>1. m \in 1 .. Len(b) /\ m + 1 = k
        BY <3>4, <3>6
      <4>2. a[k] = b[m]
        BY <3>4, <4>1
      <4>3. Rest(b, m, r)
        BY <3>3, <4>1
      <4>4. C[Caller(t, a[k])] = r
        BY <4>2
      <4> HIDE DEF a, b, r, m
      <4>5. Len(r) = Len(a) - k
        <5>1. Len(r) = Len(b) - m /\ Len(a) = Len(b) + 1 /\ Len(b) \in Nat /\ m \in Nat
          BY <3>4, <4>1, <4>3 DEF Rest
        <5> QED  BY <4>1, <5>1
      <4>6. \A j \in 1 .. Len(r) : r[j] = a[k + j]
        <5> SUFFICES ASSUME NEW j \in 1 .. Len(r) PROVE r[j] = a[k + j]
          OBVIOUS
        <5>1. m + j \in 1 .. Len(b) /\ (m + j) + 1 = k + j
          BY <3>4, <4>1, <4>3 DEF Rest
        <5>2. a[(m + j) + 1] = b[m + j]
          BY <3>4, <5>1
        <5>3. r[j] = b[m + j]
          BY <4>3 DEF Rest
        <5> QED  BY <5>1, <5>2, <5>3
      <4> QED  BY <4>4, <4>5, <4>6 DEF Rest
    <3> QED  BY <3>5, <3>6
  <2> QED  BY <2>1, <2>2
<1>4. Nat \subseteq S
  <2>1. \A i \in Nat : (\A m \in 0 .. i - 1 : m \in S) => i \in S
    BY <1>3
  <2> HIDE DEF S
  <2> QED  BY <2>1, StrongInduction
<1>5. \A i \in 1 .. n : Rests(i)
  <2> HIDE DEF Rests
  <2> QED  BY <1>1, <1>4
<1> QED  BY <1>5 DEF n, C

-----------------------------------------------------------------------------
(* What is true of every trace that can be recorded                        *)

Step == [line : Line, frame : Nat, depth : Nat]

\* Frames are numbered in the order they start in.
Numbered(t) == \A i \in 1 .. Len(t) : t[i].frame \in 1 .. i /\ t[i].depth >= 1

\* A frame stays at its depth.
OneDepth(t) == \A i, j \in 1 .. Len(t) :
                  t[i].frame = t[j].frame => t[i].depth = t[j].depth

\* A frame that is not the outermost starts after a step one level up.
Called(t) ==
  \A i \in 1 .. Len(t) : t[i].depth > 1 =>
      \E j \in 1 .. i - 1 : /\ t[j].depth = t[i].depth - 1
                            /\ \A k \in 1 .. j : t[k].frame # t[i].frame

\* Since a step on the stack nothing ran but what it called.
Stacked(t) ==
  \A i \in 1 .. Len(t) : \A o \in Stack(t, i) : \A m \in o + 1 .. i :
      t[m].depth > t[o].depth

\* Between two steps of a frame nothing runs but the frame and what it calls.
Nested(t) ==
  \A j, i, k \in 1 .. Len(t) :
      j <= i /\ i <= k /\ t[j].frame = t[k].frame =>
          t[i].frame = t[j].frame \/ t[i].depth > t[j].depth

GoodTrace(t) ==
  /\ t \in Seq(Step)
  /\ Numbered(t) /\ OneDepth(t) /\ Called(t) /\ Stacked(t) /\ Nested(t)

\* A step goes on with a frame on the stack, or calls a new one from it.
GoesOnWith(t, s, o) == s.frame = t[o].frame /\ s.depth = t[o].depth
CallsFrom(t, s, o) ==
  /\ s.depth = t[o].depth + 1
  /\ s.frame \in 1 .. Len(t) + 1 /\ \A j \in 1 .. Len(t) : t[j].frame # s.frame

LEMMA StackBelow ==
  ASSUME NEW t, GoodTrace(t), NEW i \in 1 .. Len(t), NEW o \in Stack(t, i), o # i
  PROVE  o \in 1 .. i - 1 /\ t[i].depth > t[o].depth
<1>1. o \in 1 .. i
  BY StackSets DEF GoodTrace
<1>2. o \in 1 .. i - 1 /\ i \in o + 1 .. i
  BY <1>1
<1> QED  BY <1>2 DEF GoodTrace, Stacked

LEMMA RecordedSteps ==
  ASSUME NEW t, GoodTrace(t), Len(t) >= 1, NEW s \in Recordable(t)
  PROVE  /\ s \in Step
         /\ \E o \in Stack(t, Len(t)) : GoesOnWith(t, s, o) \/ CallsFrom(t, s, o)
<1> DEFINE n == Len(t)
           st == Chain(t)[n]
           frms == {x.frame : x \in ToSet(t)}
           serial == 1 + Max(frms)
           reached == {t[st[k]] : k \in {k \in DOMAIN st :
                           \A m \in 1 .. k - 1 : t[st[m]].line \in Closing}}
           goesOn == {[x EXCEPT !.line = l] : x \in {r \in reached : r.line \notin Closing},
                                              l \in Line}
           depths == (1 .. MaxDepth) \cap {x.depth + 1 : x \in reached}
           calls == [line : Entry, frame : {serial}, depth : depths]
<1>1. s \in goesOn \cup calls
  BY DEF Recordable
<1>2. t \in Seq(Step) /\ n \in Nat /\ n \in 1 .. n /\ DOMAIN t = 1 .. n
      /\ \A i \in 1 .. n : t[i] \in Step /\ t[i].frame \in 1 .. i
  BY DEF GoodTrace, Numbered
<1>3. \A x \in reached : \E o \in Stack(t, n) : x = t[o]
  BY DEF Stack, ToSet
<1>4. \A o \in Stack(t, n) : o \in 1 .. n /\ t[o] \in Step
  BY <1>2, StackSets
<1> HIDE DEF reached
<1>5. CASE s \in goesOn
  <2>1. PICK x \in reached, l \in Line : s = [x EXCEPT !.line = l]
    BY <1>5
  <2>2. PICK o \in Stack(t, n) : x = t[o]
    BY <1>3
  <2>3. x \in Step
    BY <1>4, <2>2
  <2>4. s \in Step /\ s.frame = x.frame /\ s.depth = x.depth
    BY <2>1, <2>3 DEF Step
  <2> QED  BY <2>2, <2>4 DEF GoesOnWith
<1>6. CASE s \in calls
  <2>1. s.line \in Entry /\ s.frame = serial /\ s.depth \in depths
    BY <1>6
  <2>2. PICK x \in reached : s.depth = x.depth + 1
    BY <2>1
  <2>3. PICK o \in Stack(t, n) : x = t[o]
    BY <1>3
  <2>4. frms \in SUBSET (0 .. n) /\ frms # {} /\ \A j \in 1 .. n : t[j].frame \in frms
    <3>1. \A j \in 1 .. n : t[j].frame \in frms
      BY <1>2 DEF ToSet
    <3>2. ASSUME NEW f \in frms PROVE f \in 0 .. n
      <4>1. PICK j \in 1 .. n : f = t[j].frame
        BY <1>2, <3>2 DEF ToSet
      <4> QED  BY <1>2, <4>1
    <3> QED  BY <1>2, <3>1, <3>2
  <2> HIDE DEF frms
  <2>5. Max(frms) \in frms /\ \A f \in frms : Max(frms) >= f
    BY <1>2, <2>4, MaxIs
  <2> DEFINE top == Max(frms)
  <2>10. top \in frms /\ top \in 0 .. n /\ \A f \in frms : top >= f
    <3>1. frms \subseteq 0 .. n
      BY <2>4
    <3> QED  BY <2>5, <3>1
  <2> HIDE DEF top
  <2>11. serial = 1 + top
    BY DEF top
  <2>6. serial \in 1 .. n + 1
    <3> HIDE DEF n, serial
    <3>1. n \in Nat
      BY <1>2
    <3> QED  BY <2>10, <2>11, <3>1
  <2>7. \A j \in 1 .. n : t[j].frame # serial
    <3> SUFFICES ASSUME NEW j \in 1 .. n, t[j].frame = serial PROVE FALSE
      OBVIOUS
    <3>1. t[j].frame \in frms
      BY <2>4
    <3>2. top >= 1 + top
      BY <2>10, <2>11, <3>1
    <3> QED  BY <2>10, <3>2
  <2>8. s \in Step
    <3>1. Entry \subseteq Line
      BY SteppingAssumption
    <3>2. depths \subseteq Nat
      OBVIOUS
    <3>3. serial \in Nat
      BY <2>6
    <3> HIDE DEF serial, depths
    <3> QED  BY <1>6, <3>1, <3>2, <3>3 DEF Step
  <2> HIDE DEF serial
  <2>9. CallsFrom(t, s, o)
    BY <2>1, <2>2, <2>3, <2>6, <2>7 DEF CallsFrom, serial
  <2> QED  BY <2>8, <2>9
<1> QED  BY <1>1, <1>5, <1>6

\* The stack of a step that a trace gets: the step, on a stack that was there.
LEMMA NewStack ==
  ASSUME NEW t, GoodTrace(t), NEW s \in Step, NEW o \in Stack(t, Len(t)), Len(t) >= 1,
         GoesOnWith(t, s, o) \/ CallsFrom(t, s, o)
  PROVE  LET u == Append(t, s)
             n == Len(t)
         IN  /\ \A i \in 0 .. n : Stack(u, i) = Stack(t, i)
             /\ \A p \in Stack(u, n + 1) :
                   \/ p = n + 1
                   \/ /\ p \in Stack(t, n) /\ p \in 1 .. n
                      /\ s.depth > t[p].depth
<1> DEFINE u == Append(t, s)
           n == Len(t)
           c == Caller(u, n + 1)
<1>1. /\ t \in Seq(Step) /\ n \in Nat /\ n \in 1 .. n
      /\ u \in Seq(Step) /\ Len(u) = n + 1 /\ u[n + 1] = s
      /\ \A i \in 1 .. n : u[i] = t[i]
  BY PrefixIs DEF GoodTrace
<1>2. \A i \in 0 .. n : Stack(u, i) = Stack(t, i)
  BY <1>1, PrefixChain DEF Stack
<1>3. /\ Stack(t, n) \subseteq 1 .. n
      /\ \A i \in 1 .. n : Stack(t, i) = {i} \cup Stack(t, Caller(t, i))
      /\ \A i \in 1 .. n : Stack(t, i) \subseteq 1 .. i
      /\ \A p \in Stack(t, n) : Stack(t, p) \subseteq Stack(t, n)
      /\ Stack(t, 0) = {}
  BY <1>1, StackSets, StackNests
<1>4. o \in Stack(t, n) /\ o \in 1 .. n
  BY <1>3
<1>5. n + 1 \in 1 .. Len(u)
  BY <1>1
<1>6. Stack(u, n + 1) = {n + 1} \cup Stack(u, c)
  BY <1>1, <1>5, StackSets
<1>7. \A i \in 1 .. n : t[i] \in Step
  BY <1>1
<1> HIDE DEF u, n, c
<1>8. CASE GoesOnWith(t, s, o)
  <2>1. c = callerStep(u, s.frame) /\ s.frame = t[o].frame /\ s.depth = t[o].depth
    BY <1>1, <1>8 DEF c, Caller, GoesOnWith
  <2>2. Caller(u, o) = Caller(t, o) /\ Caller(t, o) \in 0 .. o - 1
    BY <1>1, <1>4, PrefixCaller, CallerBefore DEF u, n
  <2>3. c = Caller(t, o)
    BY <1>1, <1>4, <2>1, <2>2 DEF Caller
  <2>4. Stack(u, c) = Stack(t, c) /\ Stack(t, c) \subseteq Stack(t, o)
    <3>1. c \in 0 .. n
      BY <1>1, <1>4, <2>2, <2>3
    <3> QED  BY <1>2, <1>3, <1>4, <2>3, <3>1
  <2>5. ASSUME NEW p \in Stack(t, c)
        PROVE  p \in Stack(t, n) /\ p \in 1 .. n /\ s.depth > t[p].depth
    <3>1. p \in Stack(t, o) /\ p \in Stack(t, n) /\ p \in 1 .. n
      BY <1>3, <1>4, <2>4
    <3>2. p # o
      <4>1. CASE c = 0
        BY <1>3, <4>1
      <4>2. CASE c # 0
        <5>1. c \in 1 .. n /\ c \in 1 .. o - 1
          BY <1>1, <1>4, <2>2, <2>3, <4>2
        <5>2. p \in 1 .. c
          BY <1>3, <5>1
        <5> QED  BY <1>4, <5>1, <5>2
      <4> QED  BY <4>1, <4>2
    <3>3. t[o].depth > t[p].depth
      BY <1>4, <3>1, <3>2, StackBelow DEF n
    <3> QED  BY <2>1, <3>1, <3>3
  <2> QED  BY <1>2, <1>6, <2>4, <2>5 DEF u, n
<1>9. CASE CallsFrom(t, s, o)
  <2>1. /\ s.depth = t[o].depth + 1
        /\ \A j \in 1 .. n : t[j].frame # s.frame
    BY <1>9 DEF CallsFrom, n
  <2>2. n + 1 = Starts(u, u[n + 1].frame)
    <3>1. \A j \in 1 .. (n + 1) - 1 : u[j].frame # u[n + 1].frame
      BY <1>1, <2>1
    <3> QED  BY <1>1, <1>5, <3>1, StartsUnique
  <2>3. t[o].depth \in Nat /\ s.depth - 1 = t[o].depth
    BY <1>4, <1>7, <2>1 DEF Step
  <2>4. \A j \in o + 1 .. (n + 1) - 1 : u[j].depth # u[n + 1].depth - 1
    <3> SUFFICES ASSUME NEW j \in o + 1 .. (n + 1) - 1, u[j].depth = u[n + 1].depth - 1
                 PROVE  FALSE
      OBVIOUS
    <3>1. j \in o + 1 .. n /\ j \in 1 .. n
      BY <1>1, <1>4
    <3>2. t[j].depth > t[o].depth
      BY <1>1, <3>1 DEF GoodTrace, Stacked, n
    <3> QED  BY <1>1, <2>3, <3>1, <3>2
  <2>5. u[o].depth = u[n + 1].depth - 1
    BY <1>1, <1>4, <2>3
  <2>6. o \in 0 .. (n + 1) - 1
    BY <1>1, <1>4
  <2>7. o = c
    BY <1>1, <1>5, <2>2, <2>4, <2>5, <2>6, CallerUnique DEF c
  <2>8. Stack(u, c) = Stack(t, o)
    BY <1>2, <1>4, <2>7
  <2>9. ASSUME NEW p \in Stack(t, o)
        PROVE  p \in Stack(t, n) /\ p \in 1 .. n /\ s.depth > t[p].depth
    <3>1. p \in Stack(t, n) /\ p \in 1 .. n
      BY <1>3, <1>4
    <3>2. CASE p = o
      BY <2>1, <2>3, <3>1, <3>2
    <3>3. CASE p # o
      <4>1. t[o].depth > t[p].depth
        BY <1>4, <3>3, StackBelow DEF n
      <4>2. t[p].depth \in Nat
        BY <1>7, <3>1 DEF Step
      <4> QED  BY <2>1, <2>3, <3>1, <4>1, <4>2
    <3> QED  BY <3>2, <3>3
  <2> QED  BY <1>2, <1>6, <2>8, <2>9 DEF u, n
<1> QED  BY <1>8, <1>9

LEMMA GoodGrows ==
  ASSUME NEW t, GoodTrace(t), Len(t) >= 1, NEW s \in Recordable(t)
  PROVE  GoodTrace(Append(t, s)) /\ Len(Append(t, s)) = Len(t) + 1
<1> DEFINE u == Append(t, s)
           n == Len(t)
<1>1. PICK o \in Stack(t, n) : GoesOnWith(t, s, o) \/ CallsFrom(t, s, o)
  BY RecordedSteps
<1>2. s \in Step
  BY RecordedSteps
<1>3. /\ t \in Seq(Step) /\ n \in Nat /\ n \in 1 .. n
      /\ u \in Seq(Step) /\ Len(u) = n + 1 /\ u[n + 1] = s
      /\ \A i \in 1 .. n : u[i] = t[i]
  BY <1>2, PrefixIs DEF GoodTrace
<1>4. /\ \A i \in 0 .. n : Stack(u, i) = Stack(t, i)
      /\ \A p \in Stack(u, n + 1) :
             p = n + 1 \/ (p \in Stack(t, n) /\ p \in 1 .. n /\ s.depth > t[p].depth)
  BY <1>1, <1>2, NewStack
<1>5. o \in 1 .. n
  BY <1>3, StackSets
<1>6. /\ Numbered(t) /\ OneDepth(t) /\ Called(t) /\ Stacked(t) /\ Nested(t)
      /\ \A i \in 1 .. n : t[i] \in Step /\ t[i].frame \in Nat /\ t[i].depth \in Nat
  <2>1. \A i \in 1 .. n : t[i] \in Step
    BY <1>3
  <2>2. \A x \in Step : x.frame \in Nat /\ x.depth \in Nat
    BY DEF Step
  <2> QED  BY <2>1, <2>2 DEF GoodTrace
<1>7. \A m \in o + 1 .. n : m \in 1 .. n /\ t[m].depth > t[o].depth
  BY <1>3, <1>5, <1>6 DEF Stacked
<1>8. \/ GoesOnWith(t, s, o)
      \/ CallsFrom(t, s, o)
  BY <1>1
<1>9. \A i \in 1 .. n + 1 : i = n + 1 \/ i \in 1 .. n
  BY <1>3
<1>10. s.depth \in Nat /\ s.frame \in Nat
  BY <1>2 DEF Step
<1> HIDE DEF u, n
<1>11. Numbered(u)
  <2>1. s.frame \in 1 .. n + 1 /\ s.depth >= 1
    BY <1>3, <1>5, <1>6, <1>8, <1>10 DEF GoesOnWith, CallsFrom, Numbered, n
  <2>2. \A i \in 1 .. n : t[i].frame \in 1 .. i /\ t[i].depth >= 1
    BY <1>6 DEF Numbered, n
  <2> QED  BY <1>3, <1>9, <2>1, <2>2 DEF Numbered
<1>12. OneDepth(u)
  <2>1. \A i, j \in 1 .. n : t[i].frame = t[j].frame => t[i].depth = t[j].depth
    BY <1>6 DEF OneDepth, n
  <2>2. \A i \in 1 .. n : t[i].frame = s.frame => t[i].depth = s.depth
    BY <1>5, <1>8, <2>1 DEF GoesOnWith, CallsFrom, n
  <2> QED  BY <1>3, <1>9, <2>1, <2>2 DEF OneDepth
<1>13. Called(u)
  <2>1. \A i \in 1 .. n : t[i].depth > 1 =>
            \E j \in 1 .. i - 1 : /\ t[j].depth = t[i].depth - 1
                                  /\ \A k \in 1 .. j : t[k].frame # t[i].frame
    BY <1>6 DEF Called, n
  <2>2. ASSUME NEW i \in 1 .. n, t[i].depth > 1
        PROVE  \E j \in 1 .. i - 1 : /\ u[j].depth = u[i].depth - 1
                                     /\ \A k \in 1 .. j : u[k].frame # u[i].frame
    <3>1. PICK j \in 1 .. i - 1 : /\ t[j].depth = t[i].depth - 1
                                  /\ \A k \in 1 .. j : t[k].frame # t[i].frame
      BY <2>1, <2>2
    <3>2. j \in 1 .. n /\ \A k \in 1 .. j : k \in 1 .. n
      BY <1>3
    <3> QED  BY <1>3, <3>1, <3>2
  <2>3. ASSUME s.depth > 1
        PROVE  \E j \in 1 .. n : /\ u[j].depth = s.depth - 1
                                 /\ \A k \in 1 .. j : u[k].frame # s.frame
    <3>1. CASE GoesOnWith(t, s, o)
      <4>1. PICK j \in 1 .. o - 1 : /\ t[j].depth = t[o].depth - 1
                                    /\ \A k \in 1 .. j : t[k].frame # t[o].frame
        BY <1>5, <2>1, <2>3, <3>1 DEF GoesOnWith
      <4>2. j \in 1 .. n /\ \A k \in 1 .. j : k \in 1 .. n
        BY <1>3, <1>5
      <4> QED  BY <1>3, <3>1, <4>1, <4>2 DEF GoesOnWith
    <3>2. CASE CallsFrom(t, s, o)
      <4>1. t[o].depth = s.depth - 1 /\ \A j \in 1 .. n : t[j].frame # s.frame
        BY <1>5, <1>6, <3>2 DEF CallsFrom, n
      <4>2. \A k \in 1 .. o : k \in 1 .. n
        BY <1>3, <1>5
      <4> QED  BY <1>3, <1>5, <4>1, <4>2
    <3> QED  BY <1>8, <3>1, <3>2
  <2>4. (n + 1) - 1 = n
    BY <1>3
  <2> QED  BY <1>3, <1>9, <2>2, <2>3, <2>4 DEF Called
<1>14. Stacked(u)
  <2>1. \A i \in 1 .. n : \A p \in Stack(t, i) : \A m \in p + 1 .. i : t[m].depth > t[p].depth
    BY <1>6 DEF Stacked, n
  <2>2. ASSUME NEW i \in 1 .. n, NEW p \in Stack(u, i), NEW m \in p + 1 .. i
        PROVE  u[m].depth > u[p].depth
    <3>1. p \in Stack(t, i) /\ p \in 1 .. i /\ i \in 0 .. n
      BY <1>3, <1>4, StackSets DEF n
    <3>2. p \in 1 .. n /\ m \in 1 .. n
      BY <1>3, <3>1
    <3> QED  BY <1>3, <2>1, <3>1, <3>2
  <2>3. ASSUME NEW p \in Stack(u, n + 1), NEW m \in p + 1 .. n + 1
        PROVE  u[m].depth > u[p].depth
    <3>1. CASE p = n + 1
      BY <1>3, <3>1
    <3>2. CASE p \in Stack(t, n) /\ p \in 1 .. n /\ s.depth > t[p].depth
      <4>1. CASE m = n + 1
        BY <1>3, <3>2, <4>1
      <4>2. CASE m # n + 1
        <5>1. m \in p + 1 .. n /\ m \in 1 .. n
          BY <1>3, <3>2, <4>2
        <5> QED  BY <1>3, <2>1, <3>2, <5>1
      <4> QED  BY <4>1, <4>2
    <3> QED  BY <1>4, <3>1, <3>2
  <2> QED  BY <1>3, <1>9, <2>2, <2>3 DEF Stacked
<1>15. Nested(u)
  <2> SUFFICES ASSUME NEW j \in 1 .. n + 1, NEW i \in 1 .. n + 1, NEW k \in 1 .. n + 1,
                      j <= i, i <= k, u[j].frame = u[k].frame
               PROVE  u[i].frame = u[j].frame \/ u[i].depth > u[j].depth
    BY <1>3 DEF Nested
  <2>1. \A a, b, c \in 1 .. n :
            a <= b /\ b <= c /\ t[a].frame = t[c].frame =>
                t[b].frame = t[a].frame \/ t[b].depth > t[a].depth
    BY <1>6 DEF Nested, n
  <2>2. CASE k \in 1 .. n
    <3>1. j \in 1 .. n /\ i \in 1 .. n
      BY <1>3, <2>2
    <3> QED  BY <1>3, <2>1, <2>2, <3>1
  <2>3. CASE i = n + 1
    <3>1. k = n + 1
      BY <1>3, <2>3
    <3> QED  BY <2>3, <3>1
  <2>4. CASE k = n + 1 /\ i \in 1 .. n
    <3>1. j \in 1 .. n /\ t[j].frame = s.frame
      BY <1>3, <2>4
    <3>2. GoesOnWith(t, s, o)
      BY <1>8, <3>1 DEF CallsFrom, n
    <3>3. t[j].frame = t[o].frame /\ t[j].depth = t[o].depth
      BY <1>5, <1>6, <3>1, <3>2 DEF GoesOnWith, OneDepth, n
    <3>4. CASE i <= o
      BY <1>3, <1>5, <2>1, <2>4, <3>1, <3>3, <3>4
    <3>5. CASE ~(i <= o)
      <4>1. i \in o + 1 .. n
        BY <1>3, <1>5, <2>4, <3>5
      <4> QED  BY <1>3, <1>7, <2>4, <3>1, <3>3, <4>1
    <3> QED  BY <3>4, <3>5
  <2> QED  BY <1>9, <2>2, <2>3, <2>4
<1> QED  BY <1>3, <1>11, <1>12, <1>13, <1>14, <1>15 DEF GoodTrace, u, n

LEMMA GoodEmpty == GoodTrace(<< >>)
BY DEF GoodTrace, Numbered, OneDepth, Called, Stacked, Nested

LEMMA GoodFirst ==
  ASSUME NEW l \in Line
  PROVE  GoodTrace(<<[line |-> l, frame |-> 1, depth |-> 1]>>)
<1> DEFINE s == [line |-> l, frame |-> 1, depth |-> 1]
           t == <<s>>
<1>1. t \in Seq(Step) /\ Len(t) = 1 /\ t[1] = s
  <2>1. s \in Step
    BY DEF Step
  <2> HIDE DEF s
  <2> QED  BY <2>1
<1>2. s.frame = 1 /\ s.depth = 1
  OBVIOUS
<1> HIDE DEF t, s
<1>3. \A i \in 1 .. Len(t) : i = 1 /\ t[i].frame = 1 /\ t[i].depth = 1
  BY <1>1, <1>2
<1>4. Numbered(t) /\ OneDepth(t) /\ Called(t) /\ Nested(t)
  BY <1>3 DEF Numbered, OneDepth, Called, Nested
<1>5. Stacked(t)
  <2>1. \A i \in 1 .. Len(t) : Stack(t, i) \subseteq 1 .. i
    BY <1>1, StackSets
  <2>2. \A i \in 1 .. Len(t) : \A o \in Stack(t, i) : o = 1
    BY <1>3, <2>1
  <2>3. \A i \in 1 .. Len(t) : \A o \in Stack(t, i) : \A m \in o + 1 .. i : FALSE
    <3> SUFFICES ASSUME NEW i \in 1 .. Len(t), NEW o \in Stack(t, i), NEW m \in o + 1 .. i
                 PROVE  FALSE
      OBVIOUS
    <3>1. i = 1 /\ o = 1
      BY <1>3, <2>2
    <3> QED  BY <3>1
  <2> QED  BY <2>3 DEF Stacked
<1> QED  BY <1>1, <1>4, <1>5 DEF GoodTrace, t, s

\* The traces of k steps, from those of one step less.
Longer(ts, k) ==
  IF k = 0 THEN {<< >>}
  ELSE IF k = 1
  THEN {<<[line |-> l, frame |-> 1, depth |-> 1]>> :
            l \in {m \in Entry : FnOf[m] = Main}}
  ELSE UNION {{Append(t, s) : s \in Recordable(t)} : t \in ts}

\* f is what the recursion in Traces describes, for traces of up to n steps.
Records(f, n) ==
  f = [k \in 0 .. n |->
          IF k = 0 THEN {<< >>}
          ELSE IF k = 1
          THEN {<<[line |-> l, frame |-> 1, depth |-> 1]>> :
                    l \in {m \in Entry : FnOf[m] = Main}}
          ELSE UNION {{Append(t, s) : s \in Recordable(t)} : t \in f[k - 1]}]

LEMMA TracesDefined ==
  ASSUME NEW n \in Nat
  PROVE  \E f : Records(f, n)
<1> DEFINE Value(f, k) == Longer(f[k - 1], k)
           S == {m \in Nat : \E f : f = [k \in 0 .. m |-> Value(f, k)]}
<1>0. \A a, b : Longer(a, 0) = Longer(b, 0)
  BY DEF Longer
<1>1. 0 \in S
  <2> DEFINE f0 == [k \in 0 .. 0 |-> Longer({}, 0)]
  <2>1. f0 = [k \in 0 .. 0 |-> Value(f0, k)]
    <3>1. \A k \in 0 .. 0 : Longer({}, 0) = Value(f0, k)
      <4> SUFFICES ASSUME NEW k \in 0 .. 0 PROVE Longer({}, 0) = Value(f0, k)
        OBVIOUS
      <4>1. k = 0
        OBVIOUS
      <4>2. Value(f0, k) = Longer(f0[k - 1], 0)
        BY <4>1
      <4> HIDE DEF Value, f0
      <4> QED  BY <1>0, <4>2
    <3> HIDE DEF Value
    <3> QED  BY <3>1
  <2>2. \E f : f = [k \in 0 .. 0 |-> Value(f, k)]
    <3> HIDE DEF Value, f0
    <3> QED  BY <2>1
  <2> QED  BY <2>2
<1>2. ASSUME NEW m \in Nat, m \in S
      PROVE  m + 1 \in S
  <2>1. PICK f : f = [k \in 0 .. m |-> Value(f, k)]
    <3> HIDE DEF Value
    <3> QED  BY <1>2
  <2> DEFINE g == [k \in 0 .. m + 1 |-> IF k = m + 1 THEN Value(f, k) ELSE f[k]]
  <2>2. ASSUME NEW k \in 0 .. m + 1
        PROVE  g[k] = Value(g, k)
    <3>1. Value(g, k) = Value(f, k)
      <4>1. CASE k = 0
        <5>1. Value(g, k) = Longer(g[k - 1], 0) /\ Value(f, k) = Longer(f[k - 1], 0)
          BY <4>1
        <5> HIDE DEF Value, g
        <5> QED  BY <1>0, <5>1
      <4>2. CASE k # 0
        <5>1. k - 1 \in 0 .. m + 1 /\ k - 1 # m + 1
          BY <4>2
        <5>2. g[k - 1] = f[k - 1]
          BY <5>1
        <5> HIDE DEF g
        <5> QED  BY <5>2
      <4> QED  BY <4>1, <4>2
    <3>2. k # m + 1 => k \in 0 .. m
      OBVIOUS
    <3>3. k # m + 1 => f[k] = Value(f, k)
      <4> HIDE DEF Value
      <4> QED  BY <3>2, <2>1
    <3>4. g[k] = IF k = m + 1 THEN Value(f, k) ELSE f[k]
      <4> HIDE DEF Value
      <4> QED  OBVIOUS
    <3> HIDE DEF Value, g
    <3> QED  BY <3>1, <3>3, <3>4
  <2>3. g = [k \in 0 .. m + 1 |-> Value(g, k)]
    <3> HIDE DEF Value
    <3> QED  BY <2>2
  <2>4. \E h : h = [k \in 0 .. m + 1 |-> Value(h, k)]
    <3> HIDE DEF Value, g
    <3> QED  BY <2>3
  <2> QED  BY <2>4
<1>3. Nat \subseteq S
  <2> HIDE DEF S
  <2> QED  BY <1>1, <1>2, NatInductionSet
<1>4. \E f : f = [k \in 0 .. n |-> Value(f, k)]
  <2> HIDE DEF Value
  <2> QED  BY <1>3
<1>5. PICK f : f = [k \in 0 .. n |-> Value(f, k)]
  <2> HIDE DEF Value
  <2> QED  BY <1>4
<1>6. Records(f, n)
  BY <1>5 DEF Records, Longer
<1> QED  BY <1>6

\* Every trace that can be recorded is one, and no longer than the bound.
LEMMA TracesGood == \A t \in Traces : GoodTrace(t) /\ Len(t) <= MaxSteps
<1> DEFINE F == CHOOSE f : Records(f, MaxSteps)
           Good(k) == \A t \in F[k] : GoodTrace(t) /\ Len(t) = k
           S == {k \in Nat : k <= MaxSteps => Good(k)}
<1>0. MaxSteps \in Nat /\ Length \subseteq 0 .. MaxSteps
  BY SteppingAssumption
<1>1. Traces = UNION {F[k] : k \in Length}
  BY DEF Traces, Records
<1>2. Records(F, MaxSteps)
  BY <1>0, TracesDefined
<1> HIDE DEF F
<1>3. \A k \in 0 .. MaxSteps : F[k] = Longer(F[k - 1], k)
  <2> DEFINE Value(k) == Longer(F[k - 1], k)
  <2>1. F = [k \in 0 .. MaxSteps |-> Value(k)]
    BY <1>2 DEF Records, Longer
  <2> HIDE DEF Value
  <2>2. \A k \in 0 .. MaxSteps : F[k] = Value(k)
    BY <2>1
  <2> QED  BY <2>2 DEF Value
<1>4. 0 \in S
  <2>1. F[0] = {<< >>}
    <3>1. F[0] = Longer(F[0 - 1], 0)
      BY <1>0, <1>3
    <3> QED  BY <3>1 DEF Longer
  <2>2. Len(<< >>) = 0
    OBVIOUS
  <2>3. Good(0)
    BY <2>1, <2>2, GoodEmpty
  <2> QED  BY <2>3
<1>5. ASSUME NEW k \in Nat, k \in S, k + 1 <= MaxSteps
      PROVE  Good(k + 1)
  <2>1. k + 1 \in 0 .. MaxSteps /\ (k + 1) - 1 = k /\ k <= MaxSteps
    BY <1>0, <1>5
  <2>2. F[k + 1] = Longer(F[k], k + 1) /\ Good(k)
    BY <1>3, <1>5, <2>1
  <2>3. CASE k = 0
    <3>1. F[k + 1] = {<<[line |-> l, frame |-> 1, depth |-> 1]>> :
                          l \in {m \in Entry : FnOf[m] = Main}}
      BY <2>2, <2>3 DEF Longer
    <3>2. ASSUME NEW t \in F[k + 1]
          PROVE  GoodTrace(t) /\ Len(t) = k + 1
      <4>1. PICK l \in Entry : t = <<[line |-> l, frame |-> 1, depth |-> 1]>>
        BY <3>1, <3>2
      <4>2. l \in Line
        BY SteppingAssumption
      <4>3. Len(t) = 1
        BY <4>1
      <4> QED  BY <2>3, <4>1, <4>2, <4>3, GoodFirst
    <3> QED  BY <3>2
  <2>4. CASE k # 0
    <3>1. F[k + 1] = UNION {{Append(t, s) : s \in Recordable(t)} : t \in F[k]}
      BY <2>2, <2>4 DEF Longer
    <3>2. ASSUME NEW u \in F[k + 1]
          PROVE  GoodTrace(u) /\ Len(u) = k + 1
      <4>1. PICK t \in F[k] : \E s \in Recordable(t) : u = Append(t, s)
        BY <3>1, <3>2
      <4>2. GoodTrace(t) /\ Len(t) = k /\ Len(t) >= 1
        BY <2>2, <2>4
      <4> QED  BY <4>1, <4>2, GoodGrows
    <3> QED  BY <3>2
  <2> QED  BY <2>3, <2>4
<1>6. Nat \subseteq S
  <2>1. ASSUME NEW k \in Nat, k \in S PROVE k + 1 \in S
    BY <1>5, <2>1
  <2> HIDE DEF S
  <2> QED  BY <1>4, <2>1, NatInductionSet
<1> QED  BY <1>0, <1>1, <1>6

-----------------------------------------------------------------------------
(* What TraceModel says                                                    *)

\* The caller of a frame that is not the outermost.
LEMMA CallerDepth ==
  ASSUME NEW t, GoodTrace(t), NEW i \in 1 .. Len(t), t[i].depth > 1
  PROVE  Caller(t, i) \in 1 .. i - 1 /\ t[Caller(t, i)].depth = t[i].depth - 1
<1> DEFINE s == Starts(t, t[i].frame)
           c == Caller(t, i)
<1>1. s \in 1 .. i /\ t[s].frame = t[i].frame /\ i \in Nat
  BY StartsIs DEF GoodTrace
<1>2. /\ c \in 0 .. s - 1
      /\ c # 0 => t[c].depth = t[s].depth - 1
      /\ \A j \in c + 1 .. s - 1 : t[j].depth # t[s].depth - 1
  BY CallerIs DEF Caller, GoodTrace
<1> HIDE DEF s, c
<1>3. s \in 1 .. Len(t) /\ t[s].depth = t[i].depth
  <2>1. s \in 1 .. Len(t)
    BY <1>1
  <2> QED  BY <1>1, <2>1 DEF GoodTrace, OneDepth
<1>4. PICK j \in 1 .. s - 1 : t[j].depth = t[s].depth - 1
  BY <1>3 DEF GoodTrace, Called
<1>5. c # 0
  <2> SUFFICES ASSUME c = 0 PROVE FALSE
    OBVIOUS
  <2>1. j \in c + 1 .. s - 1
    OBVIOUS
  <2> QED  BY <1>2, <1>4, <2>1
<1>6. c \in 1 .. i - 1 /\ t[c].depth = t[i].depth - 1
  BY <1>1, <1>2, <1>3, <1>5
<1> QED  BY <1>6 DEF c

\* The depth of what is on a stack.
LEMMA StackDepth ==
  ASSUME NEW t, GoodTrace(t), NEW i \in 1 .. Len(t), NEW o \in Stack(t, i)
  PROVE  /\ o \in 1 .. i
         /\ t[o].depth \in Nat /\ t[i].depth \in Nat /\ t[o].depth <= t[i].depth
         /\ t[o].frame = t[i].frame => o = i
<1>1. o \in 1 .. i
  BY StackSets DEF GoodTrace
<1>2. o \in 1 .. Len(t)
  BY <1>1
<1>3. t[o].depth \in Nat /\ t[i].depth \in Nat
  <2>1. t[o] \in Step /\ t[i] \in Step
    BY <1>2 DEF GoodTrace
  <2> QED  BY <2>1 DEF Step
<1>4. o # i => t[i].depth > t[o].depth
  BY StackBelow
<1>5. t[o].frame = t[i].frame => t[o].depth = t[i].depth
  BY <1>2 DEF GoodTrace, OneDepth
<1> QED  BY <1>1, <1>3, <1>4, <1>5

Modelled(t, m) == GoodTrace(t) /\ m = TraceModel(t)

LEMMA ModelCaller ==
  ASSUME NEW t, NEW m, Modelled(t, m), NEW i \in 1 .. Len(t)
  PROVE  m.callerStep[t[i].frame] = Caller(t, i)
<1>1. t[i].frame \in {s.frame : s \in ToSet(t)}
  BY DEF ToSet, Modelled, GoodTrace
<1> QED  BY <1>1 DEF Modelled, TraceModel, Caller

LEMMA ModelChain ==
  ASSUME NEW t, NEW m, Modelled(t, m), NEW i \in 1 .. Len(t)
  PROVE  /\ m.chain[i] = Chain(t)[i]
         /\ m.chain[i] \in Seq(1 .. i) /\ Len(m.chain[i]) >= 1 /\ m.chain[i][1] = i
         /\ ToSet(m.chain[i]) = Stack(t, i)
<1>1. i \in 0 .. Len(t)
  OBVIOUS
<1>2. m.chain[i] = Chain(t)[i]
  BY <1>1 DEF Modelled, TraceModel
<1>3. Falling(Chain(t)[i], i)
  BY ChainFalls DEF Modelled, GoodTrace
<1> QED  BY <1>2, <1>3 DEF Falling, Stack

LEMMA ModelLast ==
  ASSUME NEW t, NEW m, Modelled(t, m), NEW i \in 1 .. Len(t)
  PROVE  LET l == m.last[t[i].frame]
         IN  /\ l \in i .. Len(t) /\ t[l].frame = t[i].frame
             /\ \A j \in l + 1 .. Len(t) : t[j].frame # t[i].frame
<1> DEFINE n == Len(t)
           f == t[i].frame
           S == {j \in 1 .. n : t[j].frame = f}
           l == Max(S)
<1>1. t[i].frame \in {s.frame : s \in ToSet(t)}
  BY DEF ToSet, Modelled, GoodTrace
<1>2. m.last[t[i].frame] = l
  BY <1>1 DEF Modelled, TraceModel
<1>3. n \in Nat
  BY DEF Modelled, GoodTrace
<1>4. \A j : j \in S <=> j \in 1 .. n /\ t[j].frame = f
  OBVIOUS
<1> HIDE DEF n, S
<1>5. i \in S /\ S # {} /\ S \in SUBSET (0 .. n)
  BY <1>3, <1>4 DEF n
<1>6. l \in S /\ \A y \in S : l >= y
  BY <1>3, <1>5, MaxIs
<1> HIDE DEF l
<1>7. l \in i .. n /\ t[l].frame = f
  BY <1>3, <1>4, <1>5, <1>6
<1>8. \A j \in l + 1 .. n : t[j].frame # f
  <2> SUFFICES ASSUME NEW j \in l + 1 .. n, t[j].frame = f PROVE FALSE
    OBVIOUS
  <2>1. i \in Nat /\ i >= 1 /\ l \in Nat
    BY <1>7, <1>3, <1>5, <1>4
  <2>2. j \in 1 .. n /\ ~(l >= j)
    BY <1>3, <2>1
  <2> QED  BY <1>4, <1>6, <2>2
<1> QED  BY <1>2, <1>7, <1>8 DEF n

-----------------------------------------------------------------------------
(* The invariant                                                           *)

\* Where the program is, and what is shown of it.
PlaceInv ==
  /\ pos \in 0 .. N + 1 /\ disp \in 0 .. N + 1
  /\ landed \in BOOLEAN /\ started \in BOOLEAN /\ exited \in BOOLEAN
  /\ running <=> pos \in 1 .. N
  /\ IF landed THEN disp \in 1 .. pos - 1 ELSE disp = pos

\* What the last stop said.
StopInv ==
  /\ signalPending \in BOOLEAN
  /\ signalPending => abnormal /\ running
  /\ stop = "signal" => signalPending
  /\ stop = "exit" => ~running

SelectInv == selectedLevel \in Nat /\ SelectionIsOnStack

SInv == Modelled(trace, model) /\ abnormal \in BOOLEAN /\ PlaceInv /\ StopInv /\ SelectInv

\* The step that is shown, and its stack.
LEMMA Shows ==
  ASSUME SInv, running
  PROVE  /\ N \in Nat /\ pos \in 1 .. N /\ hasStack
         /\ topStep \in 1 .. N /\ topStep <= pos
         /\ landed \/ topStep = pos
         /\ Depth = trace[topStep].depth
         /\ frames = Chain(trace)[topStep]
         /\ frames \in Seq(1 .. topStep) /\ Len(frames) \in Nat /\ Len(frames) >= 1
         /\ frames[1] = topStep /\ ToSet(frames) = Stack(trace, topStep)
<1>1. N \in Nat /\ pos \in 1 .. N /\ hasStack
  BY DEF SInv, Modelled, GoodTrace, N, PlaceInv, hasStack
<1>2. topStep \in 1 .. N /\ topStep <= pos /\ (landed \/ topStep = pos)
  BY <1>1 DEF SInv, PlaceInv, topStep
<1>3. Depth = trace[topStep].depth
  BY <1>1 DEF Depth
<1>4. /\ frames = Chain(trace)[topStep]
      /\ frames \in Seq(1 .. topStep) /\ Len(frames) >= 1
      /\ frames[1] = topStep /\ ToSet(frames) = Stack(trace, topStep)
  BY <1>2, ModelChain DEF SInv, frames, N
<1> QED  BY <1>1, <1>2, <1>3, <1>4

\* A place of the program is one of the trace, or what runs is not there.
LEMMA PlaceIs ==
  ASSUME N \in Nat, N' = N, NEW p \in 0 .. N + 1, NEW d \in 0 .. N + 1, NEW l \in BOOLEAN,
         pos' = p, disp' = d, landed' = l, started' \in BOOLEAN, exited' \in BOOLEAN,
         running' <=> p \in 1 .. N,
         IF l THEN d \in 1 .. p - 1 ELSE d = p
  PROVE  PlaceInv'
<1>1. pos' \in 0 .. N' + 1 /\ disp' \in 0 .. N' + 1
  OBVIOUS
<1>2. running' <=> pos' \in 1 .. N'
  OBVIOUS
<1>3. IF landed' THEN disp' \in 1 .. pos' - 1 ELSE disp' = pos'
  OBVIOUS
<1>4. landed' \in BOOLEAN /\ started' \in BOOLEAN /\ exited' \in BOOLEAN
  OBVIOUS
<1> HIDE DEF N, running
<1> QED  BY <1>1, <1>2, <1>3, <1>4 DEF PlaceInv

\* A stop at a step of the trace.
LEMMA StopInvariant ==
  ASSUME SInv, UNCHANGED program, started' = TRUE, NEW i \in 1 .. N,
         NEW kind \in {"step", "no-history"}, NEW hits, NEW p \in BOOLEAN, p => abnormal,
         StopAt(i, kind, hits, p)
  PROVE  SInv'
<1>1. /\ pos' = i /\ disp' = i /\ landed' = FALSE
      /\ selectedLevel' = 0 /\ exited' = FALSE /\ signalPending' = p
      /\ stop' \in {"step", "no-history", "breakpoint"}
  BY DEF StopAt, PlaceAt
<1>2. trace' = trace /\ model' = model /\ abnormal' = abnormal /\ N' = N
  BY DEF program, N
<1>3. N \in Nat
  BY DEF SInv, Modelled, GoodTrace, N
<1>4. Modelled(trace, model)' /\ (abnormal \in BOOLEAN)'
  BY <1>2 DEF SInv, Modelled, TraceModel
<1>5. running'
  BY <1>1 DEF running
<1>6. PlaceInv'
  <2>1. i \in 0 .. N + 1 /\ i \in 1 .. N
    BY <1>3
  <2>2. started' \in BOOLEAN /\ exited' \in BOOLEAN
    BY <1>1
  <2> QED  BY <1>1, <1>2, <1>3, <1>5, <2>1, <2>2, PlaceIs
<1>7. StopInv'
  BY <1>1, <1>2, <1>5 DEF StopInv
<1>8. frames' = model.chain[i]
  BY <1>1, <1>2 DEF frames, topStep
<1>9. Len(frames') \in Nat /\ Len(frames') >= 1
  <2>1. model.chain[i] \in Seq(1 .. i) /\ Len(model.chain[i]) >= 1
    BY ModelChain DEF SInv, N
  <2> QED  BY <1>8, <2>1
<1>10. SelectInv'
  BY <1>1, <1>9 DEF SelectInv, SelectionIsOnStack
<1> QED  BY <1>4, <1>6, <1>7, <1>10 DEF SInv

LEMMA ExitInvariant ==
  ASSUME SInv, UNCHANGED program, started' = TRUE, NEW p \in BOOLEAN,
         NEW level \in Nat, Exit(p, level)
  PROVE  SInv'
<1>1. trace' = trace /\ model' = model /\ abnormal' = abnormal /\ N' = N
  BY DEF program, N
<1>2. N \in Nat
  BY DEF SInv, Modelled, GoodTrace, N
<1>3. Modelled(trace, model)' /\ (abnormal \in BOOLEAN)'
  BY <1>1 DEF SInv, Modelled, TraceModel
<1>4. CASE abnormal /\ ~p /\ N > 0
  <2>1. /\ pos' = N /\ disp' = N /\ landed' = FALSE /\ stop' = "signal"
        /\ exited' = FALSE /\ signalPending' = TRUE /\ selectedLevel' = level
    BY <1>4 DEF Exit, PlaceAt
  <2>2. running'
    BY <2>1 DEF running
  <2>3. PlaceInv'
    <3>1. N \in 0 .. N + 1 /\ N \in 1 .. N
      BY <1>2, <1>4
    <3>2. started' \in BOOLEAN /\ exited' \in BOOLEAN
      BY <2>1
    <3> QED  BY <1>1, <1>2, <2>1, <2>2, <3>1, <3>2, PlaceIs
  <2>4. StopInv' /\ SelectInv'
    BY <1>1, <1>4, <2>1, <2>2 DEF StopInv, SelectInv, SelectionIsOnStack
  <2> QED  BY <1>3, <2>3, <2>4 DEF SInv
<1>5. CASE ~(abnormal /\ ~p /\ N > 0)
  <2>1. /\ pos' = N + 1 /\ disp' = N + 1 /\ landed' = FALSE /\ stop' = "exit"
        /\ exited' = TRUE /\ signalPending' = FALSE /\ selectedLevel' = level
    BY <1>5 DEF Exit, PlaceAt
  <2>2. ~running'
    BY <2>1 DEF running
  <2>3. PlaceInv'
    <3>1. N + 1 \in 0 .. N + 1 /\ N + 1 \notin 1 .. N
      BY <1>2
    <3>2. started' \in BOOLEAN /\ exited' \in BOOLEAN
      BY <2>1
    <3> QED  BY <1>1, <1>2, <2>1, <2>2, <3>1, <3>2, PlaceIs
  <2>4. StopInv' /\ SelectInv'
    BY <2>1, <2>2 DEF StopInv, SelectInv, SelectionIsOnStack, hasStack
  <2> QED  BY <1>3, <2>3, <2>4 DEF SInv
<1> QED  BY <1>4, <1>5

LEMMA LandInvariant ==
  ASSUME SInv, UNCHANGED program, started' = TRUE, NEW i \in 1 .. N,
         trace[i].depth > 1, LandInCaller(trace[i].frame)
  PROVE  SInv'
<1> DEFINE l == model.last[trace[i].frame]
           c == model.callerStep[trace[i].frame]
<1>1. /\ pos' = l /\ disp' = c /\ landed' = TRUE
      /\ selectedLevel' = 0 /\ exited' = FALSE /\ signalPending' = FALSE
      /\ stop' = "finish"
  BY DEF LandInCaller, PlaceAt
<1>2. trace' = trace /\ model' = model /\ abnormal' = abnormal /\ N' = N
  BY DEF program, N
<1>3. N \in Nat
  BY DEF SInv, Modelled, GoodTrace, N
<1>4. l \in i .. N
  BY ModelLast DEF SInv, N
<1>5. c \in 1 .. i - 1
  BY ModelCaller, CallerDepth DEF SInv, Modelled, N
<1>6. Modelled(trace, model)' /\ (abnormal \in BOOLEAN)'
  BY <1>2 DEF SInv, Modelled, TraceModel
<1> HIDE DEF l, c
<1>7. running'
  BY <1>1 DEF running
<1>8. PlaceInv'
  <2>1. l \in 0 .. N + 1 /\ l \in 1 .. N /\ c \in 0 .. N + 1 /\ c \in 1 .. l - 1
    BY <1>3, <1>4, <1>5
  <2>2. started' \in BOOLEAN /\ exited' \in BOOLEAN
    BY <1>1
  <2> QED  BY <1>1, <1>2, <1>3, <1>7, <2>1, <2>2, PlaceIs
<1>9. StopInv'
  BY <1>1, <1>7 DEF StopInv
<1>10. frames' = model.chain[c]
  BY <1>1, <1>2 DEF frames, topStep
<1>11. Len(frames') \in Nat /\ Len(frames') >= 1
  <2>1. c \in 1 .. N
    BY <1>3, <1>5
  <2>2. model.chain[c] \in Seq(1 .. c) /\ Len(model.chain[c]) >= 1
    BY <2>1, ModelChain DEF SInv, N
  <2> QED  BY <1>10, <2>2
<1>12. SelectInv'
  BY <1>1, <1>11 DEF SelectInv, SelectionIsOnStack
<1> QED  BY <1>6, <1>8, <1>9, <1>12 DEF SInv

-----------------------------------------------------------------------------
(* The moves                                                               *)

\* Where a scan forward, or back, comes to a stop.
UpStops(from, to, ends) ==
  {i \in from .. to : hitsAt(i, from .. i - 1) # {} \/ i \in ends}
DownStops(from, ends) ==
  {i \in 1 .. from : hitsAt(i, i + 1 .. from) # {} \/ i \in ends}

StopsUp(from, to, ends) ==
  \E i \in UpStops(from, to, ends) :
      /\ \A j \in UpStops(from, to, ends) : i <= j
      /\ StopAt(i, "step", hitsAt(i, from .. i - 1), FALSE)

StopsDown(from, ends) ==
  \E i \in DownStops(from, ends) :
      /\ \A j \in DownStops(from, ends) : i >= j
      /\ StopAt(i, "step", hitsAt(i, i + 1 .. from), signalPending)

LEMMA UpLeast ==
  ASSUME NEW from \in Nat, NEW to \in Nat, NEW ends, UpStops(from, to, ends) # {}
  PROVE  LET i == Min(UpStops(from, to, ends))
         IN  /\ i \in UpStops(from, to, ends)
             /\ \A j \in UpStops(from, to, ends) : i <= j
<1> DEFINE S == UpStops(from, to, ends)
<1>1. \A j \in S : j \in Nat
  BY DEF UpStops
<1> HIDE DEF S
<1>2. S # {} => Min(S) \in S /\ \A j \in S : Min(S) <= j
  BY <1>1, MinIs
<1> QED  BY <1>2 DEF S

LEMMA DownMost ==
  ASSUME NEW from \in Nat, NEW ends, DownStops(from, ends) # {}
  PROVE  LET i == Max(DownStops(from, ends))
         IN  /\ i \in DownStops(from, ends)
             /\ \A j \in DownStops(from, ends) : i >= j
<1> DEFINE S == DownStops(from, ends)
<1>1. \A j \in S : j \in 0 .. from
  BY DEF DownStops
<1> HIDE DEF S
<1>2. S # {} => Max(S) \in S /\ \A j \in S : Max(S) >= j
  BY <1>1, MaxIs
<1> QED  BY <1>2 DEF S

\* The step shown for the frame that is selected.
Shown == frames[Min({selectedLevel + 1, Len(frames)})]

LEMMA ShownIs ==
  ASSUME SInv, running
  PROVE  /\ Shown \in 1 .. topStep /\ Shown \in 1 .. N /\ Shown \in Stack(trace, topStep)
         /\ Min({selectedLevel + 1, Len(frames)}) \in 1 .. Len(frames)
<1> DEFINE k == Min({selectedLevel + 1, Len(frames)})
<1>1. selectedLevel + 1 \in Nat /\ Len(frames) \in Nat /\ Len(frames) >= 1
      /\ selectedLevel + 1 >= 1
  BY Shows DEF SInv, SelectInv
<1>2. k \in 1 .. Len(frames)
  BY <1>1, MinOfTwo
<1>3. frames \in Seq(1 .. topStep) /\ topStep \in 1 .. N /\ ToSet(frames) = Stack(trace, topStep)
      /\ N \in Nat
  BY Shows
<1> HIDE DEF k
<1>4. frames[k] \in 1 .. topStep /\ k \in DOMAIN frames
  BY <1>2, <1>3
<1>5. frames[k] \in ToSet(frames)
  BY <1>4 DEF ToSet
<1> QED  BY <1>2, <1>3, <1>4, <1>5 DEF Shown, k

\* What a move forward does.
RunsOut == \/ StopsUp(pos + 1, N, {})
           \/ UpStops(pos + 1, N, {}) = {} /\ Exit(FALSE, selectedLevel)

MovesOn(how) ==
  \/ StopsUp(pos + 1, N, Ends(how))
  \/ UpStops(pos + 1, N, Ends(how)) = {} /\ Exit(FALSE, selectedLevel)

Finishes ==
  LET f == trace[Shown].frame
  IN  /\ trace[Shown].depth > 1
      /\ \/ StopsUp(pos + 1, model.last[f], {})
         \/ /\ UpStops(pos + 1, model.last[f], {}) = {}
            /\ \/ model.last[f] >= N /\ abnormal /\ Exit(FALSE, selectedLevel)
               \/ ~(model.last[f] >= N /\ abnormal) /\ LandInCaller(f)

LEMMA ForwardIs ==
  ASSUME SInv, NEW how, Forward(how)
  PROVE  /\ running /\ UNCHANGED program /\ started' = TRUE
         /\ \/ signalPending /\ Exit(TRUE, selectedLevel)
            \/ ~signalPending /\ how = "finish" /\ Finishes
            \/ ~signalPending /\ how # "finish" /\ MovesOn(how)
<1>1. running /\ UNCHANGED program /\ started' = TRUE
  BY DEF Forward, running
<1>2. /\ N \in Nat /\ pos + 1 \in Nat
      /\ Shown \in 1 .. N
  BY <1>1, Shows, ShownIs
<1>3. model.last[trace[Shown].frame] \in Nat
  <2>1. model.last[trace[Shown].frame] \in Shown .. N
    BY <1>2, ModelLast DEF SInv, N
  <2> QED  BY <1>2, <2>1
<1>4. CASE signalPending
  BY <1>1, <1>4 DEF Forward
<1>5. CASE ~signalPending /\ how = "finish"
  <2> DEFINE to == model.last[trace[Shown].frame]
             S == UpStops(pos + 1, to, {})
  <2>1. /\ trace[Shown].depth > 1
        /\ IF S = {}
           THEN IF to >= N /\ abnormal
                THEN Exit(FALSE, selectedLevel) ELSE LandInCaller(trace[Shown].frame)
           ELSE StopAt(Min(S), "step", hitsAt(Min(S), pos + 1 .. Min(S) - 1), FALSE)
    BY <1>5 DEF Forward, Finish, ScanUp, Shown, UpStops
  <2>2. S # {} => Min(S) \in S /\ \A j \in S : Min(S) <= j
    BY <1>2, <1>3, UpLeast
  <2>3. Finishes
    <3>1. CASE S = {}
      <4> HIDE DEF Shown
      <4> QED  BY <2>1, <3>1 DEF Finishes
    <3>2. CASE S # {}
      <4>1. StopsUp(pos + 1, to, {})
        <5> HIDE DEF to, Shown, UpStops
        <5> QED  BY <2>1, <2>2, <3>2 DEF StopsUp, S
      <4> QED  BY <2>1, <4>1 DEF Finishes
    <3> QED  BY <3>1, <3>2
  <2> QED  BY <1>1, <1>5, <2>3
<1>6. CASE ~signalPending /\ how # "finish"
  <2> DEFINE S == UpStops(pos + 1, N, Ends(how))
  <2>1. IF S = {} THEN Exit(FALSE, selectedLevel)
        ELSE StopAt(Min(S), "step", hitsAt(Min(S), pos + 1 .. Min(S) - 1), FALSE)
    BY <1>6 DEF Forward, ScanUp, UpStops
  <2>2. S # {} => Min(S) \in S /\ \A j \in S : Min(S) <= j
    BY <1>2, UpLeast
  <2>3. MovesOn(how)
    <3>1. CASE S = {}
      BY <2>1, <3>1 DEF MovesOn
    <3>2. CASE S # {}
      <4>1. StopsUp(pos + 1, N, Ends(how))
        <5> HIDE DEF UpStops
        <5> QED  BY <2>1, <2>2, <3>2 DEF StopsUp
      <4> QED  BY <4>1 DEF MovesOn
    <3> QED  BY <3>1, <3>2
  <2> QED  BY <1>1, <1>6, <2>3
<1> QED  BY <1>4, <1>5, <1>6

LEMMA BackwardIs ==
  ASSUME SInv, NEW how, Backward(how)
  PROVE  /\ running /\ hasStack /\ UNCHANGED program /\ started' = TRUE
         /\ \/ /\ how = "finish" /\ Depth > 1
               /\ StopAt(model.callerStep[trace[topStep].frame], "step", {}, signalPending)
            \/ how # "finish" /\ StopsDown(topStep - 1, Ends(how))
            \/ /\ how # "finish" /\ DownStops(topStep - 1, Ends(how)) = {}
               /\ StopAt(1, "no-history", {}, signalPending)
<1>1. running /\ hasStack /\ UNCHANGED program /\ started' = TRUE
  BY DEF Backward, running, hasStack
<1>2. topStep \in 1 .. N /\ N \in Nat
  BY <1>1, Shows
<1>3. topStep - 1 \in Nat
  BY <1>2
<1>4. CASE how = "finish"
  BY <1>1, <1>4 DEF Backward
<1>5. CASE how # "finish"
  <2> DEFINE S == DownStops(topStep - 1, Ends(how))
  <2>1. IF S = {} THEN StopAt(1, "no-history", {}, signalPending)
        ELSE StopAt(Max(S), "step", hitsAt(Max(S), Max(S) + 1 .. topStep - 1), signalPending)
    BY <1>5 DEF Backward, ScanDown, DownStops
  <2>2. S # {} => Max(S) \in S /\ \A j \in S : Max(S) >= j
    BY <1>3, DownMost
  <2>3. CASE S = {}
    BY <1>1, <1>5, <2>1, <2>3
  <2>4. CASE S # {}
    <3>1. StopsDown(topStep - 1, Ends(how))
      <4> HIDE DEF DownStops
      <4> QED  BY <2>1, <2>2, <2>4 DEF StopsDown
    <3> QED  BY <1>1, <1>5, <3>1
  <2> QED  BY <2>3, <2>4
<1> QED  BY <1>4, <1>5

LEMMA RunIs ==
  ASSUME SInv, Run
  PROVE  /\ UNCHANGED program /\ started' = TRUE
         /\ StopsUp(1, N, {}) \/ Exit(FALSE, 0)
<1>1. UNCHANGED program /\ started' = TRUE
  BY DEF Run
<1>2. N \in Nat
  BY DEF SInv, Modelled, GoodTrace, N
<1> DEFINE S == UpStops(1, N, {})
<1>3. IF S = {} THEN Exit(FALSE, 0)
      ELSE StopAt(Min(S), "step", hitsAt(Min(S), 1 .. Min(S) - 1), FALSE)
  BY DEF Run, ScanUp, UpStops
<1>4. S # {} => Min(S) \in S /\ \A j \in S : Min(S) <= j
  BY <1>2, UpLeast
<1>5. S # {} => StopsUp(1, N, {})
  <2> HIDE DEF UpStops
  <2> QED  BY <1>3, <1>4 DEF StopsUp
<1> QED  BY <1>1, <1>3, <1>5

-----------------------------------------------------------------------------
(* The invariant is kept                                                   *)

\* Nothing moves, and at most another frame is selected.
LEMMA StandInvariant ==
  ASSUME SInv, UNCHANGED <<program, at, started, exited, signalPending, stop>>,
         selectedLevel' \in Nat,
         hasStack /\ stop # "signal" => selectedLevel' < Len(frames)
  PROVE  SInv'
<1>1. /\ trace' = trace /\ model' = model /\ abnormal' = abnormal
      /\ pos' = pos /\ disp' = disp /\ landed' = landed
      /\ started' = started /\ exited' = exited /\ signalPending' = signalPending
      /\ stop' = stop
  BY DEF program, at
<1>2. N' = N /\ running' = running /\ hasStack' = hasStack /\ frames' = frames
  BY <1>1 DEF N, running, hasStack, frames, topStep
<1>3. Modelled(trace, model)' /\ (abnormal \in BOOLEAN)'
  BY <1>1 DEF SInv, Modelled
<1>4. PlaceInv'
  BY <1>1, <1>2 DEF SInv, PlaceInv
<1>5. StopInv'
  BY <1>1, <1>2 DEF SInv, StopInv
<1>6. SelectInv'
  BY <1>1, <1>2 DEF SelectInv, SelectionIsOnStack
<1> QED  BY <1>3, <1>4, <1>5, <1>6 DEF SInv

LEMMA StopsUpInvariant ==
  ASSUME SInv, UNCHANGED program, started' = TRUE,
         NEW from \in Nat, from >= 1, NEW to \in Nat, to <= N, NEW ends,
         StopsUp(from, to, ends)
  PROVE  SInv'
<1>1. PICK i \in from .. to : StopAt(i, "step", hitsAt(i, from .. i - 1), FALSE)
  BY DEF StopsUp, UpStops
<1>2. N \in Nat
  BY DEF SInv, Modelled, GoodTrace, N
<1>3. i \in 1 .. N
  BY <1>2
<1> DEFINE hits == hitsAt(i, from .. i - 1)
<1>4. StopAt(i, "step", hits, FALSE)
  BY <1>1
<1> HIDE DEF hits
<1> QED  BY <1>3, <1>4, StopInvariant

LEMMA ForwardInvariant ==
  ASSUME SInv, NEW how, Forward(how)
  PROVE  SInv'
<1>1. running /\ UNCHANGED program /\ started' = TRUE
  BY ForwardIs
<1>2. /\ N \in Nat /\ pos \in 1 .. N /\ Shown \in 1 .. N
      /\ pos + 1 \in Nat /\ pos + 1 >= 1 /\ selectedLevel \in Nat
  BY <1>1, Shows, ShownIs DEF SInv, SelectInv
<1>3. ASSUME NEW to \in Nat, to <= N, NEW ends, StopsUp(pos + 1, to, ends)
      PROVE  SInv'
  BY <1>1, <1>2, <1>3, StopsUpInvariant
<1>4. ASSUME NEW p \in BOOLEAN, Exit(p, selectedLevel)
      PROVE  SInv'
  BY <1>1, <1>2, <1>4, ExitInvariant
<1>5. CASE signalPending /\ Exit(TRUE, selectedLevel)
  BY <1>4, <1>5
<1>6. CASE MovesOn(how)
  <2>1. StopsUp(pos + 1, N, Ends(how)) \/ Exit(FALSE, selectedLevel)
    BY <1>6 DEF MovesOn
  <2>2. N <= N
    BY <1>2
  <2> QED  BY <1>2, <1>3, <1>4, <2>1, <2>2
<1>7. CASE Finishes
  <2> DEFINE to == model.last[trace[Shown].frame]
  <2>1. to \in Nat /\ to <= N
    <3>1. to \in Shown .. N
      BY <1>2, ModelLast DEF SInv, N
    <3> QED  BY <1>2, <3>1
  <2>2. \/ StopsUp(pos + 1, to, {})
        \/ Exit(FALSE, selectedLevel)
        \/ LandInCaller(trace[Shown].frame)
    BY <1>7 DEF Finishes
  <2>3. trace[Shown].depth > 1
    BY <1>7 DEF Finishes
  <2> HIDE DEF to
  <2>4. CASE LandInCaller(trace[Shown].frame)
    BY <1>1, <1>2, <2>3, <2>4, LandInvariant
  <2> QED  BY <1>3, <1>4, <2>1, <2>2, <2>4
<1> QED  BY <1>5, <1>6, <1>7, ForwardIs

LEMMA BackwardInvariant ==
  ASSUME SInv, NEW how, Backward(how)
  PROVE  SInv'
<1>1. running /\ hasStack /\ UNCHANGED program /\ started' = TRUE
  BY BackwardIs
<1>2. /\ N \in Nat /\ topStep \in 1 .. N /\ Depth = trace[topStep].depth
      /\ 1 \in 1 .. N
  BY <1>1, Shows
<1>3. signalPending \in BOOLEAN /\ (signalPending => abnormal)
  BY DEF SInv, StopInv
<1>4. ASSUME NEW i \in 1 .. N, NEW kind \in {"step", "no-history"}, NEW hits,
             StopAt(i, kind, hits, signalPending)
      PROVE  SInv'
  BY <1>1, <1>3, <1>4, StopInvariant
<1>5. CASE Depth > 1 /\ StopAt(model.callerStep[trace[topStep].frame], "step", {}, signalPending)
  <2> DEFINE c == model.callerStep[trace[topStep].frame]
  <2>1. c \in 1 .. topStep - 1
    BY <1>2, <1>5, ModelCaller, CallerDepth DEF SInv, Modelled, N
  <2>2. c \in 1 .. N
    BY <1>2, <2>1
  <2>3. StopAt(c, "step", {}, signalPending)
    BY <1>5
  <2> HIDE DEF c
  <2> QED  BY <1>4, <2>2, <2>3
<1>6. CASE StopsDown(topStep - 1, Ends(how))
  <2>1. PICK i \in 1 .. topStep - 1 :
              StopAt(i, "step", hitsAt(i, i + 1 .. topStep - 1), signalPending)
    BY <1>6 DEF StopsDown, DownStops
  <2>2. i \in 1 .. N
    BY <1>2
  <2> DEFINE hits == hitsAt(i, i + 1 .. topStep - 1)
  <2>3. StopAt(i, "step", hits, signalPending)
    BY <2>1
  <2> HIDE DEF hits
  <2> QED  BY <1>4, <2>2, <2>3
<1>7. CASE StopAt(1, "no-history", {}, signalPending)
  BY <1>2, <1>4, <1>7
<1> QED  BY <1>5, <1>6, <1>7, BackwardIs

LEMMA InitHolds == Init => SInv
<1> SUFFICES ASSUME Init PROVE SInv
  OBVIOUS
<1>1. Modelled(trace, model) /\ abnormal \in BOOLEAN
  BY TracesGood DEF Init, Modelled
<1>2. N \in Nat
  BY <1>1 DEF Modelled, GoodTrace, N
<1>3. /\ pos = 0 /\ disp = 0 /\ landed = FALSE
      /\ started = FALSE /\ exited = FALSE /\ signalPending = FALSE
      /\ selectedLevel = 0 /\ stop = "none"
  BY DEF Init
<1>4. ~running /\ ~hasStack
  BY <1>3 DEF running, hasStack
<1>5. PlaceInv
  <2>1. pos \in 0 .. N + 1 /\ disp \in 0 .. N + 1 /\ pos \notin 1 .. N
    BY <1>2, <1>3
  <2> QED  BY <1>3, <1>4, <2>1 DEF PlaceInv
<1>6. StopInv /\ SelectInv
  BY <1>3, <1>4 DEF StopInv, SelectInv, SelectionIsOnStack
<1> QED  BY <1>1, <1>5, <1>6 DEF SInv

LEMMA StepHolds == SInv /\ [Next]_vars => SInv'
<1> SUFFICES ASSUME SInv, [Next]_vars PROVE SInv'
  OBVIOUS
<1>1. selectedLevel \in Nat /\ (hasStack /\ stop # "signal" => selectedLevel < Len(frames))
  BY DEF SInv, SelectInv, SelectionIsOnStack
<1>2. ASSUME UNCHANGED <<program, state, stop>>
      PROVE  SInv'
  <2>1. UNCHANGED <<program, at, started, exited, signalPending, stop>> /\ selectedLevel' = selectedLevel
    BY <1>2 DEF state
  <2> QED  BY <1>1, <2>1, StandInvariant
<1>3. CASE Run
  <2>1. N \in Nat /\ 1 \in Nat /\ 0 \in Nat /\ 1 >= 1 /\ N <= N
    BY DEF SInv, Modelled, GoodTrace, N
  <2>2. CASE StopsUp(1, N, {})
    BY <1>3, <2>1, <2>2, RunIs, StopsUpInvariant
  <2>3. CASE Exit(FALSE, 0)
    BY <1>3, <2>1, <2>3, RunIs, ExitInvariant
  <2> QED  BY <1>3, <2>2, <2>3, RunIs
<1>4. ASSUME NEW how, Forward(how) \/ Backward(how)
      PROVE  SInv'
  BY <1>4, ForwardInvariant, BackwardInvariant
<1>5. ASSUME NEW i \in 1 .. N, vgSeekStep(i)
      PROVE  SInv'
  <2>1. /\ UNCHANGED program /\ started' = started /\ started = TRUE
        /\ StopAt(i, "step", {}, FALSE)
    BY <1>5 DEF vgSeekStep, running, SInv, PlaceInv
  <2> QED  BY <2>1, StopInvariant
<1>6. CASE kill
  <2>1. /\ pos' = 0 /\ disp' = 0 /\ landed' = FALSE
        /\ started' = FALSE /\ exited' = FALSE /\ signalPending' = FALSE
        /\ selectedLevel' = 0 /\ stop' = "none"
        /\ trace' = trace /\ model' = model /\ abnormal' = abnormal
    BY <1>6 DEF kill, PlaceAt, program
  <2>2. ~running' /\ ~hasStack'
    BY <2>1 DEF running, hasStack
  <2>3. N' = N /\ N \in Nat
    BY <2>1 DEF N, SInv, Modelled, GoodTrace
  <2>4. Modelled(trace, model)' /\ (abnormal \in BOOLEAN)'
    BY <2>1 DEF SInv, Modelled
  <2>5. PlaceInv'
    <3>1. 0 \in 0 .. N + 1 /\ 0 \notin 1 .. N
      BY <2>3
    <3>2. started' \in BOOLEAN /\ exited' \in BOOLEAN
      BY <2>1
    <3> QED  BY <2>1, <2>2, <2>3, <3>1, <3>2, PlaceIs
  <2>6. StopInv' /\ SelectInv'
    BY <2>1, <2>2 DEF StopInv, SelectInv, SelectionIsOnStack
  <2> QED  BY <2>4, <2>5, <2>6 DEF SInv
<1>7. ASSUME NEW level \in 0 .. MaxDepth - 1, stackSelectFrame(level)
      PROVE  SInv'
  <2>1. /\ UNCHANGED <<program, at, started, exited, signalPending, stop>>
        /\ selectedLevel' = level /\ level < Len(frames)
    BY <1>7 DEF stackSelectFrame
  <2>2. level \in Nat
    BY SteppingAssumption
  <2> QED  BY <2>1, <2>2, StandInvariant
<1>8. ASSUME NEW s, NEW temp, NEW ignore, NEW cond, breakInsert(s.line, temp, ignore, cond)
      PROVE  SInv'
  BY <1>2, <1>8 DEF breakInsert
<1>9. ASSUME NEW b, NEW instead, breakChange(b, instead)
      PROVE  SInv'
  BY <1>2, <1>9 DEF breakChange
<1>10. CASE UNCHANGED vars
  BY <1>2, <1>10 DEF vars
<1>11. CASE \E b \in list : \/ breakDelete(b) \/ breakEnable(b) \/ breakDisable(b)
                            \/ \E cond \in Conditions : breakCondition(b, cond)
  BY <1>9, <1>11 DEF breakDelete, breakEnable, breakDisable, breakCondition
<1>12. CASE Next
  BY <1>3, <1>4, <1>5, <1>6, <1>7, <1>8, <1>11, <1>12 DEF Next
<1> QED  BY <1>10, <1>12

\* The invariant holds always.
THEOREM PlacesAlways == Spec => []SInv
BY InitHolds, StepHolds, PTL DEF Spec

\* The frame that is selected is on the stack that is shown, except after a
\* signal: _exit leaves the level alone, every other stop resets it.
THEOREM SelectionStays == Spec => []SelectionIsOnStack
<1>1. SInv => SelectionIsOnStack
  BY DEF SInv, SelectInv
<1> QED  BY <1>1, PlacesAlways, PTL

-----------------------------------------------------------------------------
(* No breakpoint is passed                                                 *)

LEMMA HitIsStop ==
  ASSUME NEW b \in list, NEW i, NEW scanned,
         Counts(b, i), Counted(b, scanned) >= b.ignore
  PROVE  hitsAt(i, scanned) # {}
BY DEF hitsAt

\* A scan forward that stops has nothing behind it that a breakpoint is hit at.
LEMMA UpPassesNone ==
  ASSUME NEW from \in Nat, NEW to \in Nat, NEW ends, StopsUp(from, to, ends),
         NEW i \in from .. to, i <= pos', hitsAt(i, from .. i - 1) # {}
  PROVE  i = pos' /\ stop' = "breakpoint"
<1>1. i \in UpStops(from, to, ends)
  BY DEF UpStops
<1>2. PICK k \in UpStops(from, to, ends) :
            /\ \A j \in UpStops(from, to, ends) : k <= j
            /\ StopAt(k, "step", hitsAt(k, from .. k - 1), FALSE)
  BY DEF StopsUp
<1>3. k \in from .. to /\ pos' = k /\ k <= i
  BY <1>1, <1>2 DEF UpStops, StopAt, PlaceAt
<1>4. i = k
  BY <1>3
<1> QED  BY <1>2, <1>3, <1>4 DEF StopAt

LEMMA DownPassesNone ==
  ASSUME NEW from \in Nat, NEW ends, StopsDown(from, ends),
         NEW i \in 1 .. from, i >= pos', hitsAt(i, i + 1 .. from) # {}
  PROVE  i = pos' /\ stop' = "breakpoint"
<1>1. i \in DownStops(from, ends)
  BY DEF DownStops
<1>2. PICK k \in DownStops(from, ends) :
            /\ \A j \in DownStops(from, ends) : k >= j
            /\ StopAt(k, "step", hitsAt(k, k + 1 .. from), signalPending)
  BY DEF StopsDown
<1>3. k \in 1 .. from /\ pos' = k /\ k >= i
  BY <1>1, <1>2 DEF DownStops, StopAt, PlaceAt
<1>4. i = k
  BY <1>3
<1> QED  BY <1>2, <1>3, <1>4 DEF StopAt

LEMMA ForwardPassesNone ==
  ASSUME SInv, NEW how, Forward(how), ~signalPending,
         NEW i \in pos + 1 .. Min({N, pos'}), hitsAt(i, pos + 1 .. i - 1) # {}
  PROVE  i = pos' /\ stop' = "breakpoint"
<1>1. running /\ UNCHANGED program
  BY ForwardIs
<1>2. /\ N \in Nat /\ pos \in 1 .. N /\ Shown \in 1 .. N /\ pos + 1 \in Nat
  BY <1>1, Shows, ShownIs
<1>3. pos' \in Nat
  <2>1. SInv'
    BY ForwardInvariant
  <2>2. N' = N
    BY <1>1 DEF program, N
  <2> QED  BY <1>2, <2>1, <2>2 DEF SInv, PlaceInv
<1>4. i \in pos + 1 .. N /\ i <= pos' /\ i \in Nat
  <2>1. Min({N, pos'}) \in Nat /\ Min({N, pos'}) <= N /\ Min({N, pos'}) <= pos'
    BY <1>2, <1>3, MinOfTwo
  <2> HIDE DEF N
  <2> QED  BY <1>2, <1>3, <2>1
<1>5. ASSUME NEW to \in Nat, to <= N, NEW ends, i <= to, StopsUp(pos + 1, to, ends)
      PROVE  i = pos' /\ stop' = "breakpoint"
  <2>1. i \in pos + 1 .. to
    BY <1>2, <1>4, <1>5
  <2> QED  BY <1>2, <1>4, <1>5, <2>1, UpPassesNone
<1>6. ASSUME NEW to \in Nat, NEW ends, i <= to
      PROVE  UpStops(pos + 1, to, ends) # {}
  <2>1. i \in pos + 1 .. to
    BY <1>2, <1>4, <1>6
  <2> QED  BY <2>1 DEF UpStops
<1>7. i <= N /\ N <= N
  BY <1>2, <1>4
<1>8. CASE MovesOn(how)
  BY <1>2, <1>5, <1>6, <1>7, <1>8 DEF MovesOn
<1>9. CASE Finishes
  <2> DEFINE to == model.last[trace[Shown].frame]
  <2>1. to \in Nat /\ to <= N
    <3>1. to \in Shown .. N
      BY <1>2, ModelLast DEF SInv, N
    <3> QED  BY <1>2, <3>1
  <2>2. \/ StopsUp(pos + 1, to, {})
        \/ UpStops(pos + 1, to, {}) = {} /\ to >= N
        \/ UpStops(pos + 1, to, {}) = {} /\ pos' = to
    BY <1>9 DEF Finishes, LandInCaller, PlaceAt
  <2> HIDE DEF to
  <2>3. CASE StopsUp(pos + 1, to, {})
    <3>1. i <= to
      <4>1. PICK k \in pos + 1 .. to : pos' = k
        BY <2>3 DEF StopsUp, UpStops, StopAt, PlaceAt
      <4> QED  BY <1>2, <1>4, <2>1, <4>1
    <3> QED  BY <1>5, <2>1, <2>3, <3>1
  <2>4. CASE UpStops(pos + 1, to, {}) = {} /\ to >= N
    <3>1. i <= to
      BY <1>2, <1>4, <2>1, <2>4
    <3> QED  BY <1>6, <2>1, <2>4, <3>1
  <2>5. CASE UpStops(pos + 1, to, {}) = {} /\ pos' = to
    BY <1>4, <1>6, <2>1, <2>5
  <2> QED  BY <2>2, <2>3, <2>4, <2>5
<1> QED  BY <1>8, <1>9, ForwardIs

LEMMA BackwardPassesNone ==
  ASSUME SInv, NEW how, how # "finish", Backward(how), pos' > 0,
         NEW i \in pos' .. topStep - 1, hitsAt(i, i + 1 .. topStep - 1) # {}
  PROVE  i = pos' /\ stop' = "breakpoint"
<1>1. running /\ hasStack /\ UNCHANGED program
  BY BackwardIs
<1>2. N \in Nat /\ topStep \in 1 .. N /\ topStep - 1 \in Nat
  BY <1>1, Shows
<1>3. pos' \in Nat
  <2>1. SInv'
    BY BackwardInvariant
  <2>2. N' = N
    BY <1>1 DEF program, N
  <2> QED  BY <1>2, <2>1, <2>2 DEF SInv, PlaceInv
<1>4. i \in 1 .. topStep - 1 /\ i >= pos'
  BY <1>2, <1>3
<1>5. DownStops(topStep - 1, Ends(how)) # {}
  BY <1>4 DEF DownStops
<1>6. StopsDown(topStep - 1, Ends(how))
  BY <1>5, BackwardIs
<1> QED  BY <1>2, <1>4, <1>6, DownPassesNone

\* What a reverse move does not look at is what is not before the shown step.
LEMMA SkippedIs ==
  ASSUME SInv, hasStack, NEW k \in Nat
  PROVE  (k .. pos) \ Skipped = k .. topStep - 1
<1>1. running
  BY DEF hasStack
<1>2. pos \in Nat /\ topStep \in Nat /\ topStep <= pos /\ (landed \/ topStep = pos)
  BY <1>1, Shows
<1>3. CASE landed
  <2>1. Skipped = topStep .. pos
    BY <1>3 DEF Skipped, topStep
  <2> QED  BY <1>2, <2>1
<1>4. CASE ~landed
  <2>1. Skipped = {pos} /\ topStep = pos
    BY <1>4 DEF Skipped, topStep
  <2> QED  BY <1>2, <2>1
<1> QED  BY <1>3, <1>4

\* No move of exec.js goes over a step that a breakpoint is hit at, and one
\* that ends there says so; excepted are the exit with a signal pending, the
\* reverse finish, and for a reverse move right after a finish the steps from
\* the call to the end of the finished frame.
THEOREM NoneIsPassed == Spec => NoBreakpointIsPassed
<1> DEFINE Earlier(i) == pos + 1 .. i - 1
           Later(i) == (i + 1 .. pos) \ Skipped
<1>1. ASSUME SInv, ~signalPending, NEW how, Forward(how),
             NEW b \in list, NEW i \in pos + 1 .. Min({N, pos'}),
             stop' = "breakpoint" => i # pos', Counts(b, i), Counted(b, Earlier(i)) >= b.ignore
      PROVE  FALSE
  BY <1>1, HitIsStop, ForwardPassesNone
<1>2. ASSUME SInv, hasStack, pos' > 0, NEW how \in How \ {"finish"}, Backward(how),
             NEW b \in list, NEW i \in (pos' .. pos) \ Skipped,
             stop' = "breakpoint" => i # pos', Counts(b, i), Counted(b, Later(i)) >= b.ignore
      PROVE  FALSE
  <2>1. pos' \in Nat
    <3>1. SInv'
      BY <1>2, BackwardInvariant
    <3>2. UNCHANGED program
      BY <1>2, BackwardIs
    <3> QED  BY <1>2, <3>1, <3>2 DEF SInv, PlaceInv, N, program, Modelled, GoodTrace
  <2>2. (pos' .. pos) \ Skipped = pos' .. topStep - 1
    BY <1>2, <2>1, SkippedIs
  <2>3. i + 1 \in Nat
    BY <1>2, <2>1, <2>2
  <2>4. Later(i) = i + 1 .. topStep - 1
    BY <1>2, <2>3, SkippedIs
  <2> HIDE DEF Later
  <2> QED  BY <1>2, <2>2, <2>4, HitIsStop, BackwardPassesNone
<1>3. SInv =>
        /\ ~signalPending /\ Passed(pos + 1 .. Min({N, pos'}), Earlier) =>
               ~\E how \in How : Forward(how)
        /\ hasStack /\ pos' > 0 /\ Passed((pos' .. pos) \ Skipped, Later) =>
               ~\E how \in How \ {"finish"} : Backward(how)
  BY <1>1, <1>2 DEF Passed
<1> QED  BY <1>3, PlacesAlways, PTL DEF NoBreakpointIsPassed

-----------------------------------------------------------------------------
(* Every move moves                                                        *)

\* A finish that lands is in a frame further out than the one that was shown.
LEMMA LandsOut ==
  ASSUME SInv, running, trace[Shown].depth > 1, LandInCaller(trace[Shown].frame)
  PROVE  /\ landed' = TRUE /\ stop' = "finish" /\ trace[disp'].depth < Depth
         /\ pos' = model.last[trace[Shown].frame] /\ pos' \in Nat
<1>1. /\ Shown \in 1 .. N /\ Shown \in Stack(trace, topStep) /\ topStep \in 1 .. N
      /\ Depth = trace[topStep].depth /\ N \in Nat
  BY Shows, ShownIs
<1> DEFINE c == model.callerStep[trace[Shown].frame]
           l == model.last[trace[Shown].frame]
<1>2. landed' = TRUE /\ stop' = "finish" /\ disp' = c /\ pos' = l
  BY DEF LandInCaller, PlaceAt
<1>3. trace[c].depth = trace[Shown].depth - 1
  BY <1>1, ModelCaller, CallerDepth DEF SInv, Modelled, N
<1>4. l \in Nat
  <2>1. l \in Shown .. N
    BY <1>1, ModelLast DEF SInv, N
  <2> QED  BY <1>1, <2>1
<1>5. /\ trace[Shown].depth \in Nat /\ trace[topStep].depth \in Nat
      /\ trace[Shown].depth <= trace[topStep].depth
  BY <1>1, StackDepth DEF SInv, Modelled, N
<1>6. trace[c].depth < Depth
  BY <1>1, <1>3, <1>5
<1> HIDE DEF c, l
<1> QED  BY <1>2, <1>4, <1>6 DEF l

LEMMA ForwardGoesOn ==
  ASSUME SInv, NEW how, Forward(how)
  PROVE  GoesOn
<1>1. running /\ N \in Nat /\ pos \in 1 .. N
  BY ForwardIs, Shows
<1>2. ASSUME NEW to, NEW ends, StopsUp(pos + 1, to, ends)
      PROVE  GoesOn
  <2>1. PICK k \in pos + 1 .. to : pos' = k
    BY <1>2 DEF StopsUp, UpStops, StopAt, PlaceAt
  <2>2. pos' > pos
    BY <1>1, <2>1
  <2> QED  BY <2>2 DEF GoesOn
<1>3. CASE signalPending /\ Exit(TRUE, selectedLevel)
  <2>1. pos' = N + 1
    BY <1>3 DEF Exit, PlaceAt
  <2>2. pos' > pos
    BY <1>1, <2>1
  <2> QED  BY <2>2 DEF GoesOn
<1>4. CASE ~signalPending /\ Exit(FALSE, selectedLevel)
  <2>1. stop # "signal"
    BY <1>4 DEF SInv, StopInv
  <2>2. stop' = "signal" \/ pos' = N + 1
    BY <1>4 DEF Exit, PlaceAt
  <2>3. pos' = N + 1 => pos' > pos
    BY <1>1
  <2> QED  BY <2>1, <2>2, <2>3 DEF GoesOn
<1>5. CASE Finishes /\ LandInCaller(trace[Shown].frame)
  <2>1. /\ landed' = TRUE /\ stop' = "finish" /\ trace[disp'].depth < Depth
        /\ pos' \in Nat
    BY <1>1, <1>5, LandsOut DEF Finishes
  <2>2. pos' > pos \/ pos' = pos \/ pos' < pos
    BY <1>1, <2>1
  <2> QED  BY <2>1, <2>2 DEF GoesOn
<1>6. \/ signalPending /\ Exit(TRUE, selectedLevel)
      \/ ~signalPending /\ Finishes
      \/ ~signalPending /\ MovesOn(how)
  BY ForwardIs
<1>7. CASE ~signalPending /\ MovesOn(how)
  BY <1>2, <1>4, <1>7 DEF MovesOn
<1>8. CASE ~signalPending /\ Finishes
  <2>1. \/ StopsUp(pos + 1, model.last[trace[Shown].frame], {})
        \/ Exit(FALSE, selectedLevel)
        \/ LandInCaller(trace[Shown].frame)
    BY <1>8 DEF Finishes
  <2> QED  BY <1>2, <1>4, <1>5, <1>8, <2>1
<1> QED  BY <1>3, <1>6, <1>7, <1>8

LEMMA BackwardGoesBack ==
  ASSUME SInv, NEW how, Backward(how)
  PROVE  GoesBack
<1>1. running /\ N \in Nat /\ topStep \in 1 .. N /\ Depth = trace[topStep].depth
  BY BackwardIs, Shows
<1>2. CASE Depth > 1 /\ StopAt(model.callerStep[trace[topStep].frame], "step", {}, signalPending)
  <2>1. model.callerStep[trace[topStep].frame] \in 1 .. topStep - 1
    BY <1>1, <1>2, ModelCaller, CallerDepth DEF SInv, Modelled, N
  <2>2. pos' \in 1 .. topStep - 1
    BY <1>2, <2>1 DEF StopAt, PlaceAt
  <2>3. pos' < topStep
    BY <1>1, <2>2
  <2> QED  BY <2>3 DEF GoesBack
<1>3. CASE StopsDown(topStep - 1, Ends(how))
  <2>1. pos' \in 1 .. topStep - 1
    BY <1>3 DEF StopsDown, DownStops, StopAt, PlaceAt
  <2>2. pos' < topStep
    BY <1>1, <2>1
  <2> QED  BY <2>2 DEF GoesBack
<1>4. CASE StopAt(1, "no-history", {}, signalPending)
  <2>1. pos' = 1 /\ stop' = "no-history"
    BY <1>4 DEF StopAt, PlaceAt
  <2>2. pos' < topStep \/ topStep = 1
    BY <1>1, <2>1
  <2> QED  BY <2>1, <2>2 DEF GoesBack
<1> QED  BY <1>2, <1>3, <1>4, BackwardIs

\* No command of session.js leaves the program where it is without saying why.
THEOREM EveryMove == Spec => EveryMoveMoves
<1>1. SInv => /\ ~GoesOn => ~\E how \in How : Forward(how)
              /\ ~GoesBack => ~\E how \in How : Backward(how)
  BY ForwardGoesOn, BackwardGoesBack
<1> QED  BY <1>1, PlacesAlways, PTL DEF EveryMoveMoves

-----------------------------------------------------------------------------
(* A finish unwinds the stack                                              *)

\* Only a landing in the caller is reported as a finish.
LEMMA FinishedIs ==
  ASSUME SInv, NEW how, Forward(how), stop' = "finish"
  PROVE  trace[Shown].depth > 1 /\ LandInCaller(trace[Shown].frame)
<1>1. ASSUME NEW from, NEW to, NEW ends, StopsUp(from, to, ends) PROVE FALSE
  BY <1>1 DEF StopsUp, StopAt
<1>2. ASSUME NEW p, Exit(p, selectedLevel) PROVE FALSE
  BY <1>2 DEF Exit
<1>3. CASE MovesOn(how)
  BY <1>1, <1>2, <1>3 DEF MovesOn
<1>4. CASE Finishes
  BY <1>1, <1>2, <1>4 DEF Finishes
<1> QED  BY <1>2, <1>3, <1>4, ForwardIs

\* A sequence of the elements of a set is one of a larger set.
LEMMA SeqWider ==
  ASSUME NEW A, NEW B, A \subseteq B, NEW s \in Seq(A)
  PROVE  s \in Seq(B)
OBVIOUS

LEMMA LandingUnwinds ==
  ASSUME SInv, running, UNCHANGED program,
         trace[Shown].depth > 1, LandInCaller(trace[Shown].frame)
  PROVE  LET k == Min({selectedLevel + 1, Len(frames)})
         IN  /\ frames' = SubSeq(frames, k + 1, Len(frames))
             /\ \A i \in pos' + 1 .. N : trace[i].frame # trace[Shown].frame
<1> DEFINE k == Min({selectedLevel + 1, Len(frames)})
           n == Len(frames)
           c == Caller(trace, Shown)
           l == model.last[trace[Shown].frame]
           rest == Chain(trace)[c]
           sub == SubSeq(frames, k + 1, n)
<1>1. /\ N \in Nat /\ topStep \in 1 .. N /\ frames = Chain(trace)[topStep]
      /\ frames \in Seq(1 .. topStep) /\ n \in Nat
      /\ k \in 1 .. n /\ Shown = frames[k] /\ Shown \in 1 .. N
  BY Shows, ShownIs DEF Shown
<1>2. c \in 1 .. N /\ c = model.callerStep[trace[Shown].frame]
  <2>1. c \in 1 .. Shown - 1 /\ c = model.callerStep[trace[Shown].frame]
    BY <1>1, ModelCaller, CallerDepth DEF SInv, Modelled, N
  <2> HIDE DEF c
  <2>2. N \in Nat /\ Shown \in 1 .. N /\ c \in 1 .. Shown - 1
    BY <1>1, <2>1
  <2>3. c \in 1 .. N
    BY <2>2
  <2> QED  BY <2>1, <2>3
<1>3. pos' = l /\ disp' = c /\ landed' = TRUE
  BY <1>2 DEF LandInCaller, PlaceAt
<1>4. frames' = rest /\ rest \in Seq(1 .. c)
  <2>1. frames' = model.chain[c]
    BY <1>3 DEF frames, topStep, program
  <2>2. c \in 1 .. Len(trace)
    BY <1>2 DEF N
  <2> HIDE DEF c
  <2>3. model.chain[c] = Chain(trace)[c] /\ model.chain[c] \in Seq(1 .. c)
    BY <2>2, ModelChain DEF SInv
  <2> QED  BY <2>1, <2>3
<1>5. Rest(frames, k, rest)
  <2>1. trace \in Seq(Step) /\ topStep \in 1 .. Len(trace)
    BY <1>1 DEF SInv, Modelled, GoodTrace, N
  <2> HIDE DEF k, frames, Shown
  <2>2. k \in 1 .. Len(Chain(trace)[topStep])
    BY <1>1
  <2>3. Rest(Chain(trace)[topStep], k, Chain(trace)[Caller(trace, Chain(trace)[topStep][k])])
    BY <2>1, <2>2, StackRests
  <2>4. Chain(trace)[Caller(trace, Chain(trace)[topStep][k])] = rest
    BY <1>1
  <2> HIDE DEF rest
  <2> QED  BY <1>1, <2>3, <2>4
<1>6. Len(rest) = n - k /\ \A j \in 1 .. Len(rest) : rest[j] = frames[k + j]
  BY <1>5 DEF Rest
<1>7. \A i \in l + 1 .. N : trace[i].frame # trace[Shown].frame
  BY SMTT(30), <1>1, ModelLast DEF SInv, N
<1> HIDE DEF c, k, n, l, rest, frames, Shown
<1>8. /\ sub \in Seq(1 .. N) /\ Len(sub) = (IF k + 1 <= n THEN n - (k + 1) + 1 ELSE 0)
      /\ \A i \in 1 .. n - (k + 1) + 1 : sub[i] = frames[k + 1 + i - 1]
  <2>1. \A i \in k + 1 .. n : frames[i] \in 1 .. N
    <3>1. \A i \in 1 .. n : frames[i] \in 1 .. topStep
      BY SMTT(30), <1>1 DEF n
    <3> QED  BY <1>1, <3>1
  <2>2. k + 1 \in Int /\ n \in Int
    BY <1>1
  <2> HIDE DEF sub
  <2> QED  BY <2>1, <2>2, SubSeqProperties DEF sub
<1> HIDE DEF sub
<1>9. Len(sub) = n - k
  BY <1>1, <1>8
<1>10. \A i \in 1 .. n - k : i \in 1 .. n - (k + 1) + 1 /\ k + 1 + i - 1 = k + i
  BY <1>1
<1>11. \A i \in 1 .. n - k : sub[i] = frames[k + i]
  BY <1>8, <1>10
<1>12. rest \in Seq(1 .. N)
  <2>1. 1 .. c \subseteq 1 .. N
    BY SMTT(30), <1>1, <1>2
  <2>2. rest \in Seq(1 .. c)
    BY <1>4
  <2> HIDE DEF N
  <2> QED  BY <2>1, <2>2, SeqWider
<1>13. rest = sub
  <2>1. Len(rest) = Len(sub) /\ \A i \in 1 .. Len(rest) : rest[i] = sub[i]
    BY <1>6, <1>9, <1>11
  <2> QED  BY <1>8, <1>12, <2>1, SeqEqual
<1>14. frames' = SubSeq(frames, k + 1, n)
  BY <1>4, <1>13 DEF sub
<1>15. \A i \in pos' + 1 .. N : trace[i].frame # trace[Shown].frame
  BY <1>3, <1>7
<1> QED  BY <1>14, <1>15 DEF k, n

\* _landInCaller takes the selected frame, and all it had called, off the
\* stack, and no step of that frame is left.
THEOREM FinishUnwindsStack == Spec => FinishUnwinds
<1>1. ASSUME SInv, stop' = "finish", Forward("finish")
      PROVE  LET level == Min({selectedLevel, Len(frames) - 1})
             IN  /\ frames' = SubSeq(frames, level + 2, Len(frames))
                 /\ \A i \in pos' + 1 .. N :
                        trace[i].frame # trace[frames[level + 1]].frame
  <2> DEFINE level == Min({selectedLevel, Len(frames) - 1})
             k == Min({selectedLevel + 1, Len(frames)})
             n == Len(frames)
  <2>1. running /\ UNCHANGED program
    BY <1>1, ForwardIs
  <2>2. n \in Nat /\ n >= 1 /\ selectedLevel \in Nat
    BY <1>1, <2>1, Shows DEF SInv, SelectInv
  <2>3. k = level + 1 /\ k + 1 = level + 2
    <3>1. n - 1 \in Nat /\ selectedLevel + 1 \in Nat
      BY <2>2
    <3>2. /\ level = (IF selectedLevel <= n - 1 THEN selectedLevel ELSE n - 1)
          /\ k = (IF selectedLevel + 1 <= n THEN selectedLevel + 1 ELSE n)
      BY <2>2, <3>1, MinOfTwo
    <3> HIDE DEF level, k, n
    <3> QED  BY <2>2, <3>2
  <2>4. /\ frames' = SubSeq(frames, k + 1, Len(frames))
        /\ \A i \in pos' + 1 .. N : trace[i].frame # trace[Shown].frame
    BY <1>1, <2>1, FinishedIs, LandingUnwinds
  <2>5. Shown = frames[k]
    BY DEF Shown
  <2> HIDE DEF k, level
  <2>6. /\ frames' = SubSeq(frames, level + 2, Len(frames))
        /\ \A i \in pos' + 1 .. N : trace[i].frame # trace[frames[level + 1]].frame
    BY <2>3, <2>4, <2>5
  <2> QED  BY <2>6 DEF level
<1>2. SInv =>
        (stop' = "finish" /\ Forward("finish") =>
           LET level == Min({selectedLevel, Len(frames) - 1})
           IN  /\ frames' = SubSeq(frames, level + 2, Len(frames))
               /\ \A i \in pos' + 1 .. N :
                      trace[i].frame # trace[frames[level + 1]].frame)
  BY <1>1
<1> QED  BY <1>2, PlacesAlways, PTL DEF FinishUnwinds

-----------------------------------------------------------------------------
(* A next keeps its frame                                                  *)

\* Step i is of the frame that is shown, on another line.
AnotherLine(i) ==
  trace[i].frame = trace[topStep].frame /\ trace[i].line # trace[topStep].line

\* A next may end there: of the steps on the stack only the innermost is of
\* that frame.
LEMMA AnotherEnds ==
  ASSUME SInv, running, NEW i \in 1 .. N, AnotherLine(i)
  PROVE  /\ i \in Ends("next") /\ trace[i].depth = Depth
         /\ Depth \in Nat
<1>1. /\ N \in Nat /\ topStep \in 1 .. N /\ Depth = trace[topStep].depth
      /\ frames = Chain(trace)[topStep] /\ ToSet(frames) = Stack(trace, topStep)
  BY Shows
<1>2. trace[i].depth = Depth
  BY <1>1 DEF AnotherLine, SInv, Modelled, GoodTrace, OneDepth, N
<1>3. topStep \in Stack(trace, topStep)
  BY <1>1, StackSets DEF SInv, Modelled, GoodTrace, N
<1>4. Depth \in Nat
  BY <1>1, <1>3, StackDepth DEF SInv, Modelled, N
<1>5. ~SameLineVisit(topStep, i)
  <2> SUFFICES ASSUME NEW o \in ToSet(model.chain[topStep]),
                      trace[o].frame = trace[i].frame, trace[o].line = trace[i].line
               PROVE  FALSE
    BY DEF SameLineVisit
  <2>1. o \in Stack(trace, topStep)
    BY <1>1 DEF frames
  <2>2. o = topStep
    BY <1>1, <2>1, StackDepth DEF SInv, Modelled, N, AnotherLine
  <2> QED  BY <2>2 DEF AnotherLine
<1>6. EndsStep("next", i)
  BY <1>2, <1>4, <1>5 DEF EndsStep
<1> QED  BY <1>2, <1>4, <1>6 DEF Ends

\* Two steps of the frame that is shown have only it, and what it calls,
\* between them.
LEMMA BetweenLines ==
  ASSUME SInv, running, NEW i \in 1 .. N, NEW k \in 1 .. N, AnotherLine(i),
         (topStep <= k /\ k <= i) \/ (i <= k /\ k <= topStep),
         k \in Ends("next")
  PROVE  trace[k].frame = trace[topStep].frame
<1>1. topStep \in 1 .. N /\ trace[i].depth = Depth /\ Depth = trace[topStep].depth
      /\ Depth \in Nat /\ N \in Nat /\ pos > 0
  BY SMTT(30), Shows, AnotherEnds
<1>2. trace[k].depth <= Depth
  BY DEF Ends, EndsStep
<1>3. trace[i].frame = trace[topStep].frame
  BY DEF AnotherLine
<1>4. trace[k].depth \in Nat
  <2>1. trace[k] \in Step
    BY DEF SInv, Modelled, GoodTrace, N
  <2> QED  BY <2>1 DEF Step
<1>5. Nested(trace)
  BY DEF SInv, Modelled, GoodTrace
<1>6. trace[k].frame = trace[topStep].frame \/ trace[k].depth > Depth
  <2>1. CASE topStep <= k /\ k <= i
    BY <1>1, <1>3, <1>5, <2>1 DEF Nested, N
  <2>2. CASE i <= k /\ k <= topStep
    BY <1>1, <1>3, <1>5, <2>2 DEF Nested, N
  <2> QED  BY <2>1, <2>2
<1> QED  BY <1>1, <1>2, <1>4, <1>6

\* What the move ends with.
Kept == stop' = "breakpoint"
          \/ (stop' = "step" /\ trace[pos'].frame = trace[topStep].frame)

LEMMA NextOnKeeps ==
  ASSUME SInv, running, ~signalPending, NEW i \in pos + 1 .. N, AnotherLine(i),
         Forward("next")
  PROVE  Kept
<1>1. /\ N \in Nat /\ pos \in 1 .. N /\ topStep \in 1 .. N /\ topStep <= pos
      /\ i \in 1 .. N
  BY Shows
<1>2. i \in UpStops(pos + 1, N, Ends("next"))
  BY <1>1, AnotherEnds DEF UpStops
<1>3. StopsUp(pos + 1, N, Ends("next"))
  BY <1>2, ForwardIs DEF MovesOn
<1>4. PICK k \in UpStops(pos + 1, N, Ends("next")) :
            /\ \A j \in UpStops(pos + 1, N, Ends("next")) : k <= j
            /\ StopAt(k, "step", hitsAt(k, pos + 1 .. k - 1), FALSE)
  BY <1>3 DEF StopsUp
<1>5. k \in pos + 1 .. N /\ k <= i
  BY <1>2, <1>4 DEF UpStops
<1>6. hitsAt(k, pos + 1 .. k - 1) # {} \/ k \in Ends("next")
  BY <1>4 DEF UpStops
<1>7. CASE hitsAt(k, pos + 1 .. k - 1) # {}
  BY <1>4, <1>7 DEF Kept, StopAt
<1>8. CASE hitsAt(k, pos + 1 .. k - 1) = {} /\ k \in Ends("next")
  <2>1. k \in 1 .. N /\ topStep <= k
    BY <1>1, <1>5
  <2>2. trace[k].frame = trace[topStep].frame
    BY <1>1, <1>5, <1>8, <2>1, BetweenLines
  <2>3. pos' = k /\ stop' = "step"
    BY <1>4, <1>8 DEF StopAt, PlaceAt
  <2> QED  BY <2>2, <2>3 DEF Kept
<1> QED  BY <1>6, <1>7, <1>8

LEMMA NextBackKeeps ==
  ASSUME SInv, running, NEW i \in 1 .. topStep - 1, AnotherLine(i), Backward("next")
  PROVE  Kept
<1>1. /\ N \in Nat /\ topStep \in 1 .. N /\ i \in 1 .. N
  BY Shows
<1>2. i \in DownStops(topStep - 1, Ends("next"))
  BY <1>1, AnotherEnds DEF DownStops
<1>3. StopsDown(topStep - 1, Ends("next"))
  BY <1>2, BackwardIs
<1>4. PICK k \in DownStops(topStep - 1, Ends("next")) :
            /\ \A j \in DownStops(topStep - 1, Ends("next")) : k >= j
            /\ StopAt(k, "step", hitsAt(k, k + 1 .. topStep - 1), signalPending)
  BY <1>3 DEF StopsDown
<1>5. k \in 1 .. topStep - 1 /\ k >= i
  BY <1>2, <1>4 DEF DownStops
<1>6. hitsAt(k, k + 1 .. topStep - 1) # {} \/ k \in Ends("next")
  BY <1>4 DEF DownStops
<1>7. CASE hitsAt(k, k + 1 .. topStep - 1) # {}
  BY <1>4, <1>7 DEF Kept, StopAt
<1>8. CASE hitsAt(k, k + 1 .. topStep - 1) = {} /\ k \in Ends("next")
  <2>1. k \in 1 .. N /\ i <= k /\ k <= topStep
    BY <1>1, <1>5
  <2>2. trace[k].frame = trace[topStep].frame
    BY <1>1, <1>8, <2>1, BetweenLines
  <2>3. pos' = k /\ stop' = "step"
    BY <1>4, <1>8 DEF StopAt, PlaceAt
  <2> QED  BY <2>2, <2>3 DEF Kept
<1> QED  BY <1>6, <1>7, <1>8

\* A next, forward or back, ends in its frame while that has another line to
\* run, or at a breakpoint.
THEOREM NextStays == Spec => NextKeepsFrame
<1>1. SInv =>
        LET here == trace[topStep]
            another(i) == trace[i].frame = here.frame /\ trace[i].line # here.line
            kept == stop' = "breakpoint"
                       \/ (stop' = "step" /\ trace[pos'].frame = here.frame)
        IN  hasStack /\ ~kept =>
                /\ ~signalPending /\ (\E i \in pos + 1 .. N : another(i)) =>
                       ~Forward("next")
                /\ (\E i \in 1 .. topStep - 1 : another(i)) => ~Backward("next")
  <2>1. hasStack => running
    BY DEF hasStack
  <2> QED  BY <2>1, NextOnKeeps, NextBackKeeps DEF AnotherLine, Kept
<1> QED  BY <1>1, PlacesAlways, PTL DEF NextKeepsFrame

-----------------------------------------------------------------------------
(* The breakpoints                                                         *)

\* No two have a number, and the next one gets a new one.
ListInv ==
  /\ list \subseteq Breakpoint /\ next \in 1 .. MaxBreaks + 1
  /\ \A b \in list : b.number < next
  /\ \A b, c \in list : b.number = c.number => b = c
  /\ N <= MaxSteps

\* A scan of breakpoints changes their ignore counts at most.
LEMMA SpendKeeps ==
  ASSUME NEW b \in Breakpoint, NEW from \in Int, NEW to \in Int
  PROVE  Spend(b, from .. to) \in Breakpoint /\ Spend(b, from .. to).number = b.number
<1> DEFINE S == {i \in from .. to : Counts(b, i)}
           c == Counted(b, from .. to)
           left == IF c >= b.ignore THEN 0 ELSE b.ignore - c
<1>1. c \in Nat
  <2>1. IsFiniteSet(from .. to) /\ S \in SUBSET (from .. to)
    BY FS_Interval
  <2> HIDE DEF S
  <2>2. Cardinality(S) \in Nat
    BY <2>1, FS_Subset, FS_CardinalityType
  <2>3. c = Cardinality(S)
    BY DEF Counted, S
  <2> QED  BY <2>2, <2>3
<1>2. b.ignore \in 0 .. MaxIgnore /\ MaxIgnore \in Nat
  BY SteppingAssumption DEF Breakpoint
<1>3. Spend(b, from .. to) = [b EXCEPT !.ignore = left]
  BY DEF Spend
<1> HIDE DEF c
<1>4. left \in 0 .. MaxIgnore
  BY <1>1, <1>2
<1> HIDE DEF left
<1>5. [b EXCEPT !.ignore = left] \in Breakpoint /\ [b EXCEPT !.ignore = left].number = b.number
  BY <1>4 DEF Breakpoint
<1> QED  BY <1>3, <1>5

LEMMA ReportedKeeps ==
  ASSUME ListInv, UNCHANGED <<program, next>>, NEW hits, NEW from \in Int, NEW to \in Int,
         Reported(hits, from .. to)
  PROVE  ListInv'
<1> DEFINE Spent(b) == Spend(b, from .. to)
           kept == {x \in list : x \in hits => ~x.temp}
<1>1. list' = {Spent(b) : b \in kept} /\ kept \subseteq list
  BY DEF Reported
<1>2. next' = next /\ N' = N
  BY DEF program, N
<1>3. \A b \in list : Spent(b) \in Breakpoint /\ Spent(b).number = b.number
  BY SpendKeeps DEF ListInv
<1> HIDE DEF Spent, kept
<1>4. \A x \in list' : \E b \in list : x = Spent(b)
  BY <1>1
<1>5. list' \subseteq Breakpoint /\ \A b \in list' : b.number < next'
  BY <1>2, <1>3, <1>4 DEF ListInv
<1>6. \A x, y \in list' : x.number = y.number => x = y
  <2> SUFFICES ASSUME NEW x \in list', NEW y \in list', x.number = y.number PROVE x = y
    OBVIOUS
  <2>1. PICK b \in list : x = Spent(b)
    BY <1>4
  <2>2. PICK c \in list : y = Spent(c)
    BY <1>4
  <2>3. b.number = c.number
    BY <1>3, <2>1, <2>2
  <2>4. b = c
    BY <2>3 DEF ListInv
  <2> QED  BY <2>1, <2>2, <2>4
<1> QED  BY <1>2, <1>5, <1>6 DEF ListInv

\* A scan says what it reports, unless nothing was looked at.
LEMMA ScanUpReports ==
  ASSUME ListInv, UNCHANGED <<program, next>>, NEW from \in Nat, NEW to \in Nat, NEW ends,
         NEW ACTION Otherwise, ScanUp(from, to, ends, Otherwise)
  PROVE  ListInv'
<1> DEFINE S == UpStops(from, to, ends)
<1>1. IF S = {} THEN Reported({}, from .. to)
      ELSE Reported(hitsAt(Min(S), from .. Min(S) - 1), from .. Min(S))
  BY DEF ScanUp, UpStops
<1>2. CASE S = {}
  BY <1>1, <1>2, ReportedKeeps
<1>3. CASE S # {}
  <2>1. Min(S) \in S
    BY <1>3, UpLeast
  <2>2. Min(S) \in from .. to
    BY <2>1 DEF UpStops
  <2> DEFINE m == Min(S)
             hits == hitsAt(m, from .. m - 1)
  <2>3. Reported(hits, from .. m) /\ m \in Int
    BY <1>1, <1>3, <2>2
  <2> HIDE DEF m, hits, S
  <2> QED  BY <2>3, ReportedKeeps
<1> QED  BY <1>2, <1>3

LEMMA ScanDownReports ==
  ASSUME ListInv, UNCHANGED <<program, next>>, NEW from \in Nat, NEW ends,
         NEW ACTION Otherwise, ScanDown(from, ends, Otherwise)
  PROVE  ListInv'
<1> DEFINE S == DownStops(from, ends)
<1>1. IF S = {} THEN Reported({}, 1 .. from)
      ELSE Reported(hitsAt(Max(S), Max(S) + 1 .. from), Max(S) .. from)
  BY DEF ScanDown, DownStops
<1>2. CASE S = {}
  BY <1>1, <1>2, ReportedKeeps
<1>3. CASE S # {}
  <2>1. Max(S) \in S
    BY <1>3, DownMost
  <2>2. Max(S) \in 1 .. from
    BY <2>1 DEF DownStops
  <2> DEFINE m == Max(S)
             hits == hitsAt(m, m + 1 .. from)
  <2>3. Reported(hits, m .. from) /\ m \in Int
    BY <1>1, <1>3, <2>2
  <2> HIDE DEF m, hits, S
  <2> QED  BY <2>3, ReportedKeeps
<1> QED  BY <1>2, <1>3

\* A breakpoint is there or not there, and another takes its place.
LEMMA ChangeKeeps ==
  ASSUME ListInv, NEW b \in list, NEW instead \in SUBSET Breakpoint,
         \A x, y \in instead : x = y, \A x \in instead : x.number = b.number,
         breakChange(b, instead)
  PROVE  ListInv'
<1>1. /\ list' = (list \ {b}) \cup instead /\ next' = next /\ N' = N
  BY DEF breakChange, program, N
<1>2. list' \subseteq Breakpoint /\ \A x \in list' : x.number < next'
  BY <1>1 DEF ListInv
<1>3. \A x, y \in list' : x.number = y.number => x = y
  BY <1>1 DEF ListInv
<1> QED  BY <1>1, <1>2, <1>3 DEF ListInv

LEMMA InsertKeeps ==
  ASSUME SInv, ListInv, NEW s \in ToSet(trace), NEW temp \in BOOLEAN,
         NEW ignore \in 0 .. MaxIgnore, NEW cond \in Conditions,
         breakInsert(s.line, temp, ignore, cond)
  PROVE  ListInv'
<1> DEFINE b == [number |-> next, line |-> s.line, temp |-> temp,
                 enabled |-> TRUE, ignore |-> ignore, cond |-> cond]
<1>1. list' = list \cup {b} /\ next' = next + 1 /\ N' = N /\ next <= MaxBreaks
  BY DEF breakInsert, program, N
<1>2. s.line \in Line
  <2>1. PICK i \in DOMAIN trace : s = trace[i]
    BY DEF ToSet
  <2>2. s \in Step
    BY <2>1 DEF SInv, Modelled, GoodTrace
  <2> QED  BY <2>2 DEF Step
<1>3. cond \in SUBSET (1 .. MaxSteps)
  <2>1. N \in Nat /\ N <= MaxSteps /\ MaxSteps \in Nat
    BY SteppingAssumption DEF ListInv, SInv, Modelled, GoodTrace, N
  <2>2. cond \in SUBSET (1 .. N)
    BY DEF Conditions
  <2> HIDE DEF N
  <2>3. 1 .. N \subseteq 1 .. MaxSteps
    BY <2>1
  <2> QED  BY <2>2, <2>3
<1>4. MaxBreaks \in Nat /\ next \in 1 .. MaxBreaks + 1
  BY SteppingAssumption DEF ListInv
<1>5. b \in Breakpoint /\ b.number = next
  <2>1. next \in 1 .. MaxBreaks
    BY <1>1, <1>4
  <2> QED  BY <1>2, <1>3, <2>1 DEF Breakpoint
<1> HIDE DEF b
<1>6. next' \in 1 .. MaxBreaks + 1 /\ next < next'
  BY <1>1, <1>4
<1>7. \A x \in list : x.number \in Nat /\ x.number < next
  <2>1. \A x \in list : x.number \in 1 .. MaxBreaks
    BY DEF ListInv, Breakpoint
  <2> QED  BY <1>4, <2>1 DEF ListInv
<1>8. \A x \in list' : x.number < next'
  BY <1>1, <1>4, <1>5, <1>6, <1>7
<1>9. \A x, y \in list' : x.number = y.number => x = y
  BY <1>1, <1>4, <1>5, <1>7 DEF ListInv
<1> QED  BY <1>1, <1>5, <1>6, <1>8, <1>9 DEF ListInv

\* What is selected, and what was reported.
LevelInv ==
  /\ selectedLevel \in 0 .. MaxDepth - 1
  /\ stop \in {"none", "breakpoint", "step", "finish", "no-history",
               "signal", "exit"}

LEMMA LevelKeeps ==
  ASSUME LevelInv,
         \/ \E i, hits, p : \E kind \in {"step", "no-history"} : StopAt(i, kind, hits, p)
         \/ \E p : \E level \in {0, selectedLevel} : Exit(p, level)
         \/ \E f : LandInCaller(f)
  PROVE  LevelInv'
<1>1. 0 \in 0 .. MaxDepth - 1
  BY SteppingAssumption
<1>2. CASE \E i, hits, p : \E kind \in {"step", "no-history"} : StopAt(i, kind, hits, p)
  BY <1>1, <1>2 DEF StopAt, LevelInv
<1>3. CASE \E p : \E level \in {0, selectedLevel} : Exit(p, level)
  BY <1>1, <1>3 DEF Exit, LevelInv
<1>4. CASE \E f : LandInCaller(f)
  BY <1>1, <1>4 DEF LandInCaller, LevelInv
<1> QED  BY <1>2, <1>3, <1>4

LEMMA ForwardLevel ==
  ASSUME SInv, LevelInv, NEW how, Forward(how)
  PROVE  LevelInv'
<1>1. ASSUME NEW from, NEW to, NEW ends, StopsUp(from, to, ends)
      PROVE  \E i, hits, p : \E kind \in {"step", "no-history"} : StopAt(i, kind, hits, p)
  BY <1>1 DEF StopsUp
<1>2. ASSUME NEW p, Exit(p, selectedLevel)
      PROVE  LevelInv'
  BY <1>2, LevelKeeps
<1>3. ASSUME NEW from, NEW to, NEW ends, StopsUp(from, to, ends)
      PROVE  LevelInv'
  BY <1>1, <1>3, LevelKeeps
<1>4. CASE MovesOn(how)
  BY <1>2, <1>3, <1>4 DEF MovesOn
<1>5. CASE Finishes
  <2>1. \/ StopsUp(pos + 1, model.last[trace[Shown].frame], {})
        \/ Exit(FALSE, selectedLevel)
        \/ LandInCaller(trace[Shown].frame)
    BY <1>5 DEF Finishes
  <2> QED  BY <1>2, <1>3, <2>1, LevelKeeps
<1>6. CASE Exit(TRUE, selectedLevel)
  BY <1>2, <1>6
<1> QED  BY <1>4, <1>5, <1>6, ForwardIs

LEMMA BackwardLevel ==
  ASSUME SInv, LevelInv, NEW how, Backward(how)
  PROVE  LevelInv'
<1>1. \/ StopAt(model.callerStep[trace[topStep].frame], "step", {}, signalPending)
      \/ StopsDown(topStep - 1, Ends(how))
      \/ StopAt(1, "no-history", {}, signalPending)
  BY BackwardIs
<1>2. \E i, hits, p : \E kind \in {"step", "no-history"} : StopAt(i, kind, hits, p)
  BY <1>1 DEF StopsDown
<1> QED  BY <1>2, LevelKeeps

LEMMA ForwardList ==
  ASSUME SInv, ListInv, NEW how, Forward(how)
  PROVE  ListInv'
<1>1. running /\ UNCHANGED <<program, next>>
  BY DEF Forward
<1>2. N \in Nat /\ pos + 1 \in Nat /\ Shown \in 1 .. N
  BY <1>1, Shows, ShownIs
<1>3. CASE UNCHANGED list
  BY <1>1, <1>3 DEF ListInv, program, N
<1>4. CASE Finish
  <2> DEFINE to == model.last[trace[Shown].frame]
             Otherwise == IF to >= N /\ abnormal
                          THEN Exit(FALSE, selectedLevel)
                          ELSE LandInCaller(trace[Shown].frame)
  <2>1. to \in Nat
    <3>1. to \in Shown .. N
      BY <1>2, ModelLast DEF SInv, N
    <3> QED  BY <1>2, <3>1
  <2>2. ScanUp(pos + 1, to, {}, Otherwise)
    BY <1>4 DEF Finish, Shown
  <2> HIDE DEF to, Otherwise
  <2> QED  BY <1>1, <1>2, <2>1, <2>2, ScanUpReports
<1>5. CASE ScanUp(pos + 1, N, Ends(how), Exit(FALSE, selectedLevel))
  <2> DEFINE Otherwise == Exit(FALSE, selectedLevel)
  <2>1. ScanUp(pos + 1, N, Ends(how), Otherwise)
    BY <1>5
  <2> HIDE DEF Otherwise
  <2> QED  BY <1>1, <1>2, <2>1, ScanUpReports
<1> QED  BY <1>3, <1>4, <1>5 DEF Forward

LEMMA BackwardList ==
  ASSUME SInv, ListInv, NEW how, Backward(how)
  PROVE  ListInv'
<1>1. hasStack /\ running /\ UNCHANGED <<program, next>>
  BY DEF Backward, hasStack
<1>2. topStep - 1 \in Nat
  BY <1>1, Shows
<1>3. CASE UNCHANGED list
  BY <1>1, <1>3 DEF ListInv, program, N
<1>4. CASE ScanDown(topStep - 1, Ends(how), StopAt(1, "no-history", {}, signalPending))
  <2> DEFINE Otherwise == StopAt(1, "no-history", {}, signalPending)
  <2>1. ScanDown(topStep - 1, Ends(how), Otherwise)
    BY <1>4
  <2> HIDE DEF Otherwise
  <2> QED  BY <1>1, <1>2, <2>1, ScanDownReports
<1> QED  BY <1>3, <1>4 DEF Backward

LEMMA InitTyped == Init => ListInv /\ LevelInv
<1> SUFFICES ASSUME Init PROVE ListInv /\ LevelInv
  OBVIOUS
<1>1. N <= MaxSteps
  BY TracesGood DEF Init, N
<1>2. 1 \in 1 .. MaxBreaks + 1 /\ 0 \in 0 .. MaxDepth - 1
  BY SteppingAssumption
<1> QED  BY <1>1, <1>2 DEF Init, ListInv, LevelInv

LEMMA StepTyped == SInv /\ ListInv /\ LevelInv /\ [Next]_vars => ListInv' /\ LevelInv'
<1> SUFFICES ASSUME SInv, ListInv, LevelInv, [Next]_vars
             PROVE  ListInv' /\ LevelInv'
  OBVIOUS
<1>1. ASSUME UNCHANGED <<program, breaks>> PROVE ListInv'
  BY <1>1 DEF ListInv, program, breaks, N
<1>2. ASSUME UNCHANGED <<state, stop>> PROVE LevelInv'
  BY <1>2 DEF LevelInv, state
<1>3. CASE Run
  <2>1. N \in Nat /\ 1 \in Nat
    BY DEF SInv, Modelled, GoodTrace, N
  <2> DEFINE Otherwise == Exit(FALSE, 0)
  <2>2. ScanUp(1, N, {}, Otherwise) /\ UNCHANGED <<program, next>>
    BY <1>3 DEF Run
  <2>3. \/ \E i, hits, p : \E kind \in {"step", "no-history"} : StopAt(i, kind, hits, p)
        \/ \E p : \E level \in {0, selectedLevel} : Exit(p, level)
    BY <1>3, RunIs DEF StopsUp
  <2> HIDE DEF Otherwise
  <2> QED  BY <2>1, <2>2, <2>3, ScanUpReports, LevelKeeps
<1>4. ASSUME NEW how, Forward(how) \/ Backward(how)
      PROVE  ListInv' /\ LevelInv'
  BY <1>4, ForwardLevel, ForwardList, BackwardLevel, BackwardList
<1>5. ASSUME NEW i, vgSeekStep(i)
      PROVE  ListInv' /\ LevelInv'
  <2>1. /\ UNCHANGED <<program, breaks>>
        /\ \E j, hits, p : \E kind \in {"step", "no-history"} : StopAt(j, kind, hits, p)
    BY <1>5 DEF vgSeekStep
  <2> QED  BY <1>1, <2>1, LevelKeeps
<1>6. CASE kill
  <2>1. UNCHANGED <<program, breaks>> /\ selectedLevel' = 0 /\ stop' = "none"
    BY <1>6 DEF kill
  <2>2. 0 \in 0 .. MaxDepth - 1
    BY SteppingAssumption
  <2> QED  BY <1>1, <2>1, <2>2 DEF LevelInv
<1>7. ASSUME NEW level \in 0 .. MaxDepth - 1, stackSelectFrame(level)
      PROVE  ListInv' /\ LevelInv'
  <2>1. UNCHANGED <<program, breaks, stop>> /\ selectedLevel' = level
    BY <1>7 DEF stackSelectFrame
  <2> QED  BY <1>1, <2>1 DEF LevelInv
<1>8. ASSUME NEW s \in ToSet(trace), NEW temp \in BOOLEAN,
             NEW ignore \in 0 .. MaxIgnore, NEW cond \in Conditions,
             breakInsert(s.line, temp, ignore, cond)
      PROVE  ListInv' /\ LevelInv'
  <2>1. UNCHANGED <<state, stop>>
    BY <1>8 DEF breakInsert
  <2> QED  BY <1>2, <1>8, <2>1, InsertKeeps
<1>9. ASSUME NEW b \in list, NEW c \in Breakpoint, c.number = b.number,
             breakChange(b, {c})
      PROVE  ListInv' /\ LevelInv'
  <2>1. UNCHANGED <<state, stop>>
    BY <1>9 DEF breakChange
  <2>2. /\ {c} \in SUBSET Breakpoint /\ \A x, y \in {c} : x = y
        /\ \A x \in {c} : x.number = b.number
    BY <1>9
  <2>3. ListInv'
    BY <1>9, <2>2, ChangeKeeps
  <2> QED  BY <1>2, <2>1, <2>3
<1>10. ASSUME NEW b \in list, breakDelete(b)
       PROVE  ListInv' /\ LevelInv'
  <2>1. UNCHANGED <<state, stop>> /\ breakChange(b, {})
    BY <1>10 DEF breakDelete, breakChange
  <2> QED  BY <1>2, <1>10, <2>1, ChangeKeeps
<1>11. ASSUME NEW b \in list
       PROVE  /\ [b EXCEPT !.enabled = TRUE] \in Breakpoint
              /\ [b EXCEPT !.enabled = TRUE].number = b.number
              /\ [b EXCEPT !.enabled = FALSE] \in Breakpoint
              /\ [b EXCEPT !.enabled = FALSE].number = b.number
  BY <1>11 DEF ListInv, Breakpoint
<1>12. ASSUME NEW b \in list, NEW cond \in Conditions
       PROVE  /\ [b EXCEPT !.cond = cond] \in Breakpoint
              /\ [b EXCEPT !.cond = cond].number = b.number
  <2>1. cond \in SUBSET (1 .. MaxSteps)
    <3>1. N \in Nat /\ N <= MaxSteps /\ MaxSteps \in Nat
      BY SteppingAssumption DEF ListInv, SInv, Modelled, GoodTrace, N
    <3>2. cond \in SUBSET (1 .. N)
      BY <1>12 DEF Conditions
    <3> HIDE DEF N
    <3>3. 1 .. N \subseteq 1 .. MaxSteps
      BY <3>1
    <3> QED  BY <3>2, <3>3
  <2> QED  BY <2>1 DEF ListInv, Breakpoint
<1>13. ASSUME NEW b \in list, \/ breakDelete(b) \/ breakEnable(b) \/ breakDisable(b)
                              \/ \E cond \in Conditions : breakCondition(b, cond)
       PROVE  ListInv' /\ LevelInv'
  <2>1. CASE breakEnable(b)
    BY <1>9, <1>11, <2>1 DEF breakEnable
  <2>2. CASE breakDisable(b)
    BY <1>9, <1>11, <2>2 DEF breakDisable
  <2>3. ASSUME NEW cond \in Conditions, breakCondition(b, cond)
        PROVE  ListInv' /\ LevelInv'
    BY <1>9, <1>12, <2>3 DEF breakCondition
  <2> QED  BY <1>10, <1>13, <2>1, <2>2, <2>3
<1>14. CASE UNCHANGED vars
  BY <1>1, <1>2, <1>14 DEF vars
<1>15. CASE Next
  BY <1>3, <1>4, <1>5, <1>6, <1>7, <1>8, <1>13, <1>15 DEF Next
<1> QED  BY <1>14, <1>15

\* Type correctness; no two breakpoints have a number, whatever was inserted
\* and deleted.
THEOREM TypeCorrect == Spec => []TypeOK
<1>1. Spec => [](ListInv /\ LevelInv)
  BY InitTyped, StepTyped, PlacesAlways, PTL DEF Spec
<1>2. SInv /\ ListInv /\ LevelInv => TypeOK
  <2> SUFFICES ASSUME SInv, ListInv, LevelInv PROVE TypeOK
    OBVIOUS
  <2>1. /\ pos \in 0 .. N + 1 /\ disp \in 0 .. N + 1
        /\ landed \in BOOLEAN /\ started \in BOOLEAN /\ exited \in BOOLEAN
        /\ running <=> pos \in 1 .. N
    BY DEF SInv, PlaceInv
  <2>2. landed <=> disp # pos
    <3>1. N \in Nat /\ pos \in Nat
      BY <2>1 DEF SInv, Modelled, GoodTrace, N
    <3>2. landed => disp \in 1 .. pos - 1
      BY DEF SInv, PlaceInv
    <3>3. landed => disp # pos
      BY <3>1, <3>2
    <3>4. ~landed => disp = pos
      BY DEF SInv, PlaceInv
    <3> QED  BY <3>3, <3>4
  <2>3. signalPending \in BOOLEAN /\ (signalPending => abnormal /\ running)
    BY DEF SInv, StopInv
  <2> QED  BY <2>1, <2>2, <2>3 DEF TypeOK, ListInv, LevelInv
<1> QED  BY <1>1, <1>2, PlacesAlways, PTL

=============================================================================
