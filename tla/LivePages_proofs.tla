-------------------------- MODULE LivePages_proofs --------------------------
(***************************************************************************)
(* Theorems about what the pages of a live class show: the roster of the   *)
(* client is the relay's (Tracked), an answer shown as received is one     *)
(* that the engine has (Counted), no page goes back (Ordered), and a page  *)
(* agrees with the engine once nothing is under way (Agreement).  Each has *)
(* an invariant of its own, on top of Sound; the last one needs them all.  *)
(***************************************************************************)
EXTENDS LiveClass_proofs

-----------------------------------------------------------------------------
(***************************************************************************)
(* Tracked: what the events on their way say last of a connection is what  *)
(* the relay knows of it.                                                  *)
(***************************************************************************)

\* The events that say whether this sid of d is connected, and what they say.
Decides(m, d, sid) ==
  \/ m.type = "roster"
  \/ m.type \in {"presence", "hello"} /\ m.device = d /\ m.sid = sid
Says(m, d, sid) ==
  \/ m.type = "roster" /\ sid \in m.sids[d]
  \/ m.type = "presence" /\ m.connected
  \/ m.type = "hello"

\* The last of them in a queue says what is so; there is none.
LastWord(q, d, sid, so) ==
  \E i \in 1 .. Len(q) : /\ Decides(q[i], d, sid)
                         /\ \A j \in 1 .. Len(q) : i < j => ~ Decides(q[j], d, sid)
                         /\ Says(q[i], d, sid) <=> so
NoWord(q, d, sid) == \A i \in 1 .. Len(q) : ~ Decides(q[i], d, sid)

\* What a queue says last of a connection, when something is put at its end.
LEMMA WordAppended ==
  ASSUME NEW S, NEW q \in Seq(S), NEW s \in Seq(S), NEW d, NEW sid, NEW so
  PROVE  /\ NoWord(s, d, sid) /\ LastWord(q, d, sid, so) => LastWord(q \o s, d, sid, so)
         /\ NoWord(s, d, sid) /\ NoWord(q, d, sid) => NoWord(q \o s, d, sid)
         /\ LastWord(s, d, sid, so) => LastWord(q \o s, d, sid, so)
<1> DEFINE D(m) == Decides(m, d, sid)
           n == Len(q)
           k == Len(s)
           r == q \o s
<1>1. /\ n \in Nat /\ k \in Nat /\ Len(r) = n + k
      /\ \A i \in 1 .. n : r[i] = q[i]
      /\ \A i \in 1 .. k : r[n + i] = s[i]
  BY ConcatProperties, LenProperties
<1>2. \A i \in 1 .. n + k : i \in 1 .. n \/ \E j \in 1 .. k : i = n + j
  <2> SUFFICES ASSUME NEW i \in 1 .. n + k, i \notin 1 .. n PROVE \E j \in 1 .. k : i = n + j
    OBVIOUS
  <2>1. i - n \in 1 .. k /\ i = n + (i - n)
    BY <1>1
  <2> QED  BY <2>1
<1> HIDE DEF n, k, r
<1>3. ASSUME NoWord(s, d, sid), LastWord(q, d, sid, so)
      PROVE  LastWord(r, d, sid, so)
  <2>1. PICK i \in 1 .. n : /\ Decides(q[i], d, sid)
                            /\ \A j \in 1 .. n : i < j => ~ Decides(q[j], d, sid)
                            /\ Says(q[i], d, sid) <=> so
    BY <1>3 DEF LastWord, n
  <2>2. i \in 1 .. Len(r) /\ r[i] = q[i]
    BY <1>1
  <2>3. \A j \in 1 .. Len(r) : i < j => ~ Decides(r[j], d, sid)
    <3> SUFFICES ASSUME NEW j \in 1 .. Len(r), i < j PROVE ~ Decides(r[j], d, sid)
      OBVIOUS
    <3>1. CASE j \in 1 .. n
      BY <1>1, <2>1, <3>1
    <3>2. CASE \E l \in 1 .. k : j = n + l
      BY <1>1, <1>3, <3>2 DEF NoWord, k
    <3> QED  BY <1>1, <1>2, <3>1, <3>2
  <2> QED  BY <2>1, <2>2, <2>3 DEF LastWord
<1>4. ASSUME NoWord(s, d, sid), NoWord(q, d, sid) PROVE NoWord(r, d, sid)
  BY <1>1, <1>2, <1>4 DEF NoWord, n, k
<1>5. ASSUME LastWord(s, d, sid, so) PROVE LastWord(r, d, sid, so)
  <2>1. PICK i \in 1 .. k : /\ Decides(s[i], d, sid)
                            /\ \A j \in 1 .. k : i < j => ~ Decides(s[j], d, sid)
                            /\ Says(s[i], d, sid) <=> so
    BY <1>5 DEF LastWord, k
  <2>2. n + i \in 1 .. Len(r) /\ r[n + i] = s[i]
    BY <1>1
  <2>3. ASSUME NEW j \in 1 .. Len(r), n + i < j PROVE ~ Decides(r[j], d, sid)
    <3>1. PICK l \in 1 .. k : j = n + l
      BY <1>1, <1>2, <2>3
    <3>2. i < l
      BY <1>1, <2>3, <3>1
    <3> QED  BY <1>1, <2>1, <3>1, <3>2
  <2> QED  BY <2>1, <2>2, <2>3 DEF LastWord
<1> QED  BY <1>3, <1>4, <1>5 DEF r

\* What it says last when its head is taken.
LEMMA WordTail ==
  ASSUME NEW S, NEW q \in Seq(S), q # << >>, NEW d, NEW sid, NEW so
  PROVE  /\ LastWord(q, d, sid, so) =>
              \/ LastWord(Tail(q), d, sid, so)
              \/ /\ NoWord(Tail(q), d, sid) /\ Decides(Head(q), d, sid)
                 /\ Says(Head(q), d, sid) <=> so
         /\ NoWord(q, d, sid) => NoWord(Tail(q), d, sid) /\ ~ Decides(Head(q), d, sid)
<1> DEFINE n == Len(q)
           t == Tail(q)
<1>1. /\ n \in Nat \ {0} /\ Head(q) = q[1] /\ Len(t) = n - 1
      /\ \A i \in 1 .. n - 1 : t[i] = q[i + 1]
  BY HeadTailProperties, EmptySeq
<1> HIDE DEF n, t
<1>2. ASSUME LastWord(q, d, sid, so)
      PROVE  \/ LastWord(t, d, sid, so)
             \/ NoWord(t, d, sid) /\ Decides(q[1], d, sid) /\ (Says(q[1], d, sid) <=> so)
  <2>1. PICK i \in 1 .. n : /\ Decides(q[i], d, sid)
                            /\ \A j \in 1 .. n : i < j => ~ Decides(q[j], d, sid)
                            /\ Says(q[i], d, sid) <=> so
    BY <1>2 DEF LastWord, n
  <2>2. CASE i = 1
    <3>1. ASSUME NEW j \in 1 .. Len(t) PROVE ~ Decides(t[j], d, sid)
      <4>1. j \in 1 .. n - 1 /\ j + 1 \in 1 .. n /\ 1 < j + 1
        BY <1>1
      <4> QED  BY <1>1, <2>1, <2>2, <4>1
    <3> QED  BY <2>1, <2>2, <3>1 DEF NoWord
  <2>3. CASE i # 1
    <3>1. i - 1 \in 1 .. n - 1 /\ (i - 1) + 1 = i
      BY <1>1, <2>3
    <3>2. t[i - 1] = q[i]
      BY <1>1, <3>1
    <3>3. ASSUME NEW j \in 1 .. Len(t), i - 1 < j PROVE ~ Decides(t[j], d, sid)
      <4>1. j \in 1 .. n - 1 /\ j + 1 \in 1 .. n /\ i < j + 1
        BY <1>1, <3>3
      <4> QED  BY <1>1, <2>1, <4>1
    <3> QED  BY <1>1, <2>1, <3>1, <3>2, <3>3 DEF LastWord
  <2> QED  BY <2>2, <2>3
<1>3. ASSUME NoWord(q, d, sid) PROVE NoWord(t, d, sid) /\ ~ Decides(q[1], d, sid)
  <2>1. ~ Decides(q[1], d, sid)
    BY <1>1, <1>3 DEF NoWord, n
  <2>2. ASSUME NEW j \in 1 .. Len(t) PROVE ~ Decides(t[j], d, sid)
    <3>1. j \in 1 .. n - 1 /\ j + 1 \in 1 .. n
      BY <1>1
    <3> QED  BY <1>1, <1>3, <3>1 DEF NoWord, n
  <2> QED  BY <2>1, <2>2 DEF NoWord
<1> QED  BY <1>1, <1>2, <1>3 DEF t

\* What a single event says.
LEMMA WordOne ==
  ASSUME NEW m, NEW d, NEW sid, NEW so
  PROVE  /\ ~ Decides(m, d, sid) => NoWord(<< m >>, d, sid)
         /\ Decides(m, d, sid) /\ (Says(m, d, sid) <=> so) => LastWord(<< m >>, d, sid, so)
<1>1. Len(<< m >>) = 1 /\ << m >>[1] = m
  OBVIOUS
<1> QED  BY <1>1 DEF NoWord, LastWord
-----------------------------------------------------------------------------
\* An event that brings the device of the page's connection.
Announces(m, d) ==
  \/ m.type = "hello" /\ m.device = d /\ m.sid = links[d]
  \/ m.type = "roster" /\ links[d] \in m.pinned[d]

TrackedAt(d, sid) ==
  \/ NoWord(inbox, d, sid) /\ (sid \in connectedSids[d] <=> sid \in SIDS[d])
  \/ LastWord(inbox, d, sid, sid \in SIDS[d])

TrulyGone(m) ==
  m.type = "presence" => /\ m.sid <= links[m.device]
                         /\ ~ m.connected => m.sid \notin SIDS[m.device]

Known(d) ==
  link[d] = "up" => \/ links[d] \in deviceBySid[d]
                    \/ \E m \in Range(inbox) : Announces(m, d)

\* The last event under way about a connection tells what the relay knows of it, and
\* the client does when there is none.
Tracked ==
  teacherLink = "up" =>
    /\ \A d \in Device, sid \in Sid : TrackedAt(d, sid)
    /\ \A m \in Range(inbox) : TrulyGone(m)
    /\ \A d \in Device : Known(d)

\* Steps that leave the events, the relay and the connected sids alone.
LEMMA TrackedKept ==
  ASSUME Tracked, UNCHANGED <<client, teacherLink, inbox, SIDS, links>>,
         \A d \in Device : link'[d] = "up" => link[d] = "up"
  PROVE  Tracked'
<1>1. UNCHANGED <<deviceBySid, connectedSids>>
  BY DEF client
<1>2. SUFFICES ASSUME teacherLink = "up"
               PROVE  /\ \A d \in Device, sid \in Sid : TrackedAt(d, sid)'
                      /\ \A m \in Range(inbox) : TrulyGone(m)'
                      /\ \A d \in Device : Known(d)'
  BY DEF Tracked
<1>3. /\ \A d \in Device, sid \in Sid : TrackedAt(d, sid)
      /\ \A m \in Range(inbox) : TrulyGone(m)
      /\ \A d \in Device : Known(d)
  BY <1>2 DEF Tracked
<1>4. \A d \in Device, sid \in Sid : TrackedAt(d, sid)'
  BY <1>1, <1>3 DEF TrackedAt
<1>5. \A m \in Range(inbox) : TrulyGone(m)'
  BY <1>1, <1>3 DEF TrulyGone
<1>6. \A d \in Device : Known(d)'
  BY <1>1, <1>3 DEF Known, Announces
<1> QED  BY <1>4, <1>5, <1>6

\* What the page of d emits, behind which nothing changes.
LEMMA TrackedEmits ==
  ASSUME Shape, Tracked, NEW d \in Device, NEW m, PageEmits(d, << m >>),
         link[d] = "up" => m \in HelloMsg \cup AnswerMsg(Device, Sid),
         m.type = "hello" => m.device = d /\ m.sid = links[d],
         UNCHANGED <<client, teacherLink, SIDS, link, links>>
  PROVE  Tracked'
<1>1. CASE ~ (link[d] = "up" /\ links[d] \in SIDS[d])
  BY <1>1, TrackedKept DEF PageEmits
<1>2. CASE link[d] = "up" /\ links[d] \in SIDS[d] /\ teacherLink = "up"
  <2>1. inbox' = inbox \o << m >> /\ m \in InboxMsg /\ inbox \in Seq(InboxMsg)
        /\ m.type \in {"hello", "answer"}
    BY <1>2 DEF PageEmits, ToTeacher, InboxMsg, Shape, Types, HelloMsg, AnswerMsg
  <2>2. UNCHANGED <<deviceBySid, connectedSids>> /\ << m >> \in Seq(InboxMsg)
    BY <2>1 DEF client
  <2>3. /\ \A x \in Device, sid \in Sid : TrackedAt(x, sid)
        /\ \A y \in Range(inbox) : TrulyGone(y)
        /\ \A x \in Device : Known(x)
    BY <1>2 DEF Tracked
  <2>4. ASSUME NEW x \in Device, NEW sid \in Sid PROVE TrackedAt(x, sid)'
    <3>1. CASE Decides(m, x, sid)
      <4>1. x = d /\ sid = links[d] /\ sid \in SIDS[x] /\ Says(m, x, sid)
        BY <1>2, <2>1, <3>1 DEF Decides, Says
      <4>2. LastWord(<< m >>, x, sid, sid \in SIDS[x])
        BY <3>1, <4>1, WordOne
      <4>3. LastWord(inbox \o << m >>, x, sid, sid \in SIDS[x])
        BY <2>1, <2>2, <4>2, WordAppended
      <4> QED  BY <2>1, <4>3 DEF TrackedAt
    <3>2. CASE ~ Decides(m, x, sid)
      <4>1. NoWord(<< m >>, x, sid)
        BY <3>2, WordOne
      <4>2. TrackedAt(x, sid)
        BY <2>3
      <4> QED  BY <2>1, <2>2, <4>1, <4>2, WordAppended DEF TrackedAt
    <3> QED  BY <3>1, <3>2
  <2>5. Range(inbox') = Range(inbox) \cup {m}
    <3>1. Range(inbox \o << m >>) = Range(inbox) \cup Range(<< m >>)
      BY ZenonT(40), <2>1, <2>2, RangeConcatenation
    <3> QED  BY <2>1, <3>1, RangeOne
  <2>6. \A y \in Range(inbox') : TrulyGone(y)'
    BY <2>1, <2>3, <2>5 DEF TrulyGone
  <2>7. \A x \in Device : Known(x)'
    BY <2>2, <2>3, <2>5 DEF Known, Announces
  <2> QED  BY <2>4, <2>6, <2>7 DEF Tracked
<1>3. CASE teacherLink # "up"
  BY <1>3 DEF Tracked
<1> QED  BY <1>1, <1>2, <1>3

\* The roster tells everything that the relay knows.
LEMMA TrackedConnects ==
  ASSUME Shape, TeacherConnects
  PROVE  Tracked'
<1> DEFINE m == [type |-> "roster", sids |-> SIDS, pinned |-> pinned]
<1>1. /\ session = "lobby" /\ inbox' = << m >>
      /\ UNCHANGED <<SIDS, pinned, link, links>>
  BY DEF TeacherConnects, relay
<1>2. m.type = "roster" /\ m.sids = SIDS /\ m.pinned = pinned
  OBVIOUS
<1> HIDE DEF m
<1>3. ASSUME NEW d \in Device, NEW sid \in Sid PROVE TrackedAt(d, sid)'
  <2>1. Decides(m, d, sid) /\ (Says(m, d, sid) <=> sid \in SIDS[d])
    BY <1>2 DEF Decides, Says
  <2>2. LastWord(<< m >>, d, sid, sid \in SIDS[d])
    BY <2>1, WordOne
  <2> QED  BY <1>1, <2>2 DEF TrackedAt
<1>4. Range(inbox') = {m}
  BY <1>1, RangeOne
<1>5. \A y \in Range(inbox') : TrulyGone(y)'
  BY <1>2, <1>4 DEF TrulyGone
<1>6. ASSUME NEW d \in Device PROVE Known(d)'
  <2>1. link[d] = "up" => links[d] \in m.pinned[d]
    BY <1>1, <1>2 DEF Shape, LinkShape
  <2> QED  BY <1>1, <1>2, <1>4, <2>1 DEF Known, Announces
<1> QED  BY <1>3, <1>5, <1>6 DEF Tracked

\* Another connection of d: the relay has its sid, and tells of it first and last.
LEMMA TrackedPageConnects ==
  ASSUME Shape, Tracked, NEW d \in Device, PageConnects(d)
  PROVE  Tracked'
<1> DEFINE new == links[d] + 1
           A == Presence(d, new, TRUE)
           H == Hello(d, new)
<1>1. /\ session = "lobby" /\ link[d] = "down" /\ new \in Sid
      /\ link' = [link EXCEPT ![d] = "up"] /\ links' = [links EXCEPT ![d] = @ + 1]
      /\ SIDS' = [SIDS EXCEPT ![d] = @ \cup {new}]
      /\ inbox' = ToTeacher(Arrival(d))
      /\ UNCHANGED <<client, teacherLink>>
  BY ConnectsEffects
<1>2. CASE teacherLink # "up"
  BY <1>1, <1>2 DEF Tracked
<1>3. CASE teacherLink = "up"
  <2>a. /\ inbox \in Seq(InboxMsg) /\ Flushed(d) \in Seq(InboxMsg)
        /\ Flushed(d) \in Seq(AnswerMsg({d}, Sid))
    BY <1>1, FlushedType DEF Shape, Types
  <2>b. A \in Seq(InboxMsg) /\ H \in Seq(InboxMsg) /\ Arrival(d) \in Seq(InboxMsg)
    BY <1>1, ArrivalType
  <2>c. Arrival(d) = (A \o Flushed(d)) \o H
    BY DEF Arrival
  <2>1. inbox' = inbox \o Arrival(d)
    BY <1>1, <1>3 DEF ToTeacher
  <2>2. /\ \A x \in Device, sid \in Sid : TrackedAt(x, sid)
        /\ \A y \in Range(inbox) : TrulyGone(y)
        /\ \A x \in Device : Known(x)
    BY <1>3 DEF Tracked
  <2>3. /\ UNCHANGED <<deviceBySid, connectedSids>>
        /\ SIDS'[d] = SIDS[d] \cup {new} /\ links'[d] = new /\ link'[d] = "up"
        /\ \A x \in Device \ {d} : SIDS'[x] = SIDS[x] /\ links'[x] = links[x] /\ link'[x] = link[x]
    BY <1>1 DEF client, Shape, Types
  <2>4. links[d] \in Nat /\ \A sid \in SIDS[d] : sid <= links[d]
    <3>1. LinkShape(d) /\ links[d] \in 0 .. MaxLinks
      BY DEF Shape, Types
    <3>2. MaxLinks \in Nat
      BY ClassAssumption DEF ClassAssumption
    <3> QED  BY <3>1, <3>2 DEF LinkShape
  <2> DEFINE h == [type |-> "hello", device |-> d, sid |-> new]
             p == [type |-> "presence", device |-> d, sid |-> new, connected |-> TRUE]
  <2>5. H = << h >> /\ A = << p >> /\ h.type = "hello" /\ h.device = d /\ h.sid = new
        /\ p.type = "presence" /\ p.device = d /\ p.sid = new /\ p.connected
    BY DEF Hello, Presence
  <2> DEFINE B == A \o Flushed(d)
             C == Arrival(d)
  <2>d. B = A \o Flushed(d) /\ C = Arrival(d)
    OBVIOUS
  <2> HIDE DEF new, A, H, h, p, B, C
  <2>e. B \in Seq(InboxMsg) /\ C = B \o H /\ C \in Seq(InboxMsg)
    <3>1. A \o Flushed(d) \in Seq(InboxMsg)
      BY <2>a, <2>b, ConcatProperties
    <3> QED  BY <3>1, <2>b, <2>c, <2>d
  <2>0. /\ inbox \in Seq(InboxMsg) /\ Flushed(d) \in Seq(InboxMsg) /\ A \in Seq(InboxMsg)
        /\ H \in Seq(InboxMsg) /\ Arrival(d) \in Seq(InboxMsg)
        /\ Flushed(d) \in Seq(AnswerMsg({d}, Sid))
        /\ A \o Flushed(d) \in Seq(InboxMsg) /\ Arrival(d) = (A \o Flushed(d)) \o H
    BY <2>a, <2>b, <2>c, <2>d, <2>e
  <2>6. ASSUME NEW x \in Device, NEW sid \in Sid PROVE NoWord(Flushed(d), x, sid)
    <3>1. \A i \in 1 .. Len(Flushed(d)) : Flushed(d)[i] \in AnswerMsg({d}, Sid)
      BY <2>0, ElementOfSeq
    <3>2. \A i \in 1 .. Len(Flushed(d)) : Flushed(d)[i].type = "answer"
      BY <3>1 DEF AnswerMsg
    <3> QED  BY <3>2 DEF NoWord, Decides
  <2>7. ASSUME NEW x \in Device, NEW sid \in Sid PROVE TrackedAt(x, sid)'
    <3>1. CASE x = d /\ sid = new
      <4>1. Decides(h, x, sid) /\ Says(h, x, sid) /\ sid \in SIDS'[x]
        BY <2>3, <2>5, <3>1 DEF Decides, Says
      <4>2. LastWord(<< h >>, x, sid, sid \in SIDS'[x])
        BY <4>1, WordOne
      <4>3. LastWord(Arrival(d), x, sid, sid \in SIDS'[x])
        BY <2>0, <2>5, <4>2, WordAppended
      <4>4. LastWord(inbox', x, sid, sid \in SIDS'[x])
        BY <2>0, <2>1, <4>3, WordAppended
      <4> QED  BY <4>4 DEF TrackedAt
    <3>2. CASE ~ (x = d /\ sid = new)
      <4>1. ~ Decides(h, x, sid) /\ ~ Decides(p, x, sid)
        BY <2>5, <3>2 DEF Decides
      <4>2. NoWord(H, x, sid) /\ NoWord(A, x, sid)
        BY <2>5, <4>1, WordOne
      <4>3. NoWord(A \o Flushed(d), x, sid)
        BY <2>0, <2>6, <4>2, WordAppended
      <4>4. NoWord(Arrival(d), x, sid)
        BY <2>0, <4>2, <4>3, WordAppended
      <4>5. sid \in SIDS'[x] <=> sid \in SIDS[x]
        BY <2>3, <3>2
      <4>6. TrackedAt(x, sid)
        BY <2>2
      <4>7. CASE NoWord(inbox, x, sid) /\ (sid \in connectedSids[x] <=> sid \in SIDS[x])
        <5>1. NoWord(inbox', x, sid)
          BY <2>0, <2>1, <4>4, <4>7, WordAppended
        <5> QED  BY <2>3, <4>5, <4>7, <5>1 DEF TrackedAt
      <4>8. CASE LastWord(inbox, x, sid, sid \in SIDS[x])
        <5>1. LastWord(inbox', x, sid, sid \in SIDS[x])
          BY <2>0, <2>1, <4>4, <4>8, WordAppended
        <5>2. LastWord(inbox', x, sid, sid \in SIDS'[x])
          BY <4>5, <5>1 DEF LastWord
        <5> QED  BY <5>2 DEF TrackedAt
      <4> QED  BY <4>6, <4>7, <4>8 DEF TrackedAt
    <3> QED  BY <3>1, <3>2
  <2>8. Range(inbox') = Range(inbox) \cup {p} \cup Range(Flushed(d)) \cup {h}
    <3>0. inbox \in Seq(InboxMsg) /\ C \in Seq(InboxMsg)
      BY <2>0, <2>e
    <3>1. Range(inbox \o C) = Range(inbox) \cup Range(C)
      BY <3>0, RangeConcatenation
    <3>2. Range(B \o H) = Range(B) \cup Range(H)
      BY <2>b, <2>e, RangeConcatenation
    <3>3. Range(A \o Flushed(d)) = Range(A) \cup Range(Flushed(d))
      BY <2>0, RangeConcatenation
    <3>4. Range(A) = {p} /\ Range(H) = {h}
      BY <2>5, RangeOne
    <3> QED  BY <2>1, <2>d, <2>e, <3>1, <3>2, <3>3, <3>4
  <2>9. ASSUME NEW y \in Range(inbox') PROVE TrulyGone(y)'
    <3>1. CASE y \in Range(inbox)
      <4>1. TrulyGone(y) /\ y \in InboxMsg
        BY <2>0, <2>2, <3>1, RangeOfSeq
      <4>2. y.type = "presence" => y.device \in Device /\ y.sid \in Nat
        BY <4>1 DEF InboxMsg, HelloMsg, AnswerMsg, PresenceMsg, RosterMsg, Sid
      <4>3. CASE y.type = "presence" /\ y.device = d
        BY <2>3, <2>4, <4>1, <4>2, <4>3 DEF TrulyGone, new
      <4>4. CASE ~ (y.type = "presence" /\ y.device = d)
        BY <2>3, <4>1, <4>2, <4>4 DEF TrulyGone
      <4> QED  BY <4>3, <4>4
    <3>2. CASE y \in {p, h}
      BY <1>1, <2>3, <2>5, <3>2 DEF TrulyGone, Sid
    <3>3. CASE y \in Range(Flushed(d))
      <4>1. y \in AnswerMsg({d}, Sid)
        BY <2>0, <3>3, RangeOfSeq
      <4> QED  BY <4>1 DEF AnswerMsg, TrulyGone
    <3> QED  BY <2>8, <3>1, <3>2, <3>3
  <2>10. ASSUME NEW x \in Device PROVE Known(x)'
    <3>1. CASE x = d
      BY <2>3, <2>5, <2>8, <3>1 DEF Known, Announces
    <3>2. CASE x # d
      BY <2>2, <2>3, <2>8, <3>2 DEF Known, Announces
    <3> QED  BY <3>1, <3>2
  <2> QED  BY <2>7, <2>9, <2>10 DEF Tracked
<1> QED  BY <1>2, <1>3

\* The relay drops a connection and tells the teacher.
LEMMA TrackedRelayNotices ==
  ASSUME Shape, Tracked, NEW d \in Device, NEW sid \in Sid, RelayNotices(d, sid)
  PROVE  Tracked'
<1> DEFINE m == [type |-> "presence", device |-> d, sid |-> sid, connected |-> FALSE]
<1>1. /\ sid \in SIDS[d] /\ inbox' = ToTeacher(<< m >>)
      /\ SIDS' = [SIDS EXCEPT ![d] = @ \ {sid}]
      /\ UNCHANGED <<deviceBySid, connectedSids, teacherLink, link, links>>
  BY DEF RelayNotices, Presence, client, pageNet
<1>2. m.type = "presence" /\ m.device = d /\ m.sid = sid /\ ~ m.connected
  OBVIOUS
<1>3. m \in InboxMsg
  BY DEF InboxMsg, PresenceMsg
<1> HIDE DEF m
<1>4. CASE teacherLink # "up"
  BY <1>1, <1>4 DEF Tracked
<1>5. CASE teacherLink = "up"
  <2>1. inbox' = inbox \o << m >> /\ inbox \in Seq(InboxMsg) /\ << m >> \in Seq(InboxMsg)
    BY <1>1, <1>3, <1>5 DEF ToTeacher, Shape, Types
  <2>2. /\ \A x \in Device, s \in Sid : TrackedAt(x, s)
        /\ \A y \in Range(inbox) : TrulyGone(y)
        /\ \A x \in Device : Known(x)
    BY <1>5 DEF Tracked
  <2>3. SIDS'[d] = SIDS[d] \ {sid} /\ \A x \in Device \ {d} : SIDS'[x] = SIDS[x]
    BY <1>1 DEF Shape, Types
  <2>4. ASSUME NEW x \in Device, NEW s \in Sid PROVE TrackedAt(x, s)'
    <3>1. CASE x = d /\ s = sid
      <4>1. Decides(m, x, s) /\ ~ Says(m, x, s) /\ s \notin SIDS'[x]
        BY <1>2, <2>3, <3>1 DEF Decides, Says
      <4>2. LastWord(<< m >>, x, s, s \in SIDS'[x])
        BY <4>1, WordOne
      <4>3. LastWord(inbox', x, s, s \in SIDS'[x])
        BY <2>1, <4>2, WordAppended
      <4> QED  BY <4>3 DEF TrackedAt
    <3>2. CASE ~ (x = d /\ s = sid)
      <4>1. ~ Decides(m, x, s) /\ (s \in SIDS'[x] <=> s \in SIDS[x])
        BY <1>2, <2>3, <3>2 DEF Decides
      <4>2. NoWord(<< m >>, x, s) /\ TrackedAt(x, s)
        BY <2>2, <4>1, WordOne
      <4>3. CASE NoWord(inbox, x, s) /\ (s \in connectedSids[x] <=> s \in SIDS[x])
        <5>1. NoWord(inbox', x, s)
          BY <2>1, <4>2, <4>3, WordAppended
        <5> QED  BY <1>1, <4>1, <4>3, <5>1 DEF TrackedAt
      <4>4. CASE LastWord(inbox, x, s, s \in SIDS[x])
        <5>1. LastWord(inbox', x, s, s \in SIDS[x])
          BY <2>1, <4>2, <4>4, WordAppended
        <5>2. LastWord(inbox', x, s, s \in SIDS'[x])
          BY <4>1, <5>1 DEF LastWord
        <5> QED  BY <5>2 DEF TrackedAt
      <4> QED  BY <4>2, <4>3, <4>4 DEF TrackedAt
    <3> QED  BY <3>1, <3>2
  <2>5. Range(inbox') = Range(inbox) \cup {m}
    <3>1. Range(inbox \o << m >>) = Range(inbox) \cup Range(<< m >>)
      BY ZenonT(40), <2>1, RangeConcatenation
    <3> QED  BY <2>1, <3>1, RangeOne
  <2>6. ASSUME NEW y \in Range(inbox') PROVE TrulyGone(y)'
    <3>1. CASE y = m
      <4>1. sid <= links[d]
        BY <1>1 DEF Shape, LinkShape
      <4> QED  BY <1>1, <1>2, <2>3, <3>1, <4>1 DEF TrulyGone
    <3>2. CASE y \in Range(inbox)
      <4>1. TrulyGone(y) /\ y \in InboxMsg
        BY <2>1, <2>2, <3>2, RangeOfSeq
      <4>2. y.type = "presence" => y.device \in Device
        BY <4>1 DEF InboxMsg, HelloMsg, AnswerMsg, PresenceMsg, RosterMsg
      <4>3. \A x \in Device : SIDS'[x] \subseteq SIDS[x]
        BY <2>3
      <4> QED  BY <1>1, <4>1, <4>2, <4>3 DEF TrulyGone
    <3> QED  BY <2>5, <3>1, <3>2
  <2>7. \A x \in Device : Known(x)'
    BY <1>1, <2>2, <2>5 DEF Known, Announces
  <2> QED  BY <2>4, <2>6, <2>7 DEF Tracked
<1> QED  BY <1>4, <1>5

\* What the client makes of an event: of a connection it holds what the event says,
\* and forgets the device of one only when that is gone.
LEMMA ClientHears ==
  ASSUME Shape, TeacherReceives, NEW m, m = Head(inbox)
  PROVE  \A x \in Device :
           /\ \A s \in Sid : s \in connectedSids'[x] <=> IF Decides(m, x, s) THEN Says(m, x, s)
                                                         ELSE s \in connectedSids[x]
           /\ \A s \in deviceBySid[x] \ deviceBySid'[x] :
                m.type = "presence" /\ ~ m.connected /\ m.device = x /\ m.sid = s
           /\ Announces(m, x) => links[x] \in deviceBySid'[x]
<1> SUFFICES ASSUME NEW x \in Device
             PROVE  /\ \A s \in Sid : s \in connectedSids'[x] <=>
                         IF Decides(m, x, s) THEN Says(m, x, s) ELSE s \in connectedSids[x]
                    /\ \A s \in deviceBySid[x] \ deviceBySid'[x] :
                         m.type = "presence" /\ ~ m.connected /\ m.device = x /\ m.sid = s
                    /\ Announces(m, x) => links[x] \in deviceBySid'[x]
  OBVIOUS
<1>1. \/ m \in HelloMsg /\ OnStudentHello(m.device, m.sid)
      \/ m \in AnswerMsg(Device, Sid) /\ OnAnswerAccepted(m.device, m)
      \/ m \in AnswerMsg(Device, Sid) /\ OnAnswerRejected(m.device, m)
      \/ m \in PresenceMsg /\ OnPresence(m.device, m)
      \/ m \in RosterMsg /\ OnRoster(m)
  BY ReceivesCases
<1>2. deviceBySid \in [Device -> SUBSET Sid] /\ connectedSids \in [Device -> SUBSET Sid]
  BY DEF Shape, Types
<1>3. CASE m \in HelloMsg /\ OnStudentHello(m.device, m.sid)
  <2>1. m.type = "hello" /\ m.device \in Device /\ m.sid \in Sid
    BY <1>3 DEF HelloMsg
  <2>2. /\ deviceBySid' = [deviceBySid EXCEPT ![m.device] = @ \cup {m.sid}]
        /\ connectedSids' = [connectedSids EXCEPT ![m.device] = @ \cup {m.sid}]
    BY <1>3 DEF OnStudentHello
  <2> QED  BY <1>2, <2>1, <2>2 DEF Decides, Says, Announces
<1>4. CASE m \in AnswerMsg(Device, Sid) /\ (OnAnswerAccepted(m.device, m) \/ OnAnswerRejected(m.device, m))
  <2>1. m.type = "answer" /\ m.device \in Device /\ m.sid \in Sid
    BY <1>4 DEF AnswerMsg
  <2>2. connectedSids' = connectedSids
    BY <1>4 DEF OnAnswerAccepted, OnAnswerRejected, client
  <2>3. \/ deviceBySid' = [deviceBySid EXCEPT ![m.device] = @ \cup {m.sid}]
        \/ deviceBySid' = deviceBySid
    BY <1>4 DEF OnAnswerAccepted, OnAnswerRejected, client
  <2> QED  BY <1>2, <2>1, <2>2, <2>3 DEF Decides, Announces
<1>5. CASE m \in PresenceMsg /\ OnPresence(m.device, m)
  <2>1. m.type = "presence" /\ m.device \in Device /\ m.sid \in Sid /\ m.connected \in BOOLEAN
    BY <1>5 DEF PresenceMsg
  <2>2. CASE m.connected
    <3>1. connectedSids' = [connectedSids EXCEPT ![m.device] = @ \cup {m.sid}]
          /\ UNCHANGED deviceBySid
      BY <1>5, <2>2 DEF OnPresence
    <3> QED  BY <1>2, <2>1, <2>2, <3>1 DEF Decides, Says, Announces
  <2>3. CASE ~ m.connected
    <3>1. /\ connectedSids' = [connectedSids EXCEPT ![m.device] = @ \ {m.sid}]
          /\ deviceBySid' = [deviceBySid EXCEPT ![m.device] = @ \ {m.sid}]
      BY <1>5, <2>3 DEF OnPresence
    <3> QED  BY <1>2, <2>1, <2>3, <3>1 DEF Decides, Says, Announces
  <2> QED  BY <2>2, <2>3
<1>6. CASE m \in RosterMsg /\ OnRoster(m)
  <2>1. m.type = "roster" /\ m.sids \in [Device -> SUBSET Sid] /\ m.pinned \in [Device -> SUBSET Sid]
    BY <1>6 DEF RosterMsg
  <2>2. /\ connectedSids' = m.sids
        /\ deviceBySid' = [d \in Device |-> deviceBySid[d] \cup m.pinned[d]]
    BY <1>6 DEF OnRoster
  <2> QED  BY <1>2, <2>1, <2>2 DEF Decides, Says, Announces
<1> QED  BY <1>1, <1>3, <1>4, <1>5, <1>6

\* The client handles the next event.
LEMMA TrackedReceives ==
  ASSUME Shape, Tracked, TeacherReceives
  PROVE  Tracked'
<1> DEFINE m == Head(inbox)
           t == Tail(inbox)
<1>0. m = Head(inbox) /\ t = Tail(inbox)
  OBVIOUS
<1> HIDE DEF m, t
<1>1. /\ teacherLink = "up" /\ inbox # << >> /\ inbox' = t /\ m \in InboxMsg
      /\ UNCHANGED <<teacherLink, SIDS, link, links>>
  BY <1>0, ReceivesCases DEF relay
<1>2. /\ \A x \in Device, s \in Sid : TrackedAt(x, s)
      /\ \A y \in Range(inbox) : TrulyGone(y)
      /\ \A x \in Device : Known(x)
  BY <1>1 DEF Tracked
<1>3. inbox \in Seq(InboxMsg)
  BY DEF Shape, Types
<1>4. Range(inbox) = {m} \cup Range(t)
  BY <1>0, <1>1, <1>3, RangeHeadTail
<1>5. \A x \in Device :
        /\ \A s \in Sid : s \in connectedSids'[x] <=> IF Decides(m, x, s) THEN Says(m, x, s)
                                                      ELSE s \in connectedSids[x]
        /\ \A s \in deviceBySid[x] \ deviceBySid'[x] :
             m.type = "presence" /\ ~ m.connected /\ m.device = x /\ m.sid = s
        /\ Announces(m, x) => links[x] \in deviceBySid'[x]
  BY <1>0, ClientHears
<1>6. ASSUME NEW x \in Device, NEW s \in Sid PROVE TrackedAt(x, s)'
  <2>1. s \in connectedSids'[x] <=> IF Decides(m, x, s) THEN Says(m, x, s)
                                    ELSE s \in connectedSids[x]
    BY <1>5
  <2>2. CASE NoWord(inbox, x, s) /\ (s \in connectedSids[x] <=> s \in SIDS[x])
    <3>1. NoWord(t, x, s) /\ ~ Decides(m, x, s)
      BY <1>0, <1>1, <1>3, <2>2, WordTail
    <3> QED  BY <1>1, <2>1, <2>2, <3>1 DEF TrackedAt
  <2>3. CASE LastWord(inbox, x, s, s \in SIDS[x])
    <3>1. \/ LastWord(t, x, s, s \in SIDS[x])
          \/ NoWord(t, x, s) /\ Decides(m, x, s) /\ (Says(m, x, s) <=> s \in SIDS[x])
      <4> DEFINE so == s \in SIDS[x]
      <4>1. LastWord(inbox, x, s, so) /\ inbox # << >>
        BY <1>1, <2>3
      <4> HIDE DEF so
      <4>2. \/ LastWord(t, x, s, so)
            \/ NoWord(t, x, s) /\ Decides(m, x, s) /\ (Says(m, x, s) <=> so)
        BY <1>0, <1>3, <4>1, WordTail
      <4> QED  BY <4>2 DEF so
    <3>2. CASE LastWord(t, x, s, s \in SIDS[x])
      BY <1>1, <3>2 DEF TrackedAt
    <3>3. CASE NoWord(t, x, s) /\ Decides(m, x, s) /\ (Says(m, x, s) <=> s \in SIDS[x])
      BY <1>1, <2>1, <3>3 DEF TrackedAt
    <3> QED  BY <3>1, <3>2, <3>3
  <2>4. TrackedAt(x, s)
    BY <1>2
  <2> QED  BY <2>2, <2>3, <2>4 DEF TrackedAt
<1>7. \A y \in Range(inbox') : TrulyGone(y)'
  BY <1>1, <1>2, <1>4 DEF TrulyGone
<1>8. ASSUME NEW x \in Device PROVE Known(x)'
  <2>1. SUFFICES ASSUME link[x] = "up"
                 PROVE  links[x] \in deviceBySid'[x] \/ \E y \in Range(t) : Announces(y, x)
    BY <1>1 DEF Known, Announces
  <2>2. CASE links[x] \in deviceBySid[x]
    <3>1. links[x] \in SIDS[x]
      <4>1. session = "lobby"
        BY <1>1 DEF Shape, TeacherShape, Types
      <4>2. LinkShape(x)
        BY DEF Shape
      <4> QED  BY <2>1, <4>1, <4>2 DEF LinkShape
    <3>2. TrulyGone(m)
      BY <1>2, <1>4
    <3> QED  BY <1>5, <2>2, <3>1, <3>2 DEF TrulyGone
  <2>3. CASE \E y \in Range(inbox) : Announces(y, x)
    BY <1>4, <1>5, <2>3
  <2> QED  BY <1>2, <2>1, <2>2, <2>3 DEF Known
<1> QED  BY <1>6, <1>7, <1>8 DEF Tracked

\* The page of d says hello again.
LEMMA TrackedHello ==
  ASSUME Shape, Tracked, NEW d \in Device, link[d] = "up", PageEmits(d, Hello(d, links[d])),
         UNCHANGED <<client, teacherLink, SIDS, link, links>>
  PROVE  Tracked'
<1> DEFINE m == [type |-> "hello", device |-> d, sid |-> links[d]]
<1>1. PageEmits(d, << m >>)
  BY DEF Hello
<1>2. m.type = "hello" /\ m.device = d /\ m.sid = links[d]
  OBVIOUS
<1>3. m \in HelloMsg
  BY DEF HelloMsg, Shape, LinkShape
<1> HIDE DEF m
<1> QED  BY <1>1, <1>2, <1>3, TrackedEmits

\* The page of d sends an answer.
LEMMA TrackedTransmits ==
  ASSUME Shape, Tracked, NEW d \in Device, ConfirmPending(d) \/ Resend(d)
  PROVE  Tracked'
<1>1. \E q \in ChoiceQuestion, o \in Option, pending \in Option \cup {None} :
        q = page[d].question /\ q # None /\ Transmit(d, q, o, pending)
  <2>1. page[d] \in Page /\ (page[d].question # None => page[d].question \in ChoiceQuestion)
    BY DEF Shape, Types, Page
  <2> QED  BY <2>1, ConfirmTransmits, ResendTransmits
<1>2. PICK q \in ChoiceQuestion, o \in Option, pending \in Option \cup {None} :
        q = page[d].question /\ q # None /\ Transmit(d, q, o, pending)
  BY <1>1
<1> DEFINE m == [type |-> "answer", device |-> d, sid |-> links[d],
                 question |-> q, answer |-> o, nonce |-> sent'[d]]
<1>3. /\ sent'[d] \in Nonce /\ PageEmits(d, << m >>)
      /\ UNCHANGED <<client, teacherLink, SIDS, link, links>>
  BY <1>2, TransmitEffects
<1>4. link[d] = "up" => m \in AnswerMsg(Device, Sid)
  BY <1>3 DEF AnswerMsg, Shape, LinkShape
<1>5. m.type = "answer"
  OBVIOUS
<1> HIDE DEF m
<1> QED  BY <1>3, <1>4, <1>5, TrackedEmits

\* A page handles the next message, and may say hello.
LEMMA TrackedPageReceives ==
  ASSUME Shape, Tracked, NEW d \in Device, PageReceives(d)
  PROVE  Tracked'
<1>1. /\ link[d] = "up"
      /\ UNCHANGED <<client, teacherLink, SIDS, links>>
      /\ \/ UNCHANGED <<inbox, link>>
         \/ PageEmits(d, Hello(d, links[d])) /\ UNCHANGED link
         \/ UNCHANGED inbox /\ link' = [link EXCEPT ![d] = "closed"]
  BY PageReceivesCases
<1>2. CASE UNCHANGED <<inbox, link>>
  BY <1>1, <1>2, TrackedKept
<1>3. CASE PageEmits(d, Hello(d, links[d])) /\ UNCHANGED link
  BY <1>1, <1>3, TrackedHello
<1>4. CASE UNCHANGED inbox /\ link' = [link EXCEPT ![d] = "closed"]
  <2>1. \A x \in Device : link'[x] = "up" => link[x] = "up"
    BY <1>4 DEF Shape, Types
  <2> QED  BY <1>1, <1>4, <2>1, TrackedKept
<1> QED  BY <1>1, <1>2, <1>3, <1>4

\* Every step keeps it.
LEMMA TrackedStep ==
  ASSUME Sound, Tracked, [Next]_vars
  PROVE  Tracked'
<1>0. Shape
  BY DEF Sound
<1>1. CASE UNCHANGED vars
  <2>1. UNCHANGED <<client, teacherLink, inbox, SIDS, links, link>>
    BY <1>1 DEF vars, teacherNet, relay, pageNet
  <2> QED  BY <2>1, TrackedKept
<1>2. ASSUME NEW q \in ChoiceQuestion, TriggerLiveQuestion(q) \/ CloseLiveQuestion(q)
      PROVE  Tracked'
  <2>1. UNCHANGED <<client, teacherLink, inbox, SIDS, links, link>>
    BY <1>2 DEF TriggerLiveQuestion, CloseLiveQuestion, relay
  <2> QED  BY <2>1, TrackedKept
<1>3. CASE TeacherReceives
  BY <1>0, <1>3, TrackedReceives
<1>4. CASE TeacherLinkBreaks
  BY <1>4 DEF TeacherLinkBreaks, Tracked
<1>5. CASE TeacherNotices
  BY <1>5 DEF TeacherNotices, Tracked
<1>6. CASE TeacherConnects
  BY <1>0, <1>6, TrackedConnects
<1>7. CASE SessionEnds
  BY <1>7 DEF SessionEnds, Tracked
<1>8. ASSUME NEW d \in Device,
             \/ PageConnects(d) \/ PageRefused(d) \/ PageLinkBreaks(d) \/ PageNotices(d)
             \/ Reload(d) \/ PageReceives(d) \/ Resync(d)
             \/ CancelPending(d) \/ ConfirmPending(d) \/ AckTimeout(d) \/ Resend(d)
             \/ \E o \in Option : RequestSubmit(d, o)
             \/ \E sid \in Sid : RelayNotices(d, sid)
      PROVE  Tracked'
  <2>0. link \in [Device -> {"up", "broken", "down", "closed"}]
    BY <1>0 DEF Shape, Types
  <2>1. CASE PageConnects(d)
    BY <1>0, <2>1, TrackedPageConnects
  <2>2. CASE PageRefused(d) \/ PageLinkBreaks(d) \/ PageNotices(d) \/ Reload(d)
    <3>1. UNCHANGED <<client, teacherLink, inbox, SIDS, links>>
      BY <2>2 DEF PageRefused, PageLinkBreaks, PageNotices, Reload, teacherNet, relay
    <3>2. \E l \in {"closed", "broken", "down"} : link' = [link EXCEPT ![d] = l]
      BY <2>2 DEF PageRefused, PageLinkBreaks, PageNotices, Reload
    <3>3. \A x \in Device : link'[x] = "up" => link[x] = "up"
      BY <2>0, <3>2
    <3> QED  BY <3>1, <3>3, TrackedKept
  <2>3. CASE PageReceives(d)
    BY <1>0, <2>3, TrackedPageReceives
  <2>4. CASE Resync(d)
    <3>1. /\ link[d] = "up" /\ PageEmits(d, Hello(d, links[d]))
          /\ UNCHANGED <<client, teacherLink, SIDS, link, links>>
      BY <2>4 DEF Resync
    <3> QED  BY <1>0, <3>1, TrackedHello
  <2>5. CASE ConfirmPending(d) \/ Resend(d)
    BY <1>0, <2>5, TrackedTransmits
  <2>6. CASE CancelPending(d) \/ AckTimeout(d) \/ \E o \in Option : RequestSubmit(d, o)
    <3>1. UNCHANGED <<client, teacherLink, inbox, SIDS, links, link>>
      BY <2>6 DEF CancelPending, AckTimeout, RequestSubmit, onlyPage, teacherNet, relay, pageNet
    <3> QED  BY <3>1, TrackedKept
  <2>7. ASSUME NEW sid \in Sid, RelayNotices(d, sid) PROVE Tracked'
    BY <1>0, <2>7, TrackedRelayNotices
  <2> QED  BY <1>8, <2>1, <2>2, <2>3, <2>4, <2>5, <2>6, <2>7
<1> QED  BY <1>1, <1>2, <1>3, <1>4, <1>5, <1>6, <1>7, <1>8 DEF Next

\* It always holds.
LEMMA TrackedAlways == Spec => []Tracked
<1>1. Init => Tracked
  BY DEF Init, Tracked
<1>2. Sound /\ Tracked /\ [Next]_vars => Tracked'
  BY TrackedStep
<1> QED  BY <1>1, <1>2, SoundAlways, PTL DEF Spec

\* Presence events and rosters leave the client with the relay's connections, and
\* with the device of every connected page.
THEOREM RosterFollows == Spec => []RosterFollowsRelay
<1>1. Sound /\ Tracked => RosterFollowsRelay
  <2> SUFFICES ASSUME Sound, Tracked, teacherLink = "up", inbox = << >>
               PROVE  /\ connectedSids = SIDS
                      /\ \A d \in Device : Quiet(d) => links[d] \in deviceBySid[d]
    BY DEF RosterFollowsRelay
  <2>1. /\ \A d \in Device, sid \in Sid : TrackedAt(d, sid)
        /\ \A d \in Device : Known(d)
    BY DEF Tracked
  <2>2. connectedSids \in [Device -> SUBSET Sid] /\ SIDS \in [Device -> SUBSET Sid]
    BY DEF Sound, Shape, Types
  <2>3. \A d \in Device, sid \in Sid : sid \in connectedSids[d] <=> sid \in SIDS[d]
    <3>1. Len(inbox) = 0
      OBVIOUS
    <3>2. \A d \in Device, sid \in Sid : ~ LastWord(inbox, d, sid, sid \in SIDS[d])
      BY <3>1 DEF LastWord
    <3> QED  BY <2>1, <3>2 DEF TrackedAt
  <2>4. \A d \in Device : connectedSids[d] = SIDS[d]
    BY <2>2, <2>3
  <2>5. connectedSids = SIDS
    BY <2>2, <2>4
  <2>6. ASSUME NEW d \in Device, Quiet(d) PROVE links[d] \in deviceBySid[d]
    <3>1. link[d] = "up" /\ Range(inbox) = {}
      BY <2>6, RangeEmpty DEF Quiet
    <3> QED  BY <2>1, <3>1 DEF Known
  <2> QED  BY <2>5, <2>6
<1> QED  BY <1>1, SoundAlways, TrackedAlways, PTL

-----------------------------------------------------------------------------
(***************************************************************************)
(* Counted: what tells a page that its answer is received is true, and an  *)
(* answer under way is not confirmed in the name of an earlier one.        *)
(***************************************************************************)

\* An answer that the engine takes is there afterwards; while the question is open
\* it is the one that counts; nothing else in the engine changes.
LEMMA AcceptRecords ==
  ASSUME EngineTypes, NEW d \in Device, NEW q \in ChoiceQuestion, NEW a \in Option,
         Engine!Accept(d, q, a)
  PROVE  /\ d \in participants /\ d \in DOMAIN answers'[q]
         /\ qstate[q] = "open" => answers'[q][d] = a
         /\ qstate[q] # "open" => d \in DOMAIN answers[q] /\ UNCHANGED answers
         /\ \A x \in Device, y \in ChoiceQuestion :
              x # d \/ y # q => AnswerOf(x, y)' = AnswerOf(x, y)
         /\ UNCHANGED <<qstate, opened_at, clock, participants>>
<1>1. CASE Engine!AnswerChoice(d, q, a)
  <2>1. /\ qstate[q] = "open" /\ d \in participants
        /\ answers' = [answers EXCEPT ![q] = Engine!Put(@, d, a)]
        /\ UNCHANGED <<qstate, opened_at, clock, participants>>
    BY <1>1 DEF Engine!AnswerChoice, Engine!MayAnswer, Engine!CountAnswer
  <2>2. /\ answers'[q] = Engine!Put(answers[q], d, a)
        /\ \A y \in ChoiceQuestion : y # q => answers'[y] = answers[y]
    BY <2>1 DEF EngineTypes
  <2>3. /\ DOMAIN Engine!Put(answers[q], d, a) = DOMAIN answers[q] \cup {d}
        /\ Engine!Put(answers[q], d, a)[d] = a
        /\ \A x \in DOMAIN answers[q] : x # d => Engine!Put(answers[q], d, a)[x] = answers[q][x]
    BY DEF Engine!Put
  <2>4. ASSUME NEW x \in Device, NEW y \in ChoiceQuestion, x # d \/ y # q
        PROVE  AnswerOf(x, y)' = AnswerOf(x, y)
    BY <2>2, <2>3, <2>4 DEF AnswerOf
  <2> QED  BY <2>1, <2>2, <2>3, <2>4
<1>2. CASE Engine!AnswerLate(d, q)
  <2>1. /\ qstate[q] # "open" /\ d \in participants /\ d \in DOMAIN answers[q]
        /\ UNCHANGED <<qstate, opened_at, clock, participants, answers>>
    BY <1>2 DEF Engine!AnswerLate, Engine!engineVars, Engine!answered
  <2> QED  BY <2>1 DEF AnswerOf
<1> QED  BY <1>1, <1>2 DEF Engine!Accept

\* What the queues gain from what the client says: to the page of d what is
\* addressed to its connection, to the buffer everything.
LEMMA EmitsRange ==
  ASSUME Types, NEW out, Emittable(out), TeacherEmits(out), NEW d \in Device
  PROVE  /\ \A m \in Range(down'[d]) : \/ m \in Range(down[d])
                                       \/ \E x \in Range(out[d]) : links[d] \in x.to /\ m = x.msg
         /\ \A x \in Range(sendBuffer'[d]) : x \in Range(sendBuffer[d]) \/ x \in Range(out[d])
<1>1. /\ out[d] \in Seq(Item(Spoken \cup ReceivedMsg))
      /\ down[d] \in Seq(PageMsg) /\ sendBuffer[d] \in Seq(Item(Spoken))
  BY DEF Emittable, Types
<1>2. ASSUME teacherLink = "up", NEW m \in Range(down'[d])
      PROVE  m \in Range(down[d]) \/ \E x \in Range(out[d]) : links[d] \in x.to /\ m = x.msg
  <2> DEFINE r == Reaching(d, out[d])
  <2>1. down'[d] = down[d] \o r
    BY <1>2 DEF TeacherEmits
  <2>2. r \in Seq(Spoken \cup ReceivedMsg)
    BY <1>1, ReachingType
  <2>3. r \in Seq(PageMsg)
    BY <2>2, SeqMonotonic DEF PageMsg
  <2>4. \A y \in Range(r) : y \in Range(For(links[d], out[d]))
    BY RangeEmpty DEF Reaching
  <2> HIDE DEF r
  <2>5. Range(down[d] \o r) = Range(down[d]) \cup Range(r)
    BY <1>1, <2>3, RangeConcatenation
  <2>6. ASSUME m \in Range(For(links[d], out[d]))
        PROVE  \E x \in Range(out[d]) : links[d] \in x.to /\ m = x.msg
    BY <1>1, <2>6, ForRange
  <2> QED  BY <1>2, <2>1, <2>4, <2>5, <2>6
<1>3. teacherLink # "up" => down'[d] = down[d]
  BY DEF TeacherEmits
<1>4. ASSUME teacherLink = "down"
      PROVE  Range(sendBuffer'[d]) = Range(sendBuffer[d]) \cup Range(out[d])
  <2>1. sendBuffer'[d] = sendBuffer[d] \o out[d] /\ out[d] \in Seq(Item(Spoken))
    BY <1>4 DEF TeacherEmits, Emittable
  <2>2. Range(sendBuffer[d] \o out[d]) = Range(sendBuffer[d]) \cup Range(out[d])
    BY <1>1, <2>1, RangeConcatenation
  <2> QED  BY <2>1, <2>2
<1>5. teacherLink # "down" => sendBuffer'[d] = sendBuffer[d]
  BY DEF TeacherEmits
<1> QED  BY <1>2, <1>3, <1>4, <1>5

\* What the client says when it has handled the next event.
LEMMA ReceivesTells ==
  ASSUME Shape, Facing', TeacherReceives, NEW m, m = Head(inbox)
  PROVE  \E out :
           /\ TeacherEmits(out) /\ Emittable(out)
           /\ \A d \in Device : \A x \in Range(out[d]) :
                \/ x.msg = StudentState(d)'
                \/ /\ m \in AnswerMsg(Device, Sid) /\ m.device = d /\ OnAnswerAccepted(d, m)
                   /\ x.msg = [type |-> "received", nonce |-> m.nonce]
<1> DEFINE True(d, x) ==
             \/ x.msg = StudentState(d)'
             \/ /\ m \in AnswerMsg(Device, Sid) /\ m.device = d /\ OnAnswerAccepted(d, m)
                /\ x.msg = [type |-> "received", nonce |-> m.nonce]
           Goal(out) == /\ TeacherEmits(out) /\ Emittable(out)
                        /\ \A d \in Device : \A x \in Range(out[d]) : True(d, x)
<1>0. teacherLink = "up" /\ Types
  BY ReceivesCases DEF Shape
<1>1. ASSUME UNCHANGED <<down, sendBuffer>> PROVE Goal(Nothing)
  <2>1. \A d \in Device : Range(Nothing[d]) = {}
    BY RangeEmpty DEF Nothing
  <2> QED  BY <1>0, <1>1, <2>1, Silent
<1>2. ASSUME NEW o, NEW d \in Device, NEW sid \in Sid, SaidTo(d, sid, o),
             TeacherEmits([Nothing EXCEPT ![d] = o]), \A x \in Range(o) : True(d, x)
      PROVE  Goal([Nothing EXCEPT ![d] = o])
  <2> HIDE DEF True
  <2>1. Emittable([Nothing EXCEPT ![d] = o])
    BY <1>0, <1>2, SaidType, AboutOne
  <2>2. \A x \in Device : [Nothing EXCEPT ![d] = o][x] = IF x = d THEN o ELSE << >>
    BY DEF Nothing
  <2>3. \A x \in Device : \A y \in Range([Nothing EXCEPT ![d] = o][x]) : True(x, y)
    BY <1>2, <2>2, RangeEmpty
  <2> QED  BY <1>2, <2>1, <2>3
<1>3. ASSUME NEW d, NEW sid, NEW sids \in {{}, {sid}}
      PROVE  /\ SaidTo(d, sid, SendStudentState(d, sids))
             /\ \A x \in Range(SendStudentState(d, sids)) : True(d, x)
  <2>1. SendStudentState(d, sids) \in {<< >>, Addressed(sids, StudentState(d)')}
    BY DEF SendStudentState
  <2>2. \A x \in Range(Addressed(sids, StudentState(d)')) : x.msg = StudentState(d)'
    BY RangeOne DEF Addressed
  <2> QED  BY <2>1, <2>2, RangeEmpty DEF SendStudentState, SaidTo
<1>4. CASE m \in HelloMsg /\ OnStudentHello(m.device, m.sid)
  <2>1. TeacherEmits([Nothing EXCEPT ![m.device] = SendStudentState(m.device, {m.sid})])
    BY <1>4 DEF OnStudentHello
  <2>2. m.device \in Device /\ m.sid \in Sid
    BY <1>4 DEF HelloMsg
  <2> HIDE DEF Goal, True
  <2>3. \E out : Goal(out)
    BY <1>2, <1>3, <2>1, <2>2
  <2> QED  BY <2>3 DEF Goal, True
<1>5. CASE m \in AnswerMsg(Device, Sid) /\ OnAnswerAccepted(m.device, m)
  <2> DEFINE o == Addressed({m.sid}, [type |-> "received", nonce |-> m.nonce])
  <2>1. TeacherEmits([Nothing EXCEPT ![m.device] = o])
    BY <1>5 DEF OnAnswerAccepted
  <2>2. m.device \in Device /\ m.sid \in Sid /\ m.nonce \in Nonce
    BY <1>5 DEF AnswerMsg
  <2>3. SaidTo(m.device, m.sid, o)
    BY <2>2 DEF SaidTo
  <2>4. \A x \in Range(o) : True(m.device, x)
    BY <1>5, RangeOne DEF Addressed
  <2> HIDE DEF Goal, True, o
  <2>5. \E out : Goal(out)
    BY <1>2, <2>1, <2>2, <2>3, <2>4
  <2> QED  BY <2>5 DEF Goal, True
<1>6. CASE m \in AnswerMsg(Device, Sid) /\ OnAnswerRejected(m.device, m)
  <2>1. TeacherEmits([Nothing EXCEPT ![m.device] = SendStudentState(m.device, {m.sid})])
    BY <1>6 DEF OnAnswerRejected
  <2>2. m.device \in Device /\ m.sid \in Sid
    BY <1>6 DEF AnswerMsg
  <2> HIDE DEF Goal, True
  <2>3. \E out : Goal(out)
    BY <1>2, <1>3, <2>1, <2>2
  <2> QED  BY <2>3 DEF Goal, True
<1>7. CASE m \in PresenceMsg /\ OnPresence(m.device, m)
  <2>1. CASE m.connected
    <3> DEFINE o == SendStudentState(m.device, {m.sid} \cap deviceBySid[m.device])
    <3>1. TeacherEmits([Nothing EXCEPT ![m.device] = o])
      BY <1>7, <2>1 DEF OnPresence
    <3>2. {m.sid} \cap deviceBySid[m.device] \in {{}, {m.sid}}
      OBVIOUS
    <3>3. SaidTo(m.device, m.sid, o) /\ \A x \in Range(o) : True(m.device, x)
      <4> DEFINE sids == {m.sid} \cap deviceBySid[m.device]
      <4>1. sids \in {{}, {m.sid}} /\ o = SendStudentState(m.device, sids)
        OBVIOUS
      <4> HIDE DEF sids, True, o
      <4> QED  BY <1>3, <4>1
    <3>4. m.device \in Device /\ m.sid \in Sid
      BY <1>7 DEF PresenceMsg
    <3> HIDE DEF Goal, True, o
    <3>5. \E out : Goal(out)
      BY <1>2, <3>1, <3>3, <3>4
    <3> QED  BY <3>5 DEF Goal, True
  <2>2. CASE ~ m.connected
    <3>1. UNCHANGED <<down, sendBuffer>>
      BY <1>7, <2>2 DEF OnPresence
    <3> HIDE DEF Goal, True
    <3>2. \E out : Goal(out)
      BY <1>1, <3>1
    <3> QED  BY <3>2 DEF Goal, True
  <2>3. m.connected \/ ~ m.connected
    OBVIOUS
  <2> QED  BY <2>1, <2>2, <2>3
<1>8. CASE m \in RosterMsg /\ OnRoster(m)
  <2>1. UNCHANGED <<down, sendBuffer>>
    BY <1>8 DEF OnRoster
  <2> HIDE DEF Goal, True
  <2>2. \E out : Goal(out)
    BY <1>1, <2>1
  <2> QED  BY <2>2 DEF Goal, True
<1> QED  BY <1>4, <1>5, <1>6, <1>7, <1>8, ReceivesCases

\* The engine has an answer of d to the question of this state, if the state says so.
TrueState(d, m) ==
  m.type = "state" /\ m.answer # None =>
    m.question \in ChoiceQuestion /\ d \in DOMAIN answers[m.question]

\* The engine has an answer of d to the question of what is under way, if this is the
\* acknowledgement of that.
TrueAck(d, m) ==
  m.type = "received" =>
    /\ m.nonce <= sent[d]
    /\ page[d].flight # None /\ m.nonce = sent[d]
         => d \in DOMAIN answers[page[d].flight.question]

\* An answer that the page of d has sent, and what the page has under way if it is
\* the last one.
FromPage(d, m) ==
  /\ m.nonce <= sent[d]
  /\ page[d].flight # None /\ m.nonce = sent[d]
       => m.question = page[d].flight.question /\ m.answer = page[d].flight.answer

CountedAt(d) ==
  /\ page[d].selected # None => /\ page[d].question \in ChoiceQuestion
                                /\ d \in DOMAIN answers[page[d].question]
  /\ page[d].flight # None => page[d].flight.nonce = sent[d]
  /\ \A m \in Range(down[d]) : TrueState(d, m) /\ TrueAck(d, m)
  /\ \A x \in Range(sendBuffer[d]) : TrueState(d, x.msg)
  /\ \A m \in Range(inbox) : m.type = "answer" /\ m.device = d => FromPage(d, m)
  /\ \A m \in Range(buffer[d]) : FromPage(d, m)

\* Nothing says of an answer that it was received unless the engine has it.
Counted == \A d \in Device : CountedAt(d)

\* For the page of d, a step that adds only what is true.
LEMMA CountedKept ==
  ASSUME Shape, EngineMoves, NEW d \in Device, CountedAt(d), page'[d] = page[d], sent'[d] = sent[d],
         \A m \in Range(down'[d]) : m \in Range(down[d]) \/ (TrueState(d, m)' /\ TrueAck(d, m)'),
         \A x \in Range(sendBuffer'[d]) : x \in Range(sendBuffer[d]) \/ TrueState(d, x.msg)',
         \A m \in Range(inbox') : \/ m \in Range(inbox)
                                  \/ m.type = "answer" /\ m.device = d => FromPage(d, m)',
         \A m \in Range(buffer'[d]) : m \in Range(buffer[d]) \/ FromPage(d, m)'
  PROVE  CountedAt(d)'
<1>1. \A q \in ChoiceQuestion : DOMAIN answers[q] \subseteq DOMAIN answers'[q]
  BY DEF EngineMoves
<1>2. /\ page[d] \in Page
      /\ page[d].flight # None => page[d].flight.question \in ChoiceQuestion
  <2>1. page[d] \in Page
    BY DEF Shape, Types
  <2>2. page[d].flight # None => page[d].flight \in InFlight
    BY <2>1 DEF Page
  <2> QED  BY <2>1, <2>2 DEF InFlight
<1>3. ASSUME NEW m, TrueState(d, m) PROVE TrueState(d, m)'
  BY <1>1, <1>3 DEF TrueState
<1>4. ASSUME NEW m, TrueAck(d, m) PROVE TrueAck(d, m)'
  BY <1>1, <1>2, <1>4 DEF TrueAck
<1>5. ASSUME NEW m, FromPage(d, m) PROVE FromPage(d, m)'
  BY <1>5 DEF FromPage
<1>6. page'[d].selected # None => page'[d].question \in ChoiceQuestion
                                  /\ d \in DOMAIN answers'[page'[d].question]
  BY <1>1 DEF CountedAt
<1>7. page'[d].flight # None => page'[d].flight.nonce = sent'[d]
  BY DEF CountedAt
<1>8. \A m \in Range(down'[d]) : TrueState(d, m)' /\ TrueAck(d, m)'
  BY <1>3, <1>4 DEF CountedAt
<1>9. \A x \in Range(sendBuffer'[d]) : TrueState(d, x.msg)'
  BY <1>3 DEF CountedAt
<1>10. \A m \in Range(inbox') : m.type = "answer" /\ m.device = d => FromPage(d, m)'
  BY <1>5 DEF CountedAt
<1>11. \A m \in Range(buffer'[d]) : FromPage(d, m)'
  BY <1>5 DEF CountedAt
<1> QED  BY <1>6, <1>7, <1>8, <1>9, <1>10, <1>11 DEF CountedAt

\* A state that the engine would show now is true.
LEMMA StateIsTrue ==
  ASSUME Facing', NEW d \in Device, NEW s, s = StudentState(d)'
  PROVE  TrueState(d, s)' /\ TrueAck(d, s)'
<1>1. CASE clock' = 0
  <2>1. s = [type |-> "state", question |-> None, state |-> None, answer |-> None]
    BY <1>1 DEF Facing
  <2> QED  BY <2>1 DEF TrueState, TrueAck
<1>2. CASE clock' # 0
  <2>1. s = [type |-> "state", question |-> Current', state |-> qstate'[Current'],
             answer |-> AnswerOf(d, Current)'] /\ Current' \in ChoiceQuestion
    BY <1>2 DEF Facing
  <2>2. s.answer # None => d \in DOMAIN answers'[Current']
    BY <2>1 DEF AnswerOf
  <2> QED  BY <2>1, <2>2 DEF TrueState, TrueAck
<1> QED  BY <1>1, <1>2

\* The client says only what is true.
LEMMA CountedSpeaks ==
  ASSUME Shape, EngineMoves, Counted, NEW out, Emittable(out), TeacherEmits(out),
         UNCHANGED <<buffer, pages>>, Range(inbox') \subseteq Range(inbox),
         \A d \in Device : \A x \in Range(out[d]) : TrueState(d, x.msg)' /\ TrueAck(d, x.msg)'
  PROVE  Counted'
<1> SUFFICES ASSUME NEW d \in Device PROVE CountedAt(d)'
  BY DEF Counted
<1>1. UNCHANGED <<page, sent>>
  BY DEF pages
<1>2. /\ \A m \in Range(down'[d]) : \/ m \in Range(down[d])
                                    \/ \E x \in Range(out[d]) : links[d] \in x.to /\ m = x.msg
      /\ \A x \in Range(sendBuffer'[d]) : x \in Range(sendBuffer[d]) \/ x \in Range(out[d])
  BY EmitsRange DEF Shape
<1>3. \A m \in Range(down'[d]) : m \in Range(down[d]) \/ (TrueState(d, m)' /\ TrueAck(d, m)')
  BY <1>2
<1>4. \A x \in Range(sendBuffer'[d]) : x \in Range(sendBuffer[d]) \/ TrueState(d, x.msg)'
  BY <1>2
<1>5. CountedAt(d)
  BY DEF Counted
<1> QED  BY <1>1, <1>3, <1>4, <1>5, CountedKept

\* What a broadcast says is no answer.
LEMMA BroadcastTrue ==
  ASSUME NEW q, NEW d, NEW x \in Range(Broadcast(q))
  PROVE  TrueState(d, x.msg)' /\ TrueAck(d, x.msg)'
<1>1. x.msg = [type |-> "question", question |-> q, state |-> qstate'[q]]
  BY RangeOne DEF Broadcast, Addressed
<1> QED  BY <1>1 DEF TrueState, TrueAck

\* A question is opened.
LEMMA CountedTrigger ==
  ASSUME Shape, Facing, EngineMoves, Counted, NEW q \in ChoiceQuestion, TriggerLiveQuestion(q)
  PROVE  Counted'
<1> DEFINE out == [d \in Device |-> Broadcast(q)]
<1>1. /\ qstate[q] = "ready" /\ Engine!Trigger(q) /\ TeacherEmits(out)
      /\ UNCHANGED <<inbox, buffer, pages>>
  BY DEF TriggerLiveQuestion
<1>2. qstate'[q] = "open"
  BY <1>1 DEF Engine!Trigger, Facing, EngineTypes
<1>3. Emittable(out)
  BY <1>2, BroadcastType, ItemMonotonic DEF Emittable
<1>4. \A d \in Device : out[d] = Broadcast(q)
  OBVIOUS
<1> HIDE DEF out
<1>5. \A d \in Device : \A x \in Range(out[d]) : TrueState(d, x.msg)' /\ TrueAck(d, x.msg)'
  BY <1>4, BroadcastTrue
<1> QED  BY <1>1, <1>3, <1>5, CountedSpeaks

\* A question is closed, and those who have answered are told.
LEMMA CountedClose ==
  ASSUME Shape, Facing, Facing', EngineMoves, Counted, NEW q \in ChoiceQuestion,
         CloseLiveQuestion(q)
  PROVE  Counted'
<1> DEFINE told(d) == SendStudentState(d, connectedSids[d] \cap deviceBySid[d])
           out == [d \in Device |-> Broadcast(q) \o told(d)]
<1>1. /\ Engine!Close(q) /\ TeacherEmits(out) /\ UNCHANGED <<inbox, buffer, pages>>
  BY DEF CloseLiveQuestion
<1>2. qstate'[q] = "closed"
  BY <1>1 DEF Engine!Close, Facing, EngineTypes
<1>3. ASSUME NEW d \in Device
      PROVE  /\ Broadcast(q) \in Seq(Item(Spoken)) /\ told(d) \in Seq(Item(Spoken))
             /\ out[d] = Broadcast(q) \o told(d) /\ out[d] \in Seq(Item(Spoken))
             /\ \A x \in Range(told(d)) : x.msg = StudentState(d)'
  <2>1. connectedSids[d] \cap deviceBySid[d] \in SUBSET Sid
    BY DEF Shape, Types
  <2>2. Broadcast(q) \in Seq(Item(Spoken)) /\ told(d) \in Seq(Item(Spoken))
    BY <1>2, <2>1, BroadcastType, SendStudentStateType
  <2>3. out[d] = Broadcast(q) \o told(d)
    OBVIOUS
  <2>4. \A x \in Range(told(d)) : x.msg = StudentState(d)'
    BY RangeOne, RangeEmpty DEF SendStudentState, Addressed
  <2> HIDE DEF out, told
  <2> QED  BY <2>2, <2>3, <2>4, ConcatProperties
<1> HIDE DEF out, told
<1>4. Emittable(out)
  BY <1>3, ItemMonotonic DEF Emittable
<1>5. ASSUME NEW d \in Device, NEW x \in Range(out[d])
      PROVE  TrueState(d, x.msg)' /\ TrueAck(d, x.msg)'
  <2>1. Range(Broadcast(q) \o told(d)) = Range(Broadcast(q)) \cup Range(told(d))
    <3>1. Broadcast(q) \in Seq(Item(Spoken)) /\ told(d) \in Seq(Item(Spoken))
      BY <1>3
    <3> QED  BY <3>1, RangeConcatenation
  <2>2. x \in Range(Broadcast(q)) \/ x.msg = StudentState(d)'
    BY <1>3, <1>5, <2>1
  <2> QED  BY <2>2, BroadcastTrue, StateIsTrue
<1> QED  BY <1>1, <1>4, <1>5, CountedSpeaks

\* The client handles the next event, and may confirm an answer.
LEMMA CountedReceives ==
  ASSUME Shape, Facing, Facing', EngineMoves, Counted, TeacherReceives
  PROVE  Counted'
<1> DEFINE m == Head(inbox)
<1>0. m = Head(inbox)
  OBVIOUS
<1> HIDE DEF m
<1>1. PICK out : /\ TeacherEmits(out) /\ Emittable(out)
                 /\ \A d \in Device : \A x \in Range(out[d]) :
                      \/ x.msg = StudentState(d)'
                      \/ /\ m \in AnswerMsg(Device, Sid) /\ m.device = d /\ OnAnswerAccepted(d, m)
                         /\ x.msg = [type |-> "received", nonce |-> m.nonce]
  BY <1>0, ReceivesTells
<1>2. /\ inbox # << >> /\ inbox' = Tail(inbox) /\ UNCHANGED <<buffer, pages>>
  BY <1>0, ReceivesCases
<1>3. Range(inbox) = {m} \cup Range(inbox')
  BY <1>0, <1>2, RangeHeadTail DEF Shape, Types
<1>4. ASSUME NEW d \in Device, NEW x \in Range(out[d])
      PROVE  TrueState(d, x.msg)' /\ TrueAck(d, x.msg)'
  <2>1. CASE x.msg = StudentState(d)'
    BY <2>1, StateIsTrue
  <2>2. CASE /\ m \in AnswerMsg(Device, Sid) /\ m.device = d /\ OnAnswerAccepted(d, m)
             /\ x.msg = [type |-> "received", nonce |-> m.nonce]
    <3>1. /\ m.type = "answer" /\ m.question \in ChoiceQuestion /\ m.answer \in Option
          /\ Engine!Accept(d, m.question, m.answer)
      BY <2>2 DEF AnswerMsg, OnAnswerAccepted
    <3>2. d \in DOMAIN answers'[m.question]
      BY <3>1, AcceptRecords DEF Facing
    <3>3. FromPage(d, m)
      BY <1>3, <2>2, <3>1 DEF Counted, CountedAt
    <3>4. UNCHANGED <<page, sent>>
      BY <1>2 DEF pages
    <3> QED  BY <2>2, <3>2, <3>3, <3>4 DEF TrueState, TrueAck, FromPage
  <2> QED  BY <1>1, <2>1, <2>2
<1> QED  BY <1>1, <1>2, <1>3, <1>4, CountedSpeaks

\* The elements of a sequence with one more at its end.
LEMMA RangeAppendOne ==
  ASSUME NEW S, NEW s \in Seq(S), NEW m
  PROVE  Range(s \o << m >>) = Range(s) \cup {m}
<1>1. s \in Seq(S \cup {m}) /\ << m >> \in Seq(S \cup {m})
  <2>1. s \in Seq(S \cup {m})
    BY SeqMonotonic
  <2> QED  BY <2>1
<1>2. Range(s \o << m >>) = Range(s) \cup Range(<< m >>)
  BY ZenonT(40), <1>1, RangeConcatenation
<1> QED  BY <1>2, RangeOne

\* What a page emits is added to the relay's queue or to its buffer, if at all.
LEMMA EmitRange ==
  ASSUME Types, NEW d \in Device, NEW m, PageEmits(d, << m >>)
  PROVE  /\ Range(inbox') \subseteq Range(inbox) \cup {m}
         /\ Range(buffer'[d]) \subseteq Range(buffer[d]) \cup {m}
         /\ \A x \in Device \ {d} : buffer'[x] = buffer[x]
<1>1. Range(inbox \o << m >>) = Range(inbox) \cup {m}
  BY RangeAppendOne DEF Types
<1>2. Range(buffer[d] \o << m >>) = Range(buffer[d]) \cup {m}
  BY RangeAppendOne DEF Types
<1>3. buffer \in [Device -> Seq(AnswerMsg(Device, Sid \cup {0}))]
  BY DEF Types
<1>4. inbox' = inbox \/ inbox' = inbox \o << m >>
  BY DEF PageEmits, ToTeacher
<1>5. \/ buffer' = buffer
      \/ buffer' = [buffer EXCEPT ![d] = @ \o << m >>]
      \/ buffer' = [buffer EXCEPT ![d] = @]
  BY DEF PageEmits
<1> QED  BY <1>1, <1>2, <1>3, <1>4, <1>5

\* A step of the page of d: it forgets what is under way or keeps it, and what it
\* shows is counted.
LEMMA CountedTurns ==
  ASSUME NEW d \in Device, CountedAt(d), UNCHANGED <<answers, sent>>,
         Range(down'[d]) \subseteq Range(down[d]), sendBuffer'[d] = sendBuffer[d],
         Range(inbox') \subseteq Range(inbox), Range(buffer'[d]) \subseteq Range(buffer[d]),
         page'[d].selected # None => /\ page'[d].question \in ChoiceQuestion
                                     /\ d \in DOMAIN answers[page'[d].question],
         page'[d].flight # None =>
           /\ page[d].flight # None /\ page'[d].flight.nonce = page[d].flight.nonce
           /\ page'[d].flight.question = page[d].flight.question
           /\ page'[d].flight.answer = page[d].flight.answer
  PROVE  CountedAt(d)'
<1>1. \A m \in Range(down'[d]) : TrueState(d, m)' /\ TrueAck(d, m)'
  BY DEF CountedAt, TrueState, TrueAck
<1>2. \A x \in Range(sendBuffer'[d]) : TrueState(d, x.msg)'
  BY DEF CountedAt, TrueState
<1>3. /\ \A m \in Range(inbox') : m.type = "answer" /\ m.device = d => FromPage(d, m)'
      /\ \A m \in Range(buffer'[d]) : FromPage(d, m)'
  BY DEF CountedAt, FromPage
<1>4. page'[d].flight # None => page'[d].flight.nonce = sent'[d]
  BY DEF CountedAt
<1> QED  BY <1>1, <1>2, <1>3, <1>4 DEF CountedAt

\* Of a page that a step is not about.
LEMMA CountedElse ==
  ASSUME Shape, EngineMoves, NEW x \in Device, CountedAt(x),
         page'[x] = page[x], sent'[x] = sent[x], Range(down'[x]) \subseteq Range(down[x]),
         sendBuffer'[x] = sendBuffer[x], buffer'[x] = buffer[x],
         \A m \in Range(inbox') : m \in Range(inbox) \/ ~ (m.type = "answer" /\ m.device = x)
  PROVE  CountedAt(x)'
BY CountedKept

\* Steps of the links, and a hello.
LEMMA CountedLinks ==
  ASSUME Shape, EngineMoves, Counted, UNCHANGED pages,
         \A x \in Device : /\ Range(down'[x]) \subseteq Range(down[x])
                           /\ sendBuffer'[x] = sendBuffer[x] /\ buffer'[x] = buffer[x],
         \A m \in Range(inbox') : m \in Range(inbox) \/ m.type # "answer"
  PROVE  Counted'
BY CountedElse DEF Counted, pages

\* A page says hello.
LEMMA CountedHello ==
  ASSUME Shape, EngineMoves, Counted, NEW d \in Device, link[d] = "up",
         PageEmits(d, Hello(d, links[d])), UNCHANGED <<pages, sendBuffer>>,
         \A x \in Device : Range(down'[x]) \subseteq Range(down[x])
  PROVE  Counted'
<1> DEFINE m == [type |-> "hello", device |-> d, sid |-> links[d]]
<1>1. PageEmits(d, << m >>) /\ m.type = "hello"
  BY DEF Hello
<1> HIDE DEF m
<1>2. Range(inbox') \subseteq Range(inbox) \cup {m}
  BY <1>1, EmitRange DEF Shape
<1>3. UNCHANGED buffer
  <2>1. buffer \in [Device -> Seq(AnswerMsg(Device, Sid \cup {0}))]
    BY DEF Shape, Types
  <2> QED  BY <1>1, <2>1 DEF PageEmits
<1> QED  BY <1>1, <1>2, <1>3, CountedLinks

\* The teacher is back: what her client has said meanwhile is true.
LEMMA CountedConnects ==
  ASSUME Shape, EngineMoves, Counted, TeacherConnects
  PROVE  Counted'
<1> SUFFICES ASSUME NEW d \in Device PROVE CountedAt(d)'
  BY DEF Counted
<1> DEFINE online == [type |-> "teacher-online"]
           roster == [type |-> "roster", sids |-> SIDS, pinned |-> pinned]
<1>1. /\ UNCHANGED <<buffer, pages>>
      /\ inbox' = << roster >>
      /\ down'[d] = down[d] \o Reaching(d, Welcome(d))
      /\ sendBuffer'[d] = << >>
  BY DEF TeacherConnects, Welcome, Nothing
<1>2. /\ Welcome(d) \in Seq(Item(PageMsg)) /\ Reaching(d, Welcome(d)) \in Seq(PageMsg)
  BY WelcomeType DEF Shape
<1>3. down[d] \in Seq(PageMsg) /\ sendBuffer[d] \in Seq(Item(Spoken))
  BY DEF Shape, Types
<1>4. Range(down[d] \o Reaching(d, Welcome(d))) = Range(down[d]) \cup Range(Reaching(d, Welcome(d)))
  BY <1>2, <1>3, RangeConcatenation
<1>5. Range(Welcome(d)) = Range(Addressed(Sid, online)) \cup Range(sendBuffer[d])
  <2> DEFINE a == Addressed(Sid, online)
  <2>1. a \in Seq(Item(PageMsg))
    <3>1. online \in PageMsg
      BY DEF PageMsg, Notice
    <3> QED  BY <3>1, AddressedType
  <2>2. sendBuffer[d] \in Seq(Item(PageMsg))
    BY <1>3, ItemMonotonic DEF PageMsg
  <2>3. Welcome(d) = a \o sendBuffer[d]
    BY DEF Welcome
  <2> HIDE DEF a
  <2>4. Range(a \o sendBuffer[d]) = Range(a) \cup Range(sendBuffer[d])
    BY <2>1, <2>2, RangeConcatenation
  <2> QED  BY <2>3, <2>4 DEF a
<1>6. \A x \in Range(Welcome(d)) : x.msg = online \/ x \in Range(sendBuffer[d])
  BY <1>5, RangeOne DEF Addressed
<1>7. ASSUME NEW m \in Range(Reaching(d, Welcome(d)))
      PROVE  m = online \/ \E x \in Range(sendBuffer[d]) : m = x.msg
  <2>1. m \in Range(For(links[d], Welcome(d)))
    BY <1>7, RangeEmpty DEF Reaching
  <2>2. \E x \in Range(Welcome(d)) : m = x.msg
    BY <1>2, <2>1, ForRange
  <2> QED  BY <1>6, <2>2
<1>8. ASSUME NEW m \in Range(down'[d])
      PROVE  m \in Range(down[d]) \/ (TrueState(d, m)' /\ TrueAck(d, m)')
  <2>1. CASE m = online
    BY <2>1 DEF TrueState, TrueAck
  <2>2. ASSUME NEW x \in Range(sendBuffer[d]), m = x.msg
        PROVE  TrueState(d, m)' /\ TrueAck(d, m)'
    <3>1. TrueState(d, m)
      BY <2>2 DEF Counted, CountedAt
    <3>2. x \in Item(Spoken)
      BY <1>3, RangeOfSeq
    <3>3. m \in Spoken
      BY <2>2, <3>2 DEF Item
    <3>4. m.type # "received"
      BY <3>3 DEF Spoken, NoQuestion, StateOf, QuestionMsg
    <3>5. TrueState(d, m)'
      BY <3>1 DEF TrueState, EngineMoves
    <3> QED  BY <3>4, <3>5 DEF TrueAck
  <2> QED  BY <1>1, <1>4, <1>7, <1>8, <2>1, <2>2
<1>9. \A x \in Range(sendBuffer'[d]) : x \in Range(sendBuffer[d])
  BY <1>1, RangeEmpty
<1>10. \A m \in Range(inbox') : m.type # "answer"
  BY <1>1, RangeOne
<1>11. CountedAt(d) /\ UNCHANGED <<page, sent>>
  BY <1>1 DEF Counted, pages
<1> HIDE DEF online, roster
<1> QED  BY <1>1, <1>8, <1>9, <1>10, <1>11, CountedKept

\* The class ends.
LEMMA CountedEnds ==
  ASSUME Shape, EngineMoves, Counted, SessionEnds
  PROVE  Counted'
<1> SUFFICES ASSUME NEW d \in Device PROVE CountedAt(d)'
  BY DEF Counted
<1> DEFINE ended == [type |-> "ended"]
           o == Addressed(Sid, ended)
<1>1. /\ UNCHANGED <<sendBuffer, buffer, pages>> /\ inbox' = << >>
      /\ down'[d] = down[d] \o Reaching(d, o)
  BY DEF SessionEnds
<1>2. Reaching(d, o) \in Seq(PageMsg) /\ down[d] \in Seq(PageMsg)
  BY FarewellType DEF Shape, Types
<1>3. \A m \in Range(Reaching(d, o)) : m = ended
  <2> DEFINE x == [to |-> Sid, msg |-> ended]
  <2>1. o = << x >> /\ x.msg = ended
    BY DEF Addressed
  <2> HIDE DEF x, ended, o
  <2>2. For(links[d], << x >>) = << x.msg >> \/ For(links[d], << x >>) = << >>
    BY ForOne
  <2>3. Reaching(d, o) = << ended >> \/ Reaching(d, o) = << >>
    BY <2>1, <2>2 DEF Reaching
  <2> QED  BY <2>3, RangeOne, RangeEmpty
<1>4. Range(down[d] \o Reaching(d, o)) = Range(down[d]) \cup Range(Reaching(d, o))
  BY <1>2, RangeConcatenation
<1>5. TrueState(d, ended)' /\ TrueAck(d, ended)'
  BY DEF TrueState, TrueAck
<1>6. CountedAt(d) /\ UNCHANGED <<page, sent>>
  BY <1>1 DEF Counted, pages
<1>7. Range(inbox') = {}
  BY <1>1, RangeEmpty
<1> HIDE DEF o, ended
<1>8. \A m \in Range(down'[d]) : m \in Range(down[d]) \/ (TrueState(d, m)' /\ TrueAck(d, m)')
  BY <1>1, <1>3, <1>4, <1>5
<1> QED  BY <1>1, <1>6, <1>7, <1>8, CountedKept

\* The buffered answers leave by the new connection.
LEMMA CountedPageConnects ==
  ASSUME Shape, EngineMoves, Counted, NEW d \in Device, PageConnects(d)
  PROVE  Counted'
<1> SUFFICES ASSUME NEW x \in Device PROVE CountedAt(x)'
  BY DEF Counted
<1>1. /\ links[d] + 1 \in Sid /\ inbox' = ToTeacher(Arrival(d))
      /\ buffer' = [buffer EXCEPT ![d] = << >>]
      /\ UNCHANGED <<sendBuffer, down, pages>>
  BY ConnectsEffects
<1>2. CountedAt(x) /\ UNCHANGED <<page, sent>>
  BY <1>1 DEF Counted, pages
<1>3. \A m \in Range(buffer'[x]) : m \in Range(buffer[x])
  BY <1>1, RangeEmpty DEF Shape, Types
<1> DEFINE A == Presence(d, links[d] + 1, TRUE)
           H == Hello(d, links[d] + 1)
           B == A \o Flushed(d)
<1>4. /\ A \in Seq(InboxMsg) /\ H \in Seq(InboxMsg) /\ Arrival(d) \in Seq(InboxMsg)
      /\ Arrival(d) = B \o H /\ B = A \o Flushed(d)
  BY <1>1, ArrivalType DEF Arrival
<1>5. Flushed(d) \in Seq(InboxMsg) /\ inbox \in Seq(InboxMsg)
  BY <1>1, FlushedType DEF Shape, Types
<1>6. (\A m \in Range(A) : m.type # "answer") /\ (\A m \in Range(H) : m.type # "answer")
  BY RangeOne DEF Presence, Hello
<1> HIDE DEF A, H, B
<1>7. B \in Seq(InboxMsg)
  BY <1>4, <1>5, ConcatProperties
<1>8. Range(B) = Range(A) \cup Range(Flushed(d))
  <2>1. A \in Seq(InboxMsg)
    BY <1>4
  <2>2. Range(A \o Flushed(d)) = Range(A) \cup Range(Flushed(d))
    BY <2>1, <1>5, RangeConcatenation
  <2> QED  BY <2>2, <1>4
<1>9. Range(Arrival(d)) = Range(B) \cup Range(H)
  <2>1. H \in Seq(InboxMsg)
    BY <1>4
  <2>2. Range(B \o H) = Range(B) \cup Range(H)
    BY <2>1, <1>7, RangeConcatenation
  <2> QED  BY <2>2, <1>4
<1>10. Range(inbox \o Arrival(d)) = Range(inbox) \cup Range(Arrival(d))
  <2>1. inbox \in Seq(InboxMsg) /\ Arrival(d) \in Seq(InboxMsg)
    BY <1>4, <1>5
  <2> QED  BY <2>1, RangeConcatenation
<1>11. ASSUME NEW m \in Range(Flushed(d)) PROVE m.type = "answer" /\ m.device = d /\ FromPage(d, m)
  <2>1. PICK i \in 1 .. Len(buffer[d]) : m = [buffer[d][i] EXCEPT !.sid = links[d] + 1]
    <3>1. PICK i \in DOMAIN Flushed(d) : m = Flushed(d)[i]
      BY <1>11 DEF Range
    <3>2. DOMAIN Flushed(d) = 1 .. Len(buffer[d])
      BY DEF Flushed, Shape, Types
    <3> QED  BY <3>1, <3>2 DEF Flushed
  <2>2. buffer[d][i] \in AnswerMsg({d}, Sid \cup {0})
    <3>1. buffer[d] \in Seq(AnswerMsg({d}, Sid \cup {0}))
      BY DEF Shape, LinkShape
    <3> QED  BY <3>1, ElementOfSeq
  <2>3. buffer[d][i] \in Range(buffer[d])
    <3>1. DOMAIN buffer[d] = 1 .. Len(buffer[d])
      BY DEF Shape, Types
    <3> QED  BY <3>1 DEF Range
  <2>4. FromPage(d, buffer[d][i])
    BY <2>3 DEF Counted, CountedAt
  <2>5. /\ m.type = "answer" /\ m.device = d
        /\ m.nonce = buffer[d][i].nonce /\ m.question = buffer[d][i].question
        /\ m.answer = buffer[d][i].answer
    BY <2>1, <2>2 DEF AnswerMsg
  <2> QED  BY <2>4, <2>5 DEF FromPage
<1>12. \A m \in Range(inbox') : m \in Range(inbox) \/ m \in Range(Flushed(d)) \/ m.type # "answer"
  BY <1>1, <1>6, <1>8, <1>9, <1>10 DEF ToTeacher
<1>13. \A m : FromPage(d, m) => FromPage(d, m)'
  BY <1>2 DEF FromPage
<1>14. \A m \in Range(inbox') : \/ m \in Range(inbox)
                                \/ m.type = "answer" /\ m.device = x => FromPage(x, m)'
  BY <1>11, <1>12, <1>13
<1> QED  BY <1>1, <1>2, <1>3, <1>14, CountedKept

\* An answer leaves the page of d with a number of its own.
LEMMA CountedTransmits ==
  ASSUME Shape, EngineMoves, Counted, NEW d \in Device, ConfirmPending(d) \/ Resend(d)
  PROVE  Counted'
<1> SUFFICES ASSUME NEW x \in Device PROVE CountedAt(x)'
  BY DEF Counted
<1>1. \E q \in ChoiceQuestion, o \in Option, pending \in Option \cup {None} :
        q = page[d].question /\ q # None /\ Transmit(d, q, o, pending)
  <2>1. page[d] \in Page /\ (page[d].question # None => page[d].question \in ChoiceQuestion)
    BY DEF Shape, Types, Page
  <2> QED  BY <2>1, ConfirmTransmits, ResendTransmits
<1>2. PICK q \in ChoiceQuestion, o \in Option, pending \in Option \cup {None} :
        q = page[d].question /\ q # None /\ Transmit(d, q, o, pending)
  BY <1>1
<1>3. /\ sent'[d] = sent[d] + 1
      /\ \A y \in Device \ {d} : page'[y] = page[y] /\ sent'[y] = sent[y]
      /\ UNCHANGED <<engine, sendBuffer, down>>
  BY <1>2, TransmitEffects
<1>4. \E m : m = [type |-> "answer", device |-> d, sid |-> links[d],
                  question |-> q, answer |-> o, nonce |-> sent'[d]]
  OBVIOUS
<1> PICK m : m = [type |-> "answer", device |-> d, sid |-> links[d],
                  question |-> q, answer |-> o, nonce |-> sent'[d]]
  BY <1>4
<1>a. PageEmits(d, << m >>)
  BY <1>2, TransmitEffects
<1>b. m.type = "answer" /\ m.device = d /\ m.nonce = sent'[d] /\ m.question = q /\ m.answer = o
  OBVIOUS
<1>5. /\ Range(inbox') \subseteq Range(inbox) \cup {m}
      /\ Range(buffer'[d]) \subseteq Range(buffer[d]) \cup {m}
      /\ \A y \in Device \ {d} : buffer'[y] = buffer[y]
  BY <1>a, EmitRange DEF Shape
<1>6. CountedAt(x) /\ UNCHANGED answers
  BY <1>3 DEF Counted, engine
<1>7. CASE x # d
  BY <1>3, <1>b, <1>5, <1>6, <1>7, CountedElse
<1>8. CASE x = d
  <2>1. page[d] \in Page /\ sent[d] \in Nat
    BY ClassAssumption DEF Shape, Types, ClassAssumption
  <2>2. /\ page'[d].selected = page[d].selected /\ page'[d].question = page[d].question
        /\ page'[d].flight.nonce = sent'[d] /\ page'[d].flight.question = q
        /\ page'[d].flight.answer = o
    <3>1. page' = [page EXCEPT ![d].pending = pending,
                               ![d].flight = [nonce |-> sent[d] + 1, question |-> q, answer |-> o,
                                              phase |-> "sending"]]
      BY <1>2 DEF Transmit
    <3>2. page'[d] = [page[d] EXCEPT !.pending = pending,
                                     !.flight = [nonce |-> sent[d] + 1, question |-> q,
                                                 answer |-> o, phase |-> "sending"]]
      BY <3>1 DEF Shape, Types
    <3> QED  BY <1>3, <2>1, <3>2 DEF Page
  <2>3. /\ down[d] \in Seq(PageMsg) /\ inbox \in Seq(InboxMsg)
        /\ buffer[d] \in Seq(AnswerMsg(Device, Sid \cup {0}))
    BY DEF Shape, Types
  <2>4. ASSUME NEW y, y.nonce \in Nat, y.nonce <= sent[d] PROVE FromPage(d, y)'
    BY <1>3, <2>1, <2>4 DEF FromPage
  <2>5. FromPage(d, m)'
    <3>1. m.nonce <= sent'[d]
      BY <1>3, <1>b, <2>1
    <3> QED  BY <1>b, <2>2, <3>1 DEF FromPage
  <2>6. ASSUME NEW y \in Range(down[d]) PROVE TrueState(d, y)' /\ TrueAck(d, y)'
    <3>1. TrueState(d, y) /\ TrueAck(d, y)
      BY <1>6, <1>8, <2>6 DEF CountedAt
    <3>2. y \in PageMsg
      BY <2>3, <2>6, RangeOfSeq
    <3>3. y.type = "received" => y.nonce \in Nat
      BY <3>2 DEF PageMsg, Spoken, NoQuestion, StateOf, QuestionMsg, ReceivedMsg, Notice, Nonce
    <3> QED  BY <1>3, <1>6, <2>1, <3>1, <3>3 DEF TrueState, TrueAck
  <2>7. ASSUME NEW y \in Range(inbox), y.type = "answer", y.device = d PROVE FromPage(d, y)'
    <3>1. y \in InboxMsg
      BY <2>3, RangeOfSeq
    <3>2. y.nonce \in Nat
      BY <2>7, <3>1 DEF InboxMsg, HelloMsg, AnswerMsg, PresenceMsg, RosterMsg, Nonce
    <3>3. y.nonce <= sent[d]
      BY <1>6, <1>8, <2>7 DEF CountedAt, FromPage
    <3> QED  BY <2>4, <3>2, <3>3
  <2>8. ASSUME NEW y \in Range(buffer[d]) PROVE FromPage(d, y)'
    <3>1. y \in AnswerMsg(Device, Sid \cup {0})
      BY <2>3, RangeOfSeq
    <3>2. y.nonce \in Nat
      BY <3>1 DEF AnswerMsg, Nonce
    <3>3. y.nonce <= sent[d]
      BY <1>6, <1>8 DEF CountedAt, FromPage
    <3> QED  BY <2>4, <3>2, <3>3
  <2>9. page'[d].selected # None => page'[d].question \in ChoiceQuestion
                                    /\ d \in DOMAIN answers'[page'[d].question]
    BY <1>6, <1>8, <2>2 DEF CountedAt
  <2>10. \A y \in Range(sendBuffer'[d]) : TrueState(d, y.msg)'
    BY <1>3, <1>6, <1>8 DEF CountedAt, TrueState
  <2>11. \A y \in Range(inbox') : y.type = "answer" /\ y.device = d => FromPage(d, y)'
    BY <1>5, <2>5, <2>7
  <2>12. \A y \in Range(buffer'[d]) : FromPage(d, y)'
    BY <1>5, <2>5, <2>8
  <2>13. \A y \in Range(down'[d]) : TrueState(d, y)' /\ TrueAck(d, y)'
    BY <1>3, <2>6
  <2>14. CountedAt(d)'
    BY <2>2, <2>9, <2>10, <2>11, <2>12, <2>13 DEF CountedAt
  <2> QED  BY <1>8, <2>14
<1> QED  BY <1>7, <1>8

\* The page of d changes, and nothing else but what is under way to it.
LEMMA CountedBecomes ==
  ASSUME Shape, EngineMoves, Counted, NEW d \in Device,
         UNCHANGED <<engine, sendBuffer, sent>>, Range(inbox') \subseteq Range(inbox),
         \A x \in Device : /\ Range(down'[x]) \subseteq Range(down[x])
                           /\ Range(buffer'[x]) \subseteq Range(buffer[x])
                           /\ x # d => buffer'[x] = buffer[x],
         NEW p, page' = [page EXCEPT ![d] = p],
         p.selected # None => p.question \in ChoiceQuestion /\ d \in DOMAIN answers[p.question],
         p.flight # None => /\ page[d].flight # None /\ p.flight.nonce = page[d].flight.nonce
                            /\ p.flight.question = page[d].flight.question
                            /\ p.flight.answer = page[d].flight.answer
  PROVE  Counted'
<1> SUFFICES ASSUME NEW x \in Device PROVE CountedAt(x)'
  BY DEF Counted
<1>1. page'[d] = p /\ \A y \in Device \ {d} : page'[y] = page[y]
  BY DEF Shape, Types
<1>2. CountedAt(x) /\ UNCHANGED answers
  BY DEF Counted, engine
<1>3. CASE x = d
  BY <1>1, <1>2, <1>3, CountedTurns
<1>4. CASE x # d
  BY <1>1, <1>2, <1>4, CountedElse
<1> QED  BY <1>3, <1>4

\* What a snapshot makes of the answer under way.
LEMMA SnapshotTurns ==
  ASSUME NEW p \in Page, NEW q, NEW state, NEW selected
  PROVE  /\ AfterSnapshot(p, q, state, selected).selected = selected
         /\ AfterSnapshot(p, q, state, selected).question = q
         /\ AfterSnapshot(p, q, state, selected).state = state
         /\ AfterSnapshot(p, q, state, selected).flight \in {None, p.flight}
BY DEF AfterSnapshot, Page

\* A page handles the next message.
LEMMA CountedPageReceives ==
  ASSUME Shape, EngineMoves, Counted, NEW d \in Device, PageReceives(d)
  PROVE  Counted'
<1> DEFINE m == Head(down[d])
<1>0. m = Head(down[d])
  OBVIOUS
<1> HIDE DEF m
<1>1. /\ link[d] = "up" /\ down[d] # << >> /\ m \in PageMsg
      /\ down' = [down EXCEPT ![d] = Tail(@)]
      /\ UNCHANGED <<engine, client, teacherLink, teacherLinks, sendBuffer, session,
                     SIDS, links, sent>>
      /\ \/ /\ m \in QuestionMsg /\ m.type = "question"
            /\ page' = [page EXCEPT ![d] = AfterBroadcast(page[d], m)]
            /\ UNCHANGED <<inbox, pinned, link, buffer>>
         \/ /\ m \in NoQuestion \cup StateOf /\ m.type = "state"
            /\ page' = [page EXCEPT ![d] = AfterSnapshot(page[d], m.question, m.state, m.answer)]
            /\ UNCHANGED <<inbox, pinned, link, buffer>>
         \/ /\ m \in ReceivedMsg /\ m.type = "received"
            /\ page' = [page EXCEPT ![d] = AfterReceived(page[d], m.nonce)]
            /\ UNCHANGED <<inbox, pinned, link, buffer>>
         \/ /\ m.type = "teacher-online"
            /\ PageEmits(d, Hello(d, links[d])) /\ UNCHANGED <<page, link>>
         \/ /\ m.type = "ended"
            /\ page' = [page EXCEPT ![d] = BlankPage("ended")]
            /\ link' = [link EXCEPT ![d] = "closed"]
            /\ UNCHANGED <<inbox, pinned, buffer>>
  BY <1>0, PageReceivesCases
<1>2. /\ Range(down[d]) = {m} \cup Range(Tail(down[d]))
      /\ down'[d] = Tail(down[d]) /\ \A x \in Device \ {d} : down'[x] = down[x]
  <2>1. down[d] \in Seq(PageMsg)
    BY DEF Shape, Types
  <2>2. Range(down[d]) = {Head(down[d])} \cup Range(Tail(down[d]))
    BY <1>1, <2>1, RangeHeadTail
  <2>3. down \in [Device -> Seq(PageMsg)]
    BY DEF Shape, Types
  <2> QED  BY <1>0, <1>1, <2>2, <2>3
<1>3. \A x \in Device : Range(down'[x]) \subseteq Range(down[x])
  BY <1>2
<1>4. /\ page[d] \in Page /\ PageShape(page[d])
      /\ page[d].selected # None => /\ page[d].question \in ChoiceQuestion
                                    /\ d \in DOMAIN answers[page[d].question]
      /\ page[d].flight # None => page[d].flight.nonce = sent[d]
      /\ TrueState(d, m) /\ TrueAck(d, m)
  BY <1>2 DEF Shape, Types, Counted, CountedAt
<1>5. CASE /\ m \in QuestionMsg
           /\ page' = [page EXCEPT ![d] = AfterBroadcast(page[d], m)]
           /\ UNCHANGED <<inbox, pinned, link, buffer>>
  <2> DEFINE selected == IF m.question = page[d].question THEN page[d].selected ELSE None
             p == AfterSnapshot(page[d], m.question, m.state, selected)
  <2>1. page' = [page EXCEPT ![d] = p]
    BY <1>5 DEF AfterBroadcast
  <2>2. p.selected = selected /\ p.question = m.question /\ p.flight \in {None, page[d].flight}
    BY <1>4, SnapshotTurns
  <2>3. selected # None => m.question = page[d].question /\ selected = page[d].selected
    OBVIOUS
  <2> HIDE DEF selected, p
  <2>4. p.selected # None => p.question \in ChoiceQuestion /\ d \in DOMAIN answers[p.question]
    BY <1>4, <2>2, <2>3
  <2>5. p.flight # None => p.flight = page[d].flight
    BY <2>2
  <2>6. UNCHANGED <<engine, sendBuffer, sent, inbox, buffer>>
    BY <1>1, <1>5
  <2> QED  BY <1>3, <2>1, <2>4, <2>5, <2>6, CountedBecomes
<1>6. CASE /\ m \in NoQuestion \cup StateOf /\ m.type = "state"
           /\ page' = [page EXCEPT ![d] = AfterSnapshot(page[d], m.question, m.state, m.answer)]
           /\ UNCHANGED <<inbox, pinned, link, buffer>>
  <2> DEFINE p == AfterSnapshot(page[d], m.question, m.state, m.answer)
  <2>1. page' = [page EXCEPT ![d] = p]
    BY <1>6
  <2>2. p.selected = m.answer /\ p.question = m.question /\ p.flight \in {None, page[d].flight}
    BY <1>4, SnapshotTurns
  <2> HIDE DEF p
  <2>3. p.selected # None => p.question \in ChoiceQuestion /\ d \in DOMAIN answers[p.question]
    BY <1>4, <1>6, <2>2 DEF TrueState
  <2>4. p.flight # None => p.flight = page[d].flight
    BY <2>2
  <2> QED  BY <1>1, <1>3, <1>6, <2>1, <2>3, <2>4, CountedBecomes, ZenonT(40)
<1>7. CASE /\ m \in ReceivedMsg /\ m.type = "received"
           /\ page' = [page EXCEPT ![d] = AfterReceived(page[d], m.nonce)]
           /\ UNCHANGED <<inbox, pinned, link, buffer>>
  <2> DEFINE p == AfterReceived(page[d], m.nonce)
  <2>1. page' = [page EXCEPT ![d] = p]
    BY <1>7
  <2>2. CASE page[d].flight # None /\ page[d].flight.nonce = m.nonce
    <3>1. p = [page[d] EXCEPT !.status = "answered", !.selected = page[d].flight.answer,
                              !.flight = None]
      BY <2>2 DEF AfterReceived
    <3>2. p.flight = None /\ p.question = page[d].question
      BY <1>4, <3>1 DEF Page
    <3>3. page[d].flight \in InFlight /\ page[d].flight.question = page[d].question
      BY <1>4, <2>2 DEF Page, PageShape
    <3>4. page[d].question \in ChoiceQuestion /\ d \in DOMAIN answers[page[d].question]
      BY <1>4, <1>7, <2>2, <3>3 DEF TrueAck, InFlight
    <3> HIDE DEF p
    <3> QED  BY <1>1, <1>3, <1>7, <2>1, <3>2, <3>4, CountedBecomes
  <2>3. CASE ~ (page[d].flight # None /\ page[d].flight.nonce = m.nonce)
    <3>1. p = page[d]
      BY <2>3 DEF AfterReceived
    <3> HIDE DEF p
    <3> QED  BY <1>1, <1>3, <1>4, <1>7, <2>1, <3>1, CountedBecomes
  <2> QED  BY <2>2, <2>3
<1>8. CASE PageEmits(d, Hello(d, links[d])) /\ UNCHANGED <<page, link>>
  BY <1>1, <1>3, <1>8, CountedHello DEF pages
<1>9. CASE /\ page' = [page EXCEPT ![d] = BlankPage("ended")]
           /\ UNCHANGED <<inbox, pinned, buffer>>
  <2> DEFINE p == BlankPage("ended")
  <2>1. p.selected = None /\ p.flight = None /\ page' = [page EXCEPT ![d] = p]
    BY <1>9 DEF BlankPage, FreshPage
  <2> HIDE DEF p
  <2> QED  BY <1>1, <1>3, <1>9, <2>1, CountedBecomes
<1> QED  BY <1>1, <1>5, <1>6, <1>7, <1>8, <1>9

\* It holds at first: no page shows an answer.
LEMMA CountedInit == Init => Counted
<1> SUFFICES ASSUME Init, NEW d \in Device PROVE CountedAt(d)
  BY DEF Counted
<1>1. /\ page[d].selected = None /\ page[d].flight = None /\ down[d] = << >>
      /\ sendBuffer[d] = << >> /\ inbox = << >> /\ buffer[d] = << >>
  BY DEF Init, FreshPage
<1> QED  BY <1>1, RangeEmpty DEF CountedAt

\* Every step keeps it.
LEMMA CountedStep ==
  ASSUME Sound, Counted, [Next]_vars
  PROVE  Counted'
<1>0. Shape /\ EngineMoves /\ Facing /\ Facing'
  BY SoundEngine DEF Sound
<1>1. CASE UNCHANGED vars
  <2>1. UNCHANGED <<pages, down, sendBuffer, buffer, inbox>>
    BY <1>1 DEF vars, teacherNet, pageNet
  <2> QED  BY <1>0, <2>1, CountedLinks
<1>2. ASSUME NEW q \in ChoiceQuestion, TriggerLiveQuestion(q) \/ CloseLiveQuestion(q)
      PROVE  Counted'
  BY <1>0, <1>2, CountedTrigger, CountedClose
<1>3. CASE TeacherReceives
  BY <1>0, <1>3, CountedReceives
<1>4. CASE TeacherLinkBreaks
  <2>1. UNCHANGED <<pages, down, sendBuffer, buffer>> /\ inbox' = << >>
    BY <1>4 DEF TeacherLinkBreaks, pageNet
  <2> QED  BY <1>0, <2>1, CountedLinks, RangeEmpty
<1>5. CASE TeacherNotices
  <2>1. UNCHANGED <<pages, down, sendBuffer, buffer, inbox>>
    BY <1>5 DEF TeacherNotices, pageNet
  <2> QED  BY <1>0, <2>1, CountedLinks
<1>6. CASE TeacherConnects
  BY <1>0, <1>6, CountedConnects
<1>7. CASE SessionEnds
  BY <1>0, <1>7, CountedEnds
<1>8. ASSUME NEW d \in Device,
             \/ PageConnects(d) \/ PageRefused(d) \/ PageLinkBreaks(d) \/ PageNotices(d)
             \/ Reload(d) \/ PageReceives(d) \/ Resync(d)
             \/ CancelPending(d) \/ ConfirmPending(d) \/ AckTimeout(d) \/ Resend(d)
             \/ \E o \in Option : RequestSubmit(d, o)
             \/ \E sid \in Sid : RelayNotices(d, sid)
      PROVE  Counted'
  <2>0. /\ down \in [Device -> Seq(PageMsg)]
        /\ buffer \in [Device -> Seq(AnswerMsg(Device, Sid \cup {0}))]
        /\ page[d] \in Page /\ page \in [Device -> Page] /\ CountedAt(d)
    BY <1>0 DEF Shape, Types, Counted
  <2>1. CASE PageConnects(d)
    BY <1>0, <2>1, CountedPageConnects
  <2>2. CASE PageRefused(d)
    <3> DEFINE p == BlankPage("error")
    <3>1. /\ page' = [page EXCEPT ![d] = p]
          /\ UNCHANGED <<engine, inbox, sendBuffer, sent, down, buffer>>
      BY <2>2 DEF PageRefused, teacherNet
    <3>2. p.selected = None /\ p.flight = None
      BY DEF BlankPage, FreshPage
    <3> HIDE DEF p
    <3> QED  BY <1>0, <3>1, <3>2, CountedBecomes
  <2>3. CASE PageLinkBreaks(d)
    <3>1. /\ UNCHANGED <<pages, inbox, sendBuffer, buffer>>
          /\ down' = [down EXCEPT ![d] = << >>]
      BY <2>3 DEF PageLinkBreaks, teacherNet
    <3>2. \A x \in Device : Range(down'[x]) \subseteq Range(down[x])
      BY <2>0, <3>1, RangeEmpty
    <3> QED  BY <1>0, <3>1, <3>2, CountedLinks
  <2>4. CASE PageNotices(d)
    <3>1. UNCHANGED <<pages, down, sendBuffer, buffer, inbox>>
      BY <2>4 DEF PageNotices, teacherNet
    <3> QED  BY <1>0, <3>1, CountedLinks
  <2>5. CASE Reload(d)
    <3>1. /\ page' = [page EXCEPT ![d] = FreshPage]
          /\ UNCHANGED <<engine, inbox, sendBuffer, sent>>
          /\ down' = [down EXCEPT ![d] = << >>] /\ buffer' = [buffer EXCEPT ![d] = << >>]
      BY <2>5 DEF Reload, teacherNet
    <3>2. FreshPage.selected = None /\ FreshPage.flight = None
      BY DEF FreshPage
    <3>3. \A x \in Device : /\ Range(down'[x]) \subseteq Range(down[x])
                            /\ Range(buffer'[x]) \subseteq Range(buffer[x])
                            /\ x # d => buffer'[x] = buffer[x]
      BY <2>0, <3>1, RangeEmpty
    <3> QED  BY <1>0, <3>1, <3>2, <3>3, CountedBecomes
  <2>6. CASE PageReceives(d)
    BY <1>0, <2>6, CountedPageReceives
  <2>7. CASE Resync(d)
    <3>1. /\ link[d] = "up" /\ PageEmits(d, Hello(d, links[d]))
          /\ UNCHANGED <<pages, sendBuffer, down>>
      BY <2>7 DEF Resync
    <3> QED  BY <1>0, <3>1, CountedHello
  <2>8. CASE ConfirmPending(d) \/ Resend(d)
    BY <1>0, <2>8, CountedTransmits
  <2>9. ASSUME NEW p, page' = [page EXCEPT ![d] = p], onlyPage(d),
               p.selected = page[d].selected, p.question = page[d].question,
               p.flight # None => /\ page[d].flight # None
                                  /\ p.flight.nonce = page[d].flight.nonce
                                  /\ p.flight.question = page[d].flight.question
                                  /\ p.flight.answer = page[d].flight.answer
        PROVE  Counted'
    <3>1. UNCHANGED <<engine, sendBuffer, sent, inbox, down, buffer>>
      BY <2>9 DEF onlyPage, teacherNet, pageNet
    <3>2. p.selected # None => p.question \in ChoiceQuestion /\ d \in DOMAIN answers[p.question]
      BY <2>0, <2>9 DEF CountedAt
    <3> QED  BY <1>0, <2>9, <3>1, <3>2, CountedBecomes
  <2>10. CASE CancelPending(d) \/ \E o \in Option : RequestSubmit(d, o)
    <3>1. \E o \in Option \cup {None} : /\ page' = [page EXCEPT ![d].pending = o]
                                        /\ onlyPage(d)
      BY <2>10 DEF CancelPending, RequestSubmit
    <3>2. PICK o \in Option \cup {None} : page' = [page EXCEPT ![d].pending = o] /\ onlyPage(d)
      BY <3>1
    <3> DEFINE p == [page[d] EXCEPT !.pending = o]
    <3>3. page' = [page EXCEPT ![d] = p]
      BY <3>2
    <3>4. p.selected = page[d].selected /\ p.question = page[d].question /\ p.flight = page[d].flight
      BY <2>0 DEF Page
    <3> HIDE DEF p
    <3> QED  BY <2>9, <3>2, <3>3, <3>4
  <2>11. CASE AckTimeout(d)
    <3> DEFINE p == [page[d] EXCEPT !.flight.phase = "failed"]
    <3>1. page' = [page EXCEPT ![d] = p] /\ onlyPage(d) /\ page[d].flight # None
      BY <2>11 DEF AckTimeout, Submitting
    <3>2. page[d].flight \in InFlight
      BY <2>0, <3>1 DEF Page
    <3>3. p.selected = page[d].selected /\ p.question = page[d].question
          /\ p.flight = [page[d].flight EXCEPT !.phase = "failed"]
      BY <2>0 DEF Page
    <3>4. /\ p.flight.nonce = page[d].flight.nonce
          /\ p.flight.question = page[d].flight.question
          /\ p.flight.answer = page[d].flight.answer
      BY <3>2, <3>3 DEF InFlight
    <3> HIDE DEF p
    <3> QED  BY <2>9, <3>1, <3>3, <3>4
  <2>12. ASSUME NEW sid \in Sid, RelayNotices(d, sid) PROVE Counted'
    <3> DEFINE m == [type |-> "presence", device |-> d, sid |-> sid, connected |-> FALSE]
    <3>1. /\ UNCHANGED <<pages, down, sendBuffer, buffer>>
          /\ inbox' = inbox \/ inbox' = inbox \o << m >>
      BY <2>12 DEF RelayNotices, Presence, ToTeacher, pageNet
    <3>2. m.type # "answer"
      OBVIOUS
    <3> HIDE DEF m
    <3>3. Range(inbox \o << m >>) = Range(inbox) \cup {m}
      BY <1>0, RangeAppendOne DEF Shape, Types
    <3> QED  BY <1>0, <3>1, <3>2, <3>3, CountedLinks
  <2> QED  BY <1>8, <2>1, <2>2, <2>3, <2>4, <2>5, <2>6, <2>7, <2>8, <2>10, <2>11, <2>12
<1> QED  BY <1>1, <1>2, <1>3, <1>4, <1>5, <1>6, <1>7, <1>8 DEF Next

\* It always holds.
LEMMA CountedAlways == Spec => []Counted
<1>1. Sound /\ Counted /\ [Next]_vars => Counted'
  BY CountedStep
<1> QED  BY <1>1, CountedInit, SoundAlways, PTL DEF Spec

\* An answer that a page shows as received is one that the engine has.
THEOREM ShownCounted == Spec => []ShownIsCounted
<1>1. Counted => ShownIsCounted
  BY DEF Counted, CountedAt, ShownIsCounted
<1> QED  BY <1>1, CountedAlways, PTL

-----------------------------------------------------------------------------
(***************************************************************************)
(* Ordered: a page, what is under way to it, what waits in the client and  *)
(* what the engine shows come in the order of the questions.               *)
(***************************************************************************)

\* What is, or tells, a question and its state.
Snap(m) == m.type \in {"state", "question"}
Seen(s) == s.question # None => s.question \in ChoiceQuestion /\ qstate[s.question] # "ready"

\* t is not before s: its question was opened later, or it is the same question
\* and has not gone from closed to open.
Leq(s, t) ==
  s.question # None =>
    /\ t.question # None
    /\ opened_at[s.question] <= opened_at[t.question]
    /\ s.state = "closed" /\ t.question = s.question => t.state = "closed"

\* What the engine shows, whoever asks.
Shown == [question |-> Current, state |-> IF clock = 0 THEN None ELSE qstate[Current]]
Tells(m) == m.question = Shown.question /\ m.state = Shown.state

\* The order is transitive on what the engine has shown.
LEMMA LeqTransitive ==
  ASSUME Facing, NEW s, NEW t, NEW u, Seen(s), Seen(t), Seen(u), Leq(s, t), Leq(t, u)
  PROVE  Leq(s, u)
<1> SUFFICES ASSUME s.question # None PROVE Leq(s, u)
  BY DEF Leq
<1>1. /\ t.question # None /\ u.question # None
      /\ opened_at[s.question] <= opened_at[t.question]
      /\ opened_at[t.question] <= opened_at[u.question]
  BY DEF Leq
<1>2. /\ s.question \in ChoiceQuestion /\ t.question \in ChoiceQuestion /\ u.question \in ChoiceQuestion
      /\ qstate[s.question] # "ready"
  BY <1>1 DEF Seen
<1>3. /\ opened_at[s.question] \in Nat /\ opened_at[t.question] \in Nat /\ opened_at[u.question] \in Nat
  BY <1>2 DEF Facing, EngineTypes
<1>4. opened_at[s.question] <= opened_at[u.question]
  BY <1>1, <1>3
<1>5. ASSUME s.state = "closed", u.question = s.question PROVE u.state = "closed"
  <2>1. opened_at[t.question] = opened_at[s.question]
    BY <1>1, <1>3, <1>5
  <2>2. opened_at[s.question] # 0
    BY <1>2 DEF Facing
  <2>3. t.question = s.question
    BY <1>2, <2>1, <2>2 DEF Facing
  <2> QED  BY <1>5, <2>3 DEF Leq
<1> QED  BY <1>1, <1>4, <1>5 DEF Leq

\* What was seen, and the order, stay.
LEMMA LeqStays ==
  ASSUME EngineMoves, NEW s, NEW t, Seen(s), Seen(t)
  PROVE  Seen(s)' /\ (Leq(s, t) => Leq(s, t)')
BY DEF EngineMoves, Seen, Leq

\* The engine never shows what is before what it has shown.
LEMMA ShownRises ==
  ASSUME Facing, Facing', EngineMoves, NEW s, NEW t, s = Shown, t = Shown'
  PROVE  Seen(s) /\ Seen(t)' /\ Leq(s, t)'
<1>1. Seen(s)
  BY DEF Facing, Seen, Shown
<1>2. Seen(t)'
  BY DEF Facing, Seen, Shown
<1>3. SUFFICES ASSUME clock # 0 PROVE Leq(s, t)'
  BY <1>1, <1>2 DEF Facing, Shown, Leq
<1>4. /\ Current \in ChoiceQuestion /\ opened_at[Current] = clock /\ qstate[Current] \in {"open", "closed"}
      /\ clock \in Nat /\ s.question = Current /\ s.state = qstate[Current]
  BY <1>3 DEF Facing, EngineTypes, Shown
<1>5. /\ opened_at'[Current] = clock /\ qstate'[Current] # "ready"
      /\ qstate[Current] = "closed" => qstate'[Current] = "closed"
      /\ clock' \in Nat /\ clock' # 0 /\ clock <= clock'
  BY <1>3, <1>4 DEF EngineMoves
<1>6. /\ Current' \in ChoiceQuestion /\ opened_at'[Current'] = clock'
      /\ t.question = Current' /\ t.state = qstate'[Current']
  BY <1>5 DEF Facing, Shown
<1>7. Current' # None
  BY <1>6, ClassAssumption DEF ClassAssumption
<1> QED  BY <1>4, <1>5, <1>6, <1>7 DEF Leq

\* A message that tells what is shown is not before it, nor is it after it.
LEMMA TellsShown ==
  ASSUME Facing, NEW m, Tells(m)
  PROVE  Seen(m) /\ Leq(m, Shown) /\ Leq(Shown, m) /\ \A n : Tells(n) => Leq(m, n)
<1>1. Seen(m)
  BY DEF Facing, Seen, Shown, Tells
<1>2. m.question # None => opened_at[m.question] \in Nat
  BY <1>1 DEF Seen, Facing, EngineTypes
<1> QED  BY <1>1, <1>2 DEF Tells, Leq, Shown
-----------------------------------------------------------------------------
\* A queue in which nothing comes after what is later.
Rising(q) ==
  \A i, j \in 1 .. Len(q) : i < j /\ Snap(q[i]) /\ Snap(q[j]) => Leq(q[i], q[j])

\* The messages of what the client has said.
Msgs(out) == [i \in 1 .. Len(out) |-> out[i].msg]

\* What a page p shows, a queue q that is under way to it, what b waits in the client
\* and what the engine shows are in order.
InOrder(p, q, b) ==
  /\ Seen(p) /\ Leq(p, Shown)
  /\ \A m \in Range(q) : Snap(m) => Seen(m) /\ Leq(p, m) /\ Leq(m, Shown)
  /\ \A x \in Range(b) :
       /\ Seen(x.msg) /\ Leq(p, x.msg) /\ Leq(x.msg, Shown)
       /\ \A m \in Range(q) : Snap(m) => Leq(m, x.msg)
  /\ Rising(q) /\ Rising(Msgs(b))

OrderedAt(d) == InOrder(page[d], down[d], sendBuffer[d])
Ordered == \A d \in Device : OrderedAt(d)

\* Two rising queues, the second of which is after the first.
LEMMA RisingAppended ==
  ASSUME NEW S, NEW q \in Seq(S), NEW r \in Seq(S), Rising(q), Rising(r),
         \A m \in Range(q), n \in Range(r) : Snap(m) /\ Snap(n) => Leq(m, n)
  PROVE  Rising(q \o r)
<1> DEFINE n == Len(q)
           k == Len(r)
           s == q \o r
<1>1. /\ n \in Nat /\ k \in Nat /\ Len(s) = n + k
      /\ \A i \in 1 .. n : s[i] = q[i] /\ q[i] \in Range(q)
      /\ \A i \in 1 .. k : s[n + i] = r[i] /\ r[i] \in Range(r)
  BY ConcatProperties, LenProperties DEF Range
<1> HIDE DEF n, k, s
<1>2. \A i \in 1 .. n + k : i \in 1 .. n \/ \E j \in 1 .. k : i = n + j
  <2> SUFFICES ASSUME NEW i \in 1 .. n + k, i \notin 1 .. n PROVE \E j \in 1 .. k : i = n + j
    OBVIOUS
  <2>1. i - n \in 1 .. k /\ i = n + (i - n)
    BY <1>1
  <2> QED  BY <2>1
<1>3. ASSUME NEW i \in 1 .. Len(s), NEW j \in 1 .. Len(s), i < j, Snap(s[i]), Snap(s[j])
      PROVE  Leq(s[i], s[j])
  <2>1. CASE i \in 1 .. n /\ j \in 1 .. n
    <3>1. s[i] = q[i] /\ s[j] = q[j]
      BY <1>1, <2>1
    <3> QED  BY <1>3, <2>1, <3>1 DEF Rising, n
  <2>2. ASSUME NEW l \in 1 .. k, j = n + l, i \in 1 .. n PROVE Leq(s[i], s[j])
    <3>1. s[i] = q[i] /\ s[j] = r[l] /\ q[i] \in Range(q) /\ r[l] \in Range(r)
      BY <1>1, <2>2
    <3> QED  BY <1>3, <3>1
  <2>3. ASSUME NEW h \in 1 .. k, NEW l \in 1 .. k, i = n + h, j = n + l PROVE Leq(s[i], s[j])
    <3>1. s[i] = r[h] /\ s[j] = r[l]
      BY <1>1, <2>3
    <3>2. h < l
      BY <1>1, <1>3, <2>3
    <3> QED  BY <1>3, <3>1, <3>2 DEF Rising, k
  <2>4. ASSUME NEW h \in 1 .. k, i = n + h, j \in 1 .. n PROVE FALSE
    BY <1>1, <1>3, <2>4
  <2> QED  BY <1>1, <1>2, <2>1, <2>2, <2>3, <2>4
<1> QED  BY <1>3 DEF Rising, s

\* What is left of a rising queue rises, and is after its head.
LEMMA RisingTail ==
  ASSUME NEW S, NEW q \in Seq(S), q # << >>, Rising(q)
  PROVE  /\ Rising(Tail(q))
         /\ \A m \in Range(Tail(q)) : Snap(Head(q)) /\ Snap(m) => Leq(Head(q), m)
<1> DEFINE t == Tail(q)
<1>1. /\ Len(q) \in Nat \ {0} /\ Head(q) = q[1] /\ Len(t) = Len(q) - 1
      /\ \A i \in 1 .. Len(t) : t[i] = q[i + 1]
      /\ t \in Seq(S)
  BY HeadTailProperties, EmptySeq
<1> HIDE DEF t
<1>2. \A i \in 1 .. Len(t) : i + 1 \in 1 .. Len(q) /\ 1 < i + 1
  BY <1>1
<1>3. ASSUME NEW i \in 1 .. Len(t), NEW j \in 1 .. Len(t), i < j, Snap(t[i]), Snap(t[j])
      PROVE  Leq(t[i], t[j])
  <2>1. i + 1 \in 1 .. Len(q) /\ j + 1 \in 1 .. Len(q) /\ i + 1 < j + 1
    BY <1>2, <1>3
  <2>2. t[i] = q[i + 1] /\ t[j] = q[j + 1]
    BY <1>1
  <2> QED  BY <1>3, <2>1, <2>2 DEF Rising
<1>4. ASSUME NEW m \in Range(t), Snap(q[1]), Snap(m) PROVE Leq(q[1], m)
  <2>1. PICK i \in 1 .. Len(t) : m = t[i]
    BY <1>1, <1>4 DEF Range
  <2>2. m = q[i + 1] /\ i + 1 \in 1 .. Len(q) /\ 1 \in 1 .. Len(q) /\ 1 < i + 1
    BY <1>1, <1>2, <2>1
  <2> QED  BY <1>4, <2>2 DEF Rising
<1> QED  BY <1>1, <1>3, <1>4 DEF Rising, t

\* The same after a step.
LEMMA LeqTransitiveNext ==
  Facing' => \A s, t, u : Seen(s)' /\ Seen(t)' /\ Seen(u)' /\ Leq(s, t)' /\ Leq(t, u)' => Leq(s, u)'
<1>1. Facing => \A s, t, u : Seen(s) /\ Seen(t) /\ Seen(u) /\ Leq(s, t) /\ Leq(t, u) => Leq(s, u)
  BY LeqTransitive
<1>2. Facing' => (\A s, t, u :
                    Seen(s) /\ Seen(t) /\ Seen(u) /\ Leq(s, t) /\ Leq(t, u) => Leq(s, u))'
  BY <1>1, PTL
<1> QED  BY <1>2

\* What tells what is shown, after a step.
LEMMA TellsShownNext ==
  Facing' => \A m : Tells(m)' => Seen(m)' /\ Leq(m, Shown)' /\ \A n : Tells(n)' => Leq(m, n)'
<1>1. Facing => \A m : Tells(m) => Seen(m) /\ Leq(m, Shown) /\ \A n : Tells(n) => Leq(m, n)
  BY TellsShown
<1>2. Facing' => (\A m : Tells(m) => Seen(m) /\ Leq(m, Shown) /\ \A n : Tells(n) => Leq(m, n))'
  BY <1>1, PTL
<1> QED  BY <1>2

\* The same after a step.
LEMMA RisingAppendedNext ==
  \A q, r \in Seq(PageMsg) :
    /\ Rising(q)' /\ Rising(r)'
    /\ \A m \in Range(q), n \in Range(r) : Snap(m) /\ Snap(n) => Leq(m, n)'
    => Rising(q \o r)'
<1>1. \A q, r \in Seq(PageMsg) :
        /\ Rising(q) /\ Rising(r)
        /\ \A m \in Range(q), n \in Range(r) : Snap(m) /\ Snap(n) => Leq(m, n)
        => Rising(q \o r)
  BY RisingAppended
<1>2. (\A q, r \in Seq(PageMsg) :
        /\ Rising(q) /\ Rising(r)
        /\ \A m \in Range(q), n \in Range(r) : Snap(m) /\ Snap(n) => Leq(m, n)
        => Rising(q \o r))'
  BY <1>1, PTL
<1> QED  BY <1>2

\* The messages of what was said, one by one.
LEMMA MsgsType ==
  ASSUME NEW M, NEW out \in Seq(Item(M))
  PROVE  /\ Msgs(out) \in Seq(M) /\ Len(Msgs(out)) = Len(out)
         /\ \A i \in 1 .. Len(out) : Msgs(out)[i] = out[i].msg
         /\ \A m \in Range(Msgs(out)) : \E x \in Range(out) : m = x.msg
         /\ \A x \in Range(out) : x.msg \in Range(Msgs(out))
<1>1. Len(out) \in Nat /\ \A i \in 1 .. Len(out) : out[i] \in Item(M)
  BY ElementOfSeq, LenProperties
<1>2. \A i \in 1 .. Len(out) : out[i].msg \in M
  BY <1>1 DEF Item
<1>3. Msgs(out) \in Seq(M) /\ Len(Msgs(out)) = Len(out)
      /\ \A i \in 1 .. Len(out) : Msgs(out)[i] = out[i].msg
  BY <1>1, <1>2 DEF Msgs
<1>4. DOMAIN out = 1 .. Len(out) /\ DOMAIN Msgs(out) = 1 .. Len(out)
  BY DEF Msgs
<1> QED  BY <1>3, <1>4 DEF Range

\* The messages of what was said first and then.
LEMMA MsgsConcat ==
  ASSUME NEW M, NEW q \in Seq(Item(M)), NEW r \in Seq(Item(M))
  PROVE  Msgs(q \o r) = Msgs(q) \o Msgs(r)
<1>1. /\ q \o r \in Seq(Item(M)) /\ Len(q \o r) = Len(q) + Len(r)
      /\ \A i \in 1 .. Len(q) + Len(r) :
           (q \o r)[i] = IF i <= Len(q) THEN q[i] ELSE r[i - Len(q)]
      /\ Len(q) \in Nat /\ Len(r) \in Nat
  BY ConcatProperties, LenProperties
<1>2. /\ Msgs(q) \in Seq(M) /\ Len(Msgs(q)) = Len(q)
      /\ Msgs(r) \in Seq(M) /\ Len(Msgs(r)) = Len(r)
      /\ \A i \in 1 .. Len(q) : Msgs(q)[i] = q[i].msg
      /\ \A i \in 1 .. Len(r) : Msgs(r)[i] = r[i].msg
  BY MsgsType
<1>3. /\ Msgs(q) \o Msgs(r) \in Seq(M) /\ Len(Msgs(q) \o Msgs(r)) = Len(q) + Len(r)
      /\ \A i \in 1 .. Len(q) + Len(r) :
           (Msgs(q) \o Msgs(r))[i] = IF i <= Len(q) THEN Msgs(q)[i] ELSE Msgs(r)[i - Len(q)]
  <2> DEFINE a == Msgs(q)
             b == Msgs(r)
  <2>1. a \in Seq(M) /\ b \in Seq(M) /\ Len(a) = Len(q) /\ Len(b) = Len(r)
    BY <1>2
  <2> HIDE DEF a, b
  <2>2. /\ a \o b \in Seq(M) /\ Len(a \o b) = Len(a) + Len(b)
        /\ \A i \in 1 .. Len(a) + Len(b) :
             (a \o b)[i] = IF i <= Len(a) THEN a[i] ELSE b[i - Len(a)]
    BY <2>1, ConcatProperties
  <2>3. /\ a \o b \in Seq(M) /\ Len(a \o b) = Len(q) + Len(r)
        /\ \A i \in 1 .. Len(q) + Len(r) :
             (a \o b)[i] = IF i <= Len(q) THEN a[i] ELSE b[i - Len(q)]
    BY <2>1, <2>2
  <2> QED  BY <2>3 DEF a, b
<1>4. /\ Msgs(q \o r) \in Seq(M) /\ Len(Msgs(q \o r)) = Len(q) + Len(r)
      /\ \A i \in 1 .. Len(q) + Len(r) : Msgs(q \o r)[i] = (q \o r)[i].msg
  <2> DEFINE s == q \o r
  <2>1. s \in Seq(Item(M)) /\ Len(s) = Len(q) + Len(r)
    BY <1>1
  <2> HIDE DEF s
  <2>2. Msgs(s) \in Seq(M) /\ Len(Msgs(s)) = Len(s)
        /\ \A i \in 1 .. Len(s) : Msgs(s)[i] = s[i].msg
    BY <2>1, MsgsType
  <2>3. /\ Msgs(s) \in Seq(M) /\ Len(Msgs(s)) = Len(q) + Len(r)
        /\ \A i \in 1 .. Len(q) + Len(r) : Msgs(s)[i] = s[i].msg
    BY <2>1, <2>2
  <2> QED  BY <2>3 DEF s
<1>5. ASSUME NEW i \in 1 .. Len(q) + Len(r)
      PROVE  Msgs(q \o r)[i] = (Msgs(q) \o Msgs(r))[i]
  <2>1. CASE i <= Len(q)
    <3>1. i \in 1 .. Len(q)
      BY <1>1, <2>1
    <3> QED  BY <1>1, <1>2, <1>3, <1>4, <2>1, <3>1
  <2>2. CASE ~ (i <= Len(q))
    <3>1. i - Len(q) \in 1 .. Len(r)
      BY <1>1, <2>2
    <3> QED  BY <1>1, <1>2, <1>3, <1>4, <2>2, <3>1
  <2> QED  BY <2>1, <2>2
<1> QED  BY <1>3, <1>4, <1>5, SeqEqual

\* What is picked of rising messages rises.
LEMMA RisingPicked ==
  ASSUME NEW M, NEW sid, NEW out \in Seq(Item(M)), Rising(Msgs(out))
  PROVE  Rising(For(sid, out))
<1> DEFINE r == For(sid, out)
<1>1. PICK h : Picks(h, sid, out, Len(out), r)
  BY ForPicks
<1> HIDE DEF r
<1>2. /\ h \in [1 .. Len(r) -> 1 .. Len(out)]
      /\ \A k \in 1 .. Len(r) : r[k] = out[h[k]].msg
      /\ \A k, m \in 1 .. Len(r) : k < m => h[k] < h[m]
  BY <1>1 DEF Picks
<1>3. Len(Msgs(out)) = Len(out) /\ \A i \in 1 .. Len(out) : Msgs(out)[i] = out[i].msg
  BY MsgsType
<1>4. ASSUME NEW i \in 1 .. Len(r), NEW j \in 1 .. Len(r), i < j, Snap(r[i]), Snap(r[j])
      PROVE  Leq(r[i], r[j])
  <2>1. h[i] \in 1 .. Len(out) /\ h[j] \in 1 .. Len(out) /\ h[i] < h[j]
    BY <1>2, <1>4
  <2>2. r[i] = Msgs(out)[h[i]] /\ r[j] = Msgs(out)[h[j]]
    BY <1>2, <1>3, <2>1
  <2> QED  BY <1>3, <1>4, <2>1, <2>2 DEF Rising
<1> QED  BY <1>4 DEF Rising, r

\* What tells what is shown rises.
LEMMA TellsRising ==
  ASSUME Facing', NEW S, NEW r \in Seq(S), \A m \in Range(r) : Snap(m) => Tells(m)'
  PROVE  Rising(r)'
<1>1. \A i \in 1 .. Len(r) : r[i] \in Range(r)
  BY DEF Range
<1>2. \A i, j \in 1 .. Len(r) : Snap(r[i]) /\ Snap(r[j]) => Leq(r[i], r[j])'
  BY <1>1, TellsShownNext
<1> QED  BY <1>2 DEF Rising

\* A step of the engine leaves what is in order in order.
LEMMA InOrderNext ==
  ASSUME Facing, Facing', EngineMoves, NEW p, NEW q \in Seq(PageMsg), NEW b \in Seq(Item(Spoken)),
         InOrder(p, q, b)
  PROVE  InOrder(p, q, b)'
<1> PICK s : s = Shown
  OBVIOUS
<1> PICK t : t = Shown'
  OBVIOUS
<1>1. Seen(s) /\ Seen(t)' /\ Leq(s, t)' /\ Seen(s)'
  BY ShownRises, LeqStays
<1>2. ASSUME NEW m, Seen(m), Leq(m, Shown) PROVE Seen(m)' /\ Leq(m, Shown)'
  <2>1. Seen(m)' /\ Leq(m, s)'
    BY <1>1, <1>2, LeqStays
  <2>2. Leq(m, t)'
    BY <1>1, <2>1, LeqTransitiveNext
  <2> QED  BY <2>1, <2>2 DEF Leq
<1>3. /\ Seen(p) /\ Leq(p, Shown)
      /\ \A m \in Range(q) : Snap(m) => Seen(m) /\ Leq(p, m) /\ Leq(m, Shown)
      /\ \A x \in Range(b) :
           /\ Seen(x.msg) /\ Leq(p, x.msg) /\ Leq(x.msg, Shown)
           /\ \A m \in Range(q) : Snap(m) => Leq(m, x.msg)
      /\ Rising(q) /\ Rising(Msgs(b))
  BY DEF InOrder
<1>4. Seen(p)' /\ Leq(p, Shown)'
  BY <1>2, <1>3
<1>5. \A m \in Range(q) : Snap(m) => Seen(m)' /\ Leq(p, m)' /\ Leq(m, Shown)'
  BY <1>2, <1>3, LeqStays
<1>6. ASSUME NEW x \in Range(b)
      PROVE  /\ Seen(x.msg)' /\ Leq(p, x.msg)' /\ Leq(x.msg, Shown)'
             /\ \A m \in Range(q) : Snap(m) => Leq(m, x.msg)'
  BY <1>2, <1>3, LeqStays
<1>7. ASSUME NEW S, NEW r \in Seq(S), Rising(r), \A m \in Range(r) : Snap(m) => Seen(m)
      PROVE  Rising(r)'
  <2>1. \A i \in 1 .. Len(r) : r[i] \in Range(r)
    BY DEF Range
  <2>2. ASSUME NEW i \in 1 .. Len(r), NEW j \in 1 .. Len(r), i < j, Snap(r[i]), Snap(r[j])
        PROVE  Leq(r[i], r[j])'
    <3>1. Seen(r[i]) /\ Seen(r[j]) /\ Leq(r[i], r[j])
      BY <1>7, <2>1, <2>2 DEF Rising
    <3> QED  BY <3>1, LeqStays
  <2> QED  BY <2>2 DEF Rising
<1>8. Rising(q)'
  BY <1>3, <1>7
<1>9. Rising(Msgs(b))'
  <2> PICK r : r = Msgs(b)
    OBVIOUS
  <2>1. r \in Seq(Spoken) /\ \A m \in Range(r) : \E x \in Range(b) : m = x.msg
    BY MsgsType
  <2>2. Rising(r)'
    BY <1>3, <1>7, <2>1
  <2>3. Msgs(b)' = Msgs(b)
    BY DEF Msgs
  <2> QED  BY <2>2, <2>3
<1> QED  BY <1>4, <1>5, <1>6, <1>8, <1>9 DEF InOrder

\* To the page goes what tells what is shown.
LEMMA InOrderTold ==
  ASSUME Facing', NEW p, NEW q \in Seq(PageMsg), NEW r \in Seq(PageMsg), InOrder(p, q, << >>)',
         \A m \in Range(r) : Snap(m) => Tells(m)'
  PROVE  InOrder(p, q \o r, << >>)'
<1>1. /\ Seen(p)' /\ Leq(p, Shown)'
      /\ \A m \in Range(q) : Snap(m) => Seen(m)' /\ Leq(p, m)' /\ Leq(m, Shown)'
      /\ Rising(q)' /\ Rising(Msgs(<< >>))'
  BY DEF InOrder
<1>2. Range(q \o r) = Range(q) \cup Range(r)
  BY RangeConcatenation
<1>3. ASSUME NEW n \in Range(r), Snap(n)
      PROVE  Seen(n)' /\ Leq(n, Shown)' /\ \A m : Leq(m, Shown)' => Leq(m, n)'
  <2>1. Tells(n)'
    BY <1>3
  <2>2. Seen(n)' /\ Leq(n, Shown)'
    BY <2>1, TellsShownNext
  <2>3. \A m : Leq(m, Shown)' => Leq(m, n)'
    BY <2>1 DEF Leq, Tells
  <2> QED  BY <2>2, <2>3
<1>4. Rising(r)'
  BY TellsRising
<1>5. \A m \in Range(q), n \in Range(r) : Snap(m) /\ Snap(n) => Leq(m, n)'
  BY <1>1, <1>3
<1>6. Rising(q \o r)'
  BY <1>1, <1>4, <1>5, RisingAppendedNext
<1>7. \A m \in Range(q \o r) : Snap(m) => Seen(m)' /\ Leq(p, m)' /\ Leq(m, Shown)'
  BY <1>1, <1>2, <1>3
<1> QED  BY <1>1, <1>6, <1>7, RangeEmpty DEF InOrder

\* To the client's buffer goes what tells what is shown.
LEMMA InOrderBuffered ==
  ASSUME Facing', NEW p, NEW q \in Seq(PageMsg), NEW b \in Seq(Item(Spoken)),
         NEW c \in Seq(Item(Spoken)), InOrder(p, q, b)', \A x \in Range(c) : Tells(x.msg)'
  PROVE  InOrder(p, q, b \o c)'
<1>1. /\ Seen(p)' /\ Leq(p, Shown)'
      /\ \A m \in Range(q) : Snap(m) => Seen(m)' /\ Leq(p, m)' /\ Leq(m, Shown)'
      /\ \A x \in Range(b) :
           /\ Seen(x.msg)' /\ Leq(p, x.msg)' /\ Leq(x.msg, Shown)'
           /\ \A m \in Range(q) : Snap(m) => Leq(m, x.msg)'
      /\ Rising(q)' /\ Rising(Msgs(b))'
  BY DEF InOrder
<1>2. Range(b \o c) = Range(b) \cup Range(c)
  BY RangeConcatenation
<1>3. ASSUME NEW x \in Range(c)
      PROVE  Seen(x.msg)' /\ Leq(x.msg, Shown)' /\ \A m : Leq(m, Shown)' => Leq(m, x.msg)'
  <2>1. Tells(x.msg)'
    BY <1>3
  <2>2. Seen(x.msg)' /\ Leq(x.msg, Shown)'
    BY <2>1, TellsShownNext
  <2>3. \A m : Leq(m, Shown)' => Leq(m, x.msg)'
    BY <2>1 DEF Leq, Tells
  <2> QED  BY <2>2, <2>3
<1>4. \A x \in Range(b \o c) :
           /\ Seen(x.msg)' /\ Leq(p, x.msg)' /\ Leq(x.msg, Shown)'
           /\ \A m \in Range(q) : Snap(m) => Leq(m, x.msg)'
  BY <1>1, <1>2, <1>3
<1>5. Rising(Msgs(b \o c))'
  <2> PICK f : f = Msgs(b)
    OBVIOUS
  <2> PICK g : g = Msgs(c)
    OBVIOUS
  <2>1. /\ f \in Seq(Spoken) /\ \A m \in Range(f) : \E x \in Range(b) : m = x.msg
        /\ g \in Seq(Spoken) /\ \A m \in Range(g) : \E x \in Range(c) : m = x.msg
    BY MsgsType
  <2>2. f \in Seq(PageMsg) /\ g \in Seq(PageMsg)
    BY <2>1, SeqMonotonic DEF PageMsg
  <2>3. Msgs(b \o c) = f \o g
    BY MsgsConcat
  <2>4. Rising(f)'
    <3>1. Msgs(b)' = f
      BY DEF Msgs
    <3> QED  BY <1>1, <3>1
  <2>5. Rising(g)'
    BY <2>1, <2>2, TellsRising
  <2>6. \A m \in Range(f), n \in Range(g) : Snap(m) /\ Snap(n) => Leq(m, n)'
    BY <1>1, <1>3, <2>1
  <2>7. Rising(f \o g)'
    BY <2>2, <2>4, <2>5, <2>6, RisingAppendedNext
  <2>8. Msgs(b \o c)' = f \o g
    BY <2>3 DEF Msgs
  <2> QED  BY <2>7, <2>8
<1> QED  BY <1>1, <1>4, <1>5 DEF InOrder

\* Nothing rises.
LEMMA RisingEmpty == Rising(<< >>) /\ Rising(Msgs(<< >>)) /\ Msgs(<< >>) = << >>
BY DEF Rising, Msgs

\* The page takes the next message, or starts over, or its queue is lost.
LEMMA InOrderTail ==
  ASSUME NEW p, NEW q \in Seq(PageMsg), NEW b, InOrder(p, q, b), q # << >>
  PROVE  /\ InOrder(p, Tail(q), b)
         /\ Snap(Head(q)) => \A z : z.question = Head(q).question /\ z.state = Head(q).state
                                      => InOrder(z, Tail(q), b)
<1>1. /\ Range(q) = {Head(q)} \cup Range(Tail(q)) /\ Rising(Tail(q))
      /\ \A m \in Range(Tail(q)) : Snap(Head(q)) /\ Snap(m) => Leq(Head(q), m)
  BY RangeHeadTail, RisingTail DEF InOrder
<1>2. InOrder(p, Tail(q), b)
  BY <1>1 DEF InOrder
<1>3. ASSUME Snap(Head(q)), NEW z, z.question = Head(q).question, z.state = Head(q).state
      PROVE  InOrder(z, Tail(q), b)
  <2>1. /\ Seen(z) /\ Leq(z, Shown)
        /\ \A n : Leq(Head(q), n) => Leq(z, n)
    BY <1>1, <1>3 DEF InOrder, Seen, Leq
  <2> QED  BY <1>1, <1>2, <1>3, <2>1 DEF InOrder
<1> QED  BY <1>2, <1>3

\* A page that shows the same, or nothing, with the same queue or none.
LEMMA InOrderBlank ==
  ASSUME NEW p, NEW q, NEW b, InOrder(p, q, b), NEW z,
         z.question = None \/ (z.question = p.question /\ z.state = p.state)
  PROVE  InOrder(z, q, b) /\ InOrder(z, << >>, b)
<1>1. Seen(z) /\ \A n : Leq(p, n) => Leq(z, n)
  BY DEF InOrder, Seen, Leq
<1> QED  BY <1>1, RisingEmpty, RangeEmpty DEF InOrder

\* The teacher is back: what the client had said goes to the page.
LEMMA InOrderFlushed ==
  ASSUME NEW p, NEW q \in Seq(PageMsg), NEW b \in Seq(Item(Spoken)), InOrder(p, q, b),
         NEW sid, NEW online \in Notice
  PROVE  /\ InOrder(p, q \o For(sid, Addressed(Sid, online) \o b), << >>)
         /\ InOrder(p, q, << >>)
<1> DEFINE a == Addressed(Sid, online)
           out == a \o b
           r == For(sid, out)
<1>1. a \in Seq(Item(PageMsg)) /\ b \in Seq(Item(PageMsg)) /\ out = a \o b
  <2>1. online \in PageMsg /\ Sid \in SUBSET Sid
    BY DEF PageMsg
  <2>2. Addressed(Sid, online) \in Seq(Item(PageMsg))
    BY <2>1, AddressedType
  <2> QED  BY <2>2, ItemMonotonic DEF PageMsg
<1>2. Range(a) = {[to |-> Sid, msg |-> online]} /\ Msgs(a) = << online >>
  BY RangeOne DEF Addressed, Msgs
<1> HIDE DEF a
<1>3. out \in Seq(Item(PageMsg)) /\ Range(out) = Range(a) \cup Range(b)
      /\ Msgs(out) = << online >> \o Msgs(b)
  <2>1. a \in Seq(Item(PageMsg)) /\ b \in Seq(Item(PageMsg))
    BY <1>1
  <2>2. a \o b \in Seq(Item(PageMsg)) /\ Range(a \o b) = Range(a) \cup Range(b)
    BY <2>1, ConcatProperties, RangeConcatenation
  <2>3. Msgs(a \o b) = Msgs(a) \o Msgs(b)
    BY <2>1, MsgsConcat
  <2> QED  BY <1>1, <1>2, <2>2, <2>3
<1> HIDE DEF out
<1>4. ~ Snap(online)
  BY DEF Notice, Snap
<1>5. Rising(Msgs(out))
  <2> DEFINE f == Msgs(b)
             e == << online >>
  <2>1. f \in Seq(Spoken)
    BY MsgsType
  <2>2. f \in Seq(PageMsg) /\ e \in Seq(PageMsg)
    BY <2>1, SeqMonotonic DEF PageMsg
  <2>3. Rising(e)
    BY DEF Rising
  <2>4. \A m \in Range(e) : ~ Snap(m)
    BY <1>4, RangeOne
  <2>5. Rising(f)
    BY DEF InOrder
  <2> HIDE DEF e, f
  <2>6. Rising(e \o f)
    BY <2>2, <2>3, <2>4, <2>5, RisingAppended
  <2> QED  BY <1>3, <2>6 DEF e, f
<1>6. r \in Seq(PageMsg) /\ Rising(r)
  BY <1>3, <1>5, ForPicks, RisingPicked
<1>7. ASSUME NEW m \in Range(r) PROVE ~ Snap(m) \/ \E x \in Range(b) : m = x.msg
  <2>1. \E x \in Range(out) : m = x.msg
    BY <1>3, <1>7, ForRange
  <2> QED  BY <1>2, <1>3, <1>4, <2>1
<1> HIDE DEF r
<1>8. Range(q \o r) = Range(q) \cup Range(r)
  BY <1>6, RangeConcatenation
<1>9. Rising(q \o r)
  <2>1. Rising(q)
    BY DEF InOrder
  <2>2. \A m \in Range(q), n \in Range(r) : Snap(m) /\ Snap(n) => Leq(m, n)
    BY <1>7 DEF InOrder
  <2> QED  BY <1>6, <2>1, <2>2, RisingAppended
<1>10. \A m \in Range(q \o r) : Snap(m) => Seen(m) /\ Leq(p, m) /\ Leq(m, Shown)
  BY <1>7, <1>8 DEF InOrder
<1>11. InOrder(p, q \o r, << >>)
  BY <1>9, <1>10, RangeEmpty, RisingEmpty DEF InOrder
<1>12. InOrder(p, q, << >>)
  BY RangeEmpty, RisingEmpty DEF InOrder
<1> QED  BY <1>11, <1>12 DEF r, out, a

\* A message that is no question and no state changes no order.
LEMMA InOrderNotice ==
  ASSUME NEW p, NEW q \in Seq(PageMsg), NEW b, InOrder(p, q, b),
         NEW r \in Seq(PageMsg), \A m \in Range(r) : ~ Snap(m)
  PROVE  InOrder(p, q \o r, b)
<1>1. Range(q \o r) = Range(q) \cup Range(r)
  BY RangeConcatenation
<1>2. \A i \in 1 .. Len(r) : r[i] \in Range(r)
  BY DEF Range
<1>3. Rising(r)
  BY <1>2 DEF Rising
<1>4. Rising(q \o r)
  BY <1>3, RisingAppended DEF InOrder
<1> QED  BY <1>1, <1>4 DEF InOrder
-----------------------------------------------------------------------------
\* Whatever is in order before a step of the engine, for the queues that are
\* there afterwards.
LEMMA OrderedMoves ==
  ASSUME Facing, Facing', EngineMoves, Shape', NEW d \in Device,
         NEW p, NEW q, NEW b, p = page'[d], q = down'[d], b = sendBuffer'[d], InOrder(p, q, b)
  PROVE  OrderedAt(d)'
<1>1. q \in Seq(PageMsg) /\ b \in Seq(Item(Spoken))
  BY DEF Shape, Types
<1>2. InOrder(p, q, b)'
  BY <1>1, InOrderNext
<1> QED  BY <1>2 DEF OrderedAt, InOrder

\* The client says what is shown.
LEMMA OrderedSpeaks ==
  ASSUME Shape, Facing, Facing', EngineMoves, Ordered, NEW out, Emittable(out), TeacherEmits(out),
         UNCHANGED pages,
         \A d \in Device : \A x \in Range(out[d]) : Snap(x.msg) => Tells(x.msg)'
  PROVE  Ordered'
<1> SUFFICES ASSUME NEW d \in Device PROVE OrderedAt(d)'
  BY DEF Ordered
<1> PICK p : p = page[d]
  OBVIOUS
<1> PICK q : q = down[d]
  OBVIOUS
<1> PICK b : b = sendBuffer[d]
  OBVIOUS
<1> PICK o : o = out[d]
  OBVIOUS
<1>1. /\ q \in Seq(PageMsg) /\ b \in Seq(Item(Spoken))
      /\ o \in Seq(Item(Spoken \cup ReceivedMsg)) /\ (teacherLink # "up" => o \in Seq(Item(Spoken)))
  BY DEF Shape, Types, Emittable
<1>2. InOrder(p, q, b)
  BY DEF Ordered, OrderedAt
<1>3. InOrder(p, q, b)'
  BY <1>1, <1>2, InOrderNext
<1>4. page'[d] = p
  BY DEF pages
<1>5. CASE teacherLink = "up"
  <2> PICK r : r = Reaching(d, o)
    OBVIOUS
  <2>1. down'[d] = q \o r /\ sendBuffer'[d] = b /\ b = << >>
    BY <1>5 DEF TeacherEmits, Shape, TeacherShape, Nothing
  <2>2. r \in Seq(PageMsg)
    <3>1. r \in Seq(Spoken \cup ReceivedMsg)
      BY <1>1, ReachingType
    <3> QED  BY <3>1, SeqMonotonic DEF PageMsg
  <2>3. ASSUME NEW m \in Range(r), Snap(m) PROVE Tells(m)'
    <3>1. m \in Range(For(links[d], o))
      BY <2>3, RangeEmpty DEF Reaching
    <3>2. \E x \in Range(o) : m = x.msg
      BY <1>1, <3>1, ForRange
    <3> QED  BY <2>3, <3>2
  <2>4. InOrder(p, q \o r, << >>)'
    BY <1>1, <1>3, <2>1, <2>2, <2>3, InOrderTold
  <2> QED  BY <1>4, <2>1, <2>4 DEF OrderedAt, InOrder
<1>6. CASE teacherLink = "down"
  <2>1. down'[d] = q /\ sendBuffer'[d] = b \o o /\ o \in Seq(Item(Spoken))
    BY <1>1, <1>6 DEF TeacherEmits
  <2>2. ASSUME NEW x \in Range(o) PROVE Tells(x.msg)'
    <3>1. x \in Item(Spoken)
      BY <2>1, RangeOfSeq
    <3>2. Snap(x.msg)
      BY <3>1 DEF Item, Spoken, NoQuestion, StateOf, QuestionMsg, Snap
    <3> QED  BY <3>2
  <2>3. InOrder(p, q, b \o o)'
    BY <1>1, <1>3, <2>1, <2>2, InOrderBuffered
  <2> QED  BY <1>4, <2>1, <2>3 DEF OrderedAt, InOrder
<1>7. CASE teacherLink \notin {"up", "down"}
  <2>1. down'[d] = q /\ sendBuffer'[d] = b
    BY <1>7 DEF TeacherEmits
  <2> QED  BY <1>3, <1>4, <2>1 DEF OrderedAt, InOrder
<1> QED  BY <1>5, <1>6, <1>7

\* What a broadcast says of the question that it opens or closes is what is shown then.
LEMMA BroadcastTells ==
  ASSUME Facing, Facing', NEW q \in ChoiceQuestion,
         \/ qstate'[q] = "open"
         \/ qstate[q] = "open" /\ UNCHANGED <<opened_at, clock>>,
         NEW x \in Range(Broadcast(q))
  PROVE  Tells(x.msg)'
<1>1. x.msg = [type |-> "question", question |-> q, state |-> qstate'[q]]
  BY RangeOne DEF Broadcast, Addressed
<1>2. q = Current' /\ clock' # 0
  <2>1. CASE qstate'[q] = "open"
    <3>1. q = Current' /\ Current' # None
      BY <2>1, ClassAssumption DEF Facing, ClassAssumption
    <3> QED  BY <3>1 DEF Facing
  <2>2. CASE qstate[q] = "open" /\ UNCHANGED <<opened_at, clock>>
    <3>1. q = Current /\ Current # None
      BY <2>2, ClassAssumption DEF Facing, ClassAssumption
    <3>2. clock # 0 /\ opened_at[q] = clock
      BY <3>1 DEF Facing
    <3>3. clock' # 0 /\ opened_at'[q] = clock'
      BY <2>2, <3>2
    <3> QED  BY <3>3 DEF Facing
  <2> QED  BY <2>1, <2>2
<1> QED  BY <1>1, <1>2 DEF Tells, Shown

\* The state tells what is shown.
LEMMA StateTells ==
  ASSUME Facing', NEW d \in Device, NEW s, s = StudentState(d)'
  PROVE  Tells(s)'
<1>1. s.question = Shown'.question /\ s.state = Shown'.state
  BY DEF Facing, Shown
<1> QED  BY <1>1 DEF Tells

\* A question is opened.
LEMMA OrderedTrigger ==
  ASSUME Shape, Facing, Facing', EngineMoves, Ordered, NEW q \in ChoiceQuestion,
         TriggerLiveQuestion(q)
  PROVE  Ordered'
<1> DEFINE out == [d \in Device |-> Broadcast(q)]
<1>1. /\ qstate[q] = "ready" /\ Engine!Trigger(q) /\ TeacherEmits(out) /\ UNCHANGED pages
  BY DEF TriggerLiveQuestion
<1>2. qstate'[q] = "open"
  BY <1>1 DEF Engine!Trigger, Facing, EngineTypes
<1>3. Emittable(out)
  BY <1>2, BroadcastType, ItemMonotonic DEF Emittable
<1>4. \A d \in Device : out[d] = Broadcast(q)
  OBVIOUS
<1> HIDE DEF out
<1>5. \A d \in Device : \A x \in Range(out[d]) : Snap(x.msg) => Tells(x.msg)'
  BY <1>2, <1>4, BroadcastTells
<1> QED  BY <1>1, <1>3, <1>5, OrderedSpeaks

\* A question is closed.
LEMMA OrderedClose ==
  ASSUME Shape, Facing, Facing', EngineMoves, Ordered, NEW q \in ChoiceQuestion,
         CloseLiveQuestion(q)
  PROVE  Ordered'
<1> DEFINE told(d) == SendStudentState(d, connectedSids[d] \cap deviceBySid[d])
           out == [d \in Device |-> Broadcast(q) \o told(d)]
<1>1. /\ qstate[q] = "open" /\ Engine!Close(q) /\ TeacherEmits(out) /\ UNCHANGED pages
  BY DEF CloseLiveQuestion
<1>2. qstate'[q] = "closed" /\ UNCHANGED <<opened_at, clock>>
  BY <1>1 DEF Engine!Close, Facing, EngineTypes
<1>3. ASSUME NEW d \in Device
      PROVE  /\ Broadcast(q) \in Seq(Item(Spoken)) /\ told(d) \in Seq(Item(Spoken))
             /\ out[d] = Broadcast(q) \o told(d) /\ out[d] \in Seq(Item(Spoken))
             /\ \A x \in Range(told(d)) : x.msg = StudentState(d)'
  <2>1. connectedSids[d] \cap deviceBySid[d] \in SUBSET Sid
    BY DEF Shape, Types
  <2>2. Broadcast(q) \in Seq(Item(Spoken)) /\ told(d) \in Seq(Item(Spoken))
    BY <1>2, <2>1, BroadcastType, SendStudentStateType
  <2>3. out[d] = Broadcast(q) \o told(d)
    OBVIOUS
  <2>4. \A x \in Range(told(d)) : x.msg = StudentState(d)'
    BY RangeOne, RangeEmpty DEF SendStudentState, Addressed
  <2> HIDE DEF out, told
  <2> QED  BY <2>2, <2>3, <2>4, ConcatProperties
<1> HIDE DEF out, told
<1>4. Emittable(out)
  BY <1>3, ItemMonotonic DEF Emittable
<1>5. ASSUME NEW d \in Device, NEW x \in Range(out[d])
      PROVE  Tells(x.msg)'
  <2>1. Range(Broadcast(q) \o told(d)) = Range(Broadcast(q)) \cup Range(told(d))
    <3>1. Broadcast(q) \in Seq(Item(Spoken)) /\ told(d) \in Seq(Item(Spoken))
      BY <1>3
    <3> QED  BY <3>1, RangeConcatenation
  <2>2. x \in Range(Broadcast(q)) \/ x.msg = StudentState(d)'
    BY <1>3, <1>5, <2>1
  <2> QED  BY <1>1, <1>2, <2>2, BroadcastTells, StateTells
<1> QED  BY <1>1, <1>4, <1>5, OrderedSpeaks

\* The client handles the next event.
LEMMA OrderedReceives ==
  ASSUME Shape, Facing, Facing', EngineMoves, Ordered, TeacherReceives
  PROVE  Ordered'
<1> DEFINE m == Head(inbox)
<1>0. m = Head(inbox)
  OBVIOUS
<1> HIDE DEF m
<1>1. PICK out : /\ TeacherEmits(out) /\ Emittable(out)
                 /\ \A d \in Device : \A x \in Range(out[d]) :
                      \/ x.msg = StudentState(d)'
                      \/ /\ m \in AnswerMsg(Device, Sid) /\ m.device = d /\ OnAnswerAccepted(d, m)
                         /\ x.msg = [type |-> "received", nonce |-> m.nonce]
  BY <1>0, ReceivesTells
<1>2. UNCHANGED pages
  BY <1>0, ReceivesCases
<1>3. ASSUME NEW d \in Device, NEW x \in Range(out[d]), Snap(x.msg)
      PROVE  Tells(x.msg)'
  <2>1. x.msg.type # "received"
    BY <1>3 DEF Snap
  <2>2. x.msg = StudentState(d)'
    BY <1>1, <2>1
  <2> QED  BY <2>2, StateTells
<1> QED  BY <1>1, <1>2, <1>3, OrderedSpeaks

\* The teacher connects, and the client's buffer goes to the pages.
LEMMA OrderedConnects ==
  ASSUME Sound, Sound', Facing, Facing', EngineMoves, Ordered, TeacherConnects
  PROVE  Ordered'
<1> SUFFICES ASSUME NEW d \in Device PROVE OrderedAt(d)'
  BY DEF Ordered
<1> PICK p : p = page[d]
  OBVIOUS
<1> PICK q : q = down[d]
  OBVIOUS
<1> PICK b : b = sendBuffer[d]
  OBVIOUS
<1> DEFINE online == [type |-> "teacher-online"]
           r == For(links[d], Addressed(Sid, online) \o b)
<1>1. /\ page'[d] = p /\ sendBuffer'[d] = << >>
      /\ down'[d] = q \o r \/ down'[d] = q \o << >>
  BY DEF TeacherConnects, pages, Nothing, Reaching
<1>2. q \in Seq(PageMsg) /\ b \in Seq(Item(Spoken)) /\ InOrder(p, q, b) /\ Shape'
  BY DEF Sound, Shape, Types, Ordered, OrderedAt
<1>3. online \in Notice
  BY DEF Notice
<1>4. InOrder(p, q \o r, << >>) /\ InOrder(p, q, << >>)
  BY <1>2, <1>3, InOrderFlushed
<1>5. down'[d] = q \o r \/ down'[d] = q
  BY <1>1, <1>2, ConcatEmptySeq
<1> HIDE DEF r, online
<1> PICK z : z = down'[d]
  OBVIOUS
<1>6. InOrder(p, z, << >>)
  BY <1>4, <1>5
<1> QED  BY <1>1, <1>2, <1>6, OrderedMoves

\* The class ends.
LEMMA OrderedEnds ==
  ASSUME Sound, Sound', Facing, Facing', EngineMoves, Ordered, SessionEnds
  PROVE  Ordered'
<1> SUFFICES ASSUME NEW d \in Device PROVE OrderedAt(d)'
  BY DEF Ordered
<1> PICK p : p = page[d]
  OBVIOUS
<1> PICK q : q = down[d]
  OBVIOUS
<1> PICK b : b = sendBuffer[d]
  OBVIOUS
<1> DEFINE ended == [type |-> "ended"]
           o == Addressed(Sid, ended)
<1> PICK r : r = Reaching(d, o)
  OBVIOUS
<1>1. page'[d] = p /\ sendBuffer'[d] = b /\ down'[d] = q \o r
  BY DEF SessionEnds, pages
<1>2. q \in Seq(PageMsg) /\ InOrder(p, q, b) /\ Shape'
  BY DEF Sound, Shape, Types, Ordered, OrderedAt
<1>3. r \in Seq(PageMsg)
  BY FarewellType DEF Sound, Shape
<1>4. \A m \in Range(r) : ~ Snap(m)
  <2> DEFINE x == [to |-> Sid, msg |-> ended]
  <2>1. o = << x >> /\ x.msg = ended /\ ended.type = "ended"
    BY DEF Addressed
  <2> HIDE DEF x, ended, o
  <2>2. For(links[d], << x >>) = << x.msg >> \/ For(links[d], << x >>) = << >>
    BY ForOne
  <2>3. r = << ended >> \/ r = << >>
    BY <2>1, <2>2 DEF Reaching
  <2> QED  BY <2>1, <2>3, RangeOne, RangeEmpty DEF Snap
<1>5. InOrder(p, q \o r, b)
  BY <1>2, <1>3, <1>4, InOrderNotice
<1> PICK z : z = down'[d]
  OBVIOUS
<1>6. InOrder(p, z, b)
  BY <1>1, <1>5
<1> QED  BY <1>1, <1>2, <1>6, OrderedMoves

\* What a step that is not the teacher's does to the page of x and to what is under
\* way to it: the page is left as it is, or starts over without a link, and messages
\* are lost or the next one is handled; or the page shows what that one tells.
Same(x) == page'[x].question = page[x].question /\ page'[x].state = page[x].state
Taken(x) == down[x] # << >> /\ down'[x] = Tail(down[x])
Turns(x) ==
  \/ /\ Same(x) \/ (page'[x].question = None /\ link'[x] # "up")
     /\ down'[x] = down[x] \/ down'[x] = << >> \/ Taken(x)
  \/ /\ Taken(x) /\ Snap(Head(down[x]))
     /\ page'[x].question = Head(down[x]).question /\ page'[x].state = Head(down[x]).state

\* A page that starts over shows no question.
LEMMA BlankShows ==
  ASSUME NEW status
  PROVE  BlankPage(status).question = None /\ FreshPage.question = None
BY DEF BlankPage, FreshPage

\* It is enough to look at the page whose step it is.
LEMMA TurnsOne ==
  ASSUME Shape, NEW d \in Device, Turns(d),
         \A x \in Device \ {d} : page'[x] = page[x] /\ down'[x] = down[x]
  PROVE  \A x \in Device : Turns(x)
BY DEF Turns, Same

\* The links of the pages.
LEMMA TurnsPage ==
  ASSUME Shape, NEW d \in Device,
         \/ PageConnects(d) \/ PageRefused(d) \/ PageLinkBreaks(d) \/ PageNotices(d)
         \/ Reload(d) \/ Resync(d)
         \/ \E sid \in Sid : RelayNotices(d, sid)
  PROVE  UNCHANGED sendBuffer /\ \A x \in Device : Turns(x)
<1>0. page \in [Device -> Page] /\ down \in [Device -> Seq(PageMsg)]
      /\ link \in [Device -> {"up", "broken", "down", "closed"}]
  BY DEF Shape, Types
<1>1. CASE PageConnects(d) \/ PageNotices(d) \/ Resync(d) \/ \E sid \in Sid : RelayNotices(d, sid)
  <2>1. page' = page /\ down' = down /\ sendBuffer' = sendBuffer
    BY <1>1 DEF PageConnects, PageNotices, Resync, RelayNotices, pages, pageNet, teacherNet
  <2> QED  BY <2>1 DEF Turns, Same
<1>2. CASE PageRefused(d)
  <2>1. /\ page' = [page EXCEPT ![d] = BlankPage("error")] /\ down' = down
        /\ link' = [link EXCEPT ![d] = "closed"] /\ sendBuffer' = sendBuffer
    BY <1>2 DEF PageRefused, teacherNet
  <2>2. page'[d].question = None /\ link'[d] # "up"
    BY <1>0, <2>1, BlankShows
  <2>3. \A x \in Device \ {d} : page'[x] = page[x] /\ down'[x] = down[x]
    BY <1>0, <2>1
  <2>4. Turns(d)
    BY <2>1, <2>2 DEF Turns
  <2> QED  BY <2>1, <2>3, <2>4, TurnsOne
<1>3. CASE PageLinkBreaks(d)
  <2>1. page' = page /\ down' = [down EXCEPT ![d] = << >>] /\ sendBuffer' = sendBuffer
    BY <1>3 DEF PageLinkBreaks, teacherNet, pages
  <2> QED  BY <1>0, <2>1 DEF Turns, Same
<1>4. CASE Reload(d)
  <2>1. /\ page' = [page EXCEPT ![d] = FreshPage] /\ down' = [down EXCEPT ![d] = << >>]
        /\ link' = [link EXCEPT ![d] = "down"] /\ sendBuffer' = sendBuffer
    BY <1>4 DEF Reload, teacherNet
  <2>2. page'[d].question = None /\ link'[d] # "up" /\ down'[d] = << >>
    BY <1>0, <2>1, BlankShows
  <2>3. \A x \in Device \ {d} : page'[x] = page[x] /\ down'[x] = down[x]
    BY <1>0, <2>1
  <2>4. Turns(d)
    BY <2>2 DEF Turns
  <2> QED  BY <2>1, <2>3, <2>4, TurnsOne
<1> QED  BY <1>1, <1>2, <1>3, <1>4

\* What a student does.
LEMMA TurnsStudent ==
  ASSUME Shape, NEW d \in Device,
         \/ CancelPending(d) \/ ConfirmPending(d) \/ AckTimeout(d) \/ Resend(d)
         \/ \E o \in Option : RequestSubmit(d, o)
  PROVE  UNCHANGED sendBuffer /\ \A x \in Device : Turns(x)
<1>0. page[d] \in Page /\ page \in [Device -> Page]
  BY DEF Shape, Types
<1>1. ASSUME NEW p, page' = [page EXCEPT ![d] = p], UNCHANGED <<down, sendBuffer>>,
             p.question = page[d].question, p.state = page[d].state
      PROVE  UNCHANGED sendBuffer /\ \A x \in Device : Turns(x)
  <2>1. page'[d] = p /\ \A x \in Device \ {d} : page'[x] = page[x]
    BY <1>0, <1>1
  <2> QED  BY <1>1, <2>1 DEF Turns, Same
<1>2. CASE CancelPending(d) \/ \E o \in Option : RequestSubmit(d, o)
  <2>1. PICK o : page' = [page EXCEPT ![d].pending = o] /\ onlyPage(d)
    BY <1>2 DEF CancelPending, RequestSubmit
  <2> DEFINE p == [page[d] EXCEPT !.pending = o]
  <2>2. p.question = page[d].question /\ p.state = page[d].state
    BY <1>0 DEF Page
  <2>3. page' = [page EXCEPT ![d] = p] /\ UNCHANGED <<down, sendBuffer>>
    BY <2>1 DEF onlyPage, pageNet, teacherNet
  <2> HIDE DEF p
  <2> QED  BY <1>1, <2>2, <2>3
<1>3. CASE AckTimeout(d)
  <2> DEFINE p == [page[d] EXCEPT !.flight.phase = "failed"]
  <2>2. p.question = page[d].question /\ p.state = page[d].state
    BY <1>0 DEF Page
  <2>3. page' = [page EXCEPT ![d] = p] /\ UNCHANGED <<down, sendBuffer>>
    BY <1>3 DEF AckTimeout, onlyPage, pageNet, teacherNet
  <2> HIDE DEF p
  <2> QED  BY <1>1, <2>2, <2>3
<1>4. ASSUME NEW q, NEW o, NEW pending, Transmit(d, q, o, pending)
      PROVE  UNCHANGED sendBuffer /\ \A x \in Device : Turns(x)
  <2> DEFINE f == [nonce |-> sent[d] + 1, question |-> q, answer |-> o, phase |-> "sending"]
             p == [page[d] EXCEPT !.pending = pending, !.flight = f]
  <2>2. p.question = page[d].question /\ p.state = page[d].state
    BY <1>0 DEF Page
  <2>3. page' = [page EXCEPT ![d] = p] /\ UNCHANGED <<down, sendBuffer>>
    BY <1>0, <1>4 DEF Transmit
  <2> HIDE DEF p
  <2> QED  BY <1>1, <2>2, <2>3
<1>5. CASE ConfirmPending(d) \/ Resend(d)
  BY <1>4, <1>5 DEF ConfirmPending, Resend
<1> QED  BY <1>2, <1>3, <1>5

\* A page handles the next message.
LEMMA TurnsReceives ==
  ASSUME Shape, NEW d \in Device, PageReceives(d)
  PROVE  UNCHANGED sendBuffer /\ \A x \in Device : Turns(x)
<1> DEFINE m == Head(down[d])
<1>0. m = Head(down[d])
  OBVIOUS
<1> HIDE DEF m
<1>1. /\ down[d] # << >> /\ m \in PageMsg
      /\ down' = [down EXCEPT ![d] = Tail(@)] /\ UNCHANGED sendBuffer
      /\ \/ /\ m \in QuestionMsg /\ m.type = "question"
            /\ page' = [page EXCEPT ![d] = AfterBroadcast(page[d], m)]
         \/ /\ m \in NoQuestion \cup StateOf /\ m.type = "state"
            /\ page' = [page EXCEPT ![d] = AfterSnapshot(page[d], m.question, m.state, m.answer)]
         \/ page' = [page EXCEPT ![d] = AfterReceived(page[d], m.nonce)]
         \/ page' = page
         \/ /\ page' = [page EXCEPT ![d] = BlankPage("ended")]
            /\ link' = [link EXCEPT ![d] = "closed"]
  BY <1>0, PageReceivesCases
<1>2. page[d] \in Page /\ page \in [Device -> Page] /\ down \in [Device -> Seq(PageMsg)]
      /\ link \in [Device -> {"up", "broken", "down", "closed"}]
  BY DEF Shape, Types
<1>3. Taken(d) /\ \A x \in Device \ {d} : page'[x] = page[x] /\ down'[x] = down[x]
  BY <1>1, <1>2 DEF Taken
<1>4. CASE m.type = "question" /\ page' = [page EXCEPT ![d] = AfterBroadcast(page[d], m)]
  <2>1. page'[d] = AfterBroadcast(page[d], m)
    BY <1>2, <1>4
  <2>2. page'[d].question = m.question /\ page'[d].state = m.state
    BY <1>2, <2>1, SnapshotTurns DEF AfterBroadcast
  <2>3. Turns(d)
    BY <1>0, <1>3, <1>4, <2>2 DEF Turns, Snap
  <2> QED  BY <1>1, <1>3, <2>3, TurnsOne
<1>5. CASE /\ m.type = "state"
           /\ page' = [page EXCEPT ![d] = AfterSnapshot(page[d], m.question, m.state, m.answer)]
  <2>1. page'[d] = AfterSnapshot(page[d], m.question, m.state, m.answer)
    BY <1>2, <1>5
  <2>2. page'[d].question = m.question /\ page'[d].state = m.state
    BY <1>2, <2>1, SnapshotTurns
  <2>3. Turns(d)
    BY <1>0, <1>3, <1>5, <2>2 DEF Turns, Snap
  <2> QED  BY <1>1, <1>3, <2>3, TurnsOne
<1>6. CASE page' = [page EXCEPT ![d] = AfterReceived(page[d], m.nonce)]
  <2>1. page'[d] = AfterReceived(page[d], m.nonce)
    BY <1>2, <1>6
  <2>2. page'[d].question = page[d].question /\ page'[d].state = page[d].state
    BY <1>2, <2>1 DEF AfterReceived, Page
  <2>3. Turns(d)
    BY <1>3, <2>2 DEF Turns, Same
  <2> QED  BY <1>1, <1>3, <2>3, TurnsOne
<1>7. CASE page' = page
  <2>1. Turns(d)
    BY <1>3, <1>7 DEF Turns, Same
  <2> QED  BY <1>1, <1>3, <2>1, TurnsOne
<1>8. CASE page' = [page EXCEPT ![d] = BlankPage("ended")] /\ link' = [link EXCEPT ![d] = "closed"]
  <2>1. page'[d].question = None /\ link'[d] # "up"
    BY <1>2, <1>8, BlankShows
  <2>2. Turns(d)
    BY <1>3, <2>1 DEF Turns
  <2> QED  BY <1>1, <1>3, <2>2, TurnsOne
<1> QED  BY <1>1, <1>4, <1>5, <1>6, <1>7, <1>8

\* Every step that is not the teacher's client's is of that kind.
LEMMA TurnsElse ==
  ASSUME Shape, [Next]_vars
  PROVE  \/ \E q \in ChoiceQuestion : TriggerLiveQuestion(q) \/ CloseLiveQuestion(q)
         \/ TeacherReceives \/ TeacherConnects \/ SessionEnds
         \/ UNCHANGED sendBuffer /\ \A x \in Device : Turns(x)
<1>1. CASE UNCHANGED vars \/ TeacherLinkBreaks \/ TeacherNotices
  <2>1. page' = page /\ down' = down /\ sendBuffer' = sendBuffer
    BY <1>1 DEF vars, TeacherLinkBreaks, TeacherNotices, pages, pageNet, teacherNet
  <2> QED  BY <2>1 DEF Turns, Same
<1>2. ASSUME NEW d \in Device,
             \/ PageConnects(d) \/ PageRefused(d) \/ PageLinkBreaks(d) \/ PageNotices(d)
             \/ Reload(d) \/ Resync(d) \/ \E sid \in Sid : RelayNotices(d, sid)
      PROVE  UNCHANGED sendBuffer /\ \A x \in Device : Turns(x)
  BY <1>2, TurnsPage
<1>3. ASSUME NEW d \in Device,
             \/ CancelPending(d) \/ ConfirmPending(d) \/ AckTimeout(d) \/ Resend(d)
             \/ \E o \in Option : RequestSubmit(d, o)
      PROVE  UNCHANGED sendBuffer /\ \A x \in Device : Turns(x)
  BY <1>3, TurnsStudent
<1> QED  BY <1>1, <1>2, <1>3, TurnsReceives DEF Next

\* What is in order stays in order when a page turns.
LEMMA OrderedTurns ==
  ASSUME Sound, Sound', Facing, Facing', EngineMoves, Ordered, UNCHANGED sendBuffer,
         \A x \in Device : Turns(x)
  PROVE  Ordered'
<1> SUFFICES ASSUME NEW d \in Device PROVE OrderedAt(d)'
  BY DEF Ordered
<1> PICK p : p = page[d]
  OBVIOUS
<1> PICK q : q = down[d]
  OBVIOUS
<1> PICK b : b = sendBuffer[d]
  OBVIOUS
<1> PICK z : z = page'[d]
  OBVIOUS
<1> PICK r : r = down'[d]
  OBVIOUS
<1>1. q \in Seq(PageMsg) /\ InOrder(p, q, b) /\ Shape' /\ b = sendBuffer'[d]
  BY DEF Sound, Shape, Types, Ordered, OrderedAt
<1>2. \/ /\ z.question = None \/ (z.question = p.question /\ z.state = p.state)
         /\ r = q \/ r = << >> \/ (q # << >> /\ r = Tail(q))
      \/ /\ q # << >> /\ r = Tail(q) /\ Snap(Head(q))
         /\ z.question = Head(q).question /\ z.state = Head(q).state
  BY DEF Turns, Same, Taken
<1>3. InOrder(z, r, b)
  <2>1. CASE /\ z.question = None \/ (z.question = p.question /\ z.state = p.state)
             /\ r = q \/ r = << >>
    BY <1>1, <2>1, InOrderBlank
  <2>2. CASE /\ z.question = None \/ (z.question = p.question /\ z.state = p.state)
             /\ q # << >> /\ r = Tail(q)
    <3>1. InOrder(p, r, b)
      BY <1>1, <2>2, InOrderTail
    <3> QED  BY <2>2, <3>1, InOrderBlank
  <2>3. CASE /\ q # << >> /\ r = Tail(q) /\ Snap(Head(q))
             /\ z.question = Head(q).question /\ z.state = Head(q).state
    BY <1>1, <2>3, InOrderTail
  <2> QED  BY <1>2, <2>1, <2>2, <2>3
<1> QED  BY <1>1, <1>3, OrderedMoves

\* It holds at first: no page shows anything.
LEMMA OrderedInit == Init => Ordered
<1> SUFFICES ASSUME Init, NEW d \in Device PROVE OrderedAt(d)
  BY DEF Ordered
<1>1. page[d].question = None /\ down[d] = << >> /\ sendBuffer[d] = << >>
  BY BlankShows DEF Init
<1> QED  BY <1>1, RangeEmpty, RisingEmpty DEF OrderedAt, InOrder, Seen, Leq

\* Every step keeps it.
LEMMA OrderedStep ==
  ASSUME Sound, Ordered, [Next]_vars
  PROVE  Ordered'
<1>1. Shape /\ EngineMoves /\ Facing /\ Facing' /\ Sound'
  BY SoundEngine, SoundStep DEF Sound
<1>2. CASE \E q \in ChoiceQuestion : TriggerLiveQuestion(q) \/ CloseLiveQuestion(q)
  BY <1>1, <1>2, OrderedTrigger, OrderedClose
<1>3. CASE TeacherReceives
  BY <1>1, <1>3, OrderedReceives
<1>4. CASE TeacherConnects
  BY <1>1, <1>4, OrderedConnects
<1>5. CASE SessionEnds
  BY <1>1, <1>5, OrderedEnds
<1>6. CASE UNCHANGED sendBuffer /\ \A x \in Device : Turns(x)
  BY <1>1, <1>6, OrderedTurns
<1> QED  BY <1>1, <1>2, <1>3, <1>4, <1>5, <1>6, TurnsElse

\* It always holds.
LEMMA OrderedAlways == Spec => []Ordered
<1>1. Sound /\ Ordered /\ [Next]_vars => Ordered'
  BY OrderedStep
<1> QED  BY <1>1, OrderedInit, SoundAlways, PTL DEF Spec

\* What a step does to what a page shows.
Forwards(d) ==
  page[d].question # None /\ link'[d] = "up" =>
    /\ page'[d].question # None
    /\ opened_at'[page[d].question] <= opened_at'[page'[d].question]
    /\ page[d].state = "closed" /\ page'[d].question = page[d].question
         => page'[d].state = "closed"

\* In no step does a page with its link go back.
LEMMA ForwardsStep ==
  ASSUME Sound, Ordered, [Next]_vars, NEW d \in Device
  PROVE  Forwards(d)
<1>1. Shape /\ EngineMoves /\ Facing'
  BY SoundEngine DEF Sound
<1>2. InOrder(page[d], down[d], sendBuffer[d])
  BY DEF Ordered, OrderedAt
<1>3. SUFFICES ASSUME page[d].question # None, link'[d] = "up" PROVE Forwards(d)
  BY DEF Forwards
<1>4. Seen(page[d]) /\ page[d].question \in ChoiceQuestion
  BY <1>2, <1>3 DEF InOrder, Seen
<1>5. opened_at' \in [ChoiceQuestion -> Nat]
  BY <1>1 DEF Facing, EngineTypes
<1>6. CASE Same(d)
  <2>1. opened_at'[page[d].question] \in Nat
    BY <1>4, <1>5
  <2> QED  BY <1>3, <1>6, <2>1 DEF Same, Forwards
<1>7. CASE /\ Taken(d) /\ Snap(Head(down[d]))
           /\ page'[d].question = Head(down[d]).question /\ page'[d].state = Head(down[d]).state
  <2>1. down[d] \in Seq(PageMsg) /\ down[d] # << >>
    BY <1>1, <1>7 DEF Shape, Types, Taken
  <2>2. Head(down[d]) \in Range(down[d])
    BY <2>1, RangeHeadTail
  <2>3. Seen(Head(down[d])) /\ Leq(page[d], Head(down[d]))
    BY <1>2, <1>7, <2>2 DEF InOrder
  <2> PICK s : s = page[d]
    OBVIOUS
  <2> PICK t : t = Head(down[d])
    OBVIOUS
  <2>4. Leq(s, t)'
    BY <1>1, <1>4, <2>3, LeqStays
  <2>5. /\ t.question # None
        /\ opened_at'[s.question] <= opened_at'[t.question]
        /\ s.state = "closed" /\ t.question = s.question => t.state = "closed"
    BY <1>3, <2>4 DEF Leq
  <2> QED  BY <1>3, <1>7, <2>5 DEF Forwards
<1>8. CASE page' = page
  BY <1>6, <1>8 DEF Same
<1>9. CASE \/ \E q \in ChoiceQuestion : TriggerLiveQuestion(q) \/ CloseLiveQuestion(q)
           \/ TeacherReceives \/ TeacherConnects \/ SessionEnds
  <2>1. page' = page
    BY <1>9 DEF TriggerLiveQuestion, CloseLiveQuestion, TeacherReceives, TeacherConnects,
                SessionEnds, pages
  <2> QED  BY <1>8, <2>1
<1>10. CASE Turns(d)
  BY <1>3, <1>6, <1>7, <1>10 DEF Turns
<1> QED  BY <1>1, <1>9, <1>10, TurnsElse

\* A page never goes back, unless it loses its connection.
THEOREM PageNeverBackwards == Spec => NeverBackwards
<1>1. Sound /\ Ordered /\ [Next]_vars => \A d \in Device : Forwards(d)
  BY ForwardsStep
<1>2. Sound /\ Ordered /\ [Next]_vars =>
        [\A d \in Device : page[d].question # None /\ link'[d] = "up" =>
           /\ page'[d].question # None
           /\ opened_at'[page[d].question] <= opened_at'[page'[d].question]
           /\ page[d].state = "closed" /\ page'[d].question = page[d].question
                => page'[d].state = "closed"]_vars
  BY <1>1 DEF Forwards
<1> QED  BY <1>2, SoundAlways, OrderedAlways, PTL DEF Spec, NeverBackwards

-----------------------------------------------------------------------------
(***************************************************************************)
(* Ahead: the page that will be there when a queue has been handled.       *)
(***************************************************************************)

\* What a page becomes that handles a message, as long as the class goes on.
After(p, m) ==
  IF m.type = "question" THEN AfterBroadcast(p, m)
  ELSE IF m.type = "state" THEN AfterSnapshot(p, m.question, m.state, m.answer)
  ELSE IF m.type = "received" THEN AfterReceived(p, m.nonce)
  ELSE p

\* What it becomes that handles them all.
Ahead(p, s) ==
  LET upTo[i \in 0 .. Len(s)] == IF i = 0 THEN p ELSE After(upTo[i - 1], s[i])
  IN  upTo[Len(s)]

\* f goes through a queue of n messages, from p.
Leads(f, p, s, n) == f[0] = p /\ \A i \in 1 .. n : f[i] = After(f[i - 1], s[i])

\* There is such a function.
LEMMA LeadsExists ==
  ASSUME NEW p, NEW s, NEW n \in Nat
  PROVE  \E f : f = [i \in 0 .. n |-> IF i = 0 THEN p ELSE After(f[i - 1], s[i])]
<1> DEFINE Value(f, i) == IF i = 0 THEN p ELSE After(f[i - 1], s[i])
           S == {m \in Nat : \E f : f = [i \in 0 .. m |-> Value(f, i)]}
<1>1. 0 \in S
  <2>1. [i \in 0 .. 0 |-> p] = [i \in 0 .. 0 |-> Value([j \in 0 .. 0 |-> p], i)]
    OBVIOUS
  <2> QED
    BY <2>1
<1>2. ASSUME NEW m \in Nat, m \in S
      PROVE  m + 1 \in S
  <2>1. PICK h : h = [i \in 0 .. m |-> Value(h, i)]
    BY <1>2
  <2> DEFINE g == [i \in 0 .. m + 1 |-> IF i = m + 1 THEN Value(h, i) ELSE h[i]]
  <2>2. ASSUME NEW i \in 0 .. m + 1
        PROVE  g[i] = Value(g, i)
    <3>1. i # 0 => i - 1 \in 0 .. m + 1 /\ i - 1 # m + 1
      OBVIOUS
    <3>2. i # 0 => g[i - 1] = h[i - 1]
      BY <3>1
    <3>3. Value(g, i) = Value(h, i)
      BY <3>2
    <3>4. i # m + 1 => i \in 0 .. m
      OBVIOUS
    <3>5. i # m + 1 => h[i] = Value(h, i)
      <4> HIDE DEF Value
      <4> QED  BY <3>4, <2>1
    <3> QED
      BY <3>3, <3>5
  <2>3. g = [i \in 0 .. m + 1 |-> Value(g, i)]
    <3> HIDE DEF Value
    <3> QED  BY <2>2
  <2>4. \E f : f = [i \in 0 .. m + 1 |-> Value(f, i)]
    <3> HIDE DEF Value, g
    <3> QED  BY <2>3
  <2> QED
    <3> HIDE DEF Value, g
    <3> QED  BY <2>4
<1>3. Nat \subseteq S
  <2> HIDE DEF S
  <2> QED  BY <1>1, <1>2, NatInductionSet
<1>4. \E f : f = [i \in 0 .. n |-> Value(f, i)]
  <2> HIDE DEF Value
  <2> QED  BY <1>3
<1> QED
  BY <1>4

\* Two of them arrive at the same page.
LEMMA LeadsSame ==
  ASSUME NEW p, NEW s, NEW n \in Nat, NEW f, NEW g, Leads(f, p, s, n), Leads(g, p, s, n)
  PROVE  f[n] = g[n]
<1> DEFINE S == {m \in Nat : m <= n => f[m] = g[m]}
<1>1. 0 \in S
  BY DEF Leads
<1>2. ASSUME NEW m \in Nat, m \in S
      PROVE  m + 1 \in S
  <2>1. SUFFICES ASSUME m + 1 <= n PROVE f[m + 1] = g[m + 1]
    OBVIOUS
  <2>2. m + 1 \in 1 .. n /\ (m + 1) - 1 = m /\ f[m] = g[m]
    BY <1>2, <2>1
  <2> QED  BY <2>2 DEF Leads
<1>3. Nat \subseteq S
  <2> HIDE DEF S
  <2> QED  BY <1>1, <1>2, NatInductionSet
<1> QED  BY <1>3

\* Ahead is where they arrive.
LEMMA AheadLeads ==
  ASSUME NEW S, NEW s \in Seq(S), NEW p
  PROVE  /\ \E f : Leads(f, p, s, Len(s)) /\ Ahead(p, s) = f[Len(s)]
         /\ \A f : Leads(f, p, s, Len(s)) => Ahead(p, s) = f[Len(s)]
<1> DEFINE n == Len(s)
           F == CHOOSE f : f = [i \in 0 .. n |-> IF i = 0 THEN p ELSE After(f[i - 1], s[i])]
<1>1. n \in Nat
  BY LenProperties
<1>2. F = [i \in 0 .. n |-> IF i = 0 THEN p ELSE After(F[i - 1], s[i])]
  BY <1>1, LeadsExists, SMTT(40)
<1>3. Ahead(p, s) = F[n]
  BY DEF Ahead
<1> HIDE DEF F, n
<1>4. Leads(F, p, s, n)
  BY <1>1, <1>2 DEF Leads
<1>5. \A f : Leads(f, p, s, n) => f[n] = F[n]
  BY <1>1, <1>4, LeadsSame
<1> QED  BY <1>3, <1>4, <1>5 DEF n

\* Nothing to handle.
LEMMA AheadNone ==
  ASSUME NEW p PROVE Ahead(p, << >>) = p
<1>1. << >> \in Seq({}) /\ Len(<< >>) = 0
  BY EmptySeq
<1>2. PICK f : Leads(f, p, << >>, Len(<< >>)) /\ Ahead(p, << >>) = f[Len(<< >>)]
  BY <1>1, AheadLeads
<1> QED  BY <1>1, <1>2 DEF Leads

\* One message more.
LEMMA AheadAppended ==
  ASSUME NEW S, NEW s \in Seq(S), NEW m \in S, NEW p
  PROVE  Ahead(p, s \o << m >>) = After(Ahead(p, s), m)
<1> DEFINE t == s \o << m >>
           n == Len(s)
<1>1. /\ n \in Nat /\ t \in Seq(S) /\ Len(t) = n + 1 /\ t[n + 1] = m
      /\ \A i \in 1 .. n : t[i] = s[i]
  <2>1. << m >> \in Seq(S) /\ Len(<< m >>) = 1 /\ << m >>[1] = m
    OBVIOUS
  <2> QED  BY <2>1, ConcatProperties, LenProperties
<1> HIDE DEF t, n
<1>2. PICK f : Leads(f, p, t, Len(t)) /\ Ahead(p, t) = f[Len(t)]
  BY <1>1, AheadLeads
<1>3. Leads(f, p, s, n)
  BY <1>1, <1>2 DEF Leads
<1>4. Ahead(p, s) = f[n]
  BY <1>3, AheadLeads DEF n
<1>5. n + 1 \in 1 .. Len(t) /\ (n + 1) - 1 = n
  BY <1>1
<1>6. f[n + 1] = After(f[n], m)
  BY <1>1, <1>2, <1>5 DEF Leads
<1> QED  BY <1>1, <1>2, <1>4, <1>6 DEF t

\* The first message of a queue, and the rest.
LEMMA AheadTail ==
  ASSUME NEW S, NEW s \in Seq(S), s # << >>, NEW p
  PROVE  Ahead(p, s) = Ahead(After(p, Head(s)), Tail(s))
<1> DEFINE t == Tail(s)
           n == Len(s)
           q == After(p, Head(s))
<1>1. /\ n \in Nat \ {0} /\ t \in Seq(S) /\ Len(t) = n - 1 /\ Head(s) = s[1]
      /\ \A i \in 1 .. Len(t) : t[i] = s[i + 1]
  BY HeadTailProperties, EmptySeq, LenProperties
<1>2. PICK f : Leads(f, p, s, n) /\ Ahead(p, s) = f[n]
  BY AheadLeads
<1> DEFINE g == [i \in 0 .. n - 1 |-> f[i + 1]]
<1>3. Leads(g, q, t, Len(t))
  <2>1. g[0] = q
    BY <1>1, <1>2 DEF Leads
  <2>2. ASSUME NEW i \in 1 .. Len(t) PROVE g[i] = After(g[i - 1], t[i])
    <3>1. i \in 0 .. n - 1 /\ i - 1 \in 0 .. n - 1 /\ i + 1 \in 1 .. n
          /\ (i + 1) - 1 = i /\ (i - 1) + 1 = i
      BY <1>1
    <3>2. g[i] = f[i + 1] /\ g[i - 1] = f[i]
      BY <3>1
    <3>3. f[i + 1] = After(f[i], s[i + 1])
      BY <1>2, <3>1 DEF Leads
    <3>4. t[i] = s[i + 1]
      BY <1>1
    <3> QED  BY <3>2, <3>3, <3>4
  <2> QED  BY <2>1, <2>2 DEF Leads
<1>4. Ahead(q, t) = g[Len(t)]
  <2> HIDE DEF g, q, t
  <2> QED  BY <1>1, <1>3, AheadLeads
<1>5. g[Len(t)] = f[n]
  BY <1>1
<1> QED  BY <1>2, <1>4, <1>5

\* What every message keeps between two pages is still so ahead.
LEMMA AheadKeeps ==
  ASSUME NEW S, NEW s \in Seq(S), NEW R, NEW p, NEW q, <<p, q>> \in R,
         \A a, b : \A m \in Range(s) : <<a, b>> \in R => <<After(a, m), After(b, m)>> \in R
  PROVE  <<Ahead(p, s), Ahead(q, s)>> \in R
<1> DEFINE n == Len(s)
<1>1. n \in Nat /\ \A i \in 1 .. n : s[i] \in Range(s)
  <2>1. Range(s) = {s[i] : i \in 1 .. Len(s)}
    BY RangeEquality
  <2> QED  BY <2>1, LenProperties
<1>2. PICK f : Leads(f, p, s, n) /\ Ahead(p, s) = f[n]
  BY AheadLeads
<1>3. PICK g : Leads(g, q, s, n) /\ Ahead(q, s) = g[n]
  BY AheadLeads
<1> HIDE DEF n
<1> DEFINE T == {k \in Nat : k <= n => <<f[k], g[k]>> \in R}
<1>4. 0 \in T
  BY <1>2, <1>3 DEF Leads
<1>5. ASSUME NEW k \in Nat, k \in T
      PROVE  k + 1 \in T
  <2>1. SUFFICES ASSUME k + 1 <= n PROVE <<f[k + 1], g[k + 1]>> \in R
    OBVIOUS
  <2>2. k + 1 \in 1 .. n /\ (k + 1) - 1 = k /\ <<f[k], g[k]>> \in R
    BY <1>1, <1>5, <2>1
  <2>3. f[k + 1] = After(f[k], s[k + 1]) /\ g[k + 1] = After(g[k], s[k + 1])
    BY <1>2, <1>3, <2>2 DEF Leads
  <2>4. s[k + 1] \in Range(s)
    BY <1>1, <2>2
  <2> QED  BY <2>2, <2>3, <2>4
<1>6. Nat \subseteq T
  <2> HIDE DEF T
  <2> QED  BY <1>4, <1>5, NatInductionSet
<1>7. <<f[n], g[n]>> \in R
  BY <1>1, <1>6
<1> QED  BY <1>2, <1>3, <1>7

\* A page that every message keeps in a set is in it ahead.
LEMMA AheadStays ==
  ASSUME NEW S, NEW s \in Seq(S), NEW P, NEW p \in P,
         \A a \in P : \A m \in Range(s) : After(a, m) \in P
  PROVE  Ahead(p, s) \in P
<1> DEFINE R == P \X P
<1>1. \A a, b : \A m \in Range(s) : <<a, b>> \in R => <<After(a, m), After(b, m)>> \in R
  OBVIOUS
<1>2. <<p, p>> \in R
  OBVIOUS
<1> HIDE DEF R
<1>3. <<Ahead(p, s), Ahead(p, s)>> \in R
  BY <1>1, <1>2, AheadKeeps
<1> QED  BY <1>3 DEF R

-----------------------------------------------------------------------------
\* The pages that Sound allows.
ProperPage == {p \in Page : PageShape(p)}

\* What a message that is about a question makes of a page.
LEMMA AfterSnap ==
  ASSUME NEW p \in ProperPage, NEW m \in PageMsg, Snap(m)
  PROVE  /\ After(p, m).question = m.question /\ After(p, m).state = m.state
         /\ After(p, m).selected = IF m.type = "state" THEN m.answer
                                   ELSE IF m.question = p.question THEN p.selected ELSE None
         /\ After(p, m).flight =
              IF p.flight # None /\ (m.question # p.flight.question \/ m.state = "closed")
              THEN None ELSE p.flight
<1>1. p \in Page
  BY DEF ProperPage
<1>2. ASSUME NEW q, NEW state, NEW selected
      PROVE  /\ AfterSnapshot(p, q, state, selected).selected = selected
             /\ AfterSnapshot(p, q, state, selected).question = q
             /\ AfterSnapshot(p, q, state, selected).state = state
             /\ AfterSnapshot(p, q, state, selected).flight =
                  IF p.flight # None /\ (q # p.flight.question \/ state = "closed")
                  THEN None ELSE p.flight
  BY <1>1 DEF AfterSnapshot, Page
<1> QED  BY <1>2 DEF After, AfterBroadcast, Snap

\* What the acknowledgement of an answer makes of it.
LEMMA AfterAck ==
  ASSUME NEW p \in ProperPage, NEW m \in PageMsg, m.type = "received"
  PROVE  /\ After(p, m).question = p.question /\ After(p, m).state = p.state
         /\ p.flight # None /\ p.flight.nonce = m.nonce
              => After(p, m).selected = p.flight.answer /\ After(p, m).flight = None
         /\ p.flight = None \/ p.flight.nonce # m.nonce => After(p, m) = p
<1>1. p \in Page
  BY DEF ProperPage
<1> QED  BY <1>1 DEF After, AfterReceived, Page

\* Every other message leaves the page as it is.
LEMMA AfterNotice ==
  ASSUME NEW p, NEW m \in PageMsg, ~ Snap(m), m.type # "received"
  PROVE  After(p, m) = p
BY DEF After, Snap

\* It is a page that Sound allows.
LEMMA AfterProper ==
  ASSUME NEW p \in ProperPage, NEW m \in PageMsg
  PROVE  After(p, m) \in ProperPage
<1>1. p \in Page /\ PageShape(p)
  BY DEF ProperPage
<1>2. CASE m.type = "question"
  <2>1. m \in QuestionMsg
    BY <1>2, MessageKinds
  <2> QED  BY <1>1, <1>2, <2>1, BroadcastShape DEF After, ProperPage
<1>3. CASE m.type = "state"
  <2>1. m \in NoQuestion \cup StateOf
    BY <1>3, MessageKinds
  <2>2. /\ AfterSnapshot(p, m.question, m.state, m.answer) \in Page
        /\ PageShape(AfterSnapshot(p, m.question, m.state, m.answer))
    BY <1>1, <2>1, StateShape
  <2> QED  BY <1>3, <2>2 DEF After, ProperPage
<1>4. CASE m.type = "received"
  BY <1>1, <1>4, ReceivedShape DEF After, ProperPage
<1>5. CASE m.type \notin {"question", "state", "received"}
  BY <1>5 DEF After
<1> QED  BY <1>2, <1>3, <1>4, <1>5

\* So is the page that handles a queue; what it has under way it had before.
LEMMA AheadProper ==
  ASSUME NEW p \in ProperPage, NEW s \in Seq(PageMsg)
  PROVE  Ahead(p, s) \in ProperPage /\ Ahead(p, s).flight \in {None, p.flight}
<1> DEFINE P == {a \in ProperPage : a.flight \in {None, p.flight}}
<1>1. ASSUME NEW a \in P, NEW m \in Range(s) PROVE After(a, m) \in P
  <2>1. m \in PageMsg
    BY RangeOfSeq
  <2>2. After(a, m) \in ProperPage
    BY <2>1, AfterProper
  <2>3. After(a, m).flight \in {None, a.flight}
    <3>1. CASE Snap(m)
      BY <2>1, <3>1, AfterSnap
    <3>2. CASE m.type = "received"
      BY <2>1, <3>2, AfterAck
    <3>3. CASE ~ Snap(m) /\ m.type # "received"
      BY <2>1, <3>3, AfterNotice
    <3> QED  BY <3>1, <3>2, <3>3
  <2> QED  BY <2>2, <2>3
<1>2. p \in P
  OBVIOUS
<1> HIDE DEF P
<1>3. Ahead(p, s) \in P
  BY <1>1, <1>2, AheadStays
<1> QED  BY <1>3 DEF P

\* Pages that differ at most in what waits to be confirmed and in their wording.
Alike(p, q) ==
  /\ p.question = q.question /\ p.state = q.state /\ p.selected = q.selected
  /\ p.flight = None <=> q.flight = None
  /\ p.flight # None => /\ p.flight.nonce = q.flight.nonce
                        /\ p.flight.question = q.flight.question
                        /\ p.flight.answer = q.flight.answer

\* They stay alike.
LEMMA AheadAlike ==
  ASSUME NEW p \in ProperPage, NEW q \in ProperPage, Alike(p, q), NEW s \in Seq(PageMsg)
  PROVE  Alike(Ahead(p, s), Ahead(q, s))
<1> DEFINE R == {x \in ProperPage \X ProperPage : Alike(x[1], x[2])}
<1>1. ASSUME NEW a, NEW b, NEW m \in Range(s), <<a, b>> \in R
      PROVE  <<After(a, m), After(b, m)>> \in R
  <2>1. m \in PageMsg /\ a \in ProperPage /\ b \in ProperPage /\ Alike(a, b)
    BY <1>1, RangeOfSeq
  <2>2. After(a, m) \in ProperPage /\ After(b, m) \in ProperPage
    BY <2>1, AfterProper
  <2>3. Alike(After(a, m), After(b, m))
    <3>1. CASE Snap(m)
      BY <2>1, <3>1, AfterSnap DEF Alike
    <3>2. CASE m.type = "received"
      BY <2>1, <3>2, AfterAck DEF Alike
    <3>3. CASE ~ Snap(m) /\ m.type # "received"
      BY <2>1, <3>3, AfterNotice
    <3> QED  BY <3>1, <3>2, <3>3
  <2> QED  BY <2>2, <2>3
<1>2. <<p, q>> \in R
  OBVIOUS
<1> HIDE DEF R
<1>3. <<Ahead(p, s), Ahead(q, s)>> \in R
  BY <1>1, <1>2, AheadKeeps
<1> QED  BY <1>3 DEF R

\* A page with nothing under way.
Plain(p) == [p EXCEPT !.flight = None]

\* It is as proper as the page.
LEMMA PlainProper ==
  ASSUME NEW p \in ProperPage
  PROVE  /\ Plain(p) \in ProperPage /\ Plain(p).flight = None
         /\ Plain(p).question = p.question /\ Plain(p).state = p.state
         /\ Plain(p).selected = p.selected
BY DEF Plain, ProperPage, Page, PageShape

\* What is under way makes no difference to the question that a page gets to.
LEMMA AheadQuestion ==
  ASSUME NEW p \in ProperPage, NEW q \in ProperPage, NEW s \in Seq(PageMsg),
         p.question = q.question, p.state = q.state
  PROVE  Ahead(p, s).question = Ahead(q, s).question /\ Ahead(p, s).state = Ahead(q, s).state
<1> DEFINE Level(a, b) == a.question = b.question /\ a.state = b.state
           R == {x \in ProperPage \X ProperPage : Level(x[1], x[2])}
<1>1. ASSUME NEW a, NEW b, NEW m \in Range(s), <<a, b>> \in R
      PROVE  <<After(a, m), After(b, m)>> \in R
  <2>1. m \in PageMsg /\ a \in ProperPage /\ b \in ProperPage /\ Level(a, b)
    BY <1>1, RangeOfSeq
  <2>2. After(a, m) \in ProperPage /\ After(b, m) \in ProperPage
    BY <2>1, AfterProper
  <2>3. Level(After(a, m), After(b, m))
    <3>1. CASE Snap(m)
      BY <2>1, <3>1, AfterSnap
    <3>2. CASE m.type = "received"
      BY <2>1, <3>2, AfterAck
    <3>3. CASE ~ Snap(m) /\ m.type # "received"
      BY <2>1, <3>3, AfterNotice
    <3> QED  BY <3>1, <3>2, <3>3
  <2> QED  BY <2>2, <2>3
<1>2. <<p, q>> \in R
  OBVIOUS
<1> HIDE DEF R
<1>3. <<Ahead(p, s), Ahead(q, s)>> \in R
  BY <1>1, <1>2, AheadKeeps
<1> QED  BY <1>3 DEF R

\* Two pages on the same question, with nothing under way: they end up showing the
\* same answer, or the second one has not moved.
LEMMA AheadDiffers ==
  ASSUME NEW p \in ProperPage, NEW q \in ProperPage, NEW s \in Seq(PageMsg),
         p.flight = None, q.flight = None, p.question = q.question, p.state = q.state
  PROVE  \/ Ahead(q, s).selected = Ahead(p, s).selected
         \/ Ahead(q, s).selected = q.selected /\ Ahead(q, s).question = q.question
<1> DEFINE Level(a, b) == /\ a.question = b.question /\ a.state = b.state
                          /\ a.flight = None /\ b.flight = None
           Near(a, b) == \/ b.selected = a.selected
                         \/ b.selected = q.selected /\ b.question = q.question
           R == {x \in ProperPage \X ProperPage : Level(x[1], x[2]) /\ Near(x[1], x[2])}
<1>1. ASSUME NEW a, NEW b, NEW m \in Range(s), <<a, b>> \in R
      PROVE  <<After(a, m), After(b, m)>> \in R
  <2>1. m \in PageMsg /\ a \in ProperPage /\ b \in ProperPage /\ Level(a, b) /\ Near(a, b)
    BY <1>1, RangeOfSeq
  <2>2. After(a, m) \in ProperPage /\ After(b, m) \in ProperPage
    BY <2>1, AfterProper
  <2>3. Level(After(a, m), After(b, m)) /\ Near(After(a, m), After(b, m))
    <3>1. CASE Snap(m)
      <4>1. m.type = "state" => After(b, m).selected = After(a, m).selected
        BY <2>1, <3>1, AfterSnap
      <4>2. m.type # "state" /\ m.question = b.question
              => /\ After(b, m).selected = b.selected /\ After(b, m).question = b.question
                 /\ After(a, m).selected = a.selected
        BY <2>1, <3>1, AfterSnap
      <4>3. m.type # "state" /\ m.question # b.question
              => After(b, m).selected = None /\ After(a, m).selected = None
        BY <2>1, <3>1, AfterSnap
      <4>4. Near(After(a, m), After(b, m))
        BY <2>1, <4>1, <4>2, <4>3
      <4>5. Level(After(a, m), After(b, m))
        BY <2>1, <3>1, AfterSnap
      <4> QED  BY <4>4, <4>5
    <3>2. CASE m.type = "received"
      BY <2>1, <3>2, AfterAck
    <3>3. CASE ~ Snap(m) /\ m.type # "received"
      BY <2>1, <3>3, AfterNotice
    <3> QED  BY <3>1, <3>2, <3>3
  <2> QED  BY <2>2, <2>3
<1>2. <<p, q>> \in R
  OBVIOUS
<1> HIDE DEF R
<1>3. <<Ahead(p, s), Ahead(q, s)>> \in R
  BY <1>1, <1>2, AheadKeeps
<1> QED  BY <1>3 DEF R

\* Two pages on the same question: they stay with it, or what was under way has gone
\* and they show the same.
LEMMA AheadElsewhere ==
  ASSUME NEW p \in ProperPage, NEW q \in ProperPage, NEW s \in Seq(PageMsg),
         p.question = q.question, p.state = q.state
  PROVE  \/ Ahead(q, s).question = q.question
         \/ /\ Ahead(q, s).selected = Ahead(p, s).selected
            /\ Ahead(q, s).flight = None /\ Ahead(p, s).flight = None
<1> DEFINE Level(a, b) == a.question = b.question /\ a.state = b.state
           Near(a, b) == \/ b.question = q.question
                         \/ b.selected = a.selected /\ a.flight = None /\ b.flight = None
           R == {x \in ProperPage \X ProperPage : Level(x[1], x[2]) /\ Near(x[1], x[2])}
<1>1. ASSUME NEW a, NEW b, NEW m \in Range(s), <<a, b>> \in R
      PROVE  <<After(a, m), After(b, m)>> \in R
  <2>1. m \in PageMsg /\ a \in ProperPage /\ b \in ProperPage /\ Level(a, b) /\ Near(a, b)
    BY <1>1, RangeOfSeq
  <2>2. After(a, m) \in ProperPage /\ After(b, m) \in ProperPage
    BY <2>1, AfterProper
  <2>3. /\ a.flight # None => a.flight.question = a.question
        /\ b.flight # None => b.flight.question = b.question
    BY <2>1 DEF ProperPage, PageShape
  <2>4. Level(After(a, m), After(b, m)) /\ Near(After(a, m), After(b, m))
    <3>1. CASE Snap(m)
      <4>1. Level(After(a, m), After(b, m)) /\ After(b, m).question = m.question
        BY <2>1, <3>1, AfterSnap
      <4>2. ASSUME m.question # q.question
            PROVE  /\ After(a, m).selected = After(b, m).selected
                   /\ After(a, m).flight = None /\ After(b, m).flight = None
        <5>1. CASE b.question = q.question
          <6>1. a.question # m.question /\ b.question # m.question
            BY <2>1, <4>2, <5>1
          <6>2. After(a, m).selected = After(b, m).selected
            BY <2>1, <3>1, <6>1, AfterSnap
          <6> QED  BY <2>1, <2>3, <3>1, <6>1, <6>2, AfterSnap
        <5>2. CASE b.selected = a.selected /\ a.flight = None /\ b.flight = None
          BY <2>1, <3>1, <5>2, AfterSnap
        <5> QED  BY <2>1, <5>1, <5>2
      <4> QED  BY <4>1, <4>2
    <3>2. CASE m.type = "received"
      BY <2>1, <3>2, AfterAck
    <3>3. CASE ~ Snap(m) /\ m.type # "received"
      BY <2>1, <3>3, AfterNotice
    <3> QED  BY <3>1, <3>2, <3>3
  <2> QED  BY <2>2, <2>4
<1>2. <<p, q>> \in R
  OBVIOUS
<1> HIDE DEF R
<1>3. <<Ahead(p, s), Ahead(q, s)>> \in R
  BY <1>1, <1>2, AheadKeeps
<1> QED  BY <1>3 DEF R

\* What is under way stays so as long as only its question, open, is heard of, and
\* nothing acknowledges it.
LEMMA AheadStill ==
  ASSUME NEW p \in ProperPage, NEW s \in Seq(PageMsg), p.flight # None,
         \A m \in Range(s) : /\ Snap(m) => m.question = p.question /\ m.state = "open"
                             /\ m.type = "received" => m.nonce # p.flight.nonce
  PROVE  Ahead(p, s).flight = p.flight
<1> DEFINE P == {a \in ProperPage : a.flight = p.flight}
<1>1. ASSUME NEW a \in P, NEW m \in Range(s) PROVE After(a, m) \in P
  <2>1. m \in PageMsg /\ a \in ProperPage /\ a.flight = p.flight
    BY RangeOfSeq
  <2>2. After(a, m) \in ProperPage
    BY <2>1, AfterProper
  <2>3. p.flight.question = p.question
    BY DEF ProperPage, PageShape
  <2>4. After(a, m).flight = p.flight
    <3>1. CASE Snap(m)
      BY <2>1, <2>3, <3>1, AfterSnap
    <3>2. CASE m.type = "received"
      BY <2>1, <3>2, AfterAck
    <3>3. CASE ~ Snap(m) /\ m.type # "received"
      BY <2>1, <3>3, AfterNotice
    <3> QED  BY <3>1, <3>2, <3>3
  <2> QED  BY <2>2, <2>4
<1>2. p \in P
  OBVIOUS
<1> HIDE DEF P
<1>3. Ahead(p, s) \in P
  BY <1>1, <1>2, AheadStays
<1> QED  BY <1>3 DEF P

-----------------------------------------------------------------------------
\* An answer of d; the hello of a connection of d.
AnswerOfDevice(m, d) == m.type = "answer" /\ m.device = d
Greeting(d, sid) == [type |-> "hello", device |-> d, sid |-> sid]

\* The answers of d are in the order in which they were sent.
Increasing(q, d) ==
  \A i, j \in 1 .. Len(q) :
    i < j /\ AnswerOfDevice(q[i], d) /\ AnswerOfDevice(q[j], d) => q[i].nonce < q[j].nonce

\* What is not of this connection of d, or says which connections there are, comes
\* before its hello.
Stale(m, d, sid) == m.type = "roster" \/ (AnswerOfDevice(m, d) /\ m.sid # sid)
Trails(q, d, sid) ==
  \A i \in 1 .. Len(q) : Stale(q[i], d, sid) =>
    \E j \in 1 .. Len(q) : i <= j /\ q[j] = Greeting(d, sid)

\* A queue with nothing of d in it.
LEMMA IncreasingNothing ==
  ASSUME NEW S, NEW q \in Seq(S), NEW d, \A m \in Range(q) : ~ AnswerOfDevice(m, d)
  PROVE  Increasing(q, d)
<1>1. \A i \in 1 .. Len(q) : q[i] \in Range(q)
  BY RangeEquality
<1> QED  BY <1>1 DEF Increasing

\* A single message.
LEMMA IncreasingOne ==
  ASSUME NEW m, NEW d PROVE Increasing(<< m >>, d)
<1>1. Len(<< m >>) = 1
  OBVIOUS
<1> QED  BY <1>1 DEF Increasing

\* A queue after a queue.
LEMMA IncreasingAppended ==
  ASSUME NEW S, NEW q \in Seq(S), NEW r \in Seq(S), NEW d, Increasing(q, d), Increasing(r, d),
         \A m \in Range(q), x \in Range(r) :
           AnswerOfDevice(m, d) /\ AnswerOfDevice(x, d) => m.nonce < x.nonce
  PROVE  Increasing(q \o r, d)
<1> DEFINE n == Len(q)
           k == Len(r)
           s == q \o r
<1>1. /\ n \in Nat /\ k \in Nat /\ Len(s) = n + k
      /\ \A i \in 1 .. n + k : s[i] = IF i <= n THEN q[i] ELSE r[i - n]
  BY ConcatProperties, LenProperties
<1>2. /\ \A i \in 1 .. n : q[i] \in Range(q)
      /\ \A i \in 1 .. k : r[i] \in Range(r)
  BY RangeEquality
<1> HIDE DEF n, k, s
<1>3. SUFFICES ASSUME NEW i \in 1 .. n + k, NEW j \in 1 .. n + k, i < j,
                      AnswerOfDevice(s[i], d), AnswerOfDevice(s[j], d)
               PROVE  s[i].nonce < s[j].nonce
  BY <1>1 DEF Increasing, s
<1>4. CASE j <= n
  <2>1. i \in 1 .. n /\ j \in 1 .. n /\ s[i] = q[i] /\ s[j] = q[j]
    BY <1>1, <1>3, <1>4
  <2> QED  BY <1>3, <2>1 DEF Increasing, n
<1>5. CASE i <= n /\ n < j
  <2>1. i \in 1 .. n /\ j - n \in 1 .. k /\ s[i] = q[i] /\ s[j] = r[j - n]
    BY <1>1, <1>3, <1>5
  <2> QED  BY <1>2, <1>3, <2>1
<1>6. CASE n < i
  <2>1. i - n \in 1 .. k /\ j - n \in 1 .. k /\ i - n < j - n /\ s[i] = r[i - n] /\ s[j] = r[j - n]
    BY <1>1, <1>3, <1>6
  <2> QED  BY <1>3, <2>1 DEF Increasing, k
<1> QED  BY <1>1, <1>4, <1>5, <1>6

\* A queue without its head.
LEMMA IncreasingTail ==
  ASSUME NEW S, NEW q \in Seq(S), q # << >>, NEW d, Increasing(q, d)
  PROVE  /\ Increasing(Tail(q), d)
         /\ AnswerOfDevice(Head(q), d) =>
              \A m \in Range(Tail(q)) : AnswerOfDevice(m, d) => Head(q).nonce < m.nonce
<1> DEFINE t == Tail(q)
<1>1. /\ Len(q) \in Nat \ {0} /\ Head(q) = q[1] /\ t \in Seq(S) /\ Len(t) = Len(q) - 1
      /\ \A i \in 1 .. Len(t) : t[i] = q[i + 1]
  BY HeadTailProperties, EmptySeq, LenProperties
<1>2. Range(t) = {t[i] : i \in 1 .. Len(t)}
  BY <1>1, RangeEquality
<1> HIDE DEF t
<1>3. \A i \in 1 .. Len(t) : i + 1 \in 1 .. Len(q) /\ 1 < i + 1
  BY <1>1
<1>4. Increasing(t, d)
  <2>1. \A i, j \in 1 .. Len(t) : i < j => i + 1 < j + 1
    BY <1>1
  <2> QED  BY <1>1, <1>3, <2>1 DEF Increasing
<1>5. ASSUME AnswerOfDevice(Head(q), d), NEW m \in Range(t), AnswerOfDevice(m, d)
      PROVE  Head(q).nonce < m.nonce
  <2>1. PICK i \in 1 .. Len(t) : m = t[i]
    BY <1>2
  <2>2. 1 \in 1 .. Len(q)
    BY <1>1
  <2> QED  BY <1>1, <1>3, <1>5, <2>1, <2>2 DEF Increasing
<1> QED  BY <1>4, <1>5 DEF t

\* What is stale in a queue is still followed by the hello when something that is
\* not stale is put at its end, when the hello is, and without its head.
LEMMA TrailsAppended ==
  ASSUME NEW S, NEW q \in Seq(S), NEW r \in Seq(S), NEW d, NEW sid,
         \/ Trails(q, d, sid) /\ \A m \in Range(r) : ~ Stale(m, d, sid)
         \/ r # << >> /\ r[Len(r)] = Greeting(d, sid)
  PROVE  Trails(q \o r, d, sid)
<1> DEFINE n == Len(q)
           k == Len(r)
           s == q \o r
<1>1. /\ n \in Nat /\ k \in Nat /\ Len(s) = n + k
      /\ \A i \in 1 .. n + k : s[i] = IF i <= n THEN q[i] ELSE r[i - n]
  BY ConcatProperties, LenProperties
<1>2. \A i \in 1 .. k : r[i] \in Range(r)
  BY RangeEquality
<1>3. r # << >> => k # 0
  BY EmptySeq
<1> HIDE DEF n, k, s
<1>4. CASE Trails(q, d, sid) /\ \A m \in Range(r) : ~ Stale(m, d, sid)
  <2>1. SUFFICES ASSUME NEW i \in 1 .. n + k, Stale(s[i], d, sid)
                 PROVE  \E j \in 1 .. n + k : i <= j /\ s[j] = Greeting(d, sid)
    BY <1>1 DEF Trails, s
  <2>2. i \in 1 .. n /\ s[i] = q[i]
    <3>1. CASE n < i
      <4>1. i - n \in 1 .. k /\ s[i] = r[i - n]
        BY <1>1, <3>1
      <4> QED  BY <1>2, <1>4, <2>1, <4>1
    <3> QED  BY <1>1, <3>1
  <2>3. PICK j \in 1 .. n : i <= j /\ q[j] = Greeting(d, sid)
    BY <1>4, <2>1, <2>2 DEF Trails, n
  <2>4. j \in 1 .. n + k /\ s[j] = q[j]
    BY <1>1, <2>3
  <2> QED  BY <2>3, <2>4
<1>5. CASE r # << >> /\ r[k] = Greeting(d, sid)
  <2>1. n + k \in 1 .. n + k /\ s[n + k] = r[k]
    <3>1. n + k \in 1 .. n + k /\ ~ (n + k <= n) /\ (n + k) - n = k
      BY <1>1, <1>3, <1>5
    <3> QED  BY <1>1, <3>1
  <2>2. \A i \in 1 .. n + k : i <= n + k
    BY <1>1
  <2> QED  BY <1>1, <1>5, <2>1, <2>2 DEF Trails, s
<1> QED  BY <1>4, <1>5 DEF k

\* What is stale at the head of a queue is followed by the hello in the rest of it.
LEMMA TrailsTail ==
  ASSUME NEW S, NEW q \in Seq(S), q # << >>, NEW d, NEW sid, Trails(q, d, sid)
  PROVE  /\ Trails(Tail(q), d, sid)
         /\ Stale(Head(q), d, sid) => Greeting(d, sid) \in Range(Tail(q))
<1> DEFINE t == Tail(q)
<1>1. /\ Len(q) \in Nat \ {0} /\ Head(q) = q[1] /\ t \in Seq(S) /\ Len(t) = Len(q) - 1
      /\ \A i \in 1 .. Len(t) : t[i] = q[i + 1]
  BY HeadTailProperties, EmptySeq, LenProperties
<1>2. Range(t) = {t[i] : i \in 1 .. Len(t)}
  BY <1>1, RangeEquality
<1> HIDE DEF t
<1>3. \A j \in 1 .. Len(q) : j # 1 => j - 1 \in 1 .. Len(t) /\ t[j - 1] = q[j]
  BY <1>1
<1>4. Trails(t, d, sid)
  <2> SUFFICES ASSUME NEW i \in 1 .. Len(t), Stale(t[i], d, sid)
               PROVE  \E j \in 1 .. Len(t) : i <= j /\ t[j] = Greeting(d, sid)
    BY DEF Trails
  <2>1. i + 1 \in 1 .. Len(q) /\ t[i] = q[i + 1]
    BY <1>1
  <2>2. PICK j \in 1 .. Len(q) : i + 1 <= j /\ q[j] = Greeting(d, sid)
    BY <2>1 DEF Trails
  <2>3. j # 1 /\ i <= j - 1
    BY <1>1, <2>2
  <2> QED  BY <1>3, <2>2, <2>3
<1>5. ASSUME Stale(Head(q), d, sid) PROVE Greeting(d, sid) \in Range(t)
  <2>1. 1 \in 1 .. Len(q)
    BY <1>1
  <2>2. PICK j \in 1 .. Len(q) : q[j] = Greeting(d, sid)
    BY <1>1, <1>5, <2>1 DEF Trails
  <2>3. j # 1
    BY <1>1, <1>5, <2>2 DEF Stale, Greeting, AnswerOfDevice
  <2> QED  BY <1>2, <1>3, <2>2, <2>3
<1> QED  BY <1>4, <1>5 DEF t

-----------------------------------------------------------------------------
(***************************************************************************)
(* Agreement: what the page of d will show once it has handled what is     *)
(* under way is what the engine shows, unless an answer of its own, or its *)
(* hello, is under way to the engine.                                      *)
(***************************************************************************)

\* What the page of d will show; and what it will, if nothing of its own is
\* acknowledged.
Forecast(d) == Ahead(page[d], down[d])
Base(d) == Ahead(Plain(page[d]), down[d])

\* Nothing is broken between the page of d and the engine.
Connected(d) == session = "lobby" /\ teacherLink = "up" /\ link[d] = "up"

\* The hello of this connection is under way, or the page will be asked for it.
Awaited(d) == \E m \in Range(down[d]) : m.type = "teacher-online"
Greeted(d) == Awaited(d) \/ Greeting(d, links[d]) \in Range(inbox)

\* Answers are sent about what was opened, in the order of their numbers; a page is
\* told of the end only when the class has ended.
PostedAt(d) ==
  /\ \A m \in Range(inbox) :
       AnswerOfDevice(m, d) => qstate[m.question] # "ready" /\ m.sid <= links[d]
  /\ \A m \in Range(buffer[d]) : qstate[m.question] # "ready"
  /\ Increasing(inbox, d) /\ Increasing(buffer[d], d)
  /\ \A m \in Range(inbox), x \in Range(buffer[d]) : AnswerOfDevice(m, d) => m.nonce < x.nonce
  /\ session = "lobby" => \A m \in Range(down[d]) : m.type # "ended"

\* With an answer to the open question, the last one that the page has sent is there,
\* and the page p still has it under way.
Covered(S, p, d) ==
  \A m \in S : qstate[m.question] = "open" =>
    /\ p.flight # None /\ p.flight.question = m.question
    /\ \E x \in S : x.nonce = sent[d] /\ x.question = m.question

\* The answers of this connection that are under way.
Sent(d) == {m \in Range(inbox) : AnswerOfDevice(m, d) /\ m.sid = links[d]}

WaitsAt(d) == link[d] = "down" => Covered(Range(buffer[d]), page[d], d)

\* The last answer of the page is under way, about what it will show.
Answering(d) ==
  /\ Forecast(d).flight # None
  /\ \E m \in Sent(d) : m.nonce = sent[d] /\ m.question = Forecast(d).question

\* The client knows the connection, and the page will show what the engine shows.
Joined(d) == d \in participants /\ links[d] \in connectedSids[d] /\ links[d] \in deviceBySid[d]
Settled(d) ==
  /\ Joined(d)
  /\ Forecast(d).question = StudentState(d).question
  /\ Forecast(d).state = StudentState(d).state
  /\ StudentState(d).state # "open" => (Base(d).selected = None <=> StudentState(d).answer = None)
  /\ StudentState(d).state = "open" => \/ Forecast(d).selected = StudentState(d).answer
                                       \/ Answering(d)

MeetsAt(d) ==
  Connected(d) => /\ Greeted(d) \/ Settled(d)
                  /\ Covered(Sent(d), Forecast(d), d)
                  /\ Awaited(d) \/ Trails(inbox, d, links[d])

AgreementAt(d) == PostedAt(d) /\ WaitsAt(d) /\ MeetsAt(d)
Agreement == \A d \in Device : AgreementAt(d)

-----------------------------------------------------------------------------
\* What the engine shows changes with the engine.
LEMMA StateSame ==
  ASSUME Facing, Facing', UNCHANGED <<qstate, opened_at, clock>>, NEW d \in Device,
         \A q \in ChoiceQuestion : AnswerOf(d, q)' = AnswerOf(d, q)
  PROVE  StudentState(d)' = StudentState(d)
<1>1. Current' = Current
  BY DEF Current
<1> QED  BY <1>1 DEF Facing

\* The question that is open is what the engine shows.
LEMMA StateOpen ==
  ASSUME Facing, NEW d \in Device
  PROVE  /\ \A q \in ChoiceQuestion : qstate[q] = "open" =>
              /\ StudentState(d).question = q /\ StudentState(d).state = "open"
              /\ StudentState(d).answer = AnswerOf(d, q)
              /\ Shown.question = q /\ Shown.state = "open"
         /\ StudentState(d).state = "open" =>
              /\ StudentState(d).question \in ChoiceQuestion
              /\ qstate[StudentState(d).question] = "open"
         /\ StudentState(d).question \in ChoiceQuestion =>
              StudentState(d).answer = AnswerOf(d, StudentState(d).question)
         /\ StudentState(d).question = Shown.question /\ StudentState(d).state = Shown.state
<1>1. None # "open" /\ None \notin ChoiceQuestion
  BY ClassAssumption DEF ClassAssumption
<1>2. clock = 0 => \A q \in ChoiceQuestion : qstate[q] # "open"
  BY DEF Facing, EngineTypes
<1> QED  BY <1>1, <1>2 DEF Facing, Shown

\* A page, and what is under way to and from it, with its types.
LEMMA PageTypes ==
  ASSUME Shape, NEW d \in Device
  PROVE  /\ page[d] \in ProperPage /\ down[d] \in Seq(PageMsg) /\ inbox \in Seq(InboxMsg)
         /\ buffer[d] \in Seq(AnswerMsg({d}, Sid \cup {0})) /\ sent[d] \in Nat /\ links[d] \in Nat
         /\ Forecast(d) \in ProperPage /\ Forecast(d).flight \in {None, page[d].flight}
         /\ Plain(page[d]) \in ProperPage
         /\ Base(d) \in ProperPage /\ Base(d).flight = None
         /\ Base(d).question = Forecast(d).question /\ Base(d).state = Forecast(d).state
<1>1. /\ page[d] \in ProperPage /\ down[d] \in Seq(PageMsg) /\ inbox \in Seq(InboxMsg)
      /\ buffer[d] \in Seq(AnswerMsg({d}, Sid \cup {0})) /\ sent[d] \in Nat /\ links[d] \in Nat
  <2>1. MaxLinks \in Nat /\ MaxAnswers \in Nat
    BY ClassAssumption DEF ClassAssumption
  <2>2. sent[d] \in 0 .. MaxAnswers /\ links[d] \in 0 .. MaxLinks
    BY DEF Shape, Types
  <2>3. /\ page[d] \in ProperPage /\ down[d] \in Seq(PageMsg) /\ inbox \in Seq(InboxMsg)
        /\ buffer[d] \in Seq(AnswerMsg({d}, Sid \cup {0}))
    BY DEF Shape, Types, LinkShape, ProperPage
  <2> QED  BY <2>1, <2>2, <2>3
<1>2. /\ Plain(page[d]) \in ProperPage /\ Plain(page[d]).flight = None
      /\ Plain(page[d]).question = page[d].question /\ Plain(page[d]).state = page[d].state
  BY <1>1, PlainProper
<1>3. Forecast(d) \in ProperPage /\ Forecast(d).flight \in {None, page[d].flight}
  BY <1>1, AheadProper DEF Forecast
<1>4. Base(d) \in ProperPage /\ Base(d).flight = None
  BY <1>1, <1>2, AheadProper DEF Base
<1>5. Base(d).question = Forecast(d).question /\ Base(d).state = Forecast(d).state
  BY <1>1, <1>2, AheadQuestion DEF Base, Forecast
<1> QED  BY <1>1, <1>2, <1>3, <1>4, <1>5

\* The elements of what is put at the end of a queue.
LEMMA AddedRange ==
  ASSUME NEW S, NEW q \in Seq(S), NEW r \in Seq(S)
  PROVE  q \o r \in Seq(S) /\ Range(q \o r) = Range(q) \cup Range(r)
BY RangeConcatenation, ConcatProperties

\* A step that is not about d: messages of others may reach the teacher.
LEMMA AgreeElse ==
  ASSUME Shape, Facing, Facing', NEW d \in Device, AgreementAt(d),
         UNCHANGED <<engine, client, teacherLink, session>>,
         page'[d] = page[d], sent'[d] = sent[d], down'[d] = down[d], buffer'[d] = buffer[d],
         link'[d] = link[d], links'[d] = links[d],
         NEW r \in Seq(InboxMsg), inbox' = inbox \o r,
         \A m \in Range(r) : m.type # "roster" /\ ~ AnswerOfDevice(m, d)
  PROVE  AgreementAt(d)'
<1>1. /\ UNCHANGED <<qstate, opened_at, clock, participants, answers>>
      /\ UNCHANGED <<deviceBySid, connectedSids, teacherLink, session>>
  BY DEF engine, client
<1>2. StudentState(d)' = StudentState(d)
  <2>1. \A q \in ChoiceQuestion : AnswerOf(d, q)' = AnswerOf(d, q)
    BY <1>1 DEF AnswerOf
  <2> QED  BY <1>1, <2>1, StateSame
<1>3. inbox \in Seq(InboxMsg) /\ Range(inbox') = Range(inbox) \cup Range(r)
  <2>1. inbox \in Seq(InboxMsg)
    BY PageTypes
  <2> QED  BY <2>1, AddedRange
<1>4. Increasing(inbox', d)
  BY <1>3, IncreasingNothing, IncreasingAppended DEF AgreementAt, PostedAt
<1>5. \A m \in Range(inbox') : AnswerOfDevice(m, d) <=> m \in Range(inbox) /\ AnswerOfDevice(m, d)
  BY <1>3
<1>6. PostedAt(d)'
  BY <1>1, <1>4, <1>5 DEF AgreementAt, PostedAt
<1>7. WaitsAt(d)'
  BY <1>1 DEF AgreementAt, WaitsAt, Covered
<1>8. Sent(d)' = Sent(d) /\ Forecast(d)' = Forecast(d) /\ Base(d)' = Base(d)
      /\ Awaited(d)' = Awaited(d) /\ Connected(d)' = Connected(d)
  BY <1>1, <1>3, <1>5 DEF Sent, Forecast, Base, Awaited, Connected
<1>9. Trails(inbox, d, links[d]) => Trails(inbox', d, links'[d])
  <2>1. \A m \in Range(r) : ~ Stale(m, d, links[d])
    BY DEF Stale
  <2> QED  BY <1>3, <2>1, TrailsAppended
<1>10. MeetsAt(d)'
  <2>1. Covered(Sent(d), Forecast(d), d) => Covered(Sent(d), Forecast(d), d)'
    BY <1>1, <1>8 DEF Covered
  <2>2. Greeted(d) => Greeted(d)'
    BY <1>3, <1>8 DEF Greeted
  <2>3. Answering(d) => Answering(d)'
    BY <1>8 DEF Answering
  <2>4. Settled(d) => Settled(d)'
    BY <1>1, <1>2, <1>8, <2>3 DEF Settled, Joined
  <2> QED  BY <1>8, <1>9, <2>1, <2>2, <2>4 DEF AgreementAt, MeetsAt
<1> QED  BY <1>6, <1>7, <1>10 DEF AgreementAt

\* The teacher's link is not up after the step, and what was under way to her is lost.
LEMMA AgreeApart ==
  ASSUME Shape, NEW d \in Device, AgreementAt(d), UNCHANGED engine,
         page'[d] = page[d], sent'[d] = sent[d], buffer'[d] = buffer[d],
         link'[d] = link[d], links'[d] = links[d], inbox' = << >>, teacherLink' # "up",
         session' = "lobby" => session = "lobby" /\ down'[d] = down[d]
  PROVE  AgreementAt(d)'
<1>1. UNCHANGED qstate /\ Range(inbox') = {} /\ inbox' \in Seq({})
  BY RangeEmpty, EmptySeq DEF engine
<1>2. Increasing(inbox', d)
  BY <1>1, IncreasingNothing
<1>3. PostedAt(d)'
  BY <1>1, <1>2 DEF AgreementAt, PostedAt
<1>4. WaitsAt(d)'
  BY <1>1 DEF AgreementAt, WaitsAt, Covered
<1>5. MeetsAt(d)'
  BY DEF MeetsAt, Connected
<1> QED  BY <1>3, <1>4, <1>5 DEF AgreementAt

\* The link of the page is not up after the step.
LEMMA AgreeLink ==
  ASSUME Shape, NEW d \in Device, AgreementAt(d), UNCHANGED <<engine, inbox, session>>,
         sent'[d] = sent[d], links'[d] = links[d], link'[d] # "up",
         down'[d] = down[d] \/ down'[d] = << >>,
         buffer'[d] = buffer[d] \/ buffer'[d] = << >>,
         link'[d] = "down" => buffer'[d] = << >>
  PROVE  AgreementAt(d)'
<1>1. UNCHANGED qstate /\ Range(<< >>) = {} /\ << >> \in Seq({})
  BY RangeEmpty, EmptySeq DEF engine
<1>2. Increasing(buffer'[d], d)
  BY <1>1, IncreasingNothing DEF AgreementAt, PostedAt
<1>3. /\ \A m \in Range(buffer'[d]) : m \in Range(buffer[d])
      /\ \A m \in Range(down'[d]) : m \in Range(down[d])
  BY <1>1
<1>4. PostedAt(d)'
  BY <1>1, <1>2, <1>3 DEF AgreementAt, PostedAt
<1>5. WaitsAt(d)'
  BY <1>1 DEF WaitsAt, Covered
<1>6. MeetsAt(d)'
  BY DEF MeetsAt, Connected
<1> QED  BY <1>4, <1>5, <1>6 DEF AgreementAt

\* What a student does on the page, short of sending.
LEMMA AgreeForm ==
  ASSUME Shape, Facing, Facing', NEW d \in Device, AgreementAt(d),
         UNCHANGED <<engine, client, teacherLink, session, inbox, link, links, down, buffer, sent>>,
         page'[d] \in ProperPage, Alike(page[d], page'[d])
  PROVE  AgreementAt(d)'
<1>1. /\ UNCHANGED <<qstate, opened_at, clock, participants, answers>>
      /\ UNCHANGED <<deviceBySid, connectedSids, teacherLink, session>>
  BY DEF engine, client
<1>2. StudentState(d)' = StudentState(d)
  <2>1. \A q \in ChoiceQuestion : AnswerOf(d, q)' = AnswerOf(d, q)
    BY <1>1 DEF AnswerOf
  <2> QED  BY <1>1, <2>1, StateSame
<1> PICK p : p = page'[d]
  OBVIOUS
<1>3. page[d] \in ProperPage /\ p \in ProperPage /\ down[d] \in Seq(PageMsg) /\ Alike(page[d], p)
  BY PageTypes
<1>4. Alike(Forecast(d), Forecast(d)')
  <2>1. Alike(Ahead(page[d], down[d]), Ahead(p, down[d]))
    BY <1>3, AheadAlike
  <2> QED  BY <2>1 DEF Forecast
<1>5. Base(d)'.selected = Base(d).selected
  <2>1. Plain(page[d]) \in ProperPage /\ Plain(p) \in ProperPage /\ Alike(Plain(page[d]), Plain(p))
    BY <1>3, PlainProper DEF Alike
  <2>2. Alike(Ahead(Plain(page[d]), down[d]), Ahead(Plain(p), down[d]))
    BY <1>3, <2>1, AheadAlike
  <2> QED  BY <2>2 DEF Base, Alike
<1>6. PostedAt(d)'
  BY <1>1 DEF AgreementAt, PostedAt
<1>7. WaitsAt(d)'
  BY <1>1, <1>3 DEF AgreementAt, WaitsAt, Covered, Alike
<1>8. Sent(d)' = Sent(d) /\ Awaited(d)' = Awaited(d) /\ Connected(d)' = Connected(d)
      /\ Greeted(d)' = Greeted(d)
  BY <1>1 DEF Sent, Awaited, Connected, Greeted
<1>9. Covered(Sent(d), Forecast(d), d) => Covered(Sent(d), Forecast(d), d)'
  BY <1>1, <1>4, <1>8 DEF Covered, Alike
<1>10. Answering(d) => Answering(d)'
  BY <1>4, <1>8 DEF Answering, Alike
<1>11. Settled(d) => Settled(d)'
  BY <1>1, <1>2, <1>4, <1>5, <1>10 DEF Settled, Joined, Alike
<1>12. MeetsAt(d)'
  BY <1>1, <1>8, <1>9, <1>11 DEF AgreementAt, MeetsAt
<1> QED  BY <1>6, <1>7, <1>12 DEF AgreementAt

\* What is sent when a page connects: its buffered answers between the relay's
\* presence and its hello.
LEMMA ArrivalRange ==
  ASSUME Shape, NEW d \in Device, links[d] + 1 \in Sid
  PROVE  /\ Arrival(d) \in Seq(InboxMsg) /\ Arrival(d) # << >>
         /\ Arrival(d)[Len(Arrival(d))] = Greeting(d, links[d] + 1)
         /\ Greeting(d, links[d] + 1) \in Range(Arrival(d))
         /\ \A m \in Range(Arrival(d)) :
              /\ m.type # "roster" /\ m.device = d
              /\ m.type = "answer" =>
                   /\ m.sid = links[d] + 1
                   /\ \E x \in Range(buffer[d]) : m.nonce = x.nonce /\ m.question = x.question
         /\ \A x \in Range(buffer[d]) : \E m \in Range(Arrival(d)) :
              /\ AnswerOfDevice(m, d) /\ m.sid = links[d] + 1
              /\ m.nonce = x.nonce /\ m.question = x.question
         /\ Increasing(buffer[d], d) => Increasing(Arrival(d), d)
<1> DEFINE A == Presence(d, links[d] + 1, TRUE)
           F == Flushed(d)
           H == Hello(d, links[d] + 1)
           B == A \o F
           b == buffer[d]
           n == Len(b)
<1>1. /\ A \in Seq(InboxMsg) /\ H \in Seq(InboxMsg) /\ Arrival(d) \in Seq(InboxMsg)
      /\ Arrival(d) = B \o H
  BY ArrivalType DEF Arrival
<1>2. /\ F \in Seq(AnswerMsg({d}, Sid)) /\ F \in Seq(InboxMsg) /\ Len(F) = n /\ n \in Nat
      /\ \A i \in 1 .. n : F[i] = [b[i] EXCEPT !.sid = links[d] + 1]
      /\ b \in Seq(AnswerMsg({d}, Sid \cup {0}))
  BY FlushedType, PageTypes, LenProperties
<1>3. /\ H = << Greeting(d, links[d] + 1) >> /\ Len(H) = 1
      /\ A = << [type |-> "presence", device |-> d, sid |-> links[d] + 1, connected |-> TRUE] >>
  BY DEF Hello, Presence, Greeting
<1>4. Range(H) = {Greeting(d, links[d] + 1)}
      /\ Range(A) = {[type |-> "presence", device |-> d, sid |-> links[d] + 1, connected |-> TRUE]}
  BY <1>3, RangeOne
<1>5. Range(F) = {F[i] : i \in 1 .. n} /\ Range(b) = {b[i] : i \in 1 .. n}
  <2> HIDE DEF F, b
  <2> QED  BY <1>2, RangeEquality DEF b
<1> HIDE DEF A, F, H, B, b, n
<1>6. B \in Seq(InboxMsg) /\ Range(B) = Range(A) \cup Range(F)
  BY <1>1, <1>2, AddedRange DEF B
<1>7. Range(Arrival(d)) = Range(A) \cup Range(F) \cup Range(H)
  BY <1>1, <1>6, AddedRange
<1>8. /\ Arrival(d) # << >> /\ Arrival(d)[Len(Arrival(d))] = Greeting(d, links[d] + 1)
  <2>1. Len(Arrival(d)) = Len(B) + 1 /\ Len(B) \in Nat
    BY <1>1, <1>3, <1>6, ConcatProperties, LenProperties
  <2>2. Arrival(d)[Len(B) + 1] = H[1]
    BY <1>1, <1>3, <1>6, <2>1, ConcatProperties
  <2> QED  BY <1>1, <1>3, <2>1, <2>2, EmptySeq
<1>9. \A i \in 1 .. n : /\ b[i] \in AnswerMsg({d}, Sid \cup {0})
                        /\ F[i].type = "answer" /\ F[i].device = d /\ F[i].sid = links[d] + 1
                        /\ F[i].nonce = b[i].nonce /\ F[i].question = b[i].question
  <2>1. \A i \in 1 .. n : b[i] \in AnswerMsg({d}, Sid \cup {0})
    BY <1>2, ElementOfSeq DEF n
  <2> QED  BY <1>2, <2>1 DEF AnswerMsg
<1>10. ASSUME NEW m \in Range(Arrival(d))
       PROVE  /\ m.type # "roster" /\ m.device = d
              /\ m.type = "answer" =>
                   /\ m.sid = links[d] + 1
                   /\ \E x \in Range(b) : m.nonce = x.nonce /\ m.question = x.question
  <2>1. CASE m \in Range(F)
    <3>1. PICK i \in 1 .. n : m = F[i]
      BY <1>5, <2>1
    <3> QED  BY <1>5, <1>9, <3>1
  <2>2. CASE m \in Range(A) \cup Range(H)
    BY <1>4, <2>2 DEF Greeting
  <2> QED  BY <1>7, <2>1, <2>2
<1>11. ASSUME NEW x \in Range(b)
       PROVE  \E m \in Range(Arrival(d)) :
                /\ AnswerOfDevice(m, d) /\ m.sid = links[d] + 1
                /\ m.nonce = x.nonce /\ m.question = x.question
  <2>1. PICK i \in 1 .. n : x = b[i]
    BY <1>5
  <2>2. F[i] \in Range(Arrival(d))
    BY <1>5, <1>7
  <2> QED  BY <1>9, <2>1, <2>2 DEF AnswerOfDevice
<1>12. ASSUME Increasing(b, d) PROVE Increasing(Arrival(d), d)
  <2>1. Increasing(F, d)
    <3>1. \A i \in 1 .. n : b[i].type = "answer" /\ b[i].device = d
      BY <1>9 DEF AnswerMsg
    <3>2. Len(F) = n /\ Len(b) = n
      BY <1>2 DEF n
    <3> QED  BY <1>9, <1>12, <3>1, <3>2 DEF Increasing, AnswerOfDevice
  <2>2. \A m \in Range(A) \cup Range(H) : ~ AnswerOfDevice(m, d)
    BY <1>4 DEF AnswerOfDevice, Greeting
  <2>3. Increasing(A, d) /\ Increasing(H, d)
    BY <1>1, <2>2, IncreasingNothing
  <2>4. Increasing(B, d)
    BY <1>1, <1>2, <2>1, <2>2, <2>3, IncreasingAppended DEF B
  <2> QED  BY <1>1, <1>6, <2>2, <2>3, <2>4, IncreasingAppended
<1>13. Greeting(d, links[d] + 1) \in Range(Arrival(d))
  BY <1>4, <1>7
<1> QED  BY <1>1, <1>8, <1>10, <1>11, <1>12, <1>13 DEF b

\* The page connects.
LEMMA AgreePageConnects ==
  ASSUME Shape, NEW d \in Device, AgreementAt(d), PageConnects(d)
  PROVE  AgreementAt(d)'
<1>1. /\ link[d] = "down" /\ links[d] + 1 \in Sid
      /\ link'[d] = "up" /\ links'[d] = links[d] + 1
      /\ inbox' = ToTeacher(Arrival(d)) /\ buffer'[d] = << >>
      /\ UNCHANGED <<engine, teacherLink, session, down, page, sent>>
  <2>1. link \in [Device -> {"up", "broken", "down", "closed"}] /\ links \in [Device -> 0 .. MaxLinks]
        /\ buffer \in [Device -> Seq(AnswerMsg(Device, Sid \cup {0}))]
    BY DEF Shape, Types
  <2> QED  BY <2>1, ConnectsEffects DEF pages
<1>2. inbox \in Seq(InboxMsg) /\ links[d] \in Nat /\ Arrival(d) \in Seq(InboxMsg)
  BY <1>1, PageTypes, ArrivalRange
<1>3. inbox' = inbox \/ (inbox' = inbox \o Arrival(d) /\ Range(inbox') = Range(inbox) \cup Range(Arrival(d)))
  BY <1>1, <1>2, AddedRange DEF ToTeacher
<1>4. UNCHANGED qstate /\ Range(buffer'[d]) = {} /\ Increasing(buffer'[d], d)
  BY <1>1, RangeEmpty, EmptySeq, IncreasingNothing DEF engine
<1>5. Increasing(inbox', d)
  <2>1. Increasing(inbox, d) /\ Increasing(Arrival(d), d)
    BY <1>1, ArrivalRange DEF AgreementAt, PostedAt
  <2>2. \A m \in Range(inbox), x \in Range(Arrival(d)) :
          AnswerOfDevice(m, d) /\ AnswerOfDevice(x, d) => m.nonce < x.nonce
    BY <1>1, ArrivalRange DEF AgreementAt, PostedAt, AnswerOfDevice
  <2>3. Increasing(inbox \o Arrival(d), d)
    BY <1>2, <2>1, <2>2, IncreasingAppended
  <2> QED  BY <1>3, <2>1, <2>3
<1>6. ASSUME NEW m \in Range(inbox'), AnswerOfDevice(m, d)
      PROVE  /\ qstate[m.question] # "ready" /\ m.sid <= links[d] + 1
             /\ m.sid = links[d] + 1 => m \in Range(Arrival(d))
  <2>2. CASE m \in Range(inbox)
    <3>1. m.sid \in Nat
      <4>1. m \in InboxMsg
        BY <1>2, <2>2, RangeOfSeq
      <4>2. m \in AnswerMsg(Device, Sid)
        BY <1>6, <4>1 DEF InboxMsg, HelloMsg, PresenceMsg, RosterMsg, AnswerOfDevice
      <4> QED  BY <4>2 DEF AnswerMsg, Sid
    <3> QED  BY <1>2, <1>6, <2>2, <3>1 DEF AgreementAt, PostedAt
  <2>3. CASE m \in Range(Arrival(d))
    <3>1. PICK x \in Range(buffer[d]) : m.question = x.question
      BY <1>1, <1>6, <2>3, ArrivalRange DEF AnswerOfDevice
    <3>2. qstate[x.question] # "ready" /\ m.sid = links[d] + 1
      BY <1>1, <1>6, <2>3, ArrivalRange DEF AgreementAt, PostedAt, AnswerOfDevice
    <3> QED  BY <1>2, <2>3, <3>1, <3>2
  <2> QED  BY <1>3, <2>2, <2>3
<1>7. PostedAt(d)'
  BY <1>1, <1>4, <1>5, <1>6 DEF AgreementAt, PostedAt
<1>8. WaitsAt(d)'
  BY <1>1 DEF WaitsAt
<1>9. MeetsAt(d)'
  <2>1. SUFFICES ASSUME teacherLink = "up"
                 PROVE  /\ Greeted(d)' /\ Covered(Sent(d), Forecast(d), d)'
                        /\ Trails(inbox', d, links'[d])
    BY <1>1 DEF MeetsAt, Connected
  <2>2. inbox' = inbox \o Arrival(d) /\ Range(inbox') = Range(inbox) \cup Range(Arrival(d))
    BY <1>1, <1>2, <2>1, AddedRange DEF ToTeacher
  <2>3. Greeted(d)'
    BY <1>1, <2>2, ArrivalRange DEF Greeted
  <2>4. Trails(inbox', d, links'[d])
    <3>1. Arrival(d) # << >> /\ Arrival(d)[Len(Arrival(d))] = Greeting(d, links[d] + 1)
      BY <1>1, ArrivalRange
    <3>2. Trails(inbox \o Arrival(d), d, links[d] + 1)
      BY <1>2, <3>1, TrailsAppended
    <3> QED  BY <1>1, <2>2, <3>2
  <2>5. Forecast(d)' = page[d]
    <3>1. down[d] = << >>
      BY <1>1 DEF Shape, LinkShape
    <3> QED  BY <1>1, <3>1, AheadNone DEF Forecast
  <2>6. Covered(Range(buffer[d]), page[d], d)
    BY <1>1 DEF AgreementAt, WaitsAt
  <2>7. ASSUME NEW m \in Sent(d)', qstate[m.question] = "open"
        PROVE  /\ page[d].flight # None /\ page[d].flight.question = m.question
               /\ \E y \in Sent(d)' : y.nonce = sent[d] /\ y.question = m.question
    <3>1. m \in Range(Arrival(d)) /\ m.type = "answer"
      BY <1>1, <1>6, <2>7 DEF Sent, AnswerOfDevice
    <3>2. PICK x \in Range(buffer[d]) : m.question = x.question
      BY <1>1, <3>1, ArrivalRange
    <3>3. PICK z \in Range(buffer[d]) : z.nonce = sent[d] /\ z.question = m.question
      BY <2>6, <2>7, <3>2 DEF Covered
    <3>4. PICK y \in Range(Arrival(d)) : /\ AnswerOfDevice(y, d) /\ y.sid = links[d] + 1
                                         /\ y.nonce = z.nonce /\ y.question = z.question
      BY <1>1, ArrivalRange
    <3>5. y \in Sent(d)'
      BY <1>1, <2>2, <3>4 DEF Sent
    <3> QED  BY <2>6, <2>7, <3>2, <3>3, <3>4, <3>5 DEF Covered
  <2>8. Covered(Sent(d), Forecast(d), d)'
    BY <1>1, <1>4, <2>5, <2>7 DEF Covered
  <2> QED  BY <2>3, <2>4, <2>8
<1> QED  BY <1>7, <1>8, <1>9 DEF AgreementAt

-----------------------------------------------------------------------------
\* While the question that a page shows is open, nothing else is told to it.
LEMMA OnlyOpen ==
  ASSUME Shape, Facing, NEW d \in Device, OrderedAt(d), NEW q \in ChoiceQuestion,
         page[d].question = q, qstate[q] = "open"
  PROVE  \A m \in Range(down[d]) : Snap(m) => m.question = q /\ m.state = "open"
<1> SUFFICES ASSUME NEW m \in Range(down[d]), Snap(m) PROVE m.question = q /\ m.state = "open"
  OBVIOUS
<1> PICK p : p = page[d]
  OBVIOUS
<1> PICK s : s = Shown
  OBVIOUS
<1>1. Seen(m) /\ Leq(p, m) /\ Leq(m, s)
  BY DEF OrderedAt, InOrder
<1>2. s.question = q /\ s.state = "open"
  BY StateOpen
<1>3. None \notin ChoiceQuestion
  BY ClassAssumption DEF ClassAssumption
<1>4. /\ m.question \in ChoiceQuestion /\ opened_at[q] <= opened_at[m.question]
      /\ opened_at[m.question] <= opened_at[q]
      /\ m.state = "closed" /\ m.question = q => "open" = "closed"
  BY <1>1, <1>2, <1>3 DEF Seen, Leq
<1>5. m.question = q
  <2>1. opened_at \in [ChoiceQuestion -> Nat] /\ opened_at[q] # 0
    BY DEF Facing, EngineTypes
  <2>2. opened_at[q] = opened_at[m.question]
    BY <1>4, <2>1
  <2> QED  BY <1>4, <2>1, <2>2 DEF Facing
<1>6. m \in PageMsg
  <2>1. down[d] \in Seq(PageMsg)
    BY PageTypes
  <2> QED  BY <2>1, RangeOfSeq
<1>7. m.state \in {"open", "closed"}
  BY <1>3, <1>4, <1>6 DEF Snap, PageMsg, Spoken, NoQuestion, StateOf, QuestionMsg, ReceivedMsg, Notice
<1> QED  BY <1>4, <1>5, <1>7

\* A student sends an answer.
LEMMA AgreeTransmit ==
  ASSUME Shape, Facing, Facing', NEW d \in Device, CountedAt(d), OrderedAt(d), AgreementAt(d),
         NEW q, NEW o \in Option, NEW pending \in Option \cup {None},
         q = page[d].question, q # None, Transmit(d, q, o, pending)
  PROVE  AgreementAt(d)'
<1> DEFINE n == sent[d] + 1
           f == [nonce |-> n, question |-> q, answer |-> o, phase |-> "sending"]
           am == [type |-> "answer", device |-> d, sid |-> links[d],
                  question |-> q, answer |-> o, nonce |-> n]
           b == buffer[d]
<1>1. /\ Shape' /\ sent'[d] = n /\ n \in Nonce /\ n \in Nat
      /\ page'[d] = [page[d] EXCEPT !.pending = pending, !.flight = f]
      /\ PageEmits(d, << am >>)
      /\ UNCHANGED <<engine, client, teacherLink, session, SIDS, link, links, down>>
  <2>0. q = page[d].question /\ q # None /\ Transmit(d, q, o, pending)
    OBVIOUS
  <2>1. sent[d] \in Nat
    BY PageTypes
  <2>2. n \in Nat
    BY <2>1
  <2>3. /\ Shape' /\ sent'[d] = n /\ sent'[d] \in Nonce
        /\ UNCHANGED <<engine, client, teacherLink, session, SIDS, link, links, down>>
    BY <2>0, TransmitEffects
  <2>4. PageEmits(d, << [type |-> "answer", device |-> d, sid |-> links[d],
                         question |-> q, answer |-> o, nonce |-> sent'[d]] >>)
    BY <2>0, TransmitEffects
  <2>5. page' = [page EXCEPT ![d].pending = pending, ![d].flight = f]
    BY DEF Transmit
  <2>6. PageEmits(d, << am >>)
    BY <2>3, <2>4
  <2>7. page'[d] = [page[d] EXCEPT !.pending = pending, !.flight = f]
    <3>1. page \in [Device -> Page]
      BY DEF Shape, Types
    <3> HIDE DEF f
    <3> QED  BY <2>5, <3>1
  <2> QED  BY <2>2, <2>3, <2>6, <2>7
<1>2. /\ am.type = "answer" /\ am.device = d /\ am.sid = links[d] /\ am.question = q
      /\ am.nonce = n /\ AnswerOfDevice(am, d) /\ f.nonce = n /\ f.question = q
  BY DEF AnswerOfDevice
<1> PICK p : p = page[d]
  OBVIOUS
<1> PICK z : z = page'[d]
  OBVIOUS
<1>3. /\ p \in ProperPage /\ z \in ProperPage /\ down[d] \in Seq(PageMsg) /\ p.question = q
      /\ z.question = q /\ z.state = p.state /\ z.selected = p.selected /\ z.flight = f
  <2>1. p \in ProperPage /\ z \in ProperPage /\ down[d] \in Seq(PageMsg)
    BY <1>1, PageTypes DEF Shape, Types, ProperPage
  <2>2. p \in Page
    BY <2>1 DEF ProperPage
  <2> HIDE DEF f
  <2> QED  BY <1>1, <2>1, <2>2 DEF Page
<1>4. f # None /\ q \in ChoiceQuestion /\ qstate[q] # "ready" /\ links[d] \in Nat /\ sent[d] \in Nat
  <2>1. q \in ChoiceQuestion /\ qstate[q] # "ready"
    BY DEF OrderedAt, InOrder, Seen
  <2>2. f \in InFlight
    BY <1>1, <2>1 DEF InFlight
  <2> QED  BY <2>1, <2>2, NullAssumption, PageTypes
<1>5. /\ UNCHANGED <<qstate, opened_at, clock, participants, answers>>
      /\ UNCHANGED <<deviceBySid, connectedSids, teacherLink, session>>
  BY <1>1 DEF engine, client
<1>6. StudentState(d)' = StudentState(d)
  <2>1. \A y \in ChoiceQuestion : AnswerOf(d, y)' = AnswerOf(d, y)
    BY <1>5 DEF AnswerOf
  <2> QED  BY <1>5, <2>1, StateSame
<1>7. am \in AnswerMsg({d}, Sid \cup {0}) /\ (link[d] = "up" => am \in InboxMsg)
  <2>1. links[d] \in Sid \cup {0} /\ (link[d] = "up" => links[d] \in Sid)
    <3>1. links[d] \in 0 .. MaxLinks /\ MaxLinks \in Nat
      BY ClassAssumption DEF Shape, Types, ClassAssumption
    <3>2. link[d] = "up" => links[d] \in Sid
      BY DEF Shape, LinkShape
    <3> QED  BY <3>1, <3>2 DEF Sid
  <2> QED  BY <1>1, <1>4, <2>1 DEF am, AnswerMsg, InboxMsg
<1> HIDE DEF f, am, n, b
<1>8. inbox \in Seq(InboxMsg) /\ b \in Seq(AnswerMsg({d}, Sid \cup {0}))
  BY PageTypes DEF b
<1>9. \/ /\ link[d] = "up" /\ links[d] \in SIDS[d] /\ buffer'[d] = b
         /\ inbox' = IF teacherLink = "up" THEN inbox \o << am >> ELSE inbox
      \/ link[d] = "down" /\ inbox' = inbox /\ buffer'[d] = b \o << am >>
      \/ inbox' = inbox /\ buffer'[d] = b /\ link[d] # "down"
         /\ ~ (link[d] = "up" /\ links[d] \in SIDS[d])
  <2>1. buffer \in [Device -> Seq(AnswerMsg(Device, Sid \cup {0}))]
    BY DEF Shape, Types
  <2> QED  BY <1>1, <2>1 DEF PageEmits, ToTeacher, b
<1>10. link[d] = "up" => Range(b) = {}
  BY RangeEmpty DEF Shape, LinkShape, b
<1>11. ASSUME NEW m, \/ m \in Range(inbox) /\ AnswerOfDevice(m, d)
                     \/ m \in Range(b)
       PROVE  m.nonce < n
  <2>1. m.nonce <= sent[d]
    BY <1>11 DEF CountedAt, FromPage, AnswerOfDevice, b
  <2>2. m.nonce \in Nat
    <3>1. CASE m \in Range(b)
      <4>1. m \in AnswerMsg({d}, Sid \cup {0})
        BY <1>8, <3>1, RangeOfSeq
      <4> QED  BY <4>1 DEF AnswerMsg, Nonce
    <3>2. CASE m \in Range(inbox) /\ AnswerOfDevice(m, d)
      <4>1. m \in InboxMsg
        BY <1>8, <3>2, RangeOfSeq
      <4>2. m \in AnswerMsg(Device, Sid)
        BY <3>2, <4>1 DEF InboxMsg, HelloMsg, PresenceMsg, RosterMsg, AnswerOfDevice
      <4> QED  BY <4>2 DEF AnswerMsg, Nonce
    <3> QED  BY <1>11, <3>1, <3>2
  <2> QED  BY <1>4, <2>1, <2>2 DEF n
<1>12. PostedAt(d) /\ WaitsAt(d) /\ MeetsAt(d)
  BY DEF AgreementAt
<1>13. PostedAt(d)'
  <2>1. /\ Range(inbox') = Range(inbox) \/ Range(inbox') = Range(inbox) \cup {am}
        /\ Range(buffer'[d]) = Range(b) \/ Range(buffer'[d]) = Range(b) \cup {am}
    BY <1>8, <1>9, RangeAppendOne
  <2>2. Increasing(inbox', d)
    <3>1. CASE inbox' = inbox
      BY <1>12, <3>1 DEF PostedAt
    <3>2. CASE link[d] = "up" /\ inbox' = inbox \o << am >>
      <4>1. << am >> \in Seq(InboxMsg) /\ Range(<< am >>) = {am} /\ Increasing(<< am >>, d)
        BY <1>7, <3>2, RangeOne, IncreasingOne
      <4> QED  BY <1>2, <1>8, <1>11, <1>12, <3>2, <4>1, IncreasingAppended DEF PostedAt
    <3> QED  BY <1>9, <3>1, <3>2
  <2>3. Increasing(buffer'[d], d)
    <3>1. CASE buffer'[d] = b
      BY <1>12, <3>1 DEF PostedAt, b
    <3>2. CASE buffer'[d] = b \o << am >>
      <4>1. /\ << am >> \in Seq(AnswerMsg({d}, Sid \cup {0})) /\ Range(<< am >>) = {am}
            /\ Increasing(<< am >>, d)
        BY <1>7, RangeOne, IncreasingOne
      <4>2. Increasing(b, d)
        BY <1>12 DEF PostedAt, b
      <4> QED  BY <1>2, <1>8, <1>11, <3>2, <4>1, <4>2, IncreasingAppended
    <3> QED  BY <1>9, <3>1, <3>2
  <2>4. ASSUME NEW m \in Range(inbox'), NEW x \in Range(buffer'[d]), AnswerOfDevice(m, d)
        PROVE  m.nonce < x.nonce
    <3>1. CASE link[d] = "down"
      <4>1. m \in Range(inbox) /\ (x \in Range(b) \/ x = am)
        BY <1>9, <2>1, <2>4, <3>1
      <4> QED  BY <1>2, <1>11, <1>12, <2>4, <4>1 DEF PostedAt, b
    <3>2. CASE link[d] # "down"
      <4>1. x \in Range(b)
        BY <1>9, <2>4, <3>2
      <4>2. link[d] # "up"
        BY <1>10, <4>1
      <4>3. m \in Range(inbox)
        BY <1>9, <2>4, <3>2, <4>2
      <4> QED  BY <1>12, <2>4, <4>1, <4>3 DEF PostedAt, b
    <3> QED  BY <3>1, <3>2
  <2>5. \A m \in Range(inbox') : AnswerOfDevice(m, d) =>
          qstate[m.question] # "ready" /\ m.sid <= links[d]
    BY <1>2, <1>4, <1>12, <2>1 DEF PostedAt
  <2>6. \A m \in Range(buffer'[d]) : qstate[m.question] # "ready"
    BY <1>2, <1>4, <1>12, <2>1 DEF PostedAt, b
  <2> QED  BY <1>1, <1>5, <1>12, <2>2, <2>3, <2>4, <2>5, <2>6 DEF PostedAt
<1>14. WaitsAt(d)'
  <2>1. SUFFICES ASSUME link[d] = "down", NEW m \in Range(buffer'[d]), qstate[m.question] = "open"
                 PROVE  /\ z.flight # None /\ z.flight.question = m.question
                        /\ \E x \in Range(buffer'[d]) : x.nonce = sent'[d] /\ x.question = m.question
    BY <1>1, <1>5 DEF WaitsAt, Covered
  <2>2. Range(buffer'[d]) = Range(b) \cup {am}
    BY <1>8, <1>9, <2>1, RangeAppendOne
  <2>3. m.question = q
    <3>1. m \in Range(b) => p.flight # None /\ p.flight.question = m.question
      BY <1>12, <2>1 DEF WaitsAt, Covered, b
    <3>2. p.flight # None => p.flight.question = q
      BY <1>3 DEF ProperPage, PageShape
    <3> QED  BY <1>2, <2>2, <3>1, <3>2
  <2> QED  BY <1>1, <1>2, <1>3, <1>4, <2>2, <2>3
<1>15. MeetsAt(d)'
  <2>1. SUFFICES ASSUME Connected(d)
                 PROVE  /\ Greeted(d)' \/ Settled(d)'
                        /\ Covered(Sent(d), Forecast(d), d)'
                        /\ Awaited(d)' \/ Trails(inbox', d, links'[d])
    BY <1>1 DEF MeetsAt, Connected
  <2>2. /\ link[d] = "up" /\ inbox' = inbox \o << am >> /\ Range(inbox') = Range(inbox) \cup {am}
        /\ << am >> \in Seq(InboxMsg) /\ Range(<< am >>) = {am}
    <3>1. links[d] \in SIDS[d] /\ teacherLink = "up" /\ link[d] = "up"
      BY <2>1 DEF Connected, Shape, LinkShape
    <3>2. inbox' = inbox \o << am >>
      BY <1>9, <3>1
    <3>3. << am >> \in Seq(InboxMsg) /\ Range(<< am >>) = {am}
      BY <1>7, <3>1, RangeOne
    <3> QED  BY <1>8, <3>1, <3>2, <3>3, RangeAppendOne
  <2>3. /\ Greeted(d) \/ Settled(d)
        /\ Covered(Sent(d), Forecast(d), d)
        /\ Awaited(d) \/ Trails(inbox, d, links[d])
    BY <1>12, <2>1 DEF MeetsAt
  <2>4. Awaited(d)' = Awaited(d) /\ (Greeted(d) => Greeted(d)') /\ Sent(d)' = Sent(d) \cup {am}
    BY <1>1, <1>2, <2>2 DEF Awaited, Greeted, Sent
  <2>5. Trails(inbox, d, links[d]) => Trails(inbox', d, links'[d])
    <3>1. \A m \in Range(<< am >>) : ~ Stale(m, d, links[d])
      BY <1>2, <2>2 DEF Stale
    <3> QED  BY <1>1, <1>8, <2>2, <3>1, TrailsAppended
  <2>6. /\ Forecast(d) = Ahead(p, down[d]) /\ Forecast(d)' = Ahead(z, down[d])
        /\ Base(d) = Ahead(Plain(p), down[d]) /\ Base(d)' = Ahead(Plain(z), down[d])
    BY <1>1 DEF Forecast, Base
  <2>7. Forecast(d)'.question = Forecast(d).question /\ Forecast(d)'.state = Forecast(d).state
    BY <1>3, <2>6, AheadQuestion
  <2>8. Base(d)'.selected = Base(d).selected
    <3>1. Plain(p) \in ProperPage /\ Plain(z) \in ProperPage /\ Alike(Plain(p), Plain(z))
      BY <1>3, PlainProper DEF Alike
    <3>2. Alike(Ahead(Plain(p), down[d]), Ahead(Plain(z), down[d]))
      BY <1>3, <3>1, AheadAlike
    <3> QED  BY <2>6, <3>2 DEF Alike
  <2>9. ASSUME qstate[q] = "open" PROVE Forecast(d)'.flight = f
    <3>1. \A m \in Range(down[d]) : Snap(m) => m.question = q /\ m.state = "open"
      BY <1>4, <2>9, OnlyOpen
    <3>2. \A m \in Range(down[d]) : m.type = "received" => m.nonce # n
      <4>1. ASSUME NEW m \in Range(down[d]), m.type = "received" PROVE m.nonce # n
        <5>1. m.nonce <= sent[d]
          BY <4>1 DEF CountedAt, TrueAck
        <5> QED  BY <1>4, <5>1 DEF n
      <4> QED  BY <4>1
    <3>3. Ahead(z, down[d]).flight = z.flight
      BY <1>2, <1>3, <1>4, <3>1, <3>2, AheadStill
    <3> QED  BY <1>3, <2>6, <3>3
  <2>10. Covered(Sent(d), Forecast(d), d)'
    <3>1. SUFFICES ASSUME NEW m \in Sent(d) \cup {am}, qstate[m.question] = "open"
                   PROVE  /\ Forecast(d)'.flight # None /\ Forecast(d)'.flight.question = m.question
                          /\ am.nonce = sent'[d] /\ am.question = m.question
      BY <1>5, <2>4 DEF Covered
    <3>2. m.question = q
      <4>1. ASSUME m \in Sent(d) PROVE m.question = q
        <5>1. Forecast(d).flight # None /\ Forecast(d).flight.question = m.question
          BY <2>3, <3>1, <4>1 DEF Covered
        <5>2. p.flight # None /\ p.flight.question = m.question
          BY <5>1, PageTypes
        <5> QED  BY <1>3, <5>2 DEF ProperPage, PageShape
      <4> QED  BY <1>2, <3>1, <4>1
    <3> QED  BY <1>1, <1>2, <1>4, <2>9, <3>1, <3>2
  <2>11. ASSUME Settled(d) PROVE Settled(d)'
    <3>1. /\ Joined(d) /\ Forecast(d).question = StudentState(d).question
          /\ Forecast(d).state = StudentState(d).state
          /\ StudentState(d).state # "open" => (Base(d).selected = None <=> StudentState(d).answer = None)
      BY <2>11 DEF Settled
    <3>2. ASSUME StudentState(d).state = "open"
          PROVE  Forecast(d)'.selected = StudentState(d).answer \/ Answering(d)'
      <4>1. /\ StudentState(d).question \in ChoiceQuestion
            /\ qstate[StudentState(d).question] = "open"
        BY <3>2, StateOpen
      <4>2. CASE StudentState(d).question = q
        <5>1. Forecast(d)'.flight = f /\ Forecast(d)'.question = q
          BY <2>7, <2>9, <3>1, <4>1, <4>2
        <5>2. am \in Sent(d)' /\ am.nonce = sent'[d] /\ am.question = Forecast(d)'.question
          BY <1>1, <1>2, <2>4, <5>1
        <5> QED  BY <1>4, <5>1, <5>2 DEF Answering
      <4>3. CASE StudentState(d).question # q
        <5>1. Forecast(d)'.question # z.question
          BY <1>3, <2>7, <3>1, <4>3
        <5>2. Forecast(d)'.selected = Forecast(d).selected /\ Forecast(d).flight = None
          BY <1>3, <2>6, <5>1, AheadElsewhere
        <5>3. Forecast(d).selected = StudentState(d).answer
          BY <2>11, <3>2, <5>2 DEF Settled, Answering
        <5> QED  BY <5>2, <5>3
      <4> QED  BY <4>2, <4>3
    <3>3. Joined(d)'
      BY <1>1, <1>5, <3>1 DEF Joined
    <3> QED  BY <1>6, <2>7, <2>8, <3>1, <3>2, <3>3 DEF Settled
  <2> QED  BY <2>3, <2>4, <2>5, <2>10, <2>11
<1> QED  BY <1>13, <1>14, <1>15 DEF AgreementAt

\* ConfirmPending and Resend.
LEMMA AgreeTransmits ==
  ASSUME Shape, Facing, Facing', NEW d \in Device, CountedAt(d), OrderedAt(d), AgreementAt(d),
         ConfirmPending(d) \/ Resend(d)
  PROVE  AgreementAt(d)'
<1>1. CASE ConfirmPending(d)
  <2>1. None \in Option \cup {None}
    OBVIOUS
  <2> QED  BY <1>1, <2>1, ConfirmTransmits, AgreeTransmit
<1>2. CASE Resend(d)
  BY <1>2, ResendTransmits, AgreeTransmit
<1> QED  BY <1>1, <1>2

-----------------------------------------------------------------------------
\* The page handles a message: what it will show stays what it was.
LEMMA AgreeTurn ==
  ASSUME Shape, Shape', Facing, Facing', NEW d \in Device, CountedAt(d), AgreementAt(d),
         UNCHANGED <<engine, client, teacherLink, session, links, sent, inbox, link, buffer>>,
         link[d] = "up", down[d] # << >>, down'[d] = Tail(down[d]),
         NEW m, m = Head(down[d]), Snap(m) \/ m.type = "received", page'[d] = After(page[d], m)
  PROVE  AgreementAt(d)'
<1> PICK p : p = page[d]
  OBVIOUS
<1> PICK z : z = page'[d]
  OBVIOUS
<1> PICK s : s = down[d]
  OBVIOUS
<1> PICK t : t = Tail(s)
  OBVIOUS
<1>1. /\ p \in ProperPage /\ s \in Seq(PageMsg) /\ s # << >> /\ m = Head(s)
      /\ t \in Seq(PageMsg) /\ m \in PageMsg /\ Range(s) = {m} \cup Range(t)
      /\ z = After(p, m) /\ z \in ProperPage /\ down'[d] = t
  <2>1. p \in ProperPage /\ s \in Seq(PageMsg) /\ s # << >> /\ m = Head(s)
    BY PageTypes
  <2>2. t \in Seq(PageMsg) /\ m \in PageMsg /\ Range(s) = {m} \cup Range(t)
    BY <2>1, HeadTailProperties, RangeHeadTail
  <2> QED  BY <2>1, <2>2, AfterProper
<1>2. /\ UNCHANGED <<qstate, opened_at, clock, participants, answers>>
      /\ UNCHANGED <<deviceBySid, connectedSids, teacherLink, session>>
  BY DEF engine, client
<1>3. StudentState(d)' = StudentState(d)
  <2>1. \A y \in ChoiceQuestion : AnswerOf(d, y)' = AnswerOf(d, y)
    BY <1>2 DEF AnswerOf
  <2> QED  BY <1>2, <2>1, StateSame
<1>4. PostedAt(d) /\ MeetsAt(d)
  BY DEF AgreementAt
<1>5. PostedAt(d)'
  BY <1>1, <1>2, <1>4 DEF PostedAt
<1>6. WaitsAt(d)'
  BY DEF WaitsAt
<1>7. /\ Forecast(d) = Ahead(p, s) /\ Forecast(d)' = Ahead(z, t)
      /\ Base(d) = Ahead(Plain(p), s) /\ Base(d)' = Ahead(Plain(z), t)
  BY <1>1 DEF Forecast, Base
<1>8. Forecast(d)' = Forecast(d)
  BY <1>1, <1>7, AheadTail
<1>9. Base(d) = Ahead(After(Plain(p), m), t)
  BY <1>1, <1>7, AheadTail
<1>10. m.type # "teacher-online"
  BY DEF Snap
<1>11. /\ Sent(d)' = Sent(d) /\ Awaited(d)' = Awaited(d) /\ Greeted(d)' = Greeted(d)
       /\ Connected(d)' = Connected(d)
  BY <1>1, <1>2, <1>10 DEF Sent, Awaited, Greeted, Connected
<1>12. /\ Plain(p) \in ProperPage /\ Plain(p).flight = None /\ Plain(p).question = p.question
       /\ Plain(p).state = p.state /\ Plain(p).selected = p.selected
       /\ Plain(z) \in ProperPage /\ Plain(z).flight = None /\ Plain(z).question = z.question
       /\ Plain(z).state = z.state /\ Plain(z).selected = z.selected
  BY <1>1, PlainProper
<1>13. ASSUME Settled(d), StudentState(d).state # "open"
       PROVE  Base(d)'.selected = None <=> StudentState(d).answer = None
  <2>1. Base(d).selected = None <=> StudentState(d).answer = None
    BY <1>13 DEF Settled
  <2>2. CASE Snap(m)
    <3> PICK x : x = After(Plain(p), m)
      OBVIOUS
    <3> PICK y : y = Plain(z)
      OBVIOUS
    <3>1. x \in ProperPage /\ y \in ProperPage
      BY <1>1, <1>12, AfterProper
    <3>2. /\ x.question = m.question /\ x.state = m.state /\ x.flight = None
          /\ x.selected = IF m.type = "state" THEN m.answer
                          ELSE IF m.question = p.question THEN p.selected ELSE None
      BY <1>1, <1>12, <2>2, AfterSnap
    <3>3. /\ y.question = m.question /\ y.state = m.state /\ y.flight = None
          /\ y.selected = IF m.type = "state" THEN m.answer
                          ELSE IF m.question = p.question THEN p.selected ELSE None
      BY <1>1, <1>12, <2>2, AfterSnap
    <3>4. Alike(x, y)
      BY <3>2, <3>3 DEF Alike
    <3>5. Alike(Ahead(x, t), Ahead(y, t))
      BY <1>1, <3>1, <3>4, AheadAlike
    <3> QED  BY <1>7, <1>9, <2>1, <3>5 DEF Alike
  <2>3. CASE m.type = "received"
    <3>1. After(Plain(p), m) = Plain(p)
      BY <1>1, <1>12, <2>3, AfterAck
    <3>2. CASE p.flight = None \/ p.flight.nonce # m.nonce
      <4>1. z = p
        BY <1>1, <2>3, <3>2, AfterAck
      <4> QED  BY <1>7, <1>9, <2>1, <3>1, <4>1
    <3>3. CASE p.flight # None /\ p.flight.nonce = m.nonce
      <4>1. z.question = p.question /\ z.state = p.state /\ z.selected = p.flight.answer
        BY <1>1, <2>3, <3>3, AfterAck
      <4>2. \/ Base(d)'.selected = Base(d).selected
            \/ Base(d)'.selected = Plain(z).selected /\ Base(d)'.question = Plain(z).question
        <5> PICK x : x = Plain(p)
          OBVIOUS
        <5> PICK y : y = Plain(z)
          OBVIOUS
        <5>1. /\ x \in ProperPage /\ y \in ProperPage /\ x.flight = None /\ y.flight = None
              /\ x.question = y.question /\ x.state = y.state
          BY <1>12, <4>1
        <5>2. \/ Ahead(y, t).selected = Ahead(x, t).selected
              \/ Ahead(y, t).selected = y.selected /\ Ahead(y, t).question = y.question
          BY <1>1, <5>1, AheadDiffers, ZenonT(40)
        <5> QED  BY <1>7, <1>9, <3>1, <5>2
      <4>3. CASE Base(d)'.selected = Plain(z).selected /\ Base(d)'.question = Plain(z).question
        <5>1. /\ p.flight \in InFlight /\ p.flight.question = p.question
              /\ p.flight.question \in ChoiceQuestion /\ p.flight.answer \in Option
          BY <1>1, <3>3 DEF ProperPage, Page, PageShape, InFlight
        <5>2. d \in DOMAIN answers[p.flight.question]
          <6>1. m \in Range(down[d])
            BY <1>1
          <6>2. TrueAck(d, m) /\ page[d].flight.nonce = sent[d]
            BY <3>3, <6>1 DEF CountedAt
          <6> QED  BY <2>3, <3>3, <6>2 DEF TrueAck
        <5>3. AnswerOf(d, p.flight.question) \in Option
          BY <5>1, <5>2 DEF AnswerOf, Facing, EngineTypes
        <5>4. Base(d)'.question = Forecast(d)'.question
          <6> PICK y : y = Plain(z)
            OBVIOUS
          <6>1. y \in ProperPage /\ y.question = z.question /\ y.state = z.state
            BY <1>12
          <6>2. Ahead(y, t).question = Ahead(z, t).question
            BY <1>1, <6>1, AheadQuestion
          <6> QED  BY <1>7, <6>2
        <5>5. StudentState(d).question = p.flight.question
          BY <1>8, <1>12, <1>13, <4>1, <4>3, <5>1, <5>4 DEF Settled
        <5>6. StudentState(d).answer \in Option
          BY <5>1, <5>3, <5>5, StateOpen
        <5>7. None \notin Option
          BY ClassAssumption DEF ClassAssumption
        <5> QED  BY <1>12, <4>1, <4>3, <5>1, <5>6, <5>7
      <4> QED  BY <2>1, <4>2, <4>3
    <3> QED  BY <3>2, <3>3
  <2> QED  BY <2>2, <2>3
<1>14. Settled(d) => Settled(d)'
  <2>1. Answering(d)' = Answering(d) /\ Joined(d)' = Joined(d)
    BY <1>2, <1>8, <1>11 DEF Answering, Joined
  <2> QED  BY <1>3, <1>8, <1>13, <2>1 DEF Settled
<1>15. Covered(Sent(d), Forecast(d), d) => Covered(Sent(d), Forecast(d), d)'
  BY <1>2, <1>8, <1>11 DEF Covered
<1>16. MeetsAt(d)'
  BY <1>4, <1>11, <1>14, <1>15 DEF MeetsAt
<1> QED  BY <1>5, <1>6, <1>16 DEF AgreementAt

\* It is asked for its hello.
LEMMA AgreeAsked ==
  ASSUME Shape, NEW d \in Device, AgreementAt(d),
         UNCHANGED <<engine, client, teacherLink, session, SIDS, links, sent, link>>,
         link[d] = "up", down[d] # << >>, down'[d] = Tail(down[d]), page'[d] = page[d],
         Head(down[d]).type = "teacher-online", PageEmits(d, Hello(d, links[d]))
  PROVE  AgreementAt(d)'
<1> PICK s : s = down[d]
  OBVIOUS
<1> PICK t : t = Tail(s)
  OBVIOUS
<1> PICK h : h = Greeting(d, links[d])
  OBVIOUS
<1>1. /\ s \in Seq(PageMsg) /\ s # << >> /\ Head(s) \in PageMsg /\ Range(s) = {Head(s)} \cup Range(t)
      /\ down'[d] = t
  <2>1. s \in Seq(PageMsg) /\ s # << >>
    BY PageTypes
  <2> QED  BY <2>1, HeadTailProperties, RangeHeadTail
<1>2. UNCHANGED qstate
  BY DEF engine
<1>3. /\ inbox \in Seq(InboxMsg) /\ << h >> \in Seq(InboxMsg) /\ Range(<< h >>) = {h}
      /\ << h >> # << >> /\ << h >>[Len(<< h >>)] = h /\ ~ AnswerOfDevice(h, d)
  <2>1. Hello(d, links[d]) = << h >> /\ ~ AnswerOfDevice(h, d)
    BY DEF Hello, Greeting, AnswerOfDevice
  <2>2. Hello(d, links[d]) \in Seq(InboxMsg)
    BY HelloType
  <2>3. << h >> # << >> /\ << h >>[Len(<< h >>)] = h
    OBVIOUS
  <2> QED  BY <2>1, <2>2, <2>3, PageTypes, RangeOne
<1>4. /\ inbox' = inbox \/ inbox' = inbox \o << h >>
      /\ session = "lobby" /\ teacherLink = "up" => inbox' = inbox \o << h >>
      /\ buffer'[d] = buffer[d]
  <2>1. Hello(d, links[d]) = << h >> /\ buffer \in [Device -> Seq(AnswerMsg(Device, Sid \cup {0}))]
    BY DEF Hello, Greeting, Shape, Types
  <2>2. session = "lobby" => links[d] \in SIDS[d]
    BY DEF Shape, LinkShape
  <2> QED  BY <2>1, <2>2 DEF PageEmits, ToTeacher
<1>5. /\ Range(inbox') = Range(inbox) \/ Range(inbox') = Range(inbox) \cup {h}
      /\ session = "lobby" /\ teacherLink = "up" => h \in Range(inbox')
  <2>1. Range(inbox \o << h >>) = Range(inbox) \cup {h}
    BY <1>3, RangeAppendOne
  <2> QED  BY <1>4, <2>1
<1>6. PostedAt(d) /\ MeetsAt(d)
  BY DEF AgreementAt
<1>7. Increasing(inbox', d)
  <2>1. Increasing(inbox, d) /\ Increasing(<< h >>, d)
    BY <1>6, IncreasingOne DEF PostedAt
  <2>2. Increasing(inbox \o << h >>, d)
    BY <1>3, <2>1, IncreasingAppended
  <2> QED  BY <1>4, <2>1, <2>2
<1>8. PostedAt(d)'
  BY <1>1, <1>2, <1>3, <1>4, <1>5, <1>6, <1>7 DEF PostedAt
<1>9. WaitsAt(d)'
  BY DEF WaitsAt
<1>10. MeetsAt(d)'
  <2>1. SUFFICES ASSUME Connected(d)
                 PROVE  /\ Greeted(d)' /\ Covered(Sent(d), Forecast(d), d)'
                        /\ Trails(inbox', d, links'[d])
    BY DEF MeetsAt, Connected
  <2>2. inbox' = inbox \o << h >> /\ h \in Range(inbox')
    BY <1>4, <1>5, <2>1 DEF Connected
  <2>3. Greeted(d)'
    BY <2>2 DEF Greeted
  <2>4. Trails(inbox', d, links'[d])
    <3>1. Trails(inbox \o << h >>, d, links[d])
      BY <1>3, TrailsAppended
    <3> QED  BY <2>2, <3>1
  <2>5. Sent(d)' = Sent(d)
    BY <1>3, <1>5 DEF Sent
  <2>6. Forecast(d)' = Forecast(d)
    <3>1. After(page[d], Head(s)) = page[d]
      BY <1>1, AfterNotice DEF Snap
    <3>2. Ahead(page[d], s) = Ahead(page[d], t)
      BY <1>1, <3>1, AheadTail
    <3> QED  BY <1>1, <3>2 DEF Forecast
  <2>7. Covered(Sent(d), Forecast(d), d)'
    BY <1>2, <1>6, <2>1, <2>5, <2>6 DEF MeetsAt, Covered
  <2> QED  BY <2>3, <2>4, <2>7
<1> QED  BY <1>8, <1>9, <1>10 DEF AgreementAt

\* The page handles the next message.
LEMMA AgreePageReceives ==
  ASSUME Shape, Shape', Facing, Facing', NEW d \in Device, CountedAt(d), AgreementAt(d),
         PageReceives(d)
  PROVE  AgreementAt(d)'
<1> DEFINE m == Head(down[d])
<1>0. m = Head(down[d])
  OBVIOUS
<1> HIDE DEF m
<1>1. /\ link[d] = "up" /\ down[d] # << >> /\ m \in PageMsg
      /\ down' = [down EXCEPT ![d] = Tail(@)]
      /\ UNCHANGED <<engine, client, teacherLink, session, SIDS, links, sent>>
      /\ \/ /\ m.type = "question"
            /\ page' = [page EXCEPT ![d] = AfterBroadcast(page[d], m)]
            /\ UNCHANGED <<inbox, link, buffer>>
         \/ /\ m.type = "state"
            /\ page' = [page EXCEPT ![d] = AfterSnapshot(page[d], m.question, m.state, m.answer)]
            /\ UNCHANGED <<inbox, link, buffer>>
         \/ /\ m.type = "received"
            /\ page' = [page EXCEPT ![d] = AfterReceived(page[d], m.nonce)]
            /\ UNCHANGED <<inbox, link, buffer>>
         \/ /\ m.type = "teacher-online"
            /\ PageEmits(d, Hello(d, links[d])) /\ UNCHANGED <<page, link>>
         \/ /\ m.type = "ended"
            /\ link' = [link EXCEPT ![d] = "closed"]
            /\ UNCHANGED <<inbox, buffer>>
  BY <1>0, PageReceivesCases
<1>2. /\ page \in [Device -> Page] /\ down \in [Device -> Seq(PageMsg)]
      /\ link \in [Device -> {"up", "broken", "down", "closed"}]
  BY DEF Shape, Types
<1>3. down'[d] = Tail(down[d])
  BY <1>1, <1>2
<1>4. CASE /\ Snap(m) \/ m.type = "received"
           /\ page'[d] = After(page[d], m) /\ UNCHANGED <<inbox, link, buffer>>
  BY <1>0, <1>1, <1>3, <1>4, AgreeTurn
<1>5. CASE m.type = "question" /\ page' = [page EXCEPT ![d] = AfterBroadcast(page[d], m)]
  <2>1. page'[d] = After(page[d], m)
    BY <1>2, <1>5 DEF After
  <2> QED  BY <1>1, <1>4, <1>5, <2>1 DEF Snap
<1>6. CASE /\ m.type = "state"
           /\ page' = [page EXCEPT ![d] = AfterSnapshot(page[d], m.question, m.state, m.answer)]
  <2>1. page'[d] = After(page[d], m)
    BY <1>2, <1>6 DEF After
  <2> QED  BY <1>1, <1>4, <1>6, <2>1 DEF Snap
<1>7. CASE m.type = "received" /\ page' = [page EXCEPT ![d] = AfterReceived(page[d], m.nonce)]
  <2>1. page'[d] = After(page[d], m)
    BY <1>2, <1>7 DEF After
  <2> QED  BY <1>1, <1>4, <1>7, <2>1
<1>8. CASE m.type = "teacher-online"
  BY <1>0, <1>1, <1>3, <1>8, AgreeAsked
<1>9. CASE m.type = "ended"
  <2>1. link'[d] = "closed" /\ UNCHANGED <<inbox, buffer>> /\ UNCHANGED qstate
    BY <1>1, <1>2, <1>9 DEF engine
  <2>2. \A x \in Range(down'[d]) : x \in Range(down[d])
    BY <1>1, <1>2, <1>3, RangeHeadTail
  <2>3. PostedAt(d)'
    BY <1>1, <2>1, <2>2 DEF AgreementAt, PostedAt
  <2> QED  BY <2>1, <2>3 DEF AgreementAt, WaitsAt, MeetsAt, Connected
<1> QED  BY <1>1, <1>5, <1>6, <1>7, <1>8, <1>9

-----------------------------------------------------------------------------
\* What a step of the page of x, or of the relay about it, leaves alone; and what it
\* puts in the queue to the teacher.
Adds(x) ==
  /\ UNCHANGED <<engine, client, teacherLink, session>>
  /\ \A d \in Device \ {x} :
       /\ page'[d] = page[d] /\ sent'[d] = sent[d] /\ down'[d] = down[d]
       /\ buffer'[d] = buffer[d] /\ link'[d] = link[d] /\ links'[d] = links[d]
  /\ \E r \in Seq(InboxMsg) : /\ inbox' = inbox \o r
                              /\ \A m \in Range(r) : m.type # "roster" /\ m.device = x

\* Nothing is put there.
LEMMA AddsNothing ==
  ASSUME Shape, inbox' = inbox
  PROVE  \E r \in Seq(InboxMsg) : inbox' = inbox \o r /\ Range(r) = {}
<1>1. inbox \in Seq(InboxMsg)
  BY PageTypes DEF Shape, Types
<1>2. << >> \in Seq(InboxMsg) /\ inbox \o << >> = inbox
  BY <1>1
<1> QED  BY <1>2, RangeEmpty

\* What a page emits is its own.
LEMMA AddsEmitted ==
  ASSUME Shape, NEW x \in Device, NEW m, PageEmits(x, << m >>), link[x] = "up" => m \in InboxMsg,
         m.type # "roster", m.device = x
  PROVE  \E r \in Seq(InboxMsg) : /\ inbox' = inbox \o r
                                  /\ \A n \in Range(r) : n.type # "roster" /\ n.device = x
<1>1. CASE inbox' = inbox
  BY <1>1, AddsNothing
<1>2. CASE link[x] = "up" /\ inbox' = inbox \o << m >>
  <2>1. << m >> \in Seq(InboxMsg) /\ Range(<< m >>) = {m}
    BY <1>2, RangeOne
  <2> QED  BY <1>2, <2>1
<1> QED  BY <1>1, <1>2 DEF PageEmits, ToTeacher

\* The links of the page, and what the relay notices of them.
LEMMA AddsLinks ==
  ASSUME Shape, NEW x \in Device,
         \/ PageConnects(x) \/ PageRefused(x) \/ PageLinkBreaks(x) \/ PageNotices(x)
         \/ Reload(x) \/ Resync(x) \/ \E sid \in Sid : RelayNotices(x, sid)
  PROVE  Adds(x)
<1>0. /\ page \in [Device -> Page] /\ down \in [Device -> Seq(PageMsg)]
      /\ link \in [Device -> {"up", "broken", "down", "closed"}]
      /\ links \in [Device -> 0 .. MaxLinks]
      /\ buffer \in [Device -> Seq(AnswerMsg(Device, Sid \cup {0}))]
      /\ inbox \in Seq(InboxMsg)
  BY DEF Shape, Types
<1>1. CASE PageConnects(x)
  <2>1. /\ links[x] + 1 \in Sid
        /\ link' = [link EXCEPT ![x] = "up"] /\ links' = [links EXCEPT ![x] = @ + 1]
        /\ inbox' = ToTeacher(Arrival(x)) /\ buffer' = [buffer EXCEPT ![x] = << >>]
        /\ UNCHANGED <<engine, client, teacherLink, session, down, page, sent>>
    BY <1>1, ConnectsEffects DEF pages
  <2>2. /\ Arrival(x) \in Seq(InboxMsg)
        /\ \A m \in Range(Arrival(x)) : m.type # "roster" /\ m.device = x
    BY <2>1, ArrivalRange
  <2>3. \E r \in Seq(InboxMsg) : /\ inbox' = inbox \o r
                                 /\ \A m \in Range(r) : m.type # "roster" /\ m.device = x
    <3>1. CASE teacherLink = "up"
      BY <2>1, <2>2, <3>1 DEF ToTeacher
    <3>2. CASE teacherLink # "up"
      BY <2>1, <3>2, AddsNothing DEF ToTeacher
    <3> QED  BY <3>1, <3>2
  <2> QED  BY <1>0, <2>1, <2>3 DEF Adds
<1>2. CASE PageRefused(x)
  <2>1. /\ link' = [link EXCEPT ![x] = "closed"] /\ page' = [page EXCEPT ![x] = BlankPage("error")]
        /\ UNCHANGED <<engine, client, teacherLink, inbox, session, links, down, buffer, sent>>
    BY <1>2 DEF PageRefused, teacherNet, relay
  <2> QED  BY <1>0, <2>1, AddsNothing DEF Adds
<1>3. CASE PageLinkBreaks(x)
  <2>1. /\ link' = [link EXCEPT ![x] = "broken"] /\ down' = [down EXCEPT ![x] = << >>]
        /\ UNCHANGED <<engine, client, teacherLink, inbox, session, links, buffer, page, sent>>
    BY <1>3 DEF PageLinkBreaks, teacherNet, relay, pages
  <2> QED  BY <1>0, <2>1, AddsNothing DEF Adds
<1>4. CASE PageNotices(x)
  <2>1. /\ link' = [link EXCEPT ![x] = "down"]
        /\ UNCHANGED <<engine, client, teacherLink, inbox, session, links, down, buffer, page, sent>>
    BY <1>4 DEF PageNotices, teacherNet, relay, pages
  <2> QED  BY <1>0, <2>1, AddsNothing DEF Adds
<1>5. CASE Reload(x)
  <2>1. /\ link' = [link EXCEPT ![x] = "down"] /\ page' = [page EXCEPT ![x] = FreshPage]
        /\ down' = [down EXCEPT ![x] = << >>] /\ buffer' = [buffer EXCEPT ![x] = << >>]
        /\ UNCHANGED <<engine, client, teacherLink, inbox, session, links, sent>>
    BY <1>5 DEF Reload, teacherNet, relay
  <2> QED  BY <1>0, <2>1, AddsNothing DEF Adds
<1>6. CASE Resync(x)
  <2> PICK h : h = Greeting(x, links[x])
    OBVIOUS
  <2>1. /\ link[x] = "up" /\ PageEmits(x, << h >>)
        /\ UNCHANGED <<engine, client, teacherLink, session, link, links, down, page, sent>>
    BY <1>6 DEF Resync, Hello, Greeting, pages
  <2>2. h \in InboxMsg /\ h.type # "roster" /\ h.device = x
    <3>1. links[x] \in Sid
      BY <2>1 DEF Shape, LinkShape
    <3> QED  BY <3>1 DEF Greeting, InboxMsg, HelloMsg
  <2>3. \A d \in Device \ {x} : buffer'[d] = buffer[d]
    BY <1>0, <2>1 DEF PageEmits
  <2> QED  BY <1>0, <2>1, <2>2, <2>3, AddsEmitted DEF Adds
<1>7. ASSUME NEW sid \in Sid, RelayNotices(x, sid) PROVE Adds(x)
  <2> PICK h : h = [type |-> "presence", device |-> x, sid |-> sid, connected |-> FALSE]
    OBVIOUS
  <2>1. /\ inbox' = ToTeacher(<< h >>)
        /\ UNCHANGED <<engine, client, teacherLink, session, link, links, down, buffer, page, sent>>
    BY <1>7 DEF RelayNotices, Presence, pageNet, pages
  <2>2. << h >> \in Seq(InboxMsg) /\ Range(<< h >>) = {h} /\ h.type # "roster" /\ h.device = x
    <3>1. h \in InboxMsg
      BY DEF InboxMsg, PresenceMsg
    <3>2. h.type # "roster" /\ h.device = x
      OBVIOUS
    <3>3. << h >> \in Seq(InboxMsg)
      BY <3>1
    <3> QED  BY <3>2, <3>3, RangeOne
  <2>3. \E r \in Seq(InboxMsg) : /\ inbox' = inbox \o r
                                 /\ \A m \in Range(r) : m.type # "roster" /\ m.device = x
    <3>1. CASE teacherLink = "up"
      <4>1. inbox' = inbox \o << h >> /\ \A m \in Range(<< h >>) : m.type # "roster" /\ m.device = x
        BY <2>1, <2>2, <3>1 DEF ToTeacher
      <4> QED  BY <2>2, <4>1
    <3>2. CASE teacherLink # "up"
      BY <2>1, <3>2, AddsNothing DEF ToTeacher
    <3> QED  BY <3>1, <3>2
  <2> QED  BY <1>0, <2>1, <2>3 DEF Adds
<1> QED  BY <1>1, <1>2, <1>3, <1>4, <1>5, <1>6, <1>7

\* What is handled and done on the page.
LEMMA AddsPage ==
  ASSUME Shape, NEW x \in Device,
         \/ PageReceives(x) \/ CancelPending(x) \/ ConfirmPending(x) \/ AckTimeout(x) \/ Resend(x)
         \/ \E o \in Option : RequestSubmit(x, o)
  PROVE  Adds(x)
<1>0. /\ page \in [Device -> Page] /\ down \in [Device -> Seq(PageMsg)]
      /\ link \in [Device -> {"up", "broken", "down", "closed"}]
      /\ buffer \in [Device -> Seq(AnswerMsg(Device, Sid \cup {0}))]
      /\ sent \in [Device -> 0 .. MaxAnswers]
  BY DEF Shape, Types
<1>1. CASE CancelPending(x) \/ AckTimeout(x) \/ \E o \in Option : RequestSubmit(x, o)
  <2>1. /\ \A d \in Device \ {x} : page'[d] = page[d]
        /\ UNCHANGED <<engine, client, teacherLink, inbox, session, link, links, down, buffer, sent>>
    BY <1>0, <1>1 DEF CancelPending, AckTimeout, RequestSubmit, onlyPage, teacherNet, relay, pageNet
  <2> QED  BY <2>1, AddsNothing DEF Adds
<1>2. CASE ConfirmPending(x) \/ Resend(x)
  <2>1. PICK q \in ChoiceQuestion, o \in Option, pending \in Option \cup {None} :
          q = page[x].question /\ q # None /\ Transmit(x, q, o, pending)
    <3>1. page[x] \in Page /\ (page[x].question # None => page[x].question \in ChoiceQuestion)
      BY DEF Shape, Types, Page
    <3> QED  BY <1>2, <3>1, ConfirmTransmits, ResendTransmits
  <2> PICK m : m = [type |-> "answer", device |-> x, sid |-> links[x],
                    question |-> q, answer |-> o, nonce |-> sent'[x]]
    OBVIOUS
  <2>2. /\ sent'[x] \in Nonce
        /\ \A d \in Device \ {x} : page'[d] = page[d] /\ sent'[d] = sent[d]
        /\ UNCHANGED <<engine, client, teacherLink, session, link, links, down>>
    BY <2>1, TransmitEffects
  <2>3. PageEmits(x, << m >>)
    BY <2>1, TransmitEffects
  <2>4. (link[x] = "up" => m \in InboxMsg) /\ m.type # "roster" /\ m.device = x
    BY <2>1, <2>2 DEF InboxMsg, AnswerMsg, Shape, LinkShape
  <2>5. \A d \in Device \ {x} : buffer'[d] = buffer[d]
    BY <1>0, <2>3 DEF PageEmits
  <2> QED  BY <2>2, <2>3, <2>4, <2>5, AddsEmitted DEF Adds
<1>3. CASE PageReceives(x)
  <2>1. /\ link[x] = "up" /\ down' = [down EXCEPT ![x] = Tail(@)]
        /\ UNCHANGED <<engine, client, teacherLink, session, links, sent>>
        /\ \A d \in Device \ {x} : page'[d] = page[d] /\ link'[d] = link[d]
        /\ UNCHANGED <<inbox, buffer>> \/ PageEmits(x, Hello(x, links[x]))
    BY <1>0, <1>3 DEF PageReceives, OnTeacherOnline
  <2>2. \A d \in Device \ {x} : buffer'[d] = buffer[d]
    BY <1>0, <2>1 DEF PageEmits
  <2>3. \E r \in Seq(InboxMsg) : /\ inbox' = inbox \o r
                                 /\ \A m \in Range(r) : m.type # "roster" /\ m.device = x
    <3>1. CASE inbox' = inbox
      BY <3>1, AddsNothing
    <3>2. CASE PageEmits(x, Hello(x, links[x]))
      <4> PICK h : h = Greeting(x, links[x])
        OBVIOUS
      <4>1. Hello(x, links[x]) = << h >> /\ h \in InboxMsg /\ h.type # "roster" /\ h.device = x
        <5>1. links[x] \in Sid
          BY <2>1 DEF Shape, LinkShape
        <5> QED  BY <5>1 DEF Hello, Greeting, InboxMsg, HelloMsg
      <4> QED  BY <3>2, <4>1, AddsEmitted
    <3> QED  BY <2>1, <3>1, <3>2
  <2> QED  BY <1>0, <2>1, <2>2, <2>3 DEF Adds
<1> QED  BY <1>1, <1>2, <1>3

\* The steps of another page.
LEMMA AgreeOther ==
  ASSUME Shape, Facing, Facing', NEW d \in Device, AgreementAt(d), NEW x \in Device \ {d}, Adds(x)
  PROVE  AgreementAt(d)'
<1>1. PICK r \in Seq(InboxMsg) : /\ inbox' = inbox \o r
                                 /\ \A m \in Range(r) : m.type # "roster" /\ m.device = x
  BY DEF Adds
<1>2. \A m \in Range(r) : m.type # "roster" /\ ~ AnswerOfDevice(m, d)
  BY <1>1 DEF AnswerOfDevice
<1> QED  BY <1>1, <1>2, AgreeElse DEF Adds

\* The page says hello once more, or the relay notices that a connection is gone.
LEMMA AgreeHeard ==
  ASSUME Shape, Facing, Facing', NEW d \in Device, AgreementAt(d),
         Resync(d) \/ \E sid \in Sid : RelayNotices(d, sid)
  PROVE  AgreementAt(d)'
<1>1. /\ UNCHANGED <<engine, client, teacherLink, session>>
      /\ page' = page /\ sent' = sent /\ down' = down /\ link' = link /\ links' = links
      /\ buffer'[d] = buffer[d]
  BY DEF Resync, RelayNotices, PageEmits, pages, pageNet
<1>2. PICK r \in Seq(InboxMsg) : /\ inbox' = inbox \o r
                                 /\ \A m \in Range(r) : m.type \in {"hello", "presence"}
  <2>1. CASE inbox' = inbox
    BY <2>1, AddsNothing
  <2>2. CASE Resync(d) /\ inbox' = inbox \o Hello(d, links[d])
    <3>1. Hello(d, links[d]) \in Seq(InboxMsg) /\ Range(Hello(d, links[d])) = {Greeting(d, links[d])}
      BY <2>2, HelloType, RangeOne DEF Resync, Hello, Greeting
    <3> QED  BY <2>2, <3>1 DEF Greeting
  <2>3. ASSUME NEW sid \in Sid, inbox' = inbox \o Presence(d, sid, FALSE)
        PROVE  \E r \in Seq(InboxMsg) : /\ inbox' = inbox \o r
                                        /\ \A m \in Range(r) : m.type \in {"hello", "presence"}
    <3> PICK h : h = [type |-> "presence", device |-> d, sid |-> sid, connected |-> FALSE]
      OBVIOUS
    <3>1. Presence(d, sid, FALSE) = << h >> /\ << h >> \in Seq(InboxMsg) /\ Range(<< h >>) = {h}
      BY PresenceType, RangeOne DEF Presence
    <3>2. h.type = "presence"
      OBVIOUS
    <3> QED  BY <2>3, <3>1, <3>2
  <2> QED  BY <2>1, <2>2, <2>3 DEF Resync, RelayNotices, PageEmits, ToTeacher
<1>3. \A m \in Range(r) : m.type # "roster" /\ ~ AnswerOfDevice(m, d)
  BY <1>2 DEF AnswerOfDevice
<1> QED  BY <1>1, <1>2, <1>3, AgreeElse

-----------------------------------------------------------------------------
\* The question that is open after a step is what the engine shows after it.
LEMMA StateOpenNext ==
  Facing' => \A d \in Device :
    /\ \A q \in ChoiceQuestion : qstate'[q] = "open" =>
         /\ StudentState(d)'.question = q /\ StudentState(d)'.state = "open"
         /\ StudentState(d)'.answer = AnswerOf(d, q)'
    /\ StudentState(d)'.state = "open" =>
         /\ StudentState(d)'.question \in ChoiceQuestion
         /\ qstate'[StudentState(d)'.question] = "open"
<1> DEFINE P(d) == /\ \A q \in ChoiceQuestion : qstate[q] = "open" =>
                        /\ StudentState(d).question = q /\ StudentState(d).state = "open"
                        /\ StudentState(d).answer = AnswerOf(d, q)
                   /\ StudentState(d).state = "open" =>
                        /\ StudentState(d).question \in ChoiceQuestion
                        /\ qstate[StudentState(d).question] = "open"
<1>1. Facing => \A d \in Device : P(d)
  BY StateOpen
<1>2. Facing' => (\A d \in Device : P(d))'
  BY <1>1, PTL
<1> QED  BY <1>2

\* What the teacher's client says comes after what is under way to the page.
LEMMA SpeaksTo ==
  ASSUME Shape, NEW out, Emittable(out), TeacherEmits(out), NEW d \in Device, Connected(d)
  PROVE  /\ down'[d] = down[d] \o For(links[d], out[d])
         /\ For(links[d], out[d]) \in Seq(PageMsg) /\ down[d] \in Seq(PageMsg)
         /\ Range(down'[d]) = Range(down[d]) \cup Range(For(links[d], out[d]))
<1>1. link[d] = "up" /\ links[d] \in SIDS[d] /\ teacherLink = "up"
  BY DEF Connected, Shape, LinkShape
<1>2. down'[d] = down[d] \o For(links[d], out[d])
  BY <1>1 DEF TeacherEmits, Reaching
<1>3. For(links[d], out[d]) \in Seq(PageMsg) /\ down[d] \in Seq(PageMsg)
  <2>1. out[d] \in Seq(Item(Spoken \cup ReceivedMsg))
    BY DEF Emittable
  <2>2. For(links[d], out[d]) \in Seq(Spoken \cup ReceivedMsg)
    BY <2>1, ForPicks
  <2> QED  BY <2>2, SeqMonotonic, PageTypes DEF PageMsg
<1> QED  BY <1>2, <1>3, AddedRange

\* The questions that are open after a step and had been opened before.
LEMMA OpenBefore ==
  ASSUME Facing, EngineMoves, NEW q \in ChoiceQuestion, qstate[q] # "ready", qstate'[q] = "open"
  PROVE  qstate[q] = "open"
BY DEF Facing, EngineTypes, EngineMoves

\* An answer has its types.
LEMMA AnswerTypes ==
  ASSUME Shape, NEW d \in Device
  PROVE  /\ \A m \in Range(inbox) : AnswerOfDevice(m, d) =>
              m \in AnswerMsg(Device, Sid) /\ m.question \in ChoiceQuestion /\ m.nonce \in Nat
         /\ \A m \in Range(buffer[d]) : m.question \in ChoiceQuestion
<1>1. inbox \in Seq(InboxMsg) /\ buffer[d] \in Seq(AnswerMsg({d}, Sid \cup {0}))
  BY PageTypes
<1>2. ASSUME NEW m \in Range(inbox), AnswerOfDevice(m, d)
      PROVE  m \in AnswerMsg(Device, Sid) /\ m.question \in ChoiceQuestion /\ m.nonce \in Nat
  <2>1. m \in InboxMsg
    BY <1>1, RangeOfSeq
  <2>2. m \in AnswerMsg(Device, Sid)
    BY <1>2, <2>1 DEF InboxMsg, HelloMsg, PresenceMsg, RosterMsg, AnswerOfDevice
  <2> QED  BY <2>2 DEF AnswerMsg, Nonce
<1>3. ASSUME NEW m \in Range(buffer[d]) PROVE m.question \in ChoiceQuestion
  <2>1. m \in AnswerMsg({d}, Sid \cup {0})
    BY <1>1, RangeOfSeq
  <2> QED  BY <2>1 DEF AnswerMsg
<1> QED  BY <1>2, <1>3

\* The teacher's client speaks, and may have taken the next event.
LEMMA AgreeSpeaks ==
  ASSUME Shape, Facing, Facing', EngineMoves, NEW d \in Device, PostedAt(d), WaitsAt(d),
         NEW out, Emittable(out), TeacherEmits(out),
         UNCHANGED <<session, link, links, buffer, page, sent>>,
         inbox' = inbox \/ (inbox # << >> /\ inbox' = Tail(inbox))
  PROVE  PostedAt(d)' /\ WaitsAt(d)'
<1>1. inbox \in Seq(InboxMsg)
  BY PageTypes
<1>2. \A m \in Range(inbox') : m \in Range(inbox)
  BY <1>1, RangeHeadTail
<1>3. Increasing(inbox', d)
  BY <1>1, IncreasingTail DEF PostedAt
<1>4. \A y \in ChoiceQuestion : qstate[y] # "ready" => qstate'[y] # "ready"
  BY DEF EngineMoves
<1>5. \A m \in Range(inbox') : AnswerOfDevice(m, d) => qstate'[m.question] # "ready"
  BY <1>2, <1>4, AnswerTypes DEF PostedAt
<1>6. \A m \in Range(buffer[d]) : qstate'[m.question] # "ready"
  BY <1>4, AnswerTypes DEF PostedAt
<1>7. ASSUME session = "lobby", NEW m \in Range(down'[d]) PROVE m.type # "ended"
  <2>1. CASE m \in Range(down[d])
    BY <1>7, <2>1 DEF PostedAt
  <2>2. ASSUME NEW x \in Range(out[d]), m = x.msg PROVE m.type # "ended"
    <3>1. out[d] \in Seq(Item(Spoken \cup ReceivedMsg))
      BY DEF Emittable
    <3>2. x \in Item(Spoken \cup ReceivedMsg)
      BY <3>1, RangeOfSeq
    <3>3. m \in Spoken \cup ReceivedMsg
      BY <2>2, <3>2 DEF Item
    <3> QED  BY <3>3 DEF Spoken, ReceivedMsg, NoQuestion, StateOf, QuestionMsg
  <2> QED  BY <2>1, <2>2, EmitsRange DEF Shape
<1>8. PostedAt(d)'
  BY <1>2, <1>3, <1>5, <1>6, <1>7 DEF PostedAt
<1>9. WaitsAt(d)'
  <2>1. SUFFICES ASSUME link[d] = "down", NEW m \in Range(buffer[d]), qstate'[m.question] = "open"
                 PROVE  qstate[m.question] = "open"
    BY DEF WaitsAt, Covered
  <2> QED  BY <2>1, AnswerTypes, OpenBefore DEF PostedAt
<1> QED  BY <1>8, <1>9

\* A question is opened: every page goes on to it.
LEMMA AgreeTrigger ==
  ASSUME Shape, Facing, Facing', EngineMoves, NEW d \in Device, AgreementAt(d),
         NEW q \in ChoiceQuestion, TriggerLiveQuestion(q)
  PROVE  AgreementAt(d)'
<1> DEFINE out == [x \in Device |-> Broadcast(q)]
<1> PICK m : m = [type |-> "question", question |-> q, state |-> qstate'[q]]
  OBVIOUS
<1>1. /\ qstate[q] = "ready" /\ Engine!Trigger(q) /\ TeacherEmits(out)
      /\ UNCHANGED <<client, teacherLink, inbox, session, link, links, buffer, page, sent>>
  BY DEF TriggerLiveQuestion, relay, pages
<1>2. /\ qstate'[q] = "open" /\ \A y \in ChoiceQuestion : qstate[y] # "open"
      /\ UNCHANGED <<participants, answers, deviceBySid, connectedSids>>
  BY <1>1 DEF Engine!Trigger, Engine!MayOpen, Engine!Question, Facing, EngineTypes, client
<1>3. Emittable(out)
  BY <1>2, BroadcastType, ItemMonotonic DEF Emittable
<1>4. out[d] = << [to |-> Sid, msg |-> m] >>
  BY DEF Broadcast, Addressed
<1> HIDE DEF out
<1>5. m \in PageMsg /\ Snap(m) /\ m.type = "question" /\ m.question = q /\ m.state = "open"
  BY <1>2 DEF PageMsg, Spoken, QuestionMsg, Snap
<1>6. PostedAt(d) /\ WaitsAt(d) /\ MeetsAt(d)
  BY DEF AgreementAt
<1>7. PostedAt(d)' /\ WaitsAt(d)'
  BY <1>1, <1>3, <1>6, AgreeSpeaks
<1>8. MeetsAt(d)'
  <2>1. SUFFICES ASSUME Connected(d)
                 PROVE  /\ Greeted(d)' \/ Settled(d)'
                        /\ Covered(Sent(d), Forecast(d), d)'
                        /\ Awaited(d)' \/ Trails(inbox', d, links'[d])
    BY <1>1 DEF MeetsAt, Connected
  <2>2. For(links[d], out[d]) = << m >>
    <3>1. links[d] \in Sid
      BY <2>1 DEF Connected, Shape, LinkShape
    <3> PICK x : x = [to |-> Sid, msg |-> m]
      OBVIOUS
    <3>2. x.to = Sid /\ x.msg = m
      OBVIOUS
    <3>3. For(links[d], << x >>) = IF links[d] \in x.to THEN << x.msg >> ELSE << >>
      BY ForOne
    <3>4. For(links[d], << x >>) = << m >>
      BY <3>1, <3>2, <3>3
    <3> QED  BY <1>4, <3>4
  <2>3. /\ down'[d] = down[d] \o << m >> /\ down[d] \in Seq(PageMsg)
        /\ Range(down'[d]) = Range(down[d]) \cup {m}
    <3>1. /\ down'[d] = down[d] \o For(links[d], out[d]) /\ down[d] \in Seq(PageMsg)
          /\ Range(down'[d]) = Range(down[d]) \cup Range(For(links[d], out[d]))
      BY <1>1, <1>3, <2>1, SpeaksTo
    <3>2. Range(<< m >>) = {m}
      BY RangeOne
    <3> QED  BY <2>2, <3>1, <3>2
  <2>4. Forecast(d)' = After(Forecast(d), m)
    <3>1. Ahead(page[d], down[d] \o << m >>) = After(Ahead(page[d], down[d]), m)
      BY <1>5, <2>3, AheadAppended
    <3> QED  BY <1>1, <2>3, <3>1 DEF Forecast
  <2>5. Awaited(d) => Awaited(d)'
    BY <2>3 DEF Awaited
  <2>6. Greeted(d) => Greeted(d)'
    BY <1>1, <2>5 DEF Greeted
  <2>7. Covered(Sent(d), Forecast(d), d)'
    <3>1. SUFFICES ASSUME NEW x \in Sent(d), qstate'[x.question] = "open" PROVE FALSE
      BY <1>1 DEF Covered, Sent
    <3>2. x \in Range(inbox) /\ AnswerOfDevice(x, d)
      BY <3>1 DEF Sent
    <3> QED  BY <1>2, <1>6, <3>1, <3>2, AnswerTypes, OpenBefore DEF PostedAt
  <2>8. ASSUME Settled(d) PROVE Settled(d)'
    <3>1. /\ StudentState(d)'.question = q /\ StudentState(d)'.state = "open"
          /\ StudentState(d)'.answer = AnswerOf(d, q)'
      BY <1>2, StateOpenNext
    <3>2. AnswerOf(d, q)' = None
      BY <1>1, <1>2 DEF AnswerOf, Facing
    <3>3. Forecast(d).question # q
      <4>1. Forecast(d).question = StudentState(d).question
        BY <2>8 DEF Settled
      <4>2. StudentState(d).question # q
        BY <1>1, ClassAssumption DEF Facing, ClassAssumption
      <4> QED  BY <4>1, <4>2
    <3>4. /\ Forecast(d)'.question = q /\ Forecast(d)'.state = "open"
          /\ Forecast(d)'.selected = None
      <4>1. Forecast(d) \in ProperPage
        BY PageTypes
      <4> QED  BY <1>5, <2>4, <3>3, <4>1, AfterSnap
    <3>5. Joined(d)'
      BY <1>1, <1>2, <2>8 DEF Settled, Joined
    <3> QED  BY <3>1, <3>2, <3>4, <3>5 DEF Settled
  <2> QED  BY <1>1, <1>6, <2>1, <2>5, <2>6, <2>7, <2>8 DEF MeetsAt
<1> QED  BY <1>7, <1>8 DEF AgreementAt

\* Two messages, one after the other.
LEMMA PairOf ==
  ASSUME NEW x, NEW y PROVE << x >> \o << y >> = << x, y >>
<1> DEFINE S == {x, y}
           s == << x >> \o << y >>
           t == << x, y >>
<1>1. << x >> \in Seq(S) /\ << y >> \in Seq(S) /\ Len(<< x >>) = 1 /\ Len(<< y >>) = 1
  OBVIOUS
<1>2. t \in Seq(S) /\ Len(t) = 2 /\ t[1] = x /\ t[2] = y
  OBVIOUS
<1>3. s \in Seq(S) /\ Len(s) = 2 /\ s[1] = x /\ s[2] = y
  BY <1>1, ConcatProperties
<1> HIDE DEF s, t, S
<1>4. s \in [1 .. 2 -> S] /\ t \in [1 .. 2 -> S]
  BY <1>2, <1>3, LenProperties
<1>5. \A i \in 1 .. 2 : s[i] = t[i]
  BY <1>2, <1>3
<1>6. s = t
  BY <1>4, <1>5
<1> QED  BY <1>6 DEF s, t

\* A question is closed: every page that the client knows is told what it recorded.
LEMMA AgreeClose ==
  ASSUME Shape, Facing, Facing', EngineMoves, NEW d \in Device, AgreementAt(d),
         NEW q \in ChoiceQuestion, CloseLiveQuestion(q)
  PROVE  AgreementAt(d)'
<1> DEFINE told(x) == SendStudentState(x, connectedSids[x] \cap deviceBySid[x])
           out == [x \in Device |-> Broadcast(q) \o told(x)]
<1> PICK m : m = [type |-> "question", question |-> q, state |-> qstate'[q]]
  OBVIOUS
<1> PICK s : s = StudentState(d)'
  OBVIOUS
<1>1. /\ qstate[q] = "open" /\ Engine!Close(q) /\ TeacherEmits(out)
      /\ UNCHANGED <<client, teacherLink, inbox, session, link, links, buffer, page, sent>>
  BY DEF CloseLiveQuestion, relay, pages
<1>2. /\ qstate' = [qstate EXCEPT ![q] = "closed"]
      /\ UNCHANGED <<participants, answers, deviceBySid, connectedSids, opened_at, clock>>
  BY <1>1 DEF Engine!Close, Engine!answered, client
<1>3. \A y \in ChoiceQuestion : qstate'[y] # "open"
  BY <1>1, <1>2 DEF Facing, EngineTypes
<1>4. qstate'[q] = "closed"
  BY <1>2 DEF Facing, EngineTypes
<1>5. Emittable(out)
  <2>1. ASSUME NEW x \in Device PROVE out[x] \in Seq(Item(Spoken))
    <3>1. connectedSids[x] \cap deviceBySid[x] \in SUBSET Sid
      BY DEF Shape, Types
    <3>2. Broadcast(q) \in Seq(Item(Spoken)) /\ told(x) \in Seq(Item(Spoken))
      BY <1>4, <3>1, BroadcastType, SendStudentStateType
    <3>3. out[x] = Broadcast(q) \o told(x)
      OBVIOUS
    <3> HIDE DEF out, told
    <3> QED  BY <3>2, <3>3, ConcatProperties
  <2> HIDE DEF out
  <2> QED  BY <2>1, ItemMonotonic DEF Emittable
<1>6. out[d] = Broadcast(q) \o told(d)
  OBVIOUS
<1> HIDE DEF out
<1>7. PostedAt(d) /\ WaitsAt(d) /\ MeetsAt(d)
  BY DEF AgreementAt
<1>8. PostedAt(d)' /\ WaitsAt(d)'
  BY <1>1, <1>5, <1>7, AgreeSpeaks
<1>9. s.question = q /\ s.state = "closed"
  <2>1. /\ Facing /\ Facing' /\ q \in ChoiceQuestion
    OBVIOUS
  <2>2. q = Current /\ clock # 0
    BY <1>1 DEF Facing, EngineTypes
  <2>3. Current' = Current
    BY <1>2 DEF Current
  <2> QED  BY <1>2, <1>4, <2>2, <2>3 DEF Facing
<1>10. m \in PageMsg /\ s \in PageMsg /\ Snap(m) /\ Snap(s) /\ s.type = "state"
  <2>1. s \in Spoken
    BY StateSpokenNext
  <2>2. s.type = "state"
    BY DEF StudentState
  <2>3. m \in PageMsg /\ Snap(m)
    BY <1>4 DEF PageMsg, Spoken, QuestionMsg, Snap
  <2> QED  BY <2>1, <2>2, <2>3 DEF PageMsg, Snap
<1>11. MeetsAt(d)'
  <2>1. SUFFICES ASSUME Connected(d)
                 PROVE  /\ Greeted(d)' \/ Settled(d)'
                        /\ Covered(Sent(d), Forecast(d), d)'
                        /\ Awaited(d)' \/ Trails(inbox', d, links'[d])
    BY <1>1 DEF MeetsAt, Connected
  <2>2. /\ down'[d] = down[d] \o For(links[d], out[d]) /\ down[d] \in Seq(PageMsg)
        /\ Range(down'[d]) = Range(down[d]) \cup Range(For(links[d], out[d]))
    BY <1>1, <1>5, <2>1, SpeaksTo
  <2>3. Awaited(d) => Awaited(d)'
    BY <2>2 DEF Awaited
  <2>4. Greeted(d) => Greeted(d)'
    BY <1>1, <2>3 DEF Greeted
  <2>5. Covered(Sent(d), Forecast(d), d)'
    <3>1. SUFFICES ASSUME NEW x \in Sent(d), qstate'[x.question] = "open" PROVE FALSE
      BY <1>1 DEF Covered, Sent
    <3>2. x \in Range(inbox) /\ AnswerOfDevice(x, d)
      BY <3>1 DEF Sent
    <3> QED  BY <1>3, <3>1, <3>2, AnswerTypes
  <2>6. ASSUME Settled(d) PROVE Settled(d)'
    <3>1. Joined(d) /\ Joined(d)'
      BY <1>1, <1>2, <2>6 DEF Settled, Joined
    <3> PICK x : x = [to |-> Sid, msg |-> m]
      OBVIOUS
    <3> PICK y : y = [to |-> connectedSids[d] \cap deviceBySid[d], msg |-> s]
      OBVIOUS
    <3>2. out[d] = << x, y >>
      <4>1. told(d) = << y >>
        BY <1>2, <3>1 DEF SendStudentState, Addressed, Joined
      <4>2. Broadcast(q) = << x >>
        BY DEF Broadcast, Addressed
      <4>3. << x >> \o << y >> = << x, y >>
        BY PairOf
      <4> HIDE DEF told
      <4> QED  BY <1>6, <4>1, <4>2, <4>3
    <3>3. For(links[d], out[d]) = << m, s >>
      <4>1. links[d] \in x.to /\ links[d] \in y.to /\ x.msg = m /\ y.msg = s
        BY <2>1, <3>1 DEF Connected, Shape, LinkShape, Joined
      <4>2. For(links[d], << x, y >>) =
              IF links[d] \in y.to THEN << x.msg, y.msg >> ELSE << x.msg >>
        BY <4>1, ForTwo
      <4> QED  BY <3>2, <4>1, <4>2
    <3>4. down'[d] = (down[d] \o << m >>) \o << s >> /\ down[d] \o << m >> \in Seq(PageMsg)
      BY <1>10, <2>2, <3>3, SMTT(40)
    <3>5. ASSUME NEW p \in ProperPage
          PROVE  /\ Ahead(p, down'[d]).question = q /\ Ahead(p, down'[d]).state = "closed"
                 /\ Ahead(p, down'[d]).selected = s.answer
      <4> PICK a : a = Ahead(p, down[d])
        OBVIOUS
      <4>1. a \in ProperPage /\ After(a, m) \in ProperPage
        BY <1>10, <2>2, AheadProper, AfterProper
      <4>2. Ahead(p, down[d] \o << m >>) = After(a, m)
        BY <1>10, <2>2, AheadAppended
      <4>3. Ahead(p, (down[d] \o << m >>) \o << s >>) = After(Ahead(p, down[d] \o << m >>), s)
        BY <1>10, <3>4, AheadAppended
      <4> PICK b : b = After(a, m)
        OBVIOUS
      <4>4. After(b, s).question = q /\ After(b, s).state = "closed" /\ After(b, s).selected = s.answer
        BY <1>9, <1>10, <4>1, AfterSnap
      <4> QED  BY <3>4, <4>2, <4>3, <4>4
    <3>6. page[d] \in ProperPage /\ Plain(page[d]) \in ProperPage
      BY PageTypes
    <3>7. /\ Forecast(d)'.question = s.question /\ Forecast(d)'.state = s.state
          /\ Base(d)'.selected = s.answer
      BY <1>1, <1>9, <3>5, <3>6 DEF Forecast, Base
    <3> QED  BY <1>9, <3>1, <3>7 DEF Settled
  <2> QED  BY <1>1, <1>7, <2>1, <2>3, <2>4, <2>5, <2>6 DEF MeetsAt
<1> QED  BY <1>8, <1>11 DEF AgreementAt

-----------------------------------------------------------------------------
\* The elements of what is put at the head of a queue.
LEMMA ConsRange ==
  ASSUME NEW S, NEW x \in S, NEW b \in Seq(S)
  PROVE  Range(<< x >> \o b) = {x} \cup Range(b)
<1>1. \A u \in Seq(S) : Range(u \o b) = Range(u) \cup Range(b)
  BY AddedRange
<1>2. << x >> \in Seq(S)
  OBVIOUS
<1>3. Range(<< x >> \o b) = Range(<< x >>) \cup Range(b)
  BY <1>1, <1>2, Zenon
<1>4. Range(<< x >>) = {x}
  BY RangeOne
<1> QED  BY <1>3, <1>4, Zenon

\* The teacher's link comes back: every page will be asked for its hello.
LEMMA AgreeTeacherConnects ==
  ASSUME Shape, NEW d \in Device, AgreementAt(d), TeacherConnects
  PROVE  AgreementAt(d)'
<1> PICK m : m = [type |-> "roster", sids |-> SIDS, pinned |-> pinned]
  OBVIOUS
<1> PICK online : online = [type |-> "teacher-online"]
  OBVIOUS
<1>1. /\ inbox' = << m >> /\ UNCHANGED <<engine, session, link, links, buffer, page, sent>>
      /\ down'[d] = down[d] \o Reaching(d, Welcome(d))
  BY DEF TeacherConnects, pages, Welcome, relay
<1>2. UNCHANGED qstate /\ Range(inbox') = {m} /\ Increasing(inbox', d) /\ ~ AnswerOfDevice(m, d)
  BY <1>1, RangeOne, IncreasingOne DEF engine, AnswerOfDevice
<1> PICK w : w = Welcome(d)
  OBVIOUS
<1>3. /\ w \in Seq(Item(PageMsg)) /\ Reaching(d, w) \in Seq(PageMsg) /\ down[d] \in Seq(PageMsg)
      /\ Range(down'[d]) = Range(down[d]) \cup Range(Reaching(d, w))
  <2>1. w \in Seq(Item(PageMsg)) /\ Reaching(d, w) \in Seq(PageMsg) /\ down[d] \in Seq(PageMsg)
    BY WelcomeType, PageTypes DEF Shape
  <2> QED  BY <1>1, <2>1, AddedRange
<1>4. /\ w[1] = [to |-> Sid, msg |-> online] /\ Len(w) \in Nat /\ 1 \in 1 .. Len(w)
      /\ \A x \in Range(w) : x.msg = online \/ x.msg \in Spoken
  <2> PICK x : x = [to |-> Sid, msg |-> online]
    OBVIOUS
  <2> PICK b : b = sendBuffer[d]
    OBVIOUS
  <2>1. w = << x >> \o b
    BY DEF Welcome, Addressed
  <2>2. /\ online \in PageMsg /\ x \in Item(PageMsg) /\ x.msg = online
    BY DEF PageMsg, Notice, Item
  <2>3. b \in Seq(Item(Spoken)) /\ b \in Seq(Item(PageMsg))
    <3>1. b \in Seq(Item(Spoken))
      BY DEF Shape, Types
    <3> QED  BY <3>1, ItemMonotonic DEF PageMsg
  <2>4. << x >> \in Seq(Item(PageMsg)) /\ Len(<< x >>) = 1 /\ << x >>[1] = x
    BY <2>2
  <2>5. Range(w) = {x} \cup Range(b)
    <3>1. Range(<< x >> \o b) = {x} \cup Range(b)
      BY <2>2, <2>3, ConsRange
    <3> QED  BY <2>1, <3>1
  <2>6. Len(w) = 1 + Len(b) /\ Len(b) \in Nat
    BY <2>1, <2>3, <2>4, ConcatProperties, LenProperties
  <2>7. 1 \in 1 .. Len(w)
    BY <2>6
  <2>8. w[1] = x
    BY <2>1, <2>3, <2>4, <2>6, ConcatProperties
  <2>9. \A y \in Range(b) : y.msg \in Spoken
    <3>1. \A y \in Range(b) : y \in Item(Spoken)
      BY <2>3, RangeOfSeq
    <3> QED  BY <3>1 DEF Item
  <2> QED  BY <2>2, <2>5, <2>6, <2>7, <2>8, <2>9
<1>5. ASSUME NEW y \in Range(Reaching(d, w)) PROVE y.type # "ended"
  <2>1. y \in Range(For(links[d], w))
    BY <1>5, RangeEmpty DEF Reaching
  <2>2. PICK x \in Range(w) : y = x.msg
    BY <1>3, <2>1, ForRange
  <2>3. y = online \/ y \in Spoken
    BY <1>4, <2>2
  <2> QED  BY <2>3 DEF Spoken, NoQuestion, StateOf, QuestionMsg
<1>6. PostedAt(d)'
  BY <1>1, <1>2, <1>3, <1>5 DEF AgreementAt, PostedAt
<1>7. WaitsAt(d)'
  BY <1>1, <1>2 DEF AgreementAt, WaitsAt, Covered
<1>8. MeetsAt(d)'
  <2>1. SUFFICES ASSUME Connected(d)' PROVE Awaited(d)' /\ Sent(d)' = {}
    BY DEF MeetsAt, Greeted, Covered
  <2>2. Sent(d)' = {}
    BY <1>2 DEF Sent
  <2>3. links[d] \in Sid /\ links[d] \in SIDS[d] /\ link[d] = "up"
    BY <1>1, <2>1 DEF Connected, Shape, LinkShape
  <2> PICK r : r = For(links[d], w)
    OBVIOUS
  <2>4. Reaching(d, w) = r /\ r \in Seq(PageMsg)
    BY <1>3, <2>3 DEF Reaching
  <2>5. PICK h : Picks(h, links[d], w, Len(w), r)
    BY <1>3, ForPicks
  <2>6. links[d] \in w[1].to
    BY <1>4, <2>3
  <2>7. PICK k \in 1 .. Len(r) : h[k] = 1
    BY <1>4, <2>5, <2>6 DEF Picks
  <2>8. r[k] = online
    BY <1>4, <2>5, <2>7 DEF Picks
  <2>9. online \in Range(r)
    <3>1. Range(r) = {r[i] : i \in 1 .. Len(r)}
      BY <2>4, RangeEquality
    <3> QED  BY <2>8, <3>1
  <2> QED  BY <1>3, <2>2, <2>4, <2>9 DEF Awaited
<1> QED  BY <1>6, <1>7, <1>8 DEF AgreementAt

\* The teacher's link breaks, she notices, or the class ends.
LEMMA AgreeTeacherGone ==
  ASSUME Shape, NEW d \in Device, AgreementAt(d), TeacherLinkBreaks \/ TeacherNotices \/ SessionEnds
  PROVE  AgreementAt(d)'
<1>1. CASE TeacherLinkBreaks
  BY <1>1, AgreeApart DEF TeacherLinkBreaks, relay, pageNet, pages
<1>2. CASE TeacherNotices
  <2>1. inbox = << >>
    BY <1>2 DEF TeacherNotices, Shape, TeacherShape
  <2> QED  BY <1>2, <2>1, AgreeApart DEF TeacherNotices, relay, pageNet, pages
<1>3. CASE SessionEnds
  BY <1>3, AgreeApart DEF SessionEnds, pages
<1> QED  BY <1>1, <1>2, <1>3

\* The links of the page, and the student's steps short of sending.
LEMMA AgreeOwn ==
  ASSUME Shape, Shape', Facing, Facing', NEW d \in Device, AgreementAt(d),
         \/ PageRefused(d) \/ PageLinkBreaks(d) \/ PageNotices(d) \/ Reload(d)
         \/ CancelPending(d) \/ AckTimeout(d) \/ \E o \in Option : RequestSubmit(d, o)
  PROVE  AgreementAt(d)'
<1>0. /\ page \in [Device -> Page] /\ down \in [Device -> Seq(PageMsg)]
      /\ link \in [Device -> {"up", "broken", "down", "closed"}]
      /\ buffer \in [Device -> Seq(AnswerMsg(Device, Sid \cup {0}))]
      /\ page[d] \in ProperPage /\ page'[d] \in ProperPage
  BY DEF Shape, Types, ProperPage
<1>1. CASE PageRefused(d)
  <2>1. /\ link'[d] = "closed"
        /\ UNCHANGED <<engine, inbox, session, links, down, buffer, sent>>
    BY <1>0, <1>1 DEF PageRefused, teacherNet, relay
  <2> QED  BY <2>1, AgreeLink
<1>2. CASE PageLinkBreaks(d)
  <2>1. /\ link'[d] = "broken" /\ down'[d] = << >>
        /\ UNCHANGED <<engine, inbox, session, links, buffer, sent>>
    BY <1>0, <1>2 DEF PageLinkBreaks, teacherNet, relay, pages
  <2> QED  BY <2>1, AgreeLink
<1>3. CASE PageNotices(d)
  <2>1. /\ link'[d] = "down" /\ buffer[d] = << >>
        /\ UNCHANGED <<engine, inbox, session, links, down, buffer, sent>>
    BY <1>0, <1>3 DEF PageNotices, teacherNet, relay, pages, Shape, LinkShape
  <2> QED  BY <2>1, AgreeLink
<1>4. CASE Reload(d)
  <2>1. /\ link'[d] = "down" /\ down'[d] = << >> /\ buffer'[d] = << >>
        /\ UNCHANGED <<engine, inbox, session, links, sent>>
    BY <1>0, <1>4 DEF Reload, teacherNet, relay
  <2> QED  BY <2>1, AgreeLink
<1>5. CASE CancelPending(d) \/ AckTimeout(d) \/ \E o \in Option : RequestSubmit(d, o)
  <2>1. UNCHANGED <<engine, client, teacherLink, session, inbox, link, links, down, buffer, sent>>
    BY <1>5 DEF CancelPending, AckTimeout, RequestSubmit, onlyPage, teacherNet, relay, pageNet
  <2>2. Alike(page[d], page'[d])
    <3> PICK p : p = page[d]
      OBVIOUS
    <3>1. p \in Page
      BY <1>0 DEF ProperPage
    <3>2. ASSUME NEW o, page' = [page EXCEPT ![d].pending = o] PROVE Alike(page[d], page'[d])
      <4>1. page'[d] = [p EXCEPT !.pending = o]
        BY <1>0, <3>2
      <4> QED  BY <3>1, <4>1 DEF Alike, Page
    <3>3. CASE AckTimeout(d)
      <4>1. page'[d] = [p EXCEPT !.flight.phase = "failed"] /\ p.flight # None
        BY <1>0, <3>3 DEF AckTimeout, Submitting
      <4> PICK f : f = p.flight
        OBVIOUS
      <4>2. f \in InFlight
        BY <3>1, <4>1 DEF Page
      <4> PICK g : g = [f EXCEPT !.phase = "failed"]
        OBVIOUS
      <4>3. /\ g \in InFlight /\ g.nonce = f.nonce /\ g.question = f.question
            /\ g.answer = f.answer
        BY <4>2 DEF InFlight
      <4>4. page'[d] = [p EXCEPT !.flight = g]
        BY <3>1, <4>1 DEF Page
      <4>5. /\ page'[d].flight = g /\ page'[d].question = p.question /\ page'[d].state = p.state
            /\ page'[d].selected = p.selected
        BY <3>1, <4>4 DEF Page
      <4> QED  BY <4>1, <4>3, <4>5, NullAssumption DEF Alike
    <3> QED  BY <1>5, <3>2, <3>3 DEF CancelPending, RequestSubmit
  <2> QED  BY <1>0, <2>1, <2>2, AgreeForm
<1> QED  BY <1>1, <1>2, <1>3, <1>4, <1>5

-----------------------------------------------------------------------------
\* What the teacher's client says about one device, to the page that is connected.
LEMMA SaidReaches ==
  ASSUME Shape, Facing', NEW x \in Device, NEW sid \in Sid, NEW o, SaidTo(x, sid, o),
         TeacherEmits([Nothing EXCEPT ![x] = o]), NEW d \in Device, Connected(d)
  PROVE  /\ x # d \/ sid # links[d] \/ o = << >> => down'[d] = down[d]
         /\ \A msg : x = d /\ sid = links[d] /\ o = Addressed({sid}, msg)
                       => down'[d] = down[d] \o << msg >>
<1> PICK out : out = [Nothing EXCEPT ![x] = o]
  OBVIOUS
<1> PICK r : r = For(links[d], out[d])
  OBVIOUS
<1>1. out[d] = IF d = x THEN o ELSE << >>
  BY DEF Nothing
<1>2. Emittable(out) /\ TeacherEmits(out)
  <2>1. teacherLink = "up"
    BY DEF Connected
  <2>2. o \in Seq(Item(Spoken \cup ReceivedMsg))
    BY SaidType
  <2> QED  BY <2>1, <2>2, AboutOne
<1>3. down'[d] = down[d] \o r /\ down[d] \in Seq(PageMsg)
  BY <1>2, SpeaksTo
<1>4. ASSUME r = << >> PROVE down'[d] = down[d]
  <2>1. down[d] \o << >> = down[d]
    BY <1>3, ConcatEmptySeq
  <2> QED  BY <1>3, <1>4, <2>1
<1>5. ASSUME NEW msg, o = Addressed({sid}, msg)
      PROVE  For(links[d], o) = IF sid = links[d] THEN << msg >> ELSE << >>
  <2> PICK y : y = [to |-> {sid}, msg |-> msg]
    OBVIOUS
  <2>1. y.to = {sid} /\ y.msg = msg
    OBVIOUS
  <2>2. For(links[d], << y >>) = IF links[d] \in y.to THEN << y.msg >> ELSE << >>
    BY ForOne
  <2>3. o = << y >>
    BY <1>5 DEF Addressed
  <2> QED  BY <2>1, <2>2, <2>3
<1>6. For(links[d], << >>) = << >>
  BY ForNone
<1>7. o = << >> \/ \E msg : o = Addressed({sid}, msg)
  BY DEF SaidTo
<1>8. ASSUME x # d \/ sid # links[d] \/ o = << >> PROVE r = << >>
  BY <1>1, <1>5, <1>6, <1>7, <1>8
<1>9. ASSUME NEW msg, x = d, sid = links[d], o = Addressed({sid}, msg)
      PROVE  r = << msg >>
  BY <1>1, <1>5, <1>9
<1> QED  BY <1>3, <1>4, <1>8, <1>9

\* What it says about the device of that page, by its connection.
LEMMA SaidTold ==
  ASSUME Shape, Facing', NEW d \in Device, NEW msg, NEW o, SaidTo(d, links[d], o),
         TeacherEmits([Nothing EXCEPT ![d] = o]), o = Addressed({links[d]}, msg), Connected(d)
  PROVE  down'[d] = down[d] \o << msg >>
<1>1. links[d] \in Sid
  BY DEF Connected, Shape, LinkShape
<1>2. \A m : o = Addressed({links[d]}, m) => down'[d] = down[d] \o << m >>
  BY <1>1, SaidReaches, Zenon
<1> QED  BY <1>2, Zenon

\* What the engine would show to a page is about the same question, in the same state,
\* as long as nothing is opened or closed.
LEMMA StateAsked ==
  ASSUME Facing, Facing', UNCHANGED <<qstate, opened_at, clock>>, NEW d \in Device
  PROVE  /\ StudentState(d)'.question = StudentState(d).question
         /\ StudentState(d)'.state = StudentState(d).state
         /\ (\A q \in ChoiceQuestion : q = StudentState(d).question =>
               AnswerOf(d, q)' = AnswerOf(d, q))
              => StudentState(d)'.answer = StudentState(d).answer
<1>1. Current' = Current
  BY DEF Current
<1>2. CASE clock = 0
  BY <1>1, <1>2 DEF Facing
<1>3. CASE clock # 0
  BY <1>1, <1>3 DEF Facing
<1> QED  BY <1>2, <1>3

\* The answers under way without the one that the client takes.
LEMMA TakenSent ==
  ASSUME Shape, NEW d \in Device, PostedAt(d), CountedAt(d), inbox # << >>, inbox' = Tail(inbox),
         links'[d] = links[d], NEW m, m = Head(inbox), NEW S, S = Sent(d)'
  PROVE  /\ m \in Range(inbox) /\ Range(inbox) = {m} \cup Range(inbox')
         /\ S \subseteq Sent(d) /\ Sent(d) \subseteq S \cup {m}
         /\ AnswerOfDevice(m, d) /\ m.nonce = sent[d] => S = {}
         /\ \A p : Covered(Sent(d), p, d) => Covered(S, p, d)
<1>1. inbox \in Seq(InboxMsg) /\ sent[d] \in Nat
  BY PageTypes
<1>2. Range(inbox) = {m} \cup Range(inbox')
  BY <1>1, RangeHeadTail
<1>3. S \subseteq Sent(d) /\ Sent(d) \subseteq S \cup {m}
  BY <1>2 DEF Sent
<1>4. ASSUME AnswerOfDevice(m, d), m.nonce = sent[d] PROVE S = {}
  <2>1. SUFFICES ASSUME NEW x \in S PROVE FALSE
    OBVIOUS
  <2>2. x \in Range(inbox') /\ x \in Range(inbox) /\ AnswerOfDevice(x, d)
    BY <1>2, <2>1 DEF Sent
  <2>3. m.nonce < x.nonce
    BY <1>1, <1>4, <2>2, IncreasingTail DEF PostedAt
  <2>4. x.nonce <= sent[d]
    BY <2>2 DEF CountedAt, FromPage, AnswerOfDevice
  <2>5. x.nonce \in Nat
    BY <2>2, AnswerTypes
  <2> QED  BY <1>1, <1>4, <2>3, <2>4, <2>5
<1>5. ASSUME NEW p, Covered(Sent(d), p, d) PROVE Covered(S, p, d)
  <2>1. SUFFICES ASSUME NEW x \in S, qstate[x.question] = "open"
                 PROVE  /\ p.flight # None /\ p.flight.question = x.question
                        /\ \E y \in S : y.nonce = sent[d] /\ y.question = x.question
    BY DEF Covered
  <2>2. /\ p.flight # None /\ p.flight.question = x.question
        /\ \E y \in Sent(d) : y.nonce = sent[d] /\ y.question = x.question
    BY <1>3, <1>5, <2>1 DEF Covered
  <2>3. PICK y \in Sent(d) : y.nonce = sent[d] /\ y.question = x.question
    BY <2>2
  <2>4. y \in S
    <3>1. CASE y = m
      BY <1>4, <2>1, <2>3, <3>1 DEF Sent
    <3> QED  BY <1>3, <2>3, <3>1
  <2> QED  BY <2>2, <2>3, <2>4
<1> QED  BY <1>2, <1>3, <1>4, <1>5

\* The client takes an event and says nothing to this page.
LEMMA MeetsSilent ==
  ASSUME Shape, Facing, Facing', NEW d \in Device, CountedAt(d), AgreementAt(d), Connected(d),
         UNCHANGED <<qstate, opened_at, clock>>,
         page'[d] = page[d], sent'[d] = sent[d], links'[d] = links[d], down'[d] = down[d],
         inbox # << >>, inbox' = Tail(inbox), NEW m, m = Head(inbox),
         m # Greeting(d, links[d]),
         \/ Stale(m, d, links[d])
         \/ Settled(d) => /\ Joined(d)' /\ m \notin Sent(d)
                          /\ \A q \in ChoiceQuestion : AnswerOf(d, q)' = AnswerOf(d, q)
  PROVE  /\ Greeted(d)' \/ Settled(d)'
         /\ Covered(Sent(d), Forecast(d), d)'
         /\ Awaited(d)' \/ Trails(inbox', d, links'[d])
<1> PICK S : S = Sent(d)'
  OBVIOUS
<1>1. PostedAt(d) /\ MeetsAt(d) /\ inbox \in Seq(InboxMsg)
  BY PageTypes DEF AgreementAt
<1>2. /\ Range(inbox) = {m} \cup Range(inbox') /\ S \subseteq Sent(d) /\ Sent(d) \subseteq S \cup {m}
      /\ \A p : Covered(Sent(d), p, d) => Covered(S, p, d)
  BY <1>1, TakenSent
<1>3. Forecast(d)' = Forecast(d) /\ Base(d)' = Base(d) /\ Awaited(d)' = Awaited(d)
  BY DEF Forecast, Base, Awaited
<1>4. /\ Greeted(d) \/ Settled(d)
      /\ Covered(Sent(d), Forecast(d), d)
      /\ Awaited(d) \/ Trails(inbox, d, links[d])
  BY <1>1 DEF MeetsAt
<1>5. Covered(Sent(d), Forecast(d), d)'
  <2>1. Covered(Sent(d), Forecast(d), d)
    BY <1>1 DEF MeetsAt
  <2>2. Covered(S, Forecast(d), d)
    BY <1>2, <2>1
  <2> QED  BY <1>3, <2>2 DEF Covered
<1>6. Trails(inbox, d, links[d]) =>
        /\ Trails(inbox', d, links[d])
        /\ Stale(m, d, links[d]) => Greeting(d, links[d]) \in Range(inbox')
  BY <1>1, TrailsTail
<1>7. Greeted(d) => Greeted(d)'
  BY <1>2, <1>3 DEF Greeted, Greeting
<1>8. Greeted(d)' \/ Settled(d)'
  <2>1. CASE Stale(m, d, links[d])
    BY <1>3, <1>4, <1>6, <2>1 DEF Greeted, Greeting
  <2>2. CASE Settled(d) /\ ~ Stale(m, d, links[d])
    <3>1. /\ Joined(d)' /\ m \notin Sent(d)
          /\ \A q \in ChoiceQuestion : AnswerOf(d, q)' = AnswerOf(d, q)
      BY <2>2
    <3>2. StudentState(d)' = StudentState(d)
      BY <3>1, StateSame
    <3>3. Answering(d) => Answering(d)'
      BY <1>2, <1>3, <3>1 DEF Answering
    <3> QED  BY <1>3, <2>2, <3>1, <3>2, <3>3 DEF Settled
  <2> QED  BY <1>1, <1>7, <2>1, <2>2 DEF MeetsAt
<1> QED  BY <1>3, <1>4, <1>5, <1>6, <1>8

\* The client takes an event and tells this page its state.
LEMMA MeetsTold ==
  ASSUME Shape, Facing, Facing', NEW d \in Device, CountedAt(d), AgreementAt(d), Connected(d),
         UNCHANGED <<qstate, opened_at, clock>>,
         page'[d] = page[d], sent'[d] = sent[d], links'[d] = links[d],
         down'[d] = down[d] \o << StudentState(d)' >>,
         inbox # << >>, inbox' = Tail(inbox), NEW m, m = Head(inbox),
         Joined(d)' \/ (m # Greeting(d, links[d]) /\ (Settled(d) => Joined(d)'))
  PROVE  /\ Greeted(d)' \/ Settled(d)'
         /\ Covered(Sent(d), Forecast(d), d)'
         /\ Awaited(d)' \/ Trails(inbox', d, links'[d])
<1> PICK S : S = Sent(d)'
  OBVIOUS
<1> PICK s : s = StudentState(d)'
  OBVIOUS
<1>1. PostedAt(d) /\ MeetsAt(d) /\ inbox \in Seq(InboxMsg)
  BY PageTypes DEF AgreementAt
<1>2. /\ Range(inbox) = {m} \cup Range(inbox') /\ S \subseteq Sent(d)
      /\ \A p : Covered(Sent(d), p, d) => Covered(S, p, d)
  BY <1>1, TakenSent
<1>3. s \in PageMsg /\ Snap(s) /\ s.type = "state"
  <2>1. s \in Spoken
    BY StateSpokenNext
  <2>2. s.type = "state"
    BY DEF StudentState
  <2> QED  BY <2>1, <2>2 DEF PageMsg, Snap
<1>4. /\ down[d] \in Seq(PageMsg) /\ down'[d] = down[d] \o << s >>
      /\ Forecast(d) \in ProperPage /\ Base(d) \in ProperPage
  BY PageTypes
<1>5. Forecast(d)' = After(Forecast(d), s) /\ Base(d)' = After(Base(d), s)
  <2>1. /\ Ahead(page[d], down[d] \o << s >>) = After(Ahead(page[d], down[d]), s)
        /\ Ahead(Plain(page[d]), down[d] \o << s >>) = After(Ahead(Plain(page[d]), down[d]), s)
    BY <1>3, <1>4, AheadAppended
  <2> QED  BY <1>4, <2>1 DEF Forecast, Base
<1>6. /\ Forecast(d)'.question = s.question /\ Forecast(d)'.state = s.state
      /\ Forecast(d)'.selected = s.answer /\ Base(d)'.selected = s.answer
      /\ Forecast(d)'.flight =
           IF Forecast(d).flight # None /\ (s.question # Forecast(d).flight.question \/ s.state = "closed")
           THEN None ELSE Forecast(d).flight
  BY <1>3, <1>4, <1>5, AfterSnap
<1>7. Awaited(d) => Awaited(d)'
  <2>1. Range(down'[d]) = Range(down[d]) \cup {s}
    BY <1>4, RangeAppendOne
  <2> QED  BY <2>1 DEF Awaited
<1>8. Joined(d)' => Settled(d)'
  BY <1>6 DEF Settled
<1>9. Greeted(d)' \/ Settled(d)'
  <2>1. m # Greeting(d, links[d]) /\ Greeted(d) => Greeted(d)'
    BY <1>2, <1>7 DEF Greeted, Greeting
  <2> QED  BY <1>1, <1>8, <2>1 DEF MeetsAt
<1>10. Covered(Sent(d), Forecast(d), d)'
  <2>1. Covered(S, Forecast(d), d)
    BY <1>1, <1>2 DEF MeetsAt
  <2>2. SUFFICES ASSUME NEW x \in S, qstate[x.question] = "open"
                 PROVE  /\ Forecast(d)'.flight # None /\ Forecast(d)'.flight.question = x.question
                        /\ \E y \in S : y.nonce = sent[d] /\ y.question = x.question
    BY DEF Covered
  <2>3. /\ Forecast(d).flight # None /\ Forecast(d).flight.question = x.question
        /\ \E y \in S : y.nonce = sent[d] /\ y.question = x.question
    BY <2>1, <2>2 DEF Covered
  <2>4. x.question \in ChoiceQuestion
    BY <1>2, <2>2, AnswerTypes DEF Sent
  <2>5. s.question = x.question /\ s.state = "open"
    BY <2>2, <2>4, StateOpenNext
  <2> QED  BY <1>6, <2>3, <2>5
<1>11. Awaited(d)' \/ Trails(inbox', d, links'[d])
  BY <1>1, <1>7, TrailsTail DEF MeetsAt
<1> QED  BY <1>9, <1>10, <1>11

-----------------------------------------------------------------------------
\* The client takes an answer of this connection, which the engine accepts, and
\* acknowledges it.
LEMMA MeetsAcked ==
  ASSUME Shape, Facing, Facing', NEW d \in Device, CountedAt(d), AgreementAt(d), Connected(d),
         page'[d] = page[d], sent'[d] = sent[d], links'[d] = links[d],
         inbox # << >>, inbox' = Tail(inbox), NEW m, m = Head(inbox),
         AnswerOfDevice(m, d), m.sid = links[d], Engine!Accept(d, m.question, m.answer),
         Joined(d) => Joined(d)', NEW a \in PageMsg, a.type = "received", a.nonce = m.nonce,
         down'[d] = down[d] \o << a >>
  PROVE  /\ Greeted(d)' \/ Settled(d)'
         /\ Covered(Sent(d), Forecast(d), d)'
         /\ Awaited(d)' \/ Trails(inbox', d, links'[d])
<1> PICK S : S = Sent(d)'
  OBVIOUS
<1> PICK F : F = Forecast(d)
  OBVIOUS
<1> PICK G : G = Forecast(d)'
  OBVIOUS
<1>1. PostedAt(d) /\ MeetsAt(d) /\ inbox \in Seq(InboxMsg)
  BY PageTypes DEF AgreementAt
<1>2. /\ m \in Range(inbox) /\ Range(inbox) = {m} \cup Range(inbox')
      /\ S \subseteq Sent(d) /\ Sent(d) \subseteq S \cup {m}
      /\ m.nonce = sent[d] => S = {}
      /\ \A p : Covered(Sent(d), p, d) => Covered(S, p, d)
  BY <1>1, TakenSent
<1>3. /\ m \in Sent(d) /\ m.question \in ChoiceQuestion /\ m.answer \in Option /\ m.nonce \in Nat
      /\ FromPage(d, m)
  <2>1. m \in Sent(d)
    BY <1>2 DEF Sent
  <2>2. m \in AnswerMsg(Device, Sid) /\ m.question \in ChoiceQuestion /\ m.nonce \in Nat
    BY <1>2, AnswerTypes
  <2>3. m.answer \in Option
    BY <2>2 DEF AnswerMsg
  <2>4. FromPage(d, m)
    BY <1>2 DEF CountedAt, AnswerOfDevice
  <2> QED  BY <2>1, <2>2, <2>3, <2>4
<1>4. /\ down[d] \in Seq(PageMsg) /\ F \in ProperPage /\ Base(d) \in ProperPage
      /\ Base(d).flight = None /\ F.flight \in {None, page[d].flight}
  BY PageTypes
<1>5. /\ UNCHANGED <<qstate, opened_at, clock>>
      /\ qstate[m.question] = "open" => AnswerOf(d, m.question)' = m.answer
      /\ qstate[m.question] # "open" => UNCHANGED answers
      /\ \A y \in ChoiceQuestion : y # m.question => AnswerOf(d, y)' = AnswerOf(d, y)
  <2>1. EngineTypes
    BY DEF Facing
  <2>2. /\ UNCHANGED <<qstate, opened_at, clock>> /\ d \in DOMAIN answers'[m.question]
        /\ qstate[m.question] = "open" => answers'[m.question][d] = m.answer
        /\ qstate[m.question] # "open" => UNCHANGED answers
        /\ \A y \in ChoiceQuestion : y # m.question => AnswerOf(d, y)' = AnswerOf(d, y)
    BY <1>3, <2>1, AcceptRecords
  <2> QED  BY <2>2 DEF AnswerOf
<1>6. G = After(F, a) /\ Base(d)' = Base(d)
  <2>1. /\ Ahead(page[d], down[d] \o << a >>) = After(Ahead(page[d], down[d]), a)
        /\ Ahead(Plain(page[d]), down[d] \o << a >>) = After(Ahead(Plain(page[d]), down[d]), a)
    BY <1>4, AheadAppended
  <2>2. G = After(F, a) /\ Base(d)' = After(Base(d), a)
    BY <2>1 DEF Forecast, Base
  <2>3. After(Base(d), a) = Base(d)
    BY <1>4, AfterAck
  <2> QED  BY <2>2, <2>3
<1>7. /\ G.question = F.question /\ G.state = F.state
      /\ F.flight # None /\ F.flight.nonce = m.nonce => G.selected = F.flight.answer
      /\ F.flight = None \/ F.flight.nonce # m.nonce => G = F
  BY <1>4, <1>6, AfterAck
<1>8. F.flight # None => /\ F.flight = page[d].flight /\ F.flight.nonce = sent[d]
                         /\ F.flight.question = F.question
                         /\ m.nonce = sent[d] => /\ F.flight.question = m.question
                                                 /\ F.flight.answer = m.answer
  <2>1. PageShape(F)
    BY <1>4 DEF ProperPage
  <2> QED  BY <1>3, <1>4, <2>1 DEF PageShape, CountedAt, FromPage
<1>9. Covered(Sent(d), F, d)
  BY <1>1 DEF MeetsAt
<1>10. Awaited(d) => Awaited(d)'
  <2>1. Range(down'[d]) = Range(down[d]) \cup {a}
    BY <1>4, RangeAppendOne
  <2> QED  BY <2>1 DEF Awaited
<1>11. Greeted(d) => Greeted(d)'
  BY <1>2, <1>10 DEF Greeted, Greeting, AnswerOfDevice
<1>12. Covered(Sent(d), Forecast(d), d)'
  <2>1. CASE m.nonce = sent[d]
    BY <1>2, <2>1 DEF Covered
  <2>2. CASE m.nonce # sent[d]
    <3>1. G = F
      BY <1>7, <1>8, <2>2
    <3>2. Covered(S, G, d)
      BY <1>2, <1>9, <3>1
    <3> QED  BY <1>5, <3>2 DEF Covered
  <2> QED  BY <2>1, <2>2
<1>13. ASSUME Settled(d) PROVE Settled(d)'
  <2>1. /\ StudentState(d)'.question = StudentState(d).question
        /\ StudentState(d)'.state = StudentState(d).state
    BY <1>5, StateAsked
  <2>2. Joined(d)' /\ G.question = StudentState(d)'.question /\ G.state = StudentState(d)'.state
    BY <1>7, <1>13, <2>1 DEF Settled
  <2>3. ASSUME StudentState(d).question # m.question \/ qstate[m.question] # "open"
        PROVE  StudentState(d)'.answer = StudentState(d).answer
    <3>1. \A y \in ChoiceQuestion : y = StudentState(d).question =>
            AnswerOf(d, y)' = AnswerOf(d, y)
      BY <1>5, <2>3 DEF AnswerOf
    <3> QED  BY <1>5, <3>1, StateAsked
  <2>4. StudentState(d).state # "open" =>
          (Base(d)'.selected = None <=> StudentState(d)'.answer = None)
    <3>1. StudentState(d).state # "open" => qstate[m.question] # "open"
      BY <1>3, StateOpen
    <3> QED  BY <1>6, <1>13, <2>3, <3>1 DEF Settled
  <2>5. ASSUME StudentState(d).state = "open"
        PROVE  G.selected = StudentState(d)'.answer \/ Answering(d)'
    <3>1. CASE qstate[m.question] = "open"
      <4>1. /\ StudentState(d).question = m.question
            /\ StudentState(d)'.answer = AnswerOf(d, m.question)'
        BY <1>3, <1>5, <3>1, StateOpen, StateOpenNext
      <4>2. StudentState(d)'.answer = m.answer /\ F.question = m.question
        BY <1>5, <1>13, <3>1, <4>1 DEF Settled
      <4>3. /\ F.flight # None /\ F.flight.question = m.question
            /\ \E x \in Sent(d) : x.nonce = sent[d] /\ x.question = m.question
        BY <1>3, <1>9, <3>1 DEF Covered
      <4>4. CASE m.nonce = sent[d]
        BY <1>7, <1>8, <4>2, <4>3, <4>4
      <4>5. CASE m.nonce # sent[d]
        <5>1. G = F
          BY <1>7, <1>8, <4>5
        <5>2. PICK x \in Sent(d) : x.nonce = sent[d] /\ x.question = m.question
          BY <4>3
        <5>3. x \in S
          BY <1>2, <4>5, <5>2
        <5> QED  BY <4>2, <4>3, <5>1, <5>2, <5>3 DEF Answering
      <4> QED  BY <4>4, <4>5
    <3>2. CASE qstate[m.question] # "open"
      <4>1. StudentState(d)'.answer = StudentState(d).answer
        BY <2>3, <3>2
      <4>2. /\ StudentState(d).question # m.question /\ F.question = StudentState(d).question
            /\ F.selected = StudentState(d).answer \/ Answering(d)
        BY <1>13, <2>5, <3>2, StateOpen DEF Settled
      <4>3. G = F
        BY <1>7, <1>8, <4>2
      <4>4. Answering(d) => Answering(d)'
        <5>1. SUFFICES ASSUME F.flight # None,
                              NEW x \in Sent(d), x.nonce = sent[d], x.question = F.question
                       PROVE  x \in S
          BY <4>3 DEF Answering
        <5> QED  BY <1>2, <4>2, <5>1
      <4> QED  BY <4>1, <4>2, <4>3, <4>4
    <3> QED  BY <3>1, <3>2
  <2> QED  BY <2>1, <2>2, <2>4, <2>5 DEF Settled
<1>14. Greeted(d)' \/ Settled(d)'
  BY <1>1, <1>11, <1>13 DEF MeetsAt
<1>15. Awaited(d)' \/ Trails(inbox', d, links'[d])
  BY <1>1, <1>10, TrailsTail DEF MeetsAt
<1> QED  BY <1>12, <1>14, <1>15

-----------------------------------------------------------------------------
\* A connection that the client knows stays known, but for its end or a roster.
LEMMA JoinedStays ==
  ASSUME Shape, Tracked, TeacherReceives, NEW m, m = Head(inbox), m.type # "roster",
         NEW d \in Device, Connected(d), Joined(d), d \in participants'
  PROVE  Joined(d)'
<1>1. /\ teacherLink = "up" /\ inbox # << >> /\ m \in InboxMsg
      /\ UNCHANGED links
  BY ReceivesCases
<1>2. links[d] \in Sid /\ links[d] \in SIDS[d]
  BY DEF Connected, Shape, LinkShape
<1>3. m \in Range(inbox)
  <2>1. inbox \in Seq(InboxMsg)
    BY PageTypes
  <2> QED  BY <1>1, <2>1, RangeHeadTail
<1>4. TrulyGone(m)
  BY <1>1, <1>3 DEF Tracked
<1>5. /\ links[d] \in connectedSids'[d] <=> IF Decides(m, d, links[d]) THEN Says(m, d, links[d])
                                            ELSE links[d] \in connectedSids[d]
      /\ links[d] \in deviceBySid[d] \ deviceBySid'[d] =>
           m.type = "presence" /\ ~ m.connected /\ m.device = d /\ m.sid = links[d]
  BY <1>2, ClientHears
<1> QED  BY <1>1, <1>2, <1>4, <1>5 DEF Joined, Decides, Says, TrulyGone

\* What the client's step does to what the page will show.
LEMMA MeetsReceives ==
  ASSUME Shape, Facing, Facing', Tracked, NEW d \in Device, CountedAt(d), AgreementAt(d),
         TeacherReceives, Connected(d)
  PROVE  /\ Greeted(d)' \/ Settled(d)'
         /\ Covered(Sent(d), Forecast(d), d)'
         /\ Awaited(d)' \/ Trails(inbox', d, links'[d])
<1> DEFINE Goal == /\ Greeted(d)' \/ Settled(d)'
                   /\ Covered(Sent(d), Forecast(d), d)'
                   /\ Awaited(d)' \/ Trails(inbox', d, links'[d])
<1> SUFFICES Goal
  OBVIOUS
<1> HIDE DEF Goal
<1> PICK m : m = Head(inbox)
  OBVIOUS
<1>1. /\ teacherLink = "up" /\ inbox # << >> /\ inbox' = Tail(inbox) /\ m \in InboxMsg
      /\ UNCHANGED <<links, page, sent>>
      /\ \/ m \in HelloMsg /\ OnStudentHello(m.device, m.sid)
         \/ m \in AnswerMsg(Device, Sid) /\ OnAnswerAccepted(m.device, m)
         \/ m \in AnswerMsg(Device, Sid) /\ OnAnswerRejected(m.device, m)
         \/ m \in PresenceMsg /\ OnPresence(m.device, m)
         \/ m \in RosterMsg /\ OnRoster(m)
  BY ReceivesCases DEF pages
<1>2. ASSUME UNCHANGED <<qstate, opened_at, clock>>, down'[d] = down[d], m # Greeting(d, links[d]),
             \/ Stale(m, d, links[d])
             \/ Settled(d) => /\ Joined(d)' /\ m \notin Sent(d)
                              /\ \A q \in ChoiceQuestion : AnswerOf(d, q)' = AnswerOf(d, q)
      PROVE  Goal
  <2>1. page'[d] = page[d] /\ sent'[d] = sent[d] /\ links'[d] = links[d]
    BY <1>1
  <2> QED  BY <1>1, <1>2, <2>1, MeetsSilent DEF Goal
<1>3. ASSUME UNCHANGED <<qstate, opened_at, clock>>, down'[d] = down[d] \o << StudentState(d)' >>,
             Joined(d)' \/ (m # Greeting(d, links[d]) /\ (Settled(d) => Joined(d)'))
      PROVE  Goal
  <2>1. page'[d] = page[d] /\ sent'[d] = sent[d] /\ links'[d] = links[d]
    BY <1>1
  <2> QED  BY <1>1, <1>3, <2>1, MeetsTold DEF Goal
<1>4. ASSUME NEW x \in Device, NEW sid \in Sid, NEW o, SaidTo(x, sid, o),
             TeacherEmits([Nothing EXCEPT ![x] = o])
      PROVE  x # d \/ sid # links[d] \/ o = << >> => down'[d] = down[d]
  BY <1>4, SaidReaches
<1>12. ASSUME NEW o, NEW msg, SaidTo(d, links[d], o), TeacherEmits([Nothing EXCEPT ![d] = o]),
              o = Addressed({links[d]}, msg)
       PROVE  down'[d] = down[d] \o << msg >>
  BY <1>12, SaidTold
<1> PICK s : s = StudentState(d)'
  OBVIOUS
<1>5. ASSUME NEW x, NEW sid, NEW sids \in {{}, {sid}}
      PROVE  /\ SaidTo(x, sid, SendStudentState(x, sids))
             /\ x \in participants' /\ sids = {sid}
                  => SendStudentState(x, sids) = Addressed({sid}, StudentState(x)')
             /\ x \notin participants' \/ sids = {} => SendStudentState(x, sids) = << >>
  BY DEF SaidTo, SendStudentState
<1>6. m.type # "roster" /\ Joined(d) /\ d \in participants' => Joined(d)'
  BY JoinedStays
<1>7. CASE m \in HelloMsg /\ OnStudentHello(m.device, m.sid)
  <2>1. m.type = "hello" /\ m.device \in Device /\ m.sid \in Sid
    BY <1>7 DEF HelloMsg
  <2> PICK o : o = SendStudentState(m.device, {m.sid})
    OBVIOUS
  <2>2. /\ participants' = participants \cup {m.device}
        /\ UNCHANGED <<qstate, opened_at, clock, answers>>
        /\ deviceBySid' = [deviceBySid EXCEPT ![m.device] = @ \cup {m.sid}]
        /\ connectedSids' = [connectedSids EXCEPT ![m.device] = @ \cup {m.sid}]
        /\ TeacherEmits([Nothing EXCEPT ![m.device] = o])
    BY <1>7 DEF OnStudentHello, Engine!Hello, Engine!answered
  <2>3. SaidTo(m.device, m.sid, o) /\ o = Addressed({m.sid}, StudentState(m.device)')
    BY <1>5, <2>2
  <2>4. CASE m.device = d /\ m.sid = links[d]
    <3>1. down'[d] = down[d] \o << s >>
      <4>1. o = Addressed({m.sid}, s)
        BY <2>3, <2>4
      <4>2. SaidTo(d, links[d], o) /\ o = Addressed({links[d]}, s)
        BY <2>3, <2>4, <4>1
      <4>3. TeacherEmits([Nothing EXCEPT ![d] = o])
        BY <2>2, <2>4
      <4> QED  BY <1>12, <4>2, <4>3, Zenon
    <3>2. deviceBySid \in [Device -> SUBSET Sid] /\ connectedSids \in [Device -> SUBSET Sid]
      BY DEF Shape, Types
    <3>3. Joined(d)'
      BY <1>1, <2>2, <2>4, <3>2 DEF Joined
    <3> QED  BY <1>3, <2>2, <3>1, <3>3
  <2>5. CASE m.device # d \/ m.sid # links[d]
    <3>1. down'[d] = down[d]
      BY <1>4, <2>1, <2>2, <2>3, <2>5
    <3>2. m # Greeting(d, links[d]) /\ m \notin Sent(d)
      BY <2>1, <2>5 DEF Greeting, Sent, AnswerOfDevice
    <3>3. Settled(d) => Joined(d)'
      BY <1>6, <2>1, <2>2 DEF Settled, Joined
    <3>4. \A q \in ChoiceQuestion : AnswerOf(d, q)' = AnswerOf(d, q)
      BY <2>2 DEF AnswerOf
    <3> QED  BY <1>2, <2>2, <3>1, <3>2, <3>3, <3>4
  <2> QED  BY <2>4, <2>5
<1>8. CASE m \in AnswerMsg(Device, Sid) /\ OnAnswerAccepted(m.device, m)
  <2> PICK a : a = [type |-> "received", nonce |-> m.nonce]
    OBVIOUS
  <2> PICK o : o = Addressed({m.sid}, a)
    OBVIOUS
  <2>1. /\ m.type = "answer" /\ m.device \in Device /\ m.sid \in Sid /\ m.nonce \in Nonce
        /\ m.question \in ChoiceQuestion /\ m.answer \in Option
    BY <1>8 DEF AnswerMsg
  <2>2. /\ Engine!Accept(m.device, m.question, m.answer)
        /\ TeacherEmits([Nothing EXCEPT ![m.device] = o])
    BY <1>8 DEF OnAnswerAccepted
  <2>3. SaidTo(m.device, m.sid, o)
    BY <2>1 DEF SaidTo
  <2>4. /\ UNCHANGED <<qstate, opened_at, clock, participants>>
        /\ \A x \in Device, y \in ChoiceQuestion : x # m.device => AnswerOf(x, y)' = AnswerOf(x, y)
    <3>1. EngineTypes
      BY DEF Facing
    <3> QED  BY <2>1, <2>2, <3>1, AcceptRecords
  <2>5. /\ a \in PageMsg /\ a.type = "received" /\ a.nonce = m.nonce
        /\ m # Greeting(d, links[d])
    BY <2>1 DEF PageMsg, ReceivedMsg, Greeting
  <2>6. CASE m.device = d /\ m.sid = links[d]
    <3>1. down'[d] = down[d] \o << a >>
      <4>1. SaidTo(d, links[d], o) /\ o = Addressed({links[d]}, a)
        BY <2>3, <2>6
      <4>2. TeacherEmits([Nothing EXCEPT ![d] = o])
        BY <2>2, <2>6
      <4> QED  BY <1>12, <4>1, <4>2, Zenon
    <3>2. page'[d] = page[d] /\ sent'[d] = sent[d] /\ links'[d] = links[d]
      BY <1>1
    <3>3. AnswerOfDevice(m, d) /\ m.sid = links[d] /\ Engine!Accept(d, m.question, m.answer)
      BY <2>1, <2>2, <2>6 DEF AnswerOfDevice
    <3>4. Joined(d) => Joined(d)'
      BY <1>6, <2>1, <2>4 DEF Joined
    <3> QED  BY <1>1, <2>5, <3>1, <3>2, <3>3, <3>4, MeetsAcked DEF Goal
  <2>7. CASE m.device # d \/ m.sid # links[d]
    <3>1. down'[d] = down[d]
      BY <1>4, <2>1, <2>2, <2>3, <2>7
    <3>2. CASE m.device = d
      <4>1. Stale(m, d, links[d])
        BY <2>1, <2>7, <3>2 DEF Stale, AnswerOfDevice
      <4> QED  BY <1>2, <2>4, <2>5, <3>1, <4>1
    <3>3. CASE m.device # d
      <4>1. m \notin Sent(d)
        BY <3>3 DEF Sent, AnswerOfDevice
      <4>2. \A q \in ChoiceQuestion : AnswerOf(d, q)' = AnswerOf(d, q)
        BY <2>4, <3>3
      <4>3. Settled(d) => Joined(d)'
        BY <1>6, <2>1, <2>4 DEF Settled, Joined
      <4> QED  BY <1>2, <2>4, <2>5, <3>1, <4>1, <4>2, <4>3
    <3> QED  BY <3>2, <3>3
  <2> QED  BY <2>6, <2>7
<1>9. CASE m \in AnswerMsg(Device, Sid) /\ OnAnswerRejected(m.device, m)
  <2>1. m.type = "answer" /\ m.device \in Device /\ m.sid \in Sid
    BY <1>9 DEF AnswerMsg
  <2> PICK o : o = SendStudentState(m.device, {m.sid})
    OBVIOUS
  <2>2. /\ UNCHANGED <<qstate, opened_at, clock, participants, answers>>
        /\ UNCHANGED <<deviceBySid, connectedSids>>
        /\ TeacherEmits([Nothing EXCEPT ![m.device] = o])
    BY <1>9 DEF OnAnswerRejected, engine, client
  <2>3. Joined(d)' = Joined(d) /\ m # Greeting(d, links[d])
        /\ \A q \in ChoiceQuestion : AnswerOf(d, q)' = AnswerOf(d, q)
    BY <1>1, <2>1, <2>2 DEF Joined, AnswerOf, Greeting
  <2>4. /\ SaidTo(m.device, m.sid, o)
        /\ m.device \in participants => o = Addressed({m.sid}, StudentState(m.device)')
        /\ m.device \notin participants => o = << >>
    BY <1>5, <2>2
  <2>5. CASE m.device = d /\ m.sid = links[d] /\ d \in participants
    <3>1. down'[d] = down[d] \o << s >>
      <4>1. o = Addressed({m.sid}, s)
        BY <2>4, <2>5
      <4>2. SaidTo(d, links[d], o) /\ o = Addressed({links[d]}, s)
        BY <2>4, <2>5, <4>1
      <4>3. TeacherEmits([Nothing EXCEPT ![d] = o])
        BY <2>2, <2>5
      <4> QED  BY <1>12, <4>2, <4>3, Zenon
    <3> QED  BY <1>3, <2>2, <2>3, <3>1 DEF Settled
  <2>6. CASE ~ (m.device = d /\ m.sid = links[d] /\ d \in participants)
    <3>1. down'[d] = down[d]
      BY <1>4, <2>1, <2>2, <2>4, <2>6
    <3>2. Settled(d) => m \notin Sent(d)
      BY <2>6 DEF Settled, Joined, Sent, AnswerOfDevice
    <3> QED  BY <1>2, <2>2, <2>3, <3>1, <3>2 DEF Settled
  <2> QED  BY <2>5, <2>6
<1>10. CASE m \in PresenceMsg /\ OnPresence(m.device, m)
  <2> PICK sids : sids = {m.sid} \cap deviceBySid[m.device]
    OBVIOUS
  <2> PICK o : o = SendStudentState(m.device, sids)
    OBVIOUS
  <2>1. m.type = "presence" /\ m.device \in Device /\ m.sid \in Sid
    BY <1>10 DEF PresenceMsg
  <2>2. /\ UNCHANGED <<qstate, opened_at, clock, participants, answers>>
        /\ \/ UNCHANGED down
           \/ /\ m.connected /\ UNCHANGED deviceBySid
              /\ TeacherEmits([Nothing EXCEPT ![m.device] = o])
    BY <1>10 DEF OnPresence, engine
  <2>3. sids \in {{}, {m.sid}} /\ (sids = {m.sid} <=> m.sid \in deviceBySid[m.device])
    OBVIOUS
  <2>4. /\ m # Greeting(d, links[d]) /\ m \notin Sent(d)
        /\ \A q \in ChoiceQuestion : AnswerOf(d, q)' = AnswerOf(d, q)
    BY <2>1, <2>2 DEF Greeting, Sent, AnswerOfDevice, AnswerOf
  <2>5. Settled(d) => Joined(d)'
    BY <1>6, <2>1, <2>2 DEF Settled, Joined
  <2>6. CASE down'[d] = down[d]
    BY <1>2, <2>2, <2>4, <2>5, <2>6
  <2>7. CASE /\ m.connected /\ UNCHANGED deviceBySid
             /\ TeacherEmits([Nothing EXCEPT ![m.device] = o])
    <3>1. SaidTo(m.device, m.sid, o)
      <4>1. sids \in {{}, {m.sid}}
        OBVIOUS
      <4> QED  BY <1>5, <4>1
    <3>2. m.device \in participants' /\ sids = {m.sid} =>
            o = Addressed({m.sid}, StudentState(m.device)')
      BY DEF SendStudentState
    <3>3. m.device \notin participants' \/ sids = {} => o = << >>
      BY DEF SendStudentState
    <3>4. CASE m.device = d /\ m.sid = links[d] /\ o # << >>
      <4>1. o = Addressed({m.sid}, s)
        BY <2>3, <3>2, <3>3, <3>4
      <4>2. SaidTo(d, links[d], o) /\ o = Addressed({links[d]}, s)
        BY <3>1, <3>4, <4>1
      <4>3. TeacherEmits([Nothing EXCEPT ![d] = o])
        BY <2>7, <3>4
      <4>4. down'[d] = down[d] \o << s >>
        BY <1>12, <4>2, <4>3, Zenon
      <4> QED  BY <1>3, <2>2, <2>4, <2>5, <4>4
    <3>5. CASE ~ (m.device = d /\ m.sid = links[d] /\ o # << >>)
      <4>1. down'[d] = down[d]
        BY <1>4, <2>1, <2>7, <3>1, <3>5
      <4> QED  BY <2>6, <4>1
    <3> QED  BY <3>4, <3>5
  <2> QED  BY <2>2, <2>6, <2>7
<1>11. CASE m \in RosterMsg /\ OnRoster(m)
  <2>1. m.type = "roster"
    BY <1>11 DEF RosterMsg
  <2>2. UNCHANGED <<qstate, opened_at, clock>> /\ down'[d] = down[d]
    BY <1>11 DEF OnRoster, engine
  <2>3. Stale(m, d, links[d]) /\ m # Greeting(d, links[d])
    BY <2>1 DEF Stale, Greeting
  <2> QED  BY <1>2, <2>2, <2>3
<1> QED  BY <1>1, <1>7, <1>8, <1>9, <1>10, <1>11

\* The client takes the next event.
LEMMA AgreeTeacherReceives ==
  ASSUME Shape, Facing, Facing', EngineMoves, Tracked, NEW d \in Device, CountedAt(d),
         AgreementAt(d), TeacherReceives
  PROVE  AgreementAt(d)'
<1> PICK m : m = Head(inbox)
  OBVIOUS
<1>1. /\ teacherLink = "up" /\ inbox # << >> /\ inbox' = Tail(inbox)
      /\ UNCHANGED <<teacherLink, session, link, links, buffer, page, sent>>
  BY ReceivesCases DEF relay, pages
<1>2. PICK out : TeacherEmits(out) /\ Emittable(out)
  BY ReceivesSays
<1>3. PostedAt(d) /\ WaitsAt(d)
  BY DEF AgreementAt
<1>4. PostedAt(d)' /\ WaitsAt(d)'
  BY <1>1, <1>2, <1>3, AgreeSpeaks
<1>5. Connected(d)' = Connected(d)
  BY <1>1 DEF Connected
<1>6. MeetsAt(d)'
  BY <1>5, MeetsReceives DEF MeetsAt
<1> QED  BY <1>4, <1>6 DEF AgreementAt

-----------------------------------------------------------------------------
\* At first no page is connected and nothing is under way.
LEMMA AgreementInit == Init => Agreement
<1> SUFFICES ASSUME Init, NEW d \in Device PROVE AgreementAt(d)
  BY DEF Agreement
<1>1. /\ inbox = << >> /\ buffer[d] = << >> /\ down[d] = << >> /\ link[d] = "down"
  BY DEF Init
<1>2. Increasing(<< >>, d) /\ Range(<< >>) = {}
  BY RangeEmpty, EmptySeq DEF Increasing
<1>3. PostedAt(d)
  BY <1>1, <1>2 DEF PostedAt
<1> QED  BY <1>1, <1>2, <1>3 DEF AgreementAt, WaitsAt, MeetsAt, Connected, Covered

\* A step of the page of d, of its student, or of the relay about it.
LEMMA AgreePage ==
  ASSUME Shape, Shape', Facing, Facing', NEW d \in Device, CountedAt(d), OrderedAt(d),
         AgreementAt(d),
         \/ PageConnects(d) \/ PageRefused(d) \/ PageLinkBreaks(d) \/ PageNotices(d)
         \/ Reload(d) \/ PageReceives(d) \/ Resync(d)
         \/ CancelPending(d) \/ ConfirmPending(d) \/ AckTimeout(d) \/ Resend(d)
         \/ \E o \in Option : RequestSubmit(d, o)
         \/ \E sid \in Sid : RelayNotices(d, sid)
  PROVE  AgreementAt(d)'
<1>1. CASE PageConnects(d)
  BY <1>1, AgreePageConnects
<1>2. CASE \/ PageRefused(d) \/ PageLinkBreaks(d) \/ PageNotices(d) \/ Reload(d)
           \/ CancelPending(d) \/ AckTimeout(d) \/ \E o \in Option : RequestSubmit(d, o)
  BY <1>2, AgreeOwn
<1>3. CASE PageReceives(d)
  BY <1>3, AgreePageReceives
<1>4. CASE Resync(d) \/ \E sid \in Sid : RelayNotices(d, sid)
  BY <1>4, AgreeHeard
<1>5. CASE ConfirmPending(d) \/ Resend(d)
  BY <1>5, AgreeTransmits
<1> QED  BY <1>1, <1>2, <1>3, <1>4, <1>5

\* Every step keeps it, for every page.
LEMMA AgreementStep ==
  ASSUME Sound, Sound', Tracked, Counted, Ordered, Agreement, [Next]_vars
  PROVE  Agreement'
<1>1. Shape /\ Shape' /\ Facing /\ Facing' /\ EngineMoves
  BY SoundEngine DEF Sound
<1> SUFFICES ASSUME NEW d \in Device PROVE AgreementAt(d)'
  BY DEF Agreement
<1>2. AgreementAt(d) /\ CountedAt(d) /\ OrderedAt(d)
  BY DEF Agreement, Counted, Ordered
<1>3. CASE UNCHANGED vars
  <2>1. /\ UNCHANGED <<engine, client, teacherLink, session, inbox>>
        /\ page'[d] = page[d] /\ sent'[d] = sent[d] /\ down'[d] = down[d]
        /\ buffer'[d] = buffer[d] /\ link'[d] = link[d] /\ links'[d] = links[d]
    BY <1>3 DEF vars, engine, client, teacherNet, relay, pageNet, pages
  <2>2. PICK r \in Seq(InboxMsg) : inbox' = inbox \o r /\ Range(r) = {}
    BY <1>1, <2>1, AddsNothing
  <2> QED  BY <1>1, <1>2, <2>1, <2>2, AgreeElse
<1>4. CASE \E q \in ChoiceQuestion : TriggerLiveQuestion(q) \/ CloseLiveQuestion(q)
  BY <1>1, <1>2, <1>4, AgreeTrigger, AgreeClose
<1>5. CASE TeacherReceives
  BY <1>1, <1>2, <1>5, AgreeTeacherReceives
<1>6. CASE TeacherConnects
  BY <1>1, <1>2, <1>6, AgreeTeacherConnects
<1>7. CASE TeacherLinkBreaks \/ TeacherNotices \/ SessionEnds
  BY <1>1, <1>2, <1>7, AgreeTeacherGone
<1>8. ASSUME NEW x \in Device,
             \/ PageConnects(x) \/ PageRefused(x) \/ PageLinkBreaks(x) \/ PageNotices(x)
             \/ Reload(x) \/ PageReceives(x) \/ Resync(x)
             \/ CancelPending(x) \/ ConfirmPending(x) \/ AckTimeout(x) \/ Resend(x)
             \/ \E o \in Option : RequestSubmit(x, o)
             \/ \E sid \in Sid : RelayNotices(x, sid)
      PROVE  AgreementAt(d)'
  <2>1. CASE x = d
    BY <1>1, <1>2, <1>8, <2>1, AgreePage
  <2>2. CASE x # d
    <3>1. Adds(x)
      BY <1>1, <1>8, AddsLinks, AddsPage
    <3> QED  BY <1>1, <1>2, <2>2, <3>1, AgreeOther
  <2> QED  BY <2>1, <2>2
<1> QED  BY <1>3, <1>4, <1>5, <1>6, <1>7, <1>8 DEF Next

LEMMA AgreementAlways == Spec => []Agreement
<1>1. Init => Agreement
  BY AgreementInit
<1>2. Sound /\ Sound' /\ Tracked /\ Counted /\ Ordered /\ Agreement /\ [Next]_vars => Agreement'
  BY AgreementStep
<1> QED  BY <1>1, <1>2, SoundAlways, TrackedAlways, CountedAlways, OrderedAlways, PTL DEF Spec

\* With nothing under way, a connected page shows what the engine shows it.
LEMMA AgreementSays ==
  ASSUME Sound, Agreement PROVE PageAgreesWhenQuiet
<1> SUFFICES ASSUME NEW d \in Device, Quiet(d) PROVE Agrees(d)
  BY DEF PageAgreesWhenQuiet
<1>1. /\ Connected(d) /\ inbox = << >> /\ down[d] = << >>
  BY DEF Quiet, Connected
<1>2. Range(<< >>) = {}
  BY RangeEmpty
<1>3. Settled(d)
  <2>1. ~ Greeted(d)
    BY <1>1, <1>2 DEF Greeted, Awaited
  <2>2. MeetsAt(d)
    BY DEF Agreement, AgreementAt
  <2> QED  BY <1>1, <2>1, <2>2 DEF MeetsAt
<1>4. ~ Answering(d)
  BY <1>1, <1>2 DEF Answering, Sent
<1>5. Forecast(d) = page[d] /\ Base(d) = Plain(page[d])
  BY <1>1, AheadNone DEF Forecast, Base
<1>6. Base(d).selected = page[d].selected
  <2>1. page[d] \in ProperPage
    BY PageTypes DEF Sound
  <2> QED  BY <1>5, <2>1, PlainProper
<1> QED  BY <1>3, <1>4, <1>5, <1>6 DEF Settled, Agrees

\* Whatever was lost, late or resent, once nothing is under way between the teacher
\* and a connected page, the page shows the question that the engine would show it, in
\* its state, with an answer if the engine has one, and with that answer while the
\* question is open (reduceStudentState, onStudentHello, onStudentAnswer).
THEOREM PagesAgree == Spec => []PageAgreesWhenQuiet
<1>1. Sound /\ Agreement => PageAgreesWhenQuiet
  BY AgreementSays
<1> QED  BY <1>1, SoundAlways, AgreementAlways, PTL

=============================================================================
