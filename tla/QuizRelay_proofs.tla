--------------------------- MODULE QuizRelay_proofs ---------------------------
(***************************************************************************)
(* Proofs about QuizRelay for any number of classes, connections and       *)
(* devices, any grace period and any limits.                               *)
(***************************************************************************)
EXTENDS QuizRelay, TLAPS

-----------------------------------------------------------------------------
(***************************************************************************)
(* Types.                                                                  *)
(***************************************************************************)
\* The entries that the handlers write are entries.
LEMMA EntryTypes ==
  /\ NoEntry \in Entry
  /\ \A n \in Nonce : TeacherEntry(n) \in Entry /\ StudentEntry(n) \in Entry
<1>1. /\ Capacity \in Nat
      /\ MaxDrops \in Nat
  BY RelayAssumption
<1>2. NoEntry \in Entry
  BY <1>1 DEF NoEntry, Entry
<1>3. ASSUME NEW n \in Nonce
      PROVE  TeacherEntry(n) \in Entry
  BY <1>1 DEF TeacherEntry, NoEntry, Entry
<1>4. ASSUME NEW n \in Nonce
      PROVE  StudentEntry(n) \in Entry
  BY <1>1 DEF StudentEntry, NoEntry, Entry
<1> QED  BY <1>2, <1>3, <1>4

\* What the end of a class does to the memory of the relay keeps the types.
LEMMA RelayEndType ==
  ASSUME NEW n \in Nonce, TypeOK, RelayEnd(n)
  PROVE  /\ SIDS' \in [Sid -> Entry]
         /\ link' \in [Sid -> {"fresh", "up", "down"}]
         /\ studentRoom' \in [Nonce -> SUBSET Sid]
         /\ timers' \in [Nonce -> Nat]
         /\ known' \in [Sid -> SUBSET Sid]
         /\ heard' \in [Sid -> SUBSET Device]
         /\ told' \in SUBSET Sid
         /\ course' \in [Nonce -> {"idle", "hosted", "closed"}]
BY EntryTypes DEF TypeOK, RelayEnd, ClassSids, TimerRemoved, ToldEnded

\* So does a departure, whoever leaves.
LEMMA LeaveType ==
  ASSUME NEW s \in Sid, TypeOK, Leave(s), SIDS[s].role # "none" => SIDS[s].nonce \in Nonce
  PROVE  TypeOK'
<1> DEFINE n == SIDS[s].nonce
<1>1. UNCHANGED <<session, away, told, course>>
  BY DEF Leave
<1>2. SIDS' \in [Sid -> Entry] /\ link' \in [Sid -> {"fresh", "up", "down"}]
  BY EntryTypes DEF TypeOK, Leave
<1>3. teacherRoom' \in [Nonce -> SUBSET Sid] /\ studentRoom' \in [Nonce -> SUBSET Sid]
  BY DEF TypeOK, Leave
<1>4. known' \in [Sid -> SUBSET Sid] /\ heard' \in [Sid -> SUBSET Device]
  BY DEF TypeOK, Leave
<1>5. /\ timers' \in [Nonce -> Nat]
      /\ tasks' \in SUBSET Task
      /\ generation' \in Nat \ {0}
  <2>1. CASE LastTeacher(s)
    <3>1. StartTeacherGrace(n) /\ n \in Nonce
      BY <2>1 DEF Leave, LastTeacher
    <3>2. [nonce |-> n, generation |-> generation, left |-> Grace] \in Task
      BY <3>1, RelayAssumption DEF TypeOK, Task
    <3> QED  BY <3>1, <3>2 DEF TypeOK, StartTeacherGrace
  <2>2. CASE ~LastTeacher(s)
    BY <2>2 DEF TypeOK, Leave, clocks
  <2> QED  BY <2>1, <2>2
<1> QED  BY <1>1, <1>2, <1>3, <1>4, <1>5 DEF TypeOK

-----------------------------------------------------------------------------
(***************************************************************************)
(* The inductive invariant.  The properties of the relay are not inductive *)
(* by themselves: what a handler finds in SIDS has to be tied to the row,  *)
(* to the connection and to the rooms, and the sleeping tasks to the       *)
(* generations that are still to come.                                     *)
(***************************************************************************)
\* A registered sid is connected, and to a class that relay_end has not closed.
Registered ==
  \A s \in Sid :
    /\ SIDS[s].role = "none" => SIDS[s] = NoEntry
    /\ SIDS[s].role # "none" => /\ link[s] = "up"
                                /\ SIDS[s].nonce \in Nonce
                                /\ session[SIDS[s].nonce] # "none"
                                /\ course[SIDS[s].nonce] # "closed"

\* The rooms follow the roles, and besides its teachers a teacher room holds
\* only connected sids without a role (the ones whose connect raised).
TeachersInRoom ==
  \A n \in Nonce : TeacherSids(n) \subseteq teacherRoom[n]
StudentsInRoom ==
  \A n \in Nonce : StudentSids(n) = studentRoom[n]
NoStudentInTeacherRoom ==
  \A n \in Nonce : \A s \in teacherRoom[n] :
    /\ link[s] = "up"
    /\ SIDS[s].role # "student"
    /\ SIDS[s].role = "teacher" => SIDS[s].nonce = n
InRooms == TeachersInRoom /\ StudentsInRoom /\ NoStudentInTeacherRoom

\* Generations are used once, and a class with a timer has not been closed.
TimersRun ==
  /\ \A t \in tasks : t.generation < generation
  /\ \A n \in Nonce : timers[n] < generation
  /\ \A n \in Nonce : timers[n] # 0 => session[n] # "none" /\ course[n] # "closed"
  /\ TimerOnlyWhileAway

\* What the current task of a class still has to sleep and what its teachers
\* have been away make up a whole grace period.
GraceKept ==
  \A t \in tasks :
    timers[t.nonce] = t.generation => away[t.nonce] + t.left >= Grace

\* The relay closes a class only once its row has left the lobby, to which no row
\* returns, and does not lose sight of one that had a teacher.
CourseFollows ==
  \A n \in Nonce :
    /\ course[n] = "closed" => session[n] \in {"ended", "gone"}
    /\ course[n] = "hosted" => timers[n] # 0 \/ TeacherSids(n) # {}

IInv == /\ TypeOK
        /\ Registered
        /\ InRooms
        /\ TimersRun
        /\ CourseFollows
        /\ GraceKept
        /\ TeacherKnowsClass
        /\ PinnedDevice

\* The first state has nobody in it.
LEMMA InitInv == Init => IInv
<1> SUFFICES ASSUME Init PROVE IInv
  OBVIOUS
<1>1. TypeOK
  BY EntryTypes, RelayAssumption DEF Init, TypeOK
<1>2. /\ Registered
      /\ InRooms
      /\ TeacherKnowsClass
      /\ PinnedDevice
  BY RelayAssumption DEF Init, Registered, InRooms, TeachersInRoom, StudentsInRoom,
     NoStudentInTeacherRoom, TeacherKnowsClass, PinnedDevice, NoEntry, TeacherSids,
     StudentSids, RoleSids
<1>3. TimersRun /\ GraceKept /\ CourseFollows
  BY DEF Init, TimersRun, GraceKept, TimerOnlyWhileAway, CourseFollows
<1> QED  BY <1>1, <1>2, <1>3 DEF IInv

\* A departure: the leaver's own entry goes; the timer of its class starts if it
\* was the last teacher there.
LEMMA LeaveInv ==
  ASSUME NEW s \in Sid, IInv, Leave(s)
  PROVE  IInv'
<1> DEFINE n == SIDS[s].nonce
<1> USE DEF IInv, InRooms
<1>1. SIDS[s].role # "none" => n \in Nonce /\ session[n] # "none" /\ course[n] # "closed"
  BY DEF Registered
<1>2. TypeOK'
  BY <1>1, LeaveType
<1>3. /\ \A x \in Sid : SIDS'[x] = IF x = s THEN NoEntry ELSE SIDS[x]
      /\ \A x \in Sid : link'[x] = IF x = s THEN "down" ELSE link[x]
      /\ \A m \in Nonce : teacherRoom'[m] = teacherRoom[m] \ {s}
      /\ \A m \in Nonce : studentRoom'[m] = studentRoom[m] \ {s}
      /\ session' = session /\ away' = away /\ course' = course
  BY DEF TypeOK, Leave
<1>4. NoEntry.role = "none" /\ NoEntry.nonce = NoNonce /\ NoEntry.device_id = NoDevice
  BY DEF NoEntry
<1>5. \A m \in Nonce : /\ TeacherSids(m)' = TeacherSids(m) \ {s}
                       /\ StudentSids(m)' = StudentSids(m) \ {s}
  BY <1>3, <1>4 DEF TeacherSids, StudentSids, RoleSids
<1>6. Registered'
  BY <1>3, <1>4 DEF Registered
<1>7. InRooms'
  <2>1. ASSUME NEW m \in Nonce
        PROVE  TeacherSids(m)' \subseteq teacherRoom'[m] /\ StudentSids(m)' = studentRoom'[m]
    <3>1. TeacherSids(m) \subseteq teacherRoom[m] /\ StudentSids(m) = studentRoom[m]
      BY DEF TeachersInRoom, StudentsInRoom
    <3> QED  BY <3>1, <1>3, <1>5
  <2>2. NoStudentInTeacherRoom'
    BY <1>3, <1>4, <1>2 DEF NoStudentInTeacherRoom, TypeOK
  <2> QED  BY <2>1, <2>2 DEF TeachersInRoom, StudentsInRoom
<1>8. TimersRun' /\ GraceKept'
  <2>1. CASE LastTeacher(s)
    <3>1. StartTeacherGrace(n) /\ n \in Nonce /\ TeacherSids(n) = {s}
      BY <2>1, <1>1 DEF Leave, LastTeacher
    <3> DEFINE t0 == [nonce |-> n, generation |-> generation, left |-> Grace]
    <3>2. /\ tasks' = tasks \cup {t0}
          /\ generation' = generation + 1
          /\ timers'[n] = generation
          /\ \A m \in Nonce \ {n} : timers'[m] = timers[m]
          /\ generation \in Nat
      BY <3>1 DEF StartTeacherGrace, TypeOK
    <3>3. /\ \A t \in tasks : t.generation < generation /\ t \in Task
          /\ \A m \in Nonce : timers[m] < generation /\ timers[m] \in Nat
      BY DEF TimersRun, TypeOK
    <3>4. /\ \A t \in tasks' : t.generation < generation'
          /\ \A m \in Nonce : timers'[m] < generation'
      BY <3>2, <3>3 DEF Task
    <3>5. \A m \in Nonce : timers'[m] # 0 => session'[m] # "none" /\ course'[m] # "closed"
      BY <1>1, <1>3, <2>1, <3>2 DEF TimersRun, LastTeacher
    <3>6. TimerOnlyWhileAway'
      <4> SUFFICES ASSUME NEW m \in Nonce, timers'[m] # 0
                   PROVE  /\ TeacherSids(m)' = {}
                          /\ \E t \in tasks' : t.nonce = m /\ t.generation = timers'[m]
        BY DEF TimerOnlyWhileAway
      <4>1. CASE m = n
        <5>1. t0 \in tasks' /\ t0.nonce = m /\ t0.generation = timers'[m]
          BY <4>1, <3>2
        <5>2. TeacherSids(m)' = {}
          BY <4>1, <1>5, <3>1
        <5> QED  BY <5>1, <5>2
      <4>2. CASE m # n
        <5>1. timers'[m] = timers[m]
          BY <4>2, <3>2
        <5>2. TeacherSids(m) = {} /\ \E t \in tasks : t.nonce = m /\ t.generation = timers[m]
          BY <5>1 DEF TimersRun, TimerOnlyWhileAway
        <5> QED  BY <5>1, <5>2, <1>5, <3>2
      <4> QED  BY <4>1, <4>2
    <3>7. GraceKept'
      <4> SUFFICES ASSUME NEW t \in tasks', timers'[t.nonce] = t.generation
                   PROVE  away'[t.nonce] + t.left >= Grace
        BY DEF GraceKept
      <4>1. CASE t = t0
        <5>1. t.left = Grace /\ t.nonce = n
          BY <4>1
        <5>2. away[n] \in Nat /\ Grace \in Nat
          BY <3>1, RelayAssumption DEF TypeOK
        <5> QED  BY <5>1, <5>2, <1>3
      <4>2. CASE t \in tasks
        <5>1. t.nonce \in Nonce /\ t.generation \in Nat /\ t.generation < generation
          BY <4>2, <3>3 DEF Task
        <5>2. t.nonce # n
          BY <5>1, <3>2
        <5> QED  BY <4>2, <5>1, <5>2, <3>2, <1>3 DEF GraceKept
      <4> QED  BY <4>1, <4>2, <3>2
    <3> QED  BY <3>4, <3>5, <3>6, <3>7 DEF TimersRun
  <2>2. CASE ~LastTeacher(s)
    <3>1. UNCHANGED clocks
      BY <2>2 DEF Leave
    <3>2. TimersRun'
      BY <3>1, <1>3, <1>5 DEF TimersRun, TimerOnlyWhileAway, clocks
    <3>3. GraceKept'
      BY <3>1, <1>3 DEF GraceKept, clocks
    <3> QED  BY <3>2, <3>3
  <2> QED  BY <2>1, <2>2
<1>11. CourseFollows'
  <2> SUFFICES ASSUME NEW m \in Nonce, course[m] = "hosted"
               PROVE  timers'[m] # 0 \/ TeacherSids(m)' # {}
    BY <1>3 DEF CourseFollows
  <2>1. timers[m] # 0 \/ TeacherSids(m) # {}
    BY DEF CourseFollows
  <2>2. timers[m] # 0 => timers'[m] # 0
    BY DEF TypeOK, Leave, StartTeacherGrace, clocks
  <2>3. CASE TeacherSids(m) = {s}
    <3>1. LastTeacher(s) /\ n = m
      BY <2>3 DEF LastTeacher, TeacherSids, RoleSids
    <3> QED  BY <3>1 DEF TypeOK, Leave, StartTeacherGrace
  <2> QED  BY <2>1, <2>2, <2>3, <1>5
<1>9. TeacherKnowsClass'
  <2> SUFFICES ASSUME NEW m \in Nonce, NEW t \in TeacherSids(m)'
               PROVE  known'[t] = StudentSids(m)'
    BY DEF TeacherKnowsClass
  <2>1. t \in Sid /\ t # s /\ t \in TeacherSids(m) /\ t \in teacherRoom[m]
        /\ known[t] = StudentSids(m)
    BY <1>5 DEF TeacherSids, RoleSids, TeachersInRoom, TeacherKnowsClass
  <2>2. CASE SIDS[s].role = "student" /\ t \in teacherRoom[n]
    <3>1. known'[t] = known[t] \ {s}
      BY <2>1, <2>2 DEF Leave
    <3> QED  BY <3>1, <2>1, <1>5
  <2>3. CASE ~(SIDS[s].role = "student" /\ t \in teacherRoom[n])
    <3>1. known'[t] = known[t]
      BY <2>1, <2>3 DEF Leave
    <3>2. s \notin StudentSids(m)
      BY <2>1, <2>3 DEF StudentSids, RoleSids
    <3> QED  BY <3>1, <3>2, <2>1, <1>5
  <2> QED  BY <2>2, <2>3
<1>10. PinnedDevice'
  <2>1. \A x \in Sid : heard'[x] = IF x = s THEN {} ELSE heard[x]
    BY DEF TypeOK, Leave
  <2> QED  BY <2>1, <1>3, <1>4 DEF PinnedDevice
<1> QED  BY <1>2, <1>6, <1>7, <1>8, <1>9, <1>10, <1>11

\* The end of a class, by its owner or by its grace period.
LEMMA EndInv ==
  ASSUME NEW n \in Nonce, IInv, RelayEnd(n),
         session' \in [Nonce -> {"none", "lobby", "ended", "gone"}],
         \A m \in Nonce \ {n} : session'[m] = session[m],
         session'[n] # "none",
         teacherRoom' \in [Nonce -> SUBSET Sid],
         \A m \in Nonce \ {n} : teacherRoom'[m] = teacherRoom[m],
         teacherRoom'[n] \subseteq teacherRoom[n] \ ClassSids(n),
         tasks' \subseteq tasks,
         \A t \in tasks : t.nonce # n => t \in tasks',
         UNCHANGED <<generation, away>>
  PROVE  IInv'
<1> USE DEF IInv, InRooms
<1> DEFINE gone == ClassSids(n)
<1>1. TypeOK'
  BY RelayEndType DEF TypeOK
<1>2. /\ \A x \in Sid : SIDS'[x] = IF x \in gone THEN NoEntry ELSE SIDS[x]
      /\ \A x \in Sid : link'[x] = IF x \in gone THEN "down" ELSE link[x]
      /\ \A x \in Sid : known'[x] = IF x \in gone THEN {} ELSE known[x]
      /\ \A x \in Sid : heard'[x] = IF x \in gone THEN {} ELSE heard[x]
      /\ \A m \in Nonce : studentRoom'[m] = studentRoom[m] \ gone
      /\ timers'[n] = 0
      /\ \A m \in Nonce \ {n} : timers'[m] = timers[m] /\ course'[m] = course[m]
      /\ course'[n] = IF session'[n] = "lobby" THEN "idle" ELSE "closed"
  BY DEF TypeOK, RelayEnd, TimerRemoved
<1>3. gone = {x \in Sid : SIDS[x].nonce = n}
  BY DEF ClassSids
<1>4. NoEntry.role = "none" /\ NoEntry.nonce = NoNonce /\ NoEntry.device_id = NoDevice
      /\ NoNonce \notin Nonce
  BY RelayAssumption DEF NoEntry
<1>5. /\ TeacherSids(n)' = {} /\ StudentSids(n)' = {}
      /\ \A m \in Nonce \ {n} : /\ TeacherSids(m)' = TeacherSids(m)
                                /\ StudentSids(m)' = StudentSids(m)
  BY <1>2, <1>3, <1>4 DEF TeacherSids, StudentSids, RoleSids
<1>6. Registered'
  BY <1>2, <1>3, <1>4 DEF Registered
<1>7. InRooms'
  <2>1. ASSUME NEW m \in Nonce, m # n
        PROVE  studentRoom[m] \cap gone = {} /\ teacherRoom[m] \cap gone = {}
    <3>1. studentRoom[m] \cap gone = {}
      BY <2>1, <1>3 DEF StudentsInRoom, StudentSids, RoleSids
    <3>2. teacherRoom[m] \cap gone = {}
      BY <2>1, <1>3, <1>4 DEF NoStudentInTeacherRoom, Registered, TypeOK, Entry
    <3> QED  BY <3>1, <3>2
  <2>2. studentRoom[n] \subseteq gone
    BY <1>3 DEF StudentsInRoom, StudentSids, RoleSids
  <2>3. TeachersInRoom'
    BY <1>5 DEF TeachersInRoom
  <2>4. ASSUME NEW m \in Nonce
        PROVE  StudentSids(m)' = studentRoom'[m]
    <3>1. StudentSids(m) = studentRoom[m] /\ studentRoom'[m] = studentRoom[m] \ gone
      BY <1>2 DEF StudentsInRoom
    <3>2. CASE m = n
      BY <3>1, <3>2, <2>2, <1>5
    <3>3. CASE m # n
      BY <3>1, <3>3, <2>1, <1>5
    <3> QED  BY <3>2, <3>3
  <2>5. NoStudentInTeacherRoom'
    <3>1. \A m \in Nonce : teacherRoom'[m] \subseteq teacherRoom[m] \ gone
      BY <2>1
    <3> QED  BY <3>1, <1>1, <1>2 DEF NoStudentInTeacherRoom, TypeOK
  <2> QED  BY <2>3, <2>4, <2>5 DEF StudentsInRoom
<1>8. TimersRun'
  <2>1. \A m \in Nonce : timers'[m] # 0 => m # n /\ timers'[m] = timers[m]
    BY <1>2
  <2>2. \A m \in Nonce : timers'[m] < generation'
    BY <1>2 DEF TimersRun, TypeOK
  <2>3. TimerOnlyWhileAway'
    BY <2>1, <1>5 DEF TimersRun, TimerOnlyWhileAway
  <2>4. \A m \in Nonce : timers'[m] # 0 => session'[m] # "none" /\ course'[m] # "closed"
    BY <1>2, <2>1 DEF TimersRun
  <2> QED  BY <2>2, <2>3, <2>4 DEF TimersRun
<1>9. GraceKept'
  <2>1. \A t \in tasks : t.nonce \in Nonce /\ t.generation # 0
    BY DEF TypeOK, Task
  <2> QED  BY <2>1, <1>2 DEF GraceKept
<1>10. TeacherKnowsClass'
  <2> SUFFICES ASSUME NEW m \in Nonce, NEW t \in TeacherSids(m)'
               PROVE  known'[t] = StudentSids(m)'
    BY DEF TeacherKnowsClass
  <2>1. m # n /\ t \in TeacherSids(m) /\ t \in Sid /\ t \notin gone
    BY <1>3, <1>5 DEF TeacherSids, RoleSids
  <2> QED  BY <2>1, <1>2, <1>5 DEF TeacherKnowsClass
<1>11. PinnedDevice'
  <2> SUFFICES ASSUME NEW x \in Sid
               PROVE  heard'[x] = IF SIDS'[x].device_id = NoDevice THEN {}
                                                            ELSE {SIDS'[x].device_id}
    BY DEF PinnedDevice
  <2>1. CASE x \in gone
    <3>1. heard'[x] = {} /\ SIDS'[x] = NoEntry
      BY <2>1, <1>2
    <3> QED  BY <3>1, <1>4
  <2>2. CASE x \notin gone
    <3>1. heard'[x] = heard[x] /\ SIDS'[x] = SIDS[x]
      BY <2>2, <1>2
    <3> QED  BY <3>1 DEF PinnedDevice
  <2> QED  BY <2>1, <2>2
<1>12. CourseFollows'
  BY <1>2, <1>5 DEF CourseFollows
<1> QED  BY <1>1, <1>6, <1>7, <1>8, <1>9, <1>10, <1>11, <1>12

\* The row of a class is created, or ended behind the relay's back, or deleted
\* with its lesson.
LEMMA RowInv ==
  ASSUME NEW n \in Nonce, IInv,
         CreateSession(n) \/ EndSessionRaises(n) \/ DeleteLesson(n)
  PROVE  IInv'
<1> USE DEF IInv, InRooms
<1>1. UNCHANGED <<link, SIDS, rooms, clocks, history>>
  BY DEF CreateSession, EndSessionRaises, DeleteLesson
<1>2. UNCHANGED <<link, SIDS, teacherRoom, studentRoom, timers, tasks, generation,
                  away, known, heard, told, course>>
  BY <1>1 DEF rooms, clocks, history
<1>3. /\ session' \in [Nonce -> {"none", "lobby", "ended", "gone"}]
      /\ \A m \in Nonce : session[m] \in {"none", "lobby"} \/ session'[m] = session[m]
      /\ \A m \in Nonce : session[m] # "none" => session'[m] # "none"
  BY DEF TypeOK, CreateSession, EndSessionRaises, DeleteLesson
<1>4. \A m \in Nonce : (session[m] # "none" => session'[m] # "none")
                        /\ (session[m] \in {"ended", "gone"} => session'[m] = session[m])
  BY <1>3
<1>5. TypeOK'
  BY <1>2, <1>3 DEF TypeOK
<1>6. /\ InRooms' /\ TeacherKnowsClass'
      /\ PinnedDevice' /\ GraceKept'
  <2>1. \A m \in Nonce : /\ TeacherSids(m)' = TeacherSids(m)
                         /\ StudentSids(m)' = StudentSids(m)
    BY <1>2 DEF TeacherSids, StudentSids, RoleSids
  <2>2. InRooms' /\ TeacherKnowsClass'
    BY <1>2, <2>1 DEF TeachersInRoom, StudentsInRoom, NoStudentInTeacherRoom, TeacherKnowsClass
  <2>3. PinnedDevice' /\ GraceKept'
    BY <1>2 DEF PinnedDevice, GraceKept
  <2> QED  BY <2>2, <2>3
<1>8. Registered'
  BY <1>2, <1>4 DEF Registered
<1>7. TimersRun' /\ CourseFollows'
  BY <1>2, <1>4 DEF TimersRun, TimerOnlyWhileAway, CourseFollows, TeacherSids, RoleSids
<1> QED  BY <1>5, <1>6, <1>7, <1>8

\* A teacher registers: it is told the students and cancels the timer.
LEMMA ConnectTeacherInv ==
  ASSUME NEW s \in Sid, NEW n \in Nonce, IInv, ConnectTeacher(s, n)
  PROVE  IInv'
<1> USE DEF IInv, InRooms
<1>1. link[s] = "fresh" /\ session[n] = "lobby" /\ SIDS[s] = NoEntry
      /\ course[n] # "closed"
  BY DEF ConnectTeacher, Registered, CourseFollows
<1>2. /\ \A x \in Sid : SIDS'[x] = IF x = s THEN TeacherEntry(n) ELSE SIDS[x]
      /\ \A x \in Sid : link'[x] = IF x = s THEN "up" ELSE link[x]
      /\ \A x \in Sid : known'[x] = IF x = s THEN StudentSids(n) ELSE known[x]
      /\ \A m \in Nonce : teacherRoom'[m] = IF m = n THEN teacherRoom[m] \cup {s} ELSE teacherRoom[m]
      /\ \A m \in Nonce : timers'[m] = IF m = n THEN 0 ELSE timers[m]
      /\ \A m \in Nonce : away'[m] = IF m = n THEN 0 ELSE away[m]
      /\ \A m \in Nonce : course'[m] = IF m = n THEN "hosted" ELSE course[m]
      /\ UNCHANGED <<session, studentRoom, tasks, generation, heard, told>>
  BY DEF TypeOK, ConnectTeacher, TimerRemoved
<1>3. TypeOK'
  <2>1. StudentSids(n) \subseteq Sid
    BY DEF StudentSids, RoleSids
  <2> QED  BY <2>1, EntryTypes, RelayAssumption DEF TypeOK, ConnectTeacher, TimerRemoved
<1>4. /\ NoEntry.role = "none" /\ NoEntry.device_id = NoDevice
      /\ TeacherEntry(n).role = "teacher" /\ TeacherEntry(n).nonce = n
      /\ TeacherEntry(n).device_id = NoDevice
  BY DEF NoEntry, TeacherEntry
<1>5. \A m \in Nonce : /\ StudentSids(m)' = StudentSids(m)
                       /\ TeacherSids(m)' = IF m = n THEN TeacherSids(m) \cup {s} ELSE TeacherSids(m)
  BY <1>1, <1>2, <1>4 DEF TeacherSids, StudentSids, RoleSids
<1>6. Registered'
  BY <1>1, <1>2, <1>4 DEF Registered
<1>7. InRooms'
  <2>1. TeachersInRoom' /\ StudentsInRoom'
    BY <1>2, <1>5 DEF TeachersInRoom, StudentsInRoom
  <2>3. NoStudentInTeacherRoom'
    BY <1>1, <1>2, <1>3, <1>4 DEF NoStudentInTeacherRoom, TypeOK
  <2> QED  BY <2>1, <2>3
<1>8. TimersRun'
  <2>1. \A m \in Nonce : timers'[m] # 0 => m # n /\ timers'[m] = timers[m]
    BY <1>2
  <2>2. \A m \in Nonce : timers'[m] < generation'
    BY <1>2 DEF TimersRun, TypeOK
  <2>3. TimerOnlyWhileAway'
    BY <2>1, <1>2, <1>5 DEF TimersRun, TimerOnlyWhileAway
  <2> QED  BY <1>2, <2>1, <2>2, <2>3 DEF TimersRun
<1>9. GraceKept'
  <2>1. \A t \in tasks : t.nonce \in Nonce /\ t.generation # 0
    BY DEF TypeOK, Task
  <2> QED  BY <2>1, <1>2 DEF GraceKept
<1>10. TeacherKnowsClass'
  <2> SUFFICES ASSUME NEW m \in Nonce, NEW t \in TeacherSids(m)'
               PROVE  known'[t] = StudentSids(m)'
    BY DEF TeacherKnowsClass
  <2>1. t \in Sid
    BY DEF TeacherSids, RoleSids
  <2>2. CASE t = s
    <3>1. m = n
      BY <1>2, <1>4, <2>2 DEF TeacherSids, RoleSids
    <3> QED  BY <2>1, <2>2, <3>1, <1>2, <1>5
  <2>3. CASE t # s
    <3>1. t \in TeacherSids(m)
      BY <2>3, <1>5
    <3> QED  BY <2>1, <2>3, <3>1, <1>2, <1>5 DEF TeacherKnowsClass
  <2> QED  BY <2>2, <2>3
<1>11. PinnedDevice'
  BY <1>1, <1>2, <1>4 DEF PinnedDevice
<1>12. CourseFollows'
  BY <1>1, <1>2, <1>5 DEF CourseFollows
<1> QED  BY <1>3, <1>6, <1>7, <1>8, <1>9, <1>10, <1>11, <1>12

\* A teacher's connect that raises leaves a sid in the room and no more.
LEMMA ConnectTeacherRaisesInv ==
  ASSUME NEW s \in Sid, NEW n \in Nonce, IInv, ConnectTeacherRaises(s, n)
  PROVE  IInv'
<1> USE DEF IInv, InRooms
<1>1. link[s] = "fresh" /\ SIDS[s] = NoEntry
  BY DEF ConnectTeacherRaises, Registered
<1>2. /\ \A x \in Sid : link'[x] = IF x = s THEN "up" ELSE link[x]
      /\ \A m \in Nonce : teacherRoom'[m] = IF m = n THEN teacherRoom[m] \cup {s} ELSE teacherRoom[m]
      /\ UNCHANGED <<session, SIDS, studentRoom, timers, tasks, generation, away,
                     known, heard, told, course>>
  BY DEF TypeOK, ConnectTeacherRaises, clocks, history
<1>3. TypeOK'
  BY <1>2 DEF TypeOK, ConnectTeacherRaises
<1>4. NoEntry.role = "none"
  BY DEF NoEntry
<1>5. \A m \in Nonce : /\ StudentSids(m)' = StudentSids(m)
                       /\ TeacherSids(m)' = TeacherSids(m)
  BY <1>2 DEF TeacherSids, StudentSids, RoleSids
<1>6. Registered' /\ PinnedDevice' /\ GraceKept'
  BY <1>2 DEF Registered, PinnedDevice, GraceKept
<1>7. InRooms'
  <2>1. TeachersInRoom' /\ StudentsInRoom'
    BY <1>2, <1>5 DEF TeachersInRoom, StudentsInRoom
  <2>3. NoStudentInTeacherRoom'
    BY <1>1, <1>2, <1>3, <1>4 DEF NoStudentInTeacherRoom, TypeOK
  <2> QED  BY <2>1, <2>3
<1>8. TimersRun' /\ CourseFollows' /\ TeacherKnowsClass'
  BY <1>2, <1>5 DEF TimersRun, TimerOnlyWhileAway, CourseFollows, TeacherKnowsClass
<1> QED  BY <1>3, <1>6, <1>7, <1>8

\* A student registers: everybody in the teacher room is told.
LEMMA ConnectStudentInv ==
  ASSUME NEW s \in Sid, NEW n \in Nonce, IInv, ConnectStudent(s, n)
  PROVE  IInv'
<1> USE DEF IInv, InRooms
<1>1. link[s] = "fresh" /\ session[n] = "lobby" /\ SIDS[s] = NoEntry
      /\ course[n] # "closed"
  BY DEF ConnectStudent, Registered, CourseFollows
<1>2. /\ \A x \in Sid : SIDS'[x] = IF x = s THEN StudentEntry(n) ELSE SIDS[x]
      /\ \A x \in Sid : link'[x] = IF x = s THEN "up" ELSE link[x]
      /\ \A x \in Sid : known'[x] = IF x \in teacherRoom[n] THEN known[x] \cup {s} ELSE known[x]
      /\ \A m \in Nonce : studentRoom'[m] = IF m = n THEN studentRoom[m] \cup {s} ELSE studentRoom[m]
      /\ UNCHANGED <<session, teacherRoom, timers, tasks, generation, away, heard, told,
                     course>>
  BY DEF TypeOK, ConnectStudent, clocks
<1>3. TypeOK'
  BY <1>2, EntryTypes DEF TypeOK, ConnectStudent
<1>4. /\ NoEntry.role = "none" /\ NoEntry.device_id = NoDevice
      /\ StudentEntry(n).role = "student" /\ StudentEntry(n).nonce = n
      /\ StudentEntry(n).device_id = NoDevice
  BY DEF NoEntry, StudentEntry
<1>5. \A m \in Nonce : /\ TeacherSids(m)' = TeacherSids(m)
                       /\ StudentSids(m)' = IF m = n THEN StudentSids(m) \cup {s} ELSE StudentSids(m)
  BY <1>1, <1>2, <1>4 DEF TeacherSids, StudentSids, RoleSids
<1>6. Registered'
  BY <1>1, <1>2, <1>4 DEF Registered
<1>7. InRooms'
  <2>1. TeachersInRoom' /\ StudentsInRoom'
    BY <1>2, <1>5 DEF TeachersInRoom, StudentsInRoom
  <2>3. NoStudentInTeacherRoom'
    BY <1>1, <1>2, <1>3, <1>4 DEF NoStudentInTeacherRoom, TypeOK
  <2> QED  BY <2>1, <2>3
<1>8. TimersRun' /\ CourseFollows' /\ GraceKept'
  BY <1>2, <1>5 DEF TimersRun, TimerOnlyWhileAway, CourseFollows, GraceKept
<1>9. TeacherKnowsClass'
  <2> SUFFICES ASSUME NEW m \in Nonce, NEW t \in TeacherSids(m)'
               PROVE  known'[t] = StudentSids(m)'
    BY DEF TeacherKnowsClass
  <2>1. t \in Sid /\ t \in TeacherSids(m) /\ known[t] = StudentSids(m)
    BY <1>5 DEF TeacherSids, RoleSids, TeacherKnowsClass
  <2>2. t \in teacherRoom[n] <=> m = n
    BY <2>1 DEF TeachersInRoom, NoStudentInTeacherRoom, TeacherSids, RoleSids
  <2> QED  BY <2>1, <2>2, <1>2, <1>5
<1>10. PinnedDevice'
  BY <1>1, <1>2, <1>4 DEF PinnedDevice
<1> QED  BY <1>3, <1>6, <1>7, <1>8, <1>9, <1>10

\* A step that changes no more than the bucket and the pin of a student.
LEMMA EntryInv ==
  ASSUME NEW s \in Sid, IInv, SIDS[s].role = "student",
         SIDS' \in [Sid -> Entry],
         \A x \in Sid \ {s} : SIDS'[x] = SIDS[x],
         SIDS'[s].role = "student", SIDS'[s].nonce = SIDS[s].nonce,
         heard' \in [Sid -> SUBSET Device],
         PinnedDevice',
         UNCHANGED <<session, link, teacherRoom, studentRoom, timers, tasks, generation,
                     away, known, told, course>>
  PROVE  IInv'
<1> USE DEF IInv, InRooms
<1>1. TypeOK'
  BY DEF TypeOK
<1>2. \A x \in Sid : SIDS'[x].role = SIDS[x].role /\ SIDS'[x].nonce = SIDS[x].nonce
  OBVIOUS
<1>3. \A m \in Nonce : /\ TeacherSids(m)' = TeacherSids(m)
                       /\ StudentSids(m)' = StudentSids(m)
  BY <1>2 DEF TeacherSids, StudentSids, RoleSids
<1>4. Registered'
  BY <1>2 DEF Registered
<1>5. InRooms'
  BY <1>1, <1>2, <1>3 DEF TeachersInRoom, StudentsInRoom, NoStudentInTeacherRoom, TypeOK
<1>6. TimersRun' /\ CourseFollows' /\ GraceKept' /\ TeacherKnowsClass'
  BY <1>3 DEF TimersRun, TimerOnlyWhileAway, CourseFollows, GraceKept, TeacherKnowsClass
<1> QED  BY <1>1, <1>4, <1>5, <1>6

\* A dropped event takes a token and counts, or disconnects its sender.
LEMMA DropInv ==
  ASSUME NEW s \in Sid, IInv, SIDS[s].role = "student", DropStudentEvent(s)
  PROVE  IInv'
<1>1. CASE SIDS[s].drops + 1 >= MaxDrops
  BY <1>1, LeaveInv DEF DropStudentEvent
<1>2. CASE ~(SIDS[s].drops + 1 >= MaxDrops)
  <2>1. /\ SIDS' = [SIDS EXCEPT ![s].tokens = AfterTake(@), ![s].drops = @ + 1]
        /\ UNCHANGED <<session, link, teacherRoom, studentRoom, timers, tasks,
                       generation, away, known, heard, told, course>>
    BY <1>2 DEF DropStudentEvent, rooms, clocks, history
  <2>2. SIDS \in [Sid -> Entry] /\ SIDS[s] \in Entry
    BY DEF IInv, TypeOK
  <2>3. /\ AfterTake(SIDS[s].tokens) \in 0 .. Capacity
        /\ SIDS[s].drops + 1 \in 0 .. MaxDrops
    BY <1>2, <2>2, RelayAssumption DEF AfterTake, Entry
  <2>4. SIDS' \in [Sid -> Entry]
    BY <2>1, <2>2, <2>3 DEF Entry
  <2>5. /\ \A x \in Sid \ {s} : SIDS'[x] = SIDS[x]
        /\ SIDS'[s].role = "student"
        /\ SIDS'[s].nonce = SIDS[s].nonce
        /\ SIDS'[s].device_id = SIDS[s].device_id
    BY <2>1, <2>2 DEF Entry
  <2>6. PinnedDevice' /\ heard' \in [Sid -> SUBSET Device]
    BY <2>1, <2>5 DEF IInv, PinnedDevice, TypeOK
  <2> QED  BY <2>1, <2>4, <2>5, <2>6, EntryInv
<1> QED  BY <1>1, <1>2

\* A relayed event pins its sender and ends the run of drops.
LEMMA RelayedInv ==
  ASSUME NEW s \in Sid, NEW d \in Device \cup {NoDevice}, IInv, StudentEventRelayed(s, d)
  PROVE  IInv'
<1>1. /\ SIDS' = [SIDS EXCEPT ![s].tokens = AfterTake(@), ![s].device_id = d, ![s].drops = 0]
      /\ heard' = [heard EXCEPT ![s] = @ \cup {d}]
      /\ UNCHANGED <<session, link, teacherRoom, studentRoom, timers, tasks,
                     generation, away, known, told, course>>
      /\ SIDS[s].role = "student"
      /\ d \in Device /\ SIDS[s].device_id \in {NoDevice, d}
  BY DEF StudentEventRelayed, MayPin, rooms, clocks
<1>2. /\ SIDS \in [Sid -> Entry] /\ SIDS[s] \in Entry
      /\ heard \in [Sid -> SUBSET Device]
  BY DEF IInv, TypeOK
<1>3. AfterTake(SIDS[s].tokens) \in 0 .. Capacity /\ 0 \in 0 .. MaxDrops
  BY <1>2, RelayAssumption DEF AfterTake, Entry
<1>4. SIDS' \in [Sid -> Entry] /\ heard' \in [Sid -> SUBSET Device]
  BY <1>1, <1>2, <1>3 DEF Entry
<1>5. /\ \A x \in Sid \ {s} : SIDS'[x] = SIDS[x] /\ heard'[x] = heard[x]
      /\ SIDS'[s].role = "student" /\ SIDS'[s].nonce = SIDS[s].nonce
      /\ SIDS'[s].device_id = d /\ heard'[s] = heard[s] \cup {d}
  BY <1>1, <1>2 DEF Entry
<1>6. PinnedDevice'
  <2>1. \A x \in Sid : heard[x] = IF SIDS[x].device_id = NoDevice THEN {}
                                                                 ELSE {SIDS[x].device_id}
    BY DEF IInv, PinnedDevice
  <2>2. d # NoDevice
    BY <1>1, RelayAssumption
  <2>3. heard'[s] = {d}
    BY <1>1, <1>5, <2>1
  <2>4. \A x \in Sid \ {s} : heard'[x] = IF SIDS'[x].device_id = NoDevice THEN {}
                                                          ELSE {SIDS'[x].device_id}
    BY <1>5, <2>1
  <2> QED  BY <1>5, <2>2, <2>3, <2>4 DEF PinnedDevice
<1> QED  BY <1>1, <1>4, <1>5, <1>6, EntryInv

\* A refilled bucket.
LEMMA RefillInv ==
  ASSUME NEW s \in Sid, IInv, Refill(s)
  PROVE  IInv'
<1>1. /\ SIDS' = [SIDS EXCEPT ![s].tokens = @ + 1]
      /\ UNCHANGED <<session, link, teacherRoom, studentRoom, timers, tasks,
                     generation, away, known, heard, told, course>>
      /\ SIDS[s].role = "student" /\ SIDS[s].tokens < Capacity
  BY DEF Refill, rooms, clocks, history
<1>2. SIDS \in [Sid -> Entry] /\ SIDS[s] \in Entry
  BY DEF IInv, TypeOK
<1>3. SIDS[s].tokens + 1 \in 0 .. Capacity
  BY <1>1, <1>2, RelayAssumption DEF Entry
<1>4. SIDS' \in [Sid -> Entry]
  BY <1>1, <1>2, <1>3 DEF Entry
<1>5. /\ \A x \in Sid \ {s} : SIDS'[x] = SIDS[x]
      /\ SIDS'[s].role = "student"
      /\ SIDS'[s].nonce = SIDS[s].nonce
      /\ SIDS'[s].device_id = SIDS[s].device_id
  BY <1>1, <1>2 DEF Entry
<1>6. PinnedDevice' /\ heard' \in [Sid -> SUBSET Device]
  BY <1>1, <1>5 DEF IInv, PinnedDevice, TypeOK
<1> QED  BY <1>1, <1>4, <1>5, <1>6, EntryInv

\* A tick: what a task sleeps less, the teachers have been away more.
LEMMA TickInv ==
  ASSUME IInv, Tick
  PROVE  IInv'
<1> USE DEF IInv, InRooms
<1>1. UNCHANGED <<session, link, SIDS, teacherRoom, studentRoom, timers, generation,
                  known, heard, told, course>>
  BY DEF Tick, rooms
<1>2. ASSUME NEW t \in tasks
      PROVE  [t EXCEPT !.left = IF @ > 0 THEN @ - 1 ELSE 0] \in Task
  BY <1>2, RelayAssumption DEF TypeOK, Task
<1>3. \A u \in tasks' : \E t \in tasks : /\ u.nonce = t.nonce
                                        /\ u.generation = t.generation
                                        /\ u.left = IF t.left > 0 THEN t.left - 1 ELSE 0
  BY DEF Tick, TypeOK, Task
<1>4. \A t \in tasks : \E u \in tasks' : u.nonce = t.nonce /\ u.generation = t.generation
  <2> DEFINE f(t) == [t EXCEPT !.left = IF @ > 0 THEN @ - 1 ELSE 0]
  <2>1. ASSUME NEW t \in tasks
        PROVE  f(t) \in tasks' /\ f(t).nonce = t.nonce /\ f(t).generation = t.generation
    BY DEF Tick, TypeOK, Task
  <2> QED  BY <2>1
<1>5. \A n \in Nonce : /\ TeacherSids(n)' = TeacherSids(n)
                       /\ StudentSids(n)' = StudentSids(n)
  BY <1>1 DEF TeacherSids, StudentSids, RoleSids
<1>6. away' \in [Nonce -> 0 .. Grace]
  BY RelayAssumption DEF TypeOK, Tick
<1>7. TypeOK'
  BY <1>1, <1>2, <1>6 DEF TypeOK, Tick
<1>8. /\ Registered' /\ PinnedDevice'
      /\ InRooms' /\ TeacherKnowsClass'
  <2>1. Registered' /\ PinnedDevice'
    BY <1>1 DEF Registered, PinnedDevice
  <2>2. InRooms' /\ TeacherKnowsClass'
    BY <1>1, <1>5 DEF TeachersInRoom, StudentsInRoom, NoStudentInTeacherRoom,
       TeacherKnowsClass
  <2> QED  BY <2>1, <2>2
<1>9. TimersRun' /\ CourseFollows'
  BY <1>1, <1>3, <1>4, <1>5 DEF TimersRun, TimerOnlyWhileAway, CourseFollows
<1>10. GraceKept'
  <2> SUFFICES ASSUME NEW u \in tasks', timers'[u.nonce] = u.generation
               PROVE  away'[u.nonce] + u.left >= Grace
    BY DEF GraceKept
  <2>1. PICK t \in tasks : /\ u.nonce = t.nonce
                           /\ u.generation = t.generation
                           /\ u.left = IF t.left > 0 THEN t.left - 1 ELSE 0
    BY <1>3
  <2>2. /\ t.nonce \in Nonce /\ t.generation # 0 /\ t.left \in 0 .. Grace
        /\ away[t.nonce] \in 0 .. Grace
    BY DEF TypeOK, Task
  <2>3. timers[t.nonce] = t.generation
    BY <2>1, <1>1
  <2>4. TeacherSids(t.nonce) = {}
    BY <2>2, <2>3 DEF TimersRun, TimerOnlyWhileAway
  <2>5. away[t.nonce] + t.left >= Grace
    BY <2>3 DEF GraceKept
  <2>6. away'[t.nonce] = IF away[t.nonce] < Grace THEN away[t.nonce] + 1 ELSE away[t.nonce]
    BY <2>2, <2>4 DEF Tick
  <2> QED  BY <2>1, <2>2, <2>5, <2>6, RelayAssumption
<1> QED  BY <1>7, <1>8, <1>9, <1>10

\* A restart keeps the rows and nothing else.
LEMMA RestartInv ==
  ASSUME IInv, Restart
  PROVE  IInv'
<1> USE DEF IInv
<1>1. TypeOK'
  BY EntryTypes DEF TypeOK, Restart
<1>2. /\ \A s \in Sid : SIDS'[s] = NoEntry /\ known'[s] = {} /\ heard'[s] = {}
      /\ \A n \in Nonce : teacherRoom'[n] = {} /\ studentRoom'[n] = {} /\ timers'[n] = 0
      /\ tasks' = {} /\ generation' = 1 /\ session' = session
      /\ \A n \in Nonce : course'[n] = IF course[n] = "hosted" THEN "idle" ELSE course[n]
  BY DEF Restart
<1>3. NoEntry.role = "none" /\ NoEntry.device_id = NoDevice
  BY DEF NoEntry
<1>4. \A n \in Nonce : TeacherSids(n)' = {} /\ StudentSids(n)' = {}
  BY <1>2, <1>3 DEF TeacherSids, StudentSids, RoleSids
<1>5. Registered' /\ PinnedDevice' /\ GraceKept'
  BY <1>2, <1>3 DEF Registered, PinnedDevice, GraceKept
<1>6. InRooms' /\ TeacherKnowsClass'
  BY <1>2, <1>4 DEF InRooms, TeachersInRoom, StudentsInRoom, NoStudentInTeacherRoom,
     TeacherKnowsClass
<1>7. TimersRun' /\ CourseFollows'
  BY <1>2 DEF TimersRun, TimerOnlyWhileAway, CourseFollows
<1> QED  BY <1>1, <1>5, <1>6, <1>7

\* A woken task ends the class, or finds that it is not due and only goes away.
LEMMA ExpireInv ==
  ASSUME NEW t \in tasks, IInv, GraceExpires(t)
  PROVE  IInv'
<1> DEFINE n == t.nonce
<1>1. n \in Nonce /\ tasks' = tasks \ {t}
  BY DEF IInv, TypeOK, Task, GraceExpires
<1>2. CASE StillDue(t)
  <2>1. /\ RelayEnd(n)
        /\ teacherRoom' = [teacherRoom EXCEPT ![n] = @ \ ClassSids(n)]
        /\ UNCHANGED <<generation, away>>
        /\ \/ session' = [session EXCEPT ![n] = IF @ = "lobby" THEN "ended" ELSE @]
           \/ UNCHANGED session
    BY <1>2 DEF GraceExpires
  <2>2. /\ session' \in [Nonce -> {"none", "lobby", "ended", "gone"}]
        /\ \A m \in Nonce \ {n} : session'[m] = session[m]
        /\ session'[n] # "none"
    <3>1. timers[n] # 0 /\ session[n] # "none"
      BY <1>1, <1>2 DEF IInv, TypeOK, TimersRun, StillDue, Task
    <3> QED  BY <1>1, <2>1, <3>1 DEF IInv, TypeOK
  <2>3. /\ teacherRoom' \in [Nonce -> SUBSET Sid]
        /\ \A m \in Nonce \ {n} : teacherRoom'[m] = teacherRoom[m]
        /\ teacherRoom'[n] \subseteq teacherRoom[n] \ ClassSids(n)
    BY <1>1, <2>1 DEF IInv, TypeOK
  <2> QED  BY <1>1, <2>1, <2>2, <2>3, EndInv
<1>3. CASE ~StillDue(t)
  <2> USE DEF IInv
  <2>1. UNCHANGED <<session, link, SIDS, teacherRoom, studentRoom, timers, generation,
                    away, known, heard, told, course>>
    BY <1>3 DEF GraceExpires, rooms, history
  <2>2. TypeOK'
    BY <1>1, <2>1 DEF TypeOK
  <2>3. \A m \in Nonce : /\ TeacherSids(m)' = TeacherSids(m)
                         /\ StudentSids(m)' = StudentSids(m)
    BY <2>1 DEF TeacherSids, StudentSids, RoleSids
  <2>4. Registered' /\ InRooms' /\ TeacherKnowsClass' /\ PinnedDevice' /\ GraceKept'
    BY <1>1, <2>1, <2>3 DEF Registered, InRooms, TeachersInRoom, StudentsInRoom,
       NoStudentInTeacherRoom, TeacherKnowsClass, PinnedDevice, GraceKept
  <2>6. CourseFollows'
    BY <2>1, <2>3 DEF CourseFollows
  <2>5. TimersRun'
    <3>1. ASSUME NEW m \in Nonce, timers[m] # 0
          PROVE  \E u \in tasks' : u.nonce = m /\ u.generation = timers[m]
      <4>1. PICK u \in tasks : u.nonce = m /\ u.generation = timers[m]
        BY <3>1 DEF TimersRun, TimerOnlyWhileAway
      <4>2. u # t
        BY <1>3, <3>1, <4>1 DEF StillDue, TimersRun, TimerOnlyWhileAway
      <4> QED  BY <1>1, <4>1, <4>2
    <3> QED  BY <1>1, <2>1, <2>3, <3>1 DEF TimersRun, TimerOnlyWhileAway
  <2> QED  BY <2>2, <2>4, <2>5, <2>6
<1> QED  BY <1>2, <1>3

\* The owner ends the class.
LEMMA EndRouteInv ==
  ASSUME NEW n \in Nonce, IInv, EndSessionRoute(n)
  PROVE  IInv'
<1>1. /\ RelayEnd(n)
      /\ session' = [session EXCEPT ![n] = "ended"]
      /\ teacherRoom' = [teacherRoom EXCEPT ![n] = {}]
      /\ UNCHANGED <<tasks, generation, away>>
  BY DEF EndSessionRoute
<1>2. /\ session' \in [Nonce -> {"none", "lobby", "ended", "gone"}]
      /\ \A m \in Nonce \ {n} : session'[m] = session[m]
      /\ session'[n] # "none"
      /\ teacherRoom' \in [Nonce -> SUBSET Sid]
      /\ \A m \in Nonce \ {n} : teacherRoom'[m] = teacherRoom[m]
      /\ teacherRoom'[n] = {}
  BY <1>1 DEF IInv, TypeOK
<1> QED  BY <1>1, <1>2, EndInv

-----------------------------------------------------------------------------
(***************************************************************************)
(* The theorems.                                                           *)
(***************************************************************************)
\* Every step preserves the inductive invariant.
LEMMA NextInv == IInv /\ [Next]_vars => IInv'
<1> SUFFICES ASSUME IInv, [Next]_vars PROVE IInv'
  OBVIOUS
<1>1. ASSUME NEW n \in Nonce, CreateSession(n) \/ EndSessionRoute(n)
                             \/ EndSessionRaises(n) \/ DeleteLesson(n)
      PROVE  IInv'
  BY <1>1, RowInv, EndRouteInv
<1>2. ASSUME NEW s \in Sid, NEW n \in Nonce,
             ConnectTeacher(s, n) \/ ConnectTeacherRaises(s, n) \/ ConnectStudent(s, n)
      PROVE  IInv'
  BY <1>2, ConnectTeacherInv, ConnectTeacherRaisesInv, ConnectStudentInv
<1>3. ASSUME NEW s \in Sid, Disconnect(s) \/ StudentActsAsTeacher(s) \/ Refill(s)
      PROVE  IInv'
  BY <1>3, LeaveInv, DropInv, RefillInv DEF Disconnect, StudentActsAsTeacher
<1>4. ASSUME NEW s \in Sid, NEW d \in Device \cup {NoDevice},
             StudentEventRelayed(s, d) \/ StudentEventDropped(s, d)
      PROVE  IInv'
  BY <1>4, RelayedInv, DropInv DEF StudentEventDropped
<1>5. ASSUME NEW t \in tasks, GraceExpires(t)
      PROVE  IInv'
  BY <1>5, ExpireInv
<1>6. CASE Tick
  BY <1>6, TickInv
<1>7. CASE Restart
  BY <1>7, RestartInv
<1>8. CASE UNCHANGED vars
  <2>1. UNCHANGED <<TypeOK, Registered, InRooms, TimersRun, CourseFollows, GraceKept,
                    TeacherKnowsClass, PinnedDevice>>
    BY <1>8 DEF vars, TypeOK, Registered, InRooms, TeachersInRoom, StudentsInRoom,
       NoStudentInTeacherRoom, TimersRun, TimerOnlyWhileAway, CourseFollows, GraceKept,
       TeacherKnowsClass, PinnedDevice, TeacherSids, StudentSids, RoleSids
  <2> QED  BY <2>1 DEF IInv
<1> QED  BY <1>1, <1>2, <1>3, <1>4, <1>5, <1>6, <1>7, <1>8 DEF Next

\* The inductive invariant holds of every reachable state of the relay.
THEOREM Inductive == Spec => []IInv
BY InitInv, NextInv, PTL DEF Spec

\* The variables of SIDS, the rooms, the timers and the rows keep their types.
THEOREM TypeCorrect == Spec => []TypeOK
<1>1. IInv => TypeOK
  BY DEF IInv
<1> QED  BY <1>1, Inductive, PTL

\* SIDS and the Socket.IO rooms agree about who is where.
THEOREM RoomsCorrect == Spec => []RoomsFollowRoles
<1>1. IInv => RoomsFollowRoles
  <2> SUFFICES ASSUME IInv PROVE RoomsFollowRoles
    OBVIOUS
  <2>1. \A s \in Sid : SIDS[s] # NoEntry => link[s] = "up"
    BY DEF IInv, Registered
  <2> QED  BY <2>1 DEF IInv, InRooms, TeachersInRoom, StudentsInRoom, RoomsFollowRoles
<1> QED  BY <1>1, Inductive, PTL

\* A class that relay_end closed stays empty, and a class that had a teacher and
\* was not closed, whatever became of its row, has a teacher or a timer.
THEOREM NobodyStranded == Spec => []NobodyIsStranded
<1>1. IInv => NobodyIsStranded
  <2> SUFFICES ASSUME IInv, NEW n \in Nonce
               PROVE  /\ course[n] = "closed" => timers[n] = 0 /\ \A s \in Sid : SIDS[s].nonce # n
                      /\ course[n] = "hosted" => timers[n] # 0 \/ TeacherSids(n) # {}
    BY DEF NobodyIsStranded
  <2>1. course[n] = "closed" => timers[n] = 0
    BY DEF IInv, TimersRun
  <2>2. ASSUME course[n] = "closed", NEW s \in Sid
        PROVE  SIDS[s].nonce # n
    <3>1. NoEntry.nonce \notin Nonce
      BY RelayAssumption DEF NoEntry
    <3> QED  BY <2>2, <3>1 DEF IInv, Registered
  <2>3. course[n] = "hosted" => timers[n] # 0 \/ TeacherSids(n) # {}
    BY DEF IInv, CourseFollows
  <2> QED  BY <2>1, <2>2, <2>3
<1> QED  BY <1>1, Inductive, PTL

\* A timer runs only while no teacher is there, and a task will wake for it.
THEOREM TimersCorrect == Spec => []TimerOnlyWhileAway
<1>1. IInv => TimerOnlyWhileAway
  BY DEF IInv, TimersRun
<1> QED  BY <1>1, Inductive, PTL

\* Every registered teacher has been told exactly the students of its class.
THEOREM TeachersKnow == Spec => []TeacherKnowsClass
<1>1. IInv => TeacherKnowsClass
  BY DEF IInv
<1> QED  BY <1>1, Inductive, PTL

\* One connection, one device.
THEOREM DevicesPinned == Spec => []PinnedDevice
<1>1. IInv => PinnedDevice
  BY DEF IInv
<1> QED  BY <1>1, Inductive, PTL

\* An expiry that changes a class comes after a whole grace period without a
\* teacher: the current task has slept it out, and any other finds its
\* generation gone.
THEOREM GraceIsWhole == Spec => GraceNeverCutsShort
<1>1. IInv /\ [Next]_vars =>
        [\A t \in tasks :
           GraceExpires(t) /\ <<session, SIDS, timers>>' # <<session, SIDS, timers>>
             => away[t.nonce] = Grace]_vars
  <2> SUFFICES ASSUME IInv, NEW t \in tasks, GraceExpires(t),
                      <<session, SIDS, timers>>' # <<session, SIDS, timers>>
               PROVE  away[t.nonce] = Grace
    OBVIOUS
  <2>1. StillDue(t) /\ t.left = 0
    BY DEF GraceExpires
  <2>2. away[t.nonce] + t.left >= Grace /\ away[t.nonce] \in 0 .. Grace
    BY <2>1 DEF IInv, GraceKept, StillDue, TypeOK, Task
  <2> QED  BY <2>1, <2>2, RelayAssumption
<1> QED  BY <1>1, Inductive, PTL DEF Spec, GraceNeverCutsShort

\* Only these steps change the row of a class, and each of them only its own.
LEMMA WhoChangesRows ==
  ASSUME IInv, Next, NEW n \in Nonce, session'[n] # session[n]
  PROVE  \/ CreateSession(n) \/ EndSessionRoute(n) \/ EndSessionRaises(n) \/ DeleteLesson(n)
         \/ \E t \in tasks : t.nonce = n /\ GraceExpires(t) /\ RelayEnd(n)
                             /\ teacherRoom' = [teacherRoom EXCEPT ![n] = @ \ ClassSids(n)]
<1>1. session \in [Nonce -> {"none", "lobby", "ended", "gone"}]
  BY DEF IInv, TypeOK
<1>2. ASSUME NEW m \in Nonce, CreateSession(m) \/ EndSessionRoute(m)
                             \/ EndSessionRaises(m) \/ DeleteLesson(m)
      PROVE  m = n
  BY <1>1, <1>2 DEF CreateSession, EndSessionRoute, EndSessionRaises, DeleteLesson
<1>3. ASSUME NEW t \in tasks, GraceExpires(t)
      PROVE  t.nonce = n /\ RelayEnd(n)
             /\ teacherRoom' = [teacherRoom EXCEPT ![n] = @ \ ClassSids(n)]
  BY <1>1, <1>3 DEF GraceExpires
<1>4. ASSUME NEW s \in Sid, Leave(s) \/ DropStudentEvent(s)
      PROVE  UNCHANGED session
  BY <1>4 DEF Leave, DropStudentEvent
<1>5. ~ \E s \in Sid : Disconnect(s) \/ StudentActsAsTeacher(s) \/ Refill(s)
  BY <1>4 DEF Disconnect, StudentActsAsTeacher, Refill
<1>6. ~ \E s \in Sid, d \in Device \cup {NoDevice} :
            StudentEventRelayed(s, d) \/ StudentEventDropped(s, d)
  BY <1>4 DEF StudentEventRelayed, StudentEventDropped
<1>7. ~ \E s \in Sid, m \in Nonce :
            ConnectTeacher(s, m) \/ ConnectTeacherRaises(s, m) \/ ConnectStudent(s, m)
  BY DEF ConnectTeacher, ConnectTeacherRaises, ConnectStudent
<1>8. ~ (Tick \/ Restart)
  BY DEF Tick, Restart
<1> QED  BY <1>2, <1>3, <1>5, <1>6, <1>7, <1>8 DEF Next

\* The end of a class tells its students in the step that drops them; it drops
\* nobody of another class.
LEMMA EndTells ==
  ASSUME IInv, NEW n \in Nonce, RelayEnd(n), NEW m \in Nonce, NEW s \in StudentSids(m),
         link'[s] = "down"
  PROVE  s \in told'
<1>1. s \in Sid /\ link[s] = "up" /\ SIDS[s].nonce = m /\ s \in studentRoom[m]
  BY DEF IInv, Registered, InRooms, StudentsInRoom, StudentSids, RoleSids
<1>2. s \in ClassSids(n)
  BY <1>1 DEF RelayEnd
<1>3. m = n
  BY <1>1, <1>2 DEF ClassSids
<1> QED  BY <1>1, <1>3 DEF RelayEnd, ToldEnded

\* A student that loses its connection was told, or left, or the process restarted.
THEOREM StudentsAreTold == Spec => NoSilentDrop
<1>1. ASSUME IInv, Next, NEW n \in Nonce, NEW s \in StudentSids(n),
             link'[s] = "down", s \notin told'
      PROVE  Leave(s) \/ Restart
  <2>1. s \in Sid /\ link[s] = "up"
    BY <1>1 DEF IInv, Registered, StudentSids, RoleSids
  <2>2. ASSUME NEW m \in Nonce, CreateSession(m) \/ EndSessionRoute(m)
                               \/ EndSessionRaises(m) \/ DeleteLesson(m)
        PROVE  FALSE
    <3>1. CASE EndSessionRoute(m)
      BY <1>1, <3>1, EndTells DEF EndSessionRoute
    <3>2. CASE CreateSession(m) \/ EndSessionRaises(m) \/ DeleteLesson(m)
      BY <1>1, <2>1, <3>2 DEF CreateSession, EndSessionRaises, DeleteLesson
    <3> QED  BY <2>2, <3>1, <3>2
  <2>3. ASSUME NEW t \in tasks, GraceExpires(t)
        PROVE  FALSE
    <3>1. t.nonce \in Nonce
      BY <1>1 DEF IInv, TypeOK, Task
    <3>2. CASE StillDue(t)
      BY <1>1, <2>3, <3>1, <3>2, EndTells DEF GraceExpires
    <3>3. CASE ~StillDue(t)
      BY <1>1, <2>1, <2>3, <3>3 DEF GraceExpires
    <3> QED  BY <3>2, <3>3
  <2>4. link \in [Sid -> {"fresh", "up", "down"}]
    BY <1>1 DEF IInv, TypeOK
  <2>5. ASSUME NEW x \in Sid, NEW m \in Nonce,
               ConnectTeacher(x, m) \/ ConnectTeacherRaises(x, m) \/ ConnectStudent(x, m)
        PROVE  FALSE
    <3>1. link' = [link EXCEPT ![x] = "up"]
      BY <2>5 DEF ConnectTeacher, ConnectTeacherRaises, ConnectStudent
    <3> QED  BY <1>1, <2>1, <2>4, <3>1
  <2>6. ASSUME NEW x \in Sid, Leave(x)
        PROVE  Leave(s)
    <3>1. link' = [link EXCEPT ![x] = "down"]
      BY <2>6 DEF Leave
    <3>2. x = s
      BY <1>1, <2>1, <2>4, <3>1
    <3> QED  BY <2>6, <3>2
  <2>7. ASSUME NEW x \in Sid, DropStudentEvent(x)
        PROVE  Leave(s)
    BY <1>1, <2>1, <2>6, <2>7 DEF DropStudentEvent
  <2>8. ASSUME NEW x \in Sid, Disconnect(x) \/ StudentActsAsTeacher(x) \/ Refill(x)
        PROVE  Leave(s)
    BY <1>1, <2>1, <2>6, <2>7, <2>8 DEF Disconnect, StudentActsAsTeacher, Refill
  <2>9. ASSUME NEW x \in Sid, NEW d \in Device \cup {NoDevice},
               StudentEventRelayed(x, d) \/ StudentEventDropped(x, d)
        PROVE  Leave(s)
    BY <1>1, <2>1, <2>7, <2>9 DEF StudentEventRelayed, StudentEventDropped
  <2>10. ~Tick
    BY <1>1, <2>1 DEF Tick
  <2> QED  BY <1>1, <2>2, <2>3, <2>5, <2>8, <2>9, <2>10 DEF Next
<1>2. IInv /\ [Next]_vars =>
        [\A n \in Nonce : \A s \in StudentSids(n) :
           link'[s] = "down" /\ s \notin told' => Leave(s) \/ Restart]_vars
  BY <1>1
<1> QED  BY <1>2, Inductive, PTL DEF Spec, NoSilentDrop

\* The end of a class takes its own members out of the rooms and of SIDS; by the
\* invariant nobody else's room or roster holds them.
THEOREM ClassesApart == Spec => ClassesAreSeparate
<1>1. ASSUME IInv, Next, NEW n \in Nonce, NEW m \in Nonce, n # m, session'[n] # session[n]
      PROVE  /\ StudentSids(m)' = StudentSids(m) /\ TeacherSids(m)' = TeacherSids(m)
             /\ studentRoom'[m] = studentRoom[m] /\ teacherRoom'[m] = teacherRoom[m]
             /\ timers'[m] = timers[m]
             /\ \A t \in TeacherSids(m) : known'[t] = known[t]
  <2>1. CASE CreateSession(n) \/ EndSessionRaises(n) \/ DeleteLesson(n)
    BY <1>1, <2>1 DEF CreateSession, EndSessionRaises, DeleteLesson, rooms, clocks, history, StudentSids,
                TeacherSids, RoleSids
  <2>2. ASSUME RelayEnd(n), teacherRoom'[m] = teacherRoom[m]
        PROVE  /\ StudentSids(m)' = StudentSids(m) /\ TeacherSids(m)' = TeacherSids(m)
               /\ studentRoom'[m] = studentRoom[m] /\ teacherRoom'[m] = teacherRoom[m]
               /\ timers'[m] = timers[m]
               /\ \A t \in TeacherSids(m) : known'[t] = known[t]
    <3>0. SIDS \in [Sid -> Entry] /\ timers \in [Nonce -> Nat] /\ NoEntry.nonce = NoNonce
      BY <1>1 DEF IInv, TypeOK, NoEntry
    <3>1. \A s \in Sid : SIDS[s].nonce = m => SIDS'[s] = SIDS[s] /\ s \notin ClassSids(n)
      BY <1>1, <2>2 DEF RelayEnd, ClassSids
    <3>2. \A s \in Sid : SIDS'[s].nonce = m => SIDS[s].nonce = m
      BY <2>2, <3>0, RelayAssumption DEF RelayEnd
    <3>3. StudentSids(m)' = StudentSids(m) /\ TeacherSids(m)' = TeacherSids(m)
      BY <3>1, <3>2 DEF StudentSids, TeacherSids, RoleSids
    <3>4. \A s \in studentRoom[m] : s \in Sid /\ SIDS[s].nonce = m
      BY <1>1 DEF IInv, InRooms, StudentsInRoom, StudentSids, RoleSids
    <3>5. studentRoom'[m] = studentRoom[m]
      BY <2>2, <3>1, <3>4 DEF RelayEnd
    <3>6. timers'[m] = timers[m]
      BY <1>1, <2>2, <3>0 DEF RelayEnd, TimerRemoved
    <3>7. \A t \in TeacherSids(m) : known'[t] = known[t]
      BY <2>2, <3>1 DEF RelayEnd, TeacherSids, RoleSids
    <3> QED  BY <2>2, <3>3, <3>5, <3>6, <3>7
  <2>3. teacherRoom \in [Nonce -> SUBSET Sid]
    BY <1>1 DEF IInv, TypeOK
  <2>4. CASE EndSessionRoute(n)
    BY <1>1, <2>2, <2>3, <2>4 DEF EndSessionRoute
  <2>5. CASE \E t \in tasks : t.nonce = n /\ GraceExpires(t) /\ RelayEnd(n)
                   /\ teacherRoom' = [teacherRoom EXCEPT ![n] = @ \ ClassSids(n)]
    BY <1>1, <2>2, <2>3, <2>5
  <2> QED  BY <1>1, <2>1, <2>4, <2>5, WhoChangesRows
<1>2. IInv /\ [Next]_vars =>
        [\A n, m \in Nonce : n # m /\ session'[n] # session[n] =>
           /\ StudentSids(m)' = StudentSids(m) /\ TeacherSids(m)' = TeacherSids(m)
           /\ studentRoom'[m] = studentRoom[m] /\ teacherRoom'[m] = teacherRoom[m]
           /\ timers'[m] = timers[m]
           /\ \A t \in TeacherSids(m) : known'[t] = known[t]]_vars
  BY <1>1
<1> QED  BY <1>2, Inductive, PTL DEF Spec, ClassesAreSeparate

=============================================================================
