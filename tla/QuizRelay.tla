------------------------------ MODULE QuizRelay ------------------------------
(***************************************************************************)
(* The server's half of a live class: gdbgui/server/live_quiz.py.          *)
(*                                                                         *)
(* A class is a database row (named here by its join nonce) whose state is *)
(* 'lobby' until it is ended.  Everything else the relay knows is in       *)
(* memory: SIDS, which Socket.IO room each connection joined, and the      *)
(* grace timer of a class whose last teacher has left.  The server runs on *)
(* one eventlet hub and no handler yields between reading and writing this *)
(* state, so every handler is one action; the only place where one sleeps, *)
(* _teacher_grace_expired, is split at the sleep into a task and the step  *)
(* that wakes it.                                                          *)
(*                                                                         *)
(* The relay's payloads are opaque to it and are left out here: a student  *)
(* event is the device_id it carries.                                      *)
(***************************************************************************)
EXTENDS Integers, FiniteSets

CONSTANTS
  Nonce,        \* classes
  Sid,          \* connections; Socket.IO never reuses a sid
  Device,       \* device_id values that students put in their events
  NoNonce, NoDevice,   \* Python's None
  Grace,        \* TEACHER_GRACE_SECONDS, in clock ticks
  MaxStudents,  \* MAX_STUDENT_SOCKETS_PER_SESSION
  Capacity,     \* STUDENT_BUCKET_CAPACITY
  MaxDrops,     \* STUDENT_MAX_CONSECUTIVE_DROPS
  MayRestart,   \* whether the server process may restart
  MayFail       \* whether end_session may raise: before its commit or after it

ASSUME RelayAssumption ==
  /\ NoNonce \notin Nonce
  /\ NoDevice \notin Device
  /\ Grace \in Nat \ {0}
  /\ MaxStudents \in Nat \ {0}
  /\ Capacity \in Nat \ {0}
  /\ MaxDrops \in Nat \ {0}
  /\ MayRestart \in BOOLEAN
  /\ MayFail \in BOOLEAN

ASSUME SidAssumption == IsFiniteSet(Sid)

VARIABLES
  session,      \* state of the live_quiz_sessions row of each class
  link,         \* each connection: not made yet, up, or gone
  SIDS,         \* the SIDS dictionary
  teacherRoom,  \* members of _teacher_room(nonce)
  studentRoom,  \* members of _student_room(nonce)
  timers,       \* _GRACE_TIMERS: the current generation, 0 when there is none
  tasks,        \* the sleeping _teacher_grace_expired background tasks
  generation,   \* the next value of _grace_generations
  away,         \* history: ticks since a teacher was last registered, to Grace
  known,        \* history: students each teacher was told of, gone ones removed
  heard,        \* history: device_ids relayed to the teachers from each student
  told,         \* history: students that were sent the state "ended"
  course        \* history: what the relay made of each class: "hosted" since a
                \* teacher registered, "closed" by relay_end once its row had
                \* left the lobby, "idle" otherwise

rooms == <<teacherRoom, studentRoom>>
clocks == <<timers, tasks, generation>>
history == <<away, known, heard, told, course>>
vars == <<session, link, SIDS, teacherRoom, studentRoom, timers, tasks,
          generation, away, known, heard, told, course>>

Entry == [role      : {"none", "teacher", "student"},
          nonce     : Nonce \cup {NoNonce},
          device_id : Device \cup {NoDevice},
          tokens    : 0 .. Capacity,
          drops     : 0 .. MaxDrops]

Task == [nonce : Nonce, generation : Nat \ {0}, left : 0 .. Grace]

\* A sid that is not a key of SIDS.
NoEntry == [role |-> "none", nonce |-> NoNonce, device_id |-> NoDevice,
            tokens |-> 0, drops |-> 0]

TeacherEntry(n) == [role |-> "teacher", nonce |-> n, device_id |-> NoDevice,
                    tokens |-> 0, drops |-> 0]

\* The entry of a new student, with a full bucket (_new_bucket).
StudentEntry(n) == [role |-> "student", nonce |-> n, device_id |-> NoDevice,
                    tokens |-> Capacity, drops |-> 0]

RoleSids(n, role) == {s \in Sid : SIDS[s].nonce = n /\ SIDS[s].role = role}
TeacherSids(n) == RoleSids(n, "teacher")
StudentSids(n) == RoleSids(n, "student")

\* Mutants: relay_end that collects the students or the teachers only, or
\* everybody of every class.
MutantOnlyStudents(n) == StudentSids(n)
MutantOnlyTeachers(n) == TeacherSids(n)
MutantEveryClass(n) == {s \in Sid : SIDS[s] # NoEntry}

\* The sids that relay_end collects.
ClassSids(n) == {s \in Sid : SIDS[s].nonce = n}

\* Mutant: the timer is left where it is.
MutantKeepTimer(n) == timers

\* _GRACE_TIMERS.pop(n, None)
TimerRemoved(n) == [timers EXCEPT ![n] = 0]

\* Mutant: relay_end disconnects its sids before it tells the room.
MutantToldAfter(n) == told \cup (studentRoom[n] \ ClassSids(n))

\* Who has been sent "ended" after it was emitted to the student room.
ToldEnded(n) == told \cup studentRoom[n]

-----------------------------------------------------------------------------
Init ==
  /\ session = [n \in Nonce |-> "none"]
  /\ link = [s \in Sid |-> "fresh"]
  /\ SIDS = [s \in Sid |-> NoEntry]
  /\ teacherRoom = [n \in Nonce |-> {}]
  /\ studentRoom = [n \in Nonce |-> {}]
  /\ timers = [n \in Nonce |-> 0]
  /\ tasks = {}
  /\ generation = 1
  /\ away = [n \in Nonce |-> 0]
  /\ known = [s \in Sid |-> {}]
  /\ heard = [s \in Sid |-> {}]
  /\ told = {}
  /\ course = [n \in Nonce |-> "idle"]

-----------------------------------------------------------------------------
(***************************************************************************)
(* The HTTP routes.                                                        *)
(***************************************************************************)
\* POST /api/live-quiz/sessions: create_session commits a 'lobby' row.
CreateSession(n) ==
  /\ session[n] = "none"
  /\ session' = [session EXCEPT ![n] = "lobby"]
  /\ UNCHANGED <<link, SIDS, rooms, clocks, history>>

\* relay_end and the disconnects it asks for: the class's timer and entries go
\* first, so the disconnect handler of each sid finds no entry and does nothing;
\* then the student room is told, then the sids are disconnected.
RelayEnd(n) ==
  LET sids == ClassSids(n)
  IN  /\ timers' = TimerRemoved(n)
      /\ SIDS' = [s \in Sid |-> IF s \in sids THEN NoEntry ELSE SIDS[s]]
      /\ told' = ToldEnded(n)
      /\ link' = [s \in Sid |-> IF s \in sids THEN "down" ELSE link[s]]
      /\ studentRoom' = [m \in Nonce |-> studentRoom[m] \ sids]
      /\ known' = [s \in Sid |-> IF s \in sids THEN {} ELSE known[s]]
      /\ heard' = [s \in Sid |-> IF s \in sids THEN {} ELSE heard[s]]
      /\ course' = [course EXCEPT ![n] = IF session'[n] = "lobby" THEN "idle" ELSE "closed"]

\* POST /end by the owner, with an upload that is accepted or with none
\* (a refused upload changes nothing): end_session, relay_end, close_room.
EndSessionRoute(n) ==
  /\ session[n] = "lobby"
  /\ session' = [session EXCEPT ![n] = "ended"]
  /\ teacherRoom' = [teacherRoom EXCEPT ![n] = {}]
  /\ RelayEnd(n)
  /\ UNCHANGED <<tasks, generation, away>>

\* The same route when end_session raises once it has committed, from the hints
\* it writes back or from the row it reads: the answer is a 500, relay_end is not
\* called, and a second POST finds no lobby row.  What raises before the commit
\* is rolled back and changes nothing.
EndSessionRaises(n) ==
  /\ MayFail
  /\ session[n] = "lobby"
  /\ session' = [session EXCEPT ![n] = "ended"]
  /\ UNCHANGED <<link, SIDS, rooms, clocks, history>>

\* Deleting the lesson deletes the rows of its classes (ON DELETE CASCADE);
\* nobody tells the relay.
DeleteLesson(n) ==
  /\ session[n] = "lobby"
  /\ session' = [session EXCEPT ![n] = "gone"]
  /\ UNCHANGED <<link, SIDS, rooms, clocks, history>>

-----------------------------------------------------------------------------
(***************************************************************************)
(* Connections.  A refused connection changes nothing and has no action.   *)
(***************************************************************************)
\* connect with role "teacher": the owner, while the class is in the lobby.
ConnectTeacher(s, n) ==
  /\ link[s] = "fresh"
  /\ session[n] = "lobby"
  /\ link' = [link EXCEPT ![s] = "up"]
  /\ teacherRoom' = [teacherRoom EXCEPT ![n] = @ \cup {s}]
  /\ known' = [known EXCEPT ![s] = StudentSids(n)]     \* relay:roster
  /\ SIDS' = [SIDS EXCEPT ![s] = TeacherEntry(n)]
  /\ timers' = TimerRemoved(n)
  /\ away' = [away EXCEPT ![n] = 0]
  /\ course' = [course EXCEPT ![n] = "hosted"]
  /\ UNCHANGED <<session, studentRoom, tasks, generation, heard, told>>

\* Mutant: SIDS is written before the emit that raises.
MutantRegisterFirst(s, n) ==
  /\ link[s] = "fresh"
  /\ session[n] = "lobby"
  /\ link' = [link EXCEPT ![s] = "up"]
  /\ teacherRoom' = [teacherRoom EXCEPT ![n] = @ \cup {s}]
  /\ SIDS' = [SIDS EXCEPT ![s] = TeacherEntry(n)]
  /\ UNCHANGED <<session, studentRoom, clocks, history>>

\* The same handler when an emit raises: it has joined the room and stops there.
ConnectTeacherRaises(s, n) ==
  /\ link[s] = "fresh"
  /\ session[n] = "lobby"
  /\ link' = [link EXCEPT ![s] = "up"]
  /\ teacherRoom' = [teacherRoom EXCEPT ![n] = @ \cup {s}]
  /\ UNCHANGED <<session, SIDS, studentRoom, clocks, history>>

\* connect with role "student" and a join token of a class in the lobby.
ConnectStudent(s, n) ==
  /\ link[s] = "fresh"
  /\ session[n] = "lobby"
  /\ Cardinality(StudentSids(n)) < MaxStudents
  /\ link' = [link EXCEPT ![s] = "up"]
  /\ SIDS' = [SIDS EXCEPT ![s] = StudentEntry(n)]
  /\ studentRoom' = [studentRoom EXCEPT ![n] = @ \cup {s}]
  /\ known' = [t \in Sid |->                           \* relay:presence, true
                 IF t \in teacherRoom[n] THEN known[t] \cup {s} ELSE known[t]]
  /\ UNCHANGED <<session, teacherRoom, clocks, away, heard, told, course>>

\* _start_teacher_grace: a new generation, and a task that sleeps for it.
StartTeacherGrace(n) ==
  /\ timers' = [timers EXCEPT ![n] = generation]
  /\ tasks' = tasks \cup {[nonce |-> n, generation |-> generation, left |-> Grace]}
  /\ generation' = generation + 1

\* Mutant: the teachers are looked up before the entry is popped.
MutantLookUpFirst(s) == SIDS[s].role = "teacher" /\ TeacherSids(SIDS[s].nonce) = {}

\* Without its own entry, no teacher is left in the class of s.
LastTeacher(s) == SIDS[s].role = "teacher" /\ TeacherSids(SIDS[s].nonce) = {s}

\* The connection goes and the disconnect handler runs: a student's departure
\* is announced; the departure of the last teacher starts the grace period.
Leave(s) ==
  LET n == SIDS[s].nonce
  IN  /\ link' = [link EXCEPT ![s] = "down"]
      /\ teacherRoom' = [m \in Nonce |-> teacherRoom[m] \ {s}]
      /\ studentRoom' = [m \in Nonce |-> studentRoom[m] \ {s}]
      /\ SIDS' = [SIDS EXCEPT ![s] = NoEntry]
      /\ known' = [t \in Sid |->
                     CASE t = s -> {}
                       [] SIDS[s].role = "student" /\ t \in teacherRoom[n] /\ t # s
                            -> known[t] \ {s}          \* relay:presence, false
                       [] OTHER -> known[t]]
      /\ heard' = [heard EXCEPT ![s] = {}]
      /\ IF LastTeacher(s) THEN StartTeacherGrace(n) ELSE UNCHANGED clocks
      /\ UNCHANGED <<session, away, told, course>>

Disconnect(s) == link[s] = "up" /\ Leave(s)

-----------------------------------------------------------------------------
(***************************************************************************)
(* Student events (_relay_from_student) and their rate limit.              *)
(***************************************************************************)
\* Mutant: a token is taken whether there is one or not.
MutantTakeAnyway(tokens) == tokens - 1

\* _take_token on a bucket with this many tokens.
AfterTake(tokens) == IF tokens >= 1 THEN tokens - 1 ELSE tokens

\* _drop_student_event: one more drop in a row, the last one disconnects.
DropStudentEvent(s) ==
  IF SIDS[s].drops + 1 >= MaxDrops
  THEN Leave(s)
  ELSE /\ SIDS' = [SIDS EXCEPT ![s].tokens = AfterTake(@), ![s].drops = @ + 1]
       /\ UNCHANGED <<session, link, rooms, clocks, history>>

\* Mutant: any device may speak.
MutantNotPinned(s, d) == d # NoDevice

\* The event may pass if it carries a device_id and the sid is not pinned to
\* another one.
MayPin(s, d) == d # NoDevice /\ SIDS[s].device_id \in {NoDevice, d}

\* student:hello or student:answer, relayed to the teacher room: the sid is
\* pinned to the device_id and the run of drops is over.
StudentEventRelayed(s, d) ==
  /\ SIDS[s].role = "student"
  /\ SIDS[s].tokens >= 1
  /\ MayPin(s, d)
  /\ SIDS' = [SIDS EXCEPT ![s].tokens = AfterTake(@),
                          ![s].device_id = d,
                          ![s].drops = 0]
  /\ heard' = [heard EXCEPT ![s] = @ \cup {d}]
  /\ UNCHANGED <<session, link, rooms, clocks, away, known, told, course>>

\* The same event when the bucket is empty, or malformed (NoDevice), or from
\* another device than the sid is pinned to.
StudentEventDropped(s, d) ==
  /\ SIDS[s].role = "student"
  /\ SIDS[s].tokens = 0 \/ ~MayPin(s, d)
  /\ DropStudentEvent(s)

\* A student that sends a relay:to-* event (_teacher_caller): a token and a drop.
StudentActsAsTeacher(s) ==
  /\ SIDS[s].role = "student"
  /\ DropStudentEvent(s)

\* Time refills the bucket.
Refill(s) ==
  /\ SIDS[s].role = "student"
  /\ SIDS[s].tokens < Capacity
  /\ SIDS' = [SIDS EXCEPT ![s].tokens = @ + 1]
  /\ UNCHANGED <<session, link, rooms, clocks, history>>

-----------------------------------------------------------------------------
(***************************************************************************)
(* The grace period.                                                       *)
(***************************************************************************)
\* A tick of the clock: every sleeping task is a tick closer to waking.
Tick ==
  /\ \/ \E t \in tasks : t.left > 0
     \/ \E n \in Nonce : TeacherSids(n) = {} /\ away[n] < Grace
  /\ tasks' = {[t EXCEPT !.left = IF @ > 0 THEN @ - 1 ELSE 0] : t \in tasks}
  /\ away' = [n \in Nonce |->
                IF TeacherSids(n) = {} /\ away[n] < Grace THEN away[n] + 1
                                                          ELSE away[n]]
  /\ UNCHANGED <<session, link, SIDS, rooms, timers, generation, known, heard, told, course>>

\* Mutant: the class has a timer, of whatever generation.
MutantAnyGeneration(t) == timers[t.nonce] # 0 /\ TeacherSids(t.nonce) = {}

\* The check that a woken task makes before it ends the class.
StillDue(t) ==
  /\ timers[t.nonce] = t.generation
  /\ TeacherSids(t.nonce) = {}

\* _teacher_grace_expired wakes up.  end_session runs only for a lobby row, and
\* what it raises is logged and swallowed; the relay is torn down in any case.
GraceExpires(t) ==
  LET n == t.nonce
  IN  /\ t \in tasks
      /\ t.left = 0
      /\ tasks' = tasks \ {t}
      /\ IF StillDue(t)
         THEN /\ \/ session' = [session EXCEPT ![n] = IF @ = "lobby" THEN "ended" ELSE @]
                 \/ MayFail /\ session[n] = "lobby" /\ UNCHANGED session
              /\ RelayEnd(n)
              /\ teacherRoom' = [teacherRoom EXCEPT ![n] = @ \ ClassSids(n)]
              /\ UNCHANGED <<generation, away>>
         ELSE UNCHANGED <<session, link, SIDS, rooms, timers, generation, history>>

-----------------------------------------------------------------------------
\* The process restarts: the rows stay, the memory and every connection go.
Restart ==
  /\ MayRestart
  /\ tasks # {} \/ \E s \in Sid : link[s] = "up"
  /\ link' = [s \in Sid |-> IF link[s] = "up" THEN "down" ELSE link[s]]
  /\ SIDS' = [s \in Sid |-> NoEntry]
  /\ teacherRoom' = [n \in Nonce |-> {}]
  /\ studentRoom' = [n \in Nonce |-> {}]
  /\ timers' = [n \in Nonce |-> 0]
  /\ tasks' = {}
  /\ generation' = 1
  /\ known' = [s \in Sid |-> {}]
  /\ heard' = [s \in Sid |-> {}]
  /\ course' = [n \in Nonce |-> IF course[n] = "hosted" THEN "idle" ELSE course[n]]
  /\ UNCHANGED <<session, away, told>>

Next ==
  \/ \E n \in Nonce : CreateSession(n) \/ EndSessionRoute(n) \/ EndSessionRaises(n)
                        \/ DeleteLesson(n)
  \/ \E s \in Sid, n \in Nonce :
       ConnectTeacher(s, n) \/ ConnectTeacherRaises(s, n) \/ ConnectStudent(s, n)
  \/ \E s \in Sid : Disconnect(s) \/ StudentActsAsTeacher(s) \/ Refill(s)
  \/ \E s \in Sid, d \in Device \cup {NoDevice} :
       StudentEventRelayed(s, d) \/ StudentEventDropped(s, d)
  \/ \E t \in tasks : GraceExpires(t)
  \/ Tick
  \/ Restart

Spec == Init /\ [][Next]_vars

\* The clock runs and the hub runs what is due; nothing else is promised.
Fairness == WF_vars(Tick) /\ WF_vars(\E t \in tasks : GraceExpires(t))
FairSpec == Spec /\ Fairness

-----------------------------------------------------------------------------
(***************************************************************************)
(* Properties.                                                             *)
(***************************************************************************)
\* The type invariant of SIDS, the rooms, the timers and the class rows.
TypeOK ==
  /\ session \in [Nonce -> {"none", "lobby", "ended", "gone"}]
  /\ link \in [Sid -> {"fresh", "up", "down"}]
  /\ SIDS \in [Sid -> Entry]
  /\ teacherRoom \in [Nonce -> SUBSET Sid]
  /\ studentRoom \in [Nonce -> SUBSET Sid]
  /\ timers \in [Nonce -> Nat]
  /\ tasks \in SUBSET Task
  /\ generation \in Nat \ {0}
  /\ away \in [Nonce -> 0 .. Grace]
  /\ known \in [Sid -> SUBSET Sid]
  /\ heard \in [Sid -> SUBSET Device]
  /\ told \in SUBSET Sid
  /\ course \in [Nonce -> {"idle", "hosted", "closed"}]

\* What a handler reads from SIDS is what Socket.IO delivers to: a registered
\* teacher is in the teacher room of its class, the student room of a class is
\* exactly its registered students, and a registered sid is connected.
RoomsFollowRoles ==
  \A s \in Sid, n \in Nonce :
    /\ s \in TeacherSids(n) => s \in teacherRoom[n]
    /\ s \in StudentSids(n) <=> s \in studentRoom[n]
    /\ SIDS[s] # NoEntry => link[s] = "up"

\* Nobody is left behind by the end of a class.  Once relay_end has closed a class
\* no later connect, event, departure or expiry registers anybody or starts a
\* timer.  And a class that had a teacher and was not closed, be it one that
\* end_session ended in the database and then raised, has a teacher or a timer:
\* the timer will close it when the last teacher has gone.
NobodyIsStranded ==
  \A n \in Nonce :
    /\ course[n] = "closed" => timers[n] = 0 /\ \A s \in Sid : SIDS[s].nonce # n
    /\ course[n] = "hosted" => timers[n] # 0 \/ TeacherSids(n) # {}

\* _GRACE_TIMERS holds a class only while no teacher is registered for it, and
\* then some background task will wake up with the very same generation.
TimerOnlyWhileAway ==
  \A n \in Nonce : timers[n] # 0 =>
    /\ TeacherSids(n) = {}
    /\ \E t \in tasks : t.nonce = n /\ t.generation = timers[n]

\* The roster at connect and the presence events after it leave every teacher
\* connection with exactly the students registered in its class: nobody who was
\* there first, came while the teacher was away, or left, is missed.
TeacherKnowsClass ==
  \A n \in Nonce : \A t \in TeacherSids(n) : known[t] = StudentSids(n)

\* A teacher never hears two devices from one student connection, whatever the
\* student sends, and the roster's device_id is the one that was heard.
PinnedDevice ==
  \A s \in Sid : heard[s] = IF SIDS[s].device_id = NoDevice THEN {}
                                                            ELSE {SIDS[s].device_id}

\* Who is told and dropped when a class ends by a grace period: an expiry that
\* changes the class comes only after a whole grace period without a teacher.
\* A timer of an earlier absence, still asleep, can never cut a later one short.
GraceNeverCutsShort ==
  [][\A t \in tasks :
       GraceExpires(t) /\ <<session, SIDS, timers>>' # <<session, SIDS, timers>>
         => away[t.nonce] = Grace]_vars

\* A student that loses its connection has been sent the state "ended" by then,
\* in the same step at the latest, unless it left by itself or for its dropped
\* events, or the process restarted: no end of a class drops anybody in silence,
\* whether it was the owner's or the grace period's and whatever became of the row.
NoSilentDrop ==
  [][\A n \in Nonce : \A s \in StudentSids(n) :
       link'[s] = "down" /\ s \notin told' => Leave(s) \/ Restart]_vars

\* The end of one class, by its owner or by its grace period, leaves the other
\* classes alone: their people, their rooms and their timers.
ClassesAreSeparate ==
  [][\A n, m \in Nonce : n # m /\ session'[n] # session[n] =>
       /\ StudentSids(m)' = StudentSids(m) /\ TeacherSids(m)' = TeacherSids(m)
       /\ studentRoom'[m] = studentRoom[m] /\ teacherRoom'[m] = teacherRoom[m]
       /\ timers'[m] = timers[m]
       /\ \A t \in TeacherSids(m) : known'[t] = known[t]]_vars

\* A class that has had a teacher ends, unless a teacher is there or comes back
\* again and again (no restart, and end_session does not raise).
AbandonedClassEnds ==
  \A n \in Nonce :
    [](TeacherSids(n) # {} => []<>(session[n] # "lobby" \/ TeacherSids(n) # {}))

\* zz_live_quiz.spec.ts:269 says that closing the teacher's tab ends the class
\* after the grace period: a class without a teacher ends or gets one.  The code
\* does not have it, see README 6.
ClosedTabEndsClass ==
  \A n \in Nonce :
    session[n] = "lobby" ~> (session[n] # "lobby" \/ TeacherSids(n) # {})

=============================================================================
