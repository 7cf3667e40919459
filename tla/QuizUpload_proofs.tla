------------------------- MODULE QuizUpload_proofs --------------------------
(***************************************************************************)
(* Theorems about QuizUpload: what the end of a class has written stays,   *)
(* the hints written back with it overwrite no edit, and what the panel    *)
(* says of the summary is true of the class that it speaks of, however     *)
(* many calls overlap and whatever the store and the network do.           *)
(***************************************************************************)
EXTENDS QuizUpload, TLAPS

\* What is needed of the types: that the rows are functions on the classes.
RowsOK ==
  /\ row \in [Class -> {"none", "lobby", "ended"}]
  /\ endedBy \in [Class -> {"nobody", "teacher", "grace"}]

\* The rows, and what was written with their end, as one step leaves them:
\* nothing changes, a running class is ended, or a new one is made.
RowStep ==
  \/ UNCHANGED <<row, endedBy, stored>>
  \/ \E c, u, by : /\ MayEnd(c)
                   /\ by \in {"teacher", "grace"}
                   /\ EndSession(c, u, by)
  \/ \E c \in Class : /\ row[c] = "none"
                      /\ row' = [row EXCEPT ![c] = "lobby"]
                      /\ UNCHANGED <<endedBy, stored>>

\* Every action of the system changes the rows in one of these three ways.
LEMMA EveryStep == [Next]_vars => RowStep
<1> SUFFICES ASSUME [Next]_vars PROVE RowStep
  OBVIOUS
<1>1. CASE UNCHANGED vars
  BY <1>1 DEF vars, RowStep
<1>2. ASSUME NEW k \in Call, NEW t \in Tries,
             RouteGone(k, t) \/ RouteRefuses(k, t)
      PROVE  RowStep
  BY <1>2 DEF RouteGone, RouteRefuses, RowStep
<1>3. ASSUME NEW k \in Call, NEW t \in Tries,
             RouteEnds(k, t) \/ RouteRaisesLate(k, t)
      PROVE  RowStep
  <2>1. MayEnd(call[k].class) /\ EndSession(call[k].class, Body(k, t), "teacher")
    BY <1>3 DEF RouteEnds, RouteRaisesLate
  <2> QED
    BY <2>1 DEF RowStep
<1>4. ASSUME NEW c \in Class, GraceExpires(c)
      PROVE  RowStep
  <2>1. \/ MayEnd(c) /\ EndSession(c, "empty", "grace")
        \/ UNCHANGED <<row, endedBy, stored>>
    BY <1>4 DEF GraceExpires
  <2> QED
    BY <2>1 DEF RowStep
<1>5. ASSUME NEW c \in Class, Connect(c) \/ Refused(c) \/ Drop(c)
      PROVE  RowStep
  BY <1>5 DEF Connect, Refused, Drop, server, RowStep
<1>6. CASE SaveLesson
  BY <1>6 DEF SaveLesson, RowStep
<1>7. ASSUME NEW k \in Call, End(k) \/ RestartSession(k) \/ Returns(k)
                               \/ RestartFails(k) \/ ConnectPanel(k)
      PROVE  RowStep
  <2>1. UNCHANGED server
    BY <1>7 DEF End, RestartSession, Returns, Ends, EndsGone, EndFails,
                FirstFails, RestartFails, ConnectPanel
  <2> QED
    BY <2>1 DEF server, RowStep
<1>8. ASSUME NEW k \in Call, NEW c \in Class, CreateLiveSession(k, c)
      PROVE  RowStep
  BY <1>8 DEF CreateLiveSession, RowStep
<1> QED
  BY <1>1, <1>2, <1>3, <1>4, <1>5, <1>6, <1>7, <1>8 DEF Next, Handles

\* The rows stay functions on the classes.
LEMMA RowsTyped == Spec => []RowsOK
<1>1. Init => RowsOK
  BY DEF Init, RowsOK
<1>2. ASSUME RowsOK, RowStep
      PROVE  RowsOK'
  BY <1>2 DEF RowsOK, RowStep, EndSession
<1>3. RowsOK /\ [Next]_vars => RowsOK'
  BY <1>2, EveryStep
<1> QED
  BY <1>1, <1>3, PTL DEF Spec

\* The end of a class is final: no later request, retry, call or timer ends it
\* once more or adds a summary to it.
THEOREM EndIsFinal == Spec => EndedIsFinal
<1> DEFINE Kept == \A c \in Class :
                     row[c] = "ended" =>
                       /\ row'[c] = "ended" /\ endedBy'[c] = endedBy[c]
                       /\ (c \in stored') = (c \in stored)
<1>1. ASSUME RowsOK, RowStep
      PROVE  Kept
  <2> SUFFICES ASSUME NEW c \in Class, row[c] = "ended"
               PROVE  /\ row'[c] = "ended" /\ endedBy'[c] = endedBy[c]
                      /\ (c \in stored') = (c \in stored)
    OBVIOUS
  <2>1. CASE UNCHANGED <<row, endedBy, stored>>
    BY <2>1
  <2>2. ASSUME NEW d, NEW u, NEW by, MayEnd(d), EndSession(d, u, by)
        PROVE  /\ row'[c] = "ended" /\ endedBy'[c] = endedBy[c]
               /\ (c \in stored') = (c \in stored)
    <3>1. c # d
      BY <2>2 DEF MayEnd
    <3> QED
      BY <1>1, <2>2, <3>1 DEF RowsOK, EndSession
  <2>3. ASSUME NEW d \in Class, row[d] = "none",
               row' = [row EXCEPT ![d] = "lobby"], UNCHANGED <<endedBy, stored>>
        PROVE  /\ row'[c] = "ended" /\ endedBy'[c] = endedBy[c]
               /\ (c \in stored') = (c \in stored)
    BY <1>1, <2>3 DEF RowsOK
  <2> QED
    BY <1>1, <2>1, <2>2, <2>3 DEF RowStep
<1>2. RowsOK /\ [Next]_vars => [Kept]_vars
  BY <1>1, EveryStep
<1> QED
  BY <1>2, RowsTyped, PTL DEF Spec, EndedIsFinal

-----------------------------------------------------------------------------
(* Types, and what a request under way and a class know of the system.     *)

\* A request that is under way is about a class, and a call that has not
\* been made has no request.
PostsNamed ==
  \A k \in Call, t \in Tries :
    post[k][t] # "none" => call[k].class \in Class /\ call[k].stage # "idle"

\* A class was opened with a version of the lesson that is either the current
\* one, as it is, or an earlier one.
BasesKnown ==
  \A c \in Class :
    /\ base[c].version <= lesson.version
    /\ base[c].version = lesson.version => base[c] = lesson

IInv == TypeOK /\ PostsNamed /\ BasesKnown

USE DEF Tries

LEMMA InitIInv == Init => IInv
<1> SUFFICES ASSUME Init PROVE IInv
  OBVIOUS
<1>1. FirstVersion \in Version /\ NoCall \in CallRecord
  BY UploadAssumption DEF FirstVersion, Version, NoCall, CallRecord
<1>2. TypeOK
  BY <1>1 DEF Init, TypeOK, NoCall, PostState
<1>3. PostsNamed /\ BasesKnown
  BY DEF Init, PostsNamed, BasesKnown, FirstVersion
<1> QED
  BY <1>2, <1>3 DEF IInv

\* The lesson after the hints of a class were written into it, or not.
LEMMA HintsPersist ==
  ASSUME IInv, NEW c \in Class, NEW h \in BOOLEAN, NEW saved \in BOOLEAN,
         PersistTableHints(c, h, saved), UNCHANGED base
  PROVE  /\ lesson' \in Version /\ hintless' \subseteq Class
         /\ BasesKnown'
<1>0. hintless' \subseteq Class
  BY DEF PersistTableHints, IInv, TypeOK
<1>1. CASE UNCHANGED lesson
  BY <1>0, <1>1 DEF IInv, TypeOK, BasesKnown
<1>2. CASE StillCurrent(c) /\ lesson' = WithHints(c)
  <2>1. lesson' \in Version
    BY <1>2 DEF IInv, TypeOK, Version, WithHints
  <2>2. lesson'.version = lesson.version + 1
    BY <1>2 DEF WithHints
  <2> QED
    BY <1>0, <2>1, <2>2 DEF IInv, TypeOK, Version, BasesKnown
<1> QED
  BY <1>0, <1>1, <1>2 DEF PersistTableHints

\* The call k at another stage.
LEMMA StageTyped ==
  ASSUME TypeOK, NEW k \in Call,
         NEW s \in {"retry", "create", "prepare", "done"}, Stage(k, s)
  PROVE  /\ call' \in [Call -> CallRecord]
         /\ call'[k].class = call[k].class /\ call'[k].stage = s
         /\ \A j \in Call \ {k} : call'[j] = call[j]
<1> DEFINE r == [call[k] EXCEPT !.stage = s]
<1>1. call[k] \in CallRecord
  BY DEF TypeOK
<1>2. r \in CallRecord /\ r.class = call[k].class /\ r.stage = s
  BY <1>1 DEF CallRecord
<1>3. call' = [call EXCEPT ![k] = r]
  BY DEF Stage
<1> QED
  BY <1>2, <1>3 DEF TypeOK

\* The handling of a request.
LEMMA RouteIInv ==
  ASSUME IInv, NEW k \in Call, NEW t \in Tries,
         RouteGone(k, t) \/ RouteEnds(k, t) \/ RouteRefuses(k, t)
           \/ RouteRaisesLate(k, t)
  PROVE  IInv'
<1>1. call[k].class \in Class /\ post[k][t] = "sent" /\ call[k].stage # "idle"
  BY DEF RouteGone, RouteEnds, RouteRefuses, RouteRaisesLate, IInv, PostsNamed
<1>2. UNCHANGED <<base, met, engine, panel, busy, call>>
  BY DEF RouteGone, RouteEnds, RouteRefuses, RouteRaisesLate, Untouched
<1>3. PICK a \in PostState : Answer(k, t, a)
  BY DEF RouteGone, RouteEnds, RouteRefuses, RouteRaisesLate, PostState
<1>4. post' \in [Call -> [Tries -> PostState]]
  BY <1>3 DEF IInv, TypeOK, Answer, PostState
<1>5. PostsNamed'
  BY <1>1, <1>2, <1>3 DEF IInv, TypeOK, Answer, PostsNamed
<1>6. /\ told' \subseteq Class /\ grace' \subseteq Class
      /\ link' \in [Class -> {"none", "trying", "up", "kicked", "closed"}]
  BY <1>1 DEF RouteGone, RouteEnds, RouteRefuses, RouteRaisesLate, RelayEnd,
              IInv, TypeOK
<1>7. /\ row' \in [Class -> {"none", "lobby", "ended"}]
      /\ endedBy' \in [Class -> {"nobody", "teacher", "grace"}]
      /\ stored' \subseteq Class
  BY <1>1 DEF RouteGone, RouteEnds, RouteRefuses, RouteRaisesLate, EndSession,
              IInv, TypeOK
<1>8. lesson' \in Version /\ hintless' \subseteq Class /\ BasesKnown'
  <2>1. \/ UNCHANGED <<lesson, hintless>>
        \/ \E saved \in BOOLEAN :
             PersistTableHints(call[k].class, Body(k, t) = "hinted", saved)
    BY DEF RouteGone, RouteEnds, RouteRefuses, RouteRaisesLate
  <2> QED
    BY <1>1, <1>2, <2>1, HintsPersist DEF IInv, TypeOK, BasesKnown
<1> QED
  BY <1>2, <1>4, <1>5, <1>6, <1>7, <1>8 DEF panel, IInv, TypeOK

\* The timer and the teacher's socket.
LEMMA SocketIInv ==
  ASSUME IInv, NEW c \in Class,
         GraceExpires(c) \/ Connect(c) \/ Refused(c) \/ Drop(c)
  PROVE  IInv'
<1>1. CASE GraceExpires(c)
  BY <1>1 DEF GraceExpires, EndSession, ToldByGrace, Untouched, panel, IInv, TypeOK,
              PostsNamed, BasesKnown
<1>2. CASE Connect(c) \/ Drop(c)
  BY <1>2 DEF Connect, Drop, server, panel, IInv, TypeOK, PostsNamed, BasesKnown
<1>3. CASE Refused(c)
  BY ZenonT(40), <1>3 DEF Refused, FinishServerEnded, FinishEnded, HangUp, server, panel,
              IInv, TypeOK, PostsNamed, BasesKnown
<1> QED
  BY <1>1, <1>2, <1>3

LEMMA SaveIInv ==
  ASSUME IInv, SaveLesson
  PROVE  IInv'
<1>1. lesson' \in Version /\ lesson'.version = lesson.version + 1
  BY UploadAssumption DEF SaveLesson, IInv, TypeOK, Version
<1>2. BasesKnown'
  BY <1>1 DEF SaveLesson, IInv, TypeOK, Version, BasesKnown
<1> QED
  BY <1>1, <1>2 DEF SaveLesson, sockets, panel, IInv, TypeOK, PostsNamed

\* Pressing a button.
LEMMA PressIInv ==
  ASSUME IInv, NEW k \in Call, End(k) \/ RestartSession(k)
  PROVE  IInv'
<1>1. /\ call[k].stage = "idle"
      /\ UNCHANGED <<server, met, engine>>
  BY DEF End, RestartSession, sockets
<1>2. PICK kind \in {"end", "restart"}, stage \in {"first", "create", "done"},
           u \in {"empty", "plain", "hinted"} :
        /\ Start(k, kind, stage, u)
        /\ stage = "first" => session \in Class /\ SendPost(k, "first")
        /\ stage # "first" => UNCHANGED post
  BY DEF End, RestartSession, HasEngine, IInv, TypeOK
<1>3. call' \in [Call -> CallRecord] /\ post' \in [Call -> [Tries -> PostState]]
  <2>1. session \in Class \cup {NoClass} /\ NoClass \in Class \cup {NoClass}
    BY DEF IInv, TypeOK
  <2>2. /\ call \in [Call -> CallRecord]
        /\ post \in [Call -> [Tries -> PostState]]
    BY DEF IInv, TypeOK
  <2>3. [kind |-> kind, class |-> session, upload |-> u, opened |-> NoClass,
         stage |-> stage] \in CallRecord
    BY <2>1 DEF CallRecord
  <2>4. call' \in [Call -> CallRecord]
    BY <1>2, <2>2, <2>3 DEF Start
  <2>5. post' \in [Call -> [Tries -> PostState]]
    BY <1>2, <2>2 DEF SendPost, PostState
  <2> QED
    BY <2>4, <2>5
<1>4. /\ call'[k].class = session /\ call'[k].stage = stage
      /\ \A j \in Call \ {k} : call'[j] = call[j] /\ post'[j] = post[j]
      /\ stage = "first" => session \in Class
      /\ stage # "first" => post' = post
  BY <1>2 DEF Start, SendPost, IInv, TypeOK
<1>5. PostsNamed'
  BY <1>1, <1>3, <1>4 DEF IInv, PostsNamed
<1>6. \A j \in Call : /\ call'[j].stage \in Tries => call'[j].class \in Class
                      /\ call'[j].stage = "prepare" => call'[j].opened \in Class
  BY <1>4 DEF IInv, TypeOK
<1>7. /\ grace' \subseteq Class
      /\ link' \in [Class -> {"none", "trying", "up", "kicked", "closed"}]
      /\ session' \in Class \cup {NoClass} /\ unsavedOf' \in Class \cup {NoClass}
      /\ over' \in BOOLEAN /\ busy' \in BOOLEAN
      /\ notice' \in {"none", "unsaved", "server"} /\ note' \in BOOLEAN
  BY DEF End, RestartSession, FinishServerEnded, FinishEnded, HangUp, panel,
         sockets, IInv, TypeOK
<1> QED
  BY <1>1, <1>3, <1>5, <1>6, <1>7 DEF server, IInv, TypeOK, BasesKnown

\* The panel is finished, or left as it is.
LEMMA FinishTyped ==
  ASSUME TypeOK,
         \/ session # NoClass /\ FinishEnded
         \/ UNCHANGED <<session, over, link, grace>>
  PROVE  /\ grace' \subseteq Class
         /\ link' \in [Class -> {"none", "trying", "up", "kicked", "closed"}]
            /\ over' \in BOOLEAN
<1>1. CASE UNCHANGED <<session, over, link, grace>>
  BY <1>1 DEF TypeOK
<1>2. CASE session # NoClass /\ FinishEnded
  <2>1. session \in Class
    BY <1>2 DEF TypeOK
  <2> QED
    BY <1>2, <2>1 DEF TypeOK, FinishEnded, HangUp
<1> QED
  BY <1>1, <1>2

\* A call goes on or comes back.
LEMMA ReturnIInv ==
  ASSUME IInv, NEW k \in Call, Returns(k) \/ RestartFails(k)
  PROVE  IInv'
<1>1. UNCHANGED <<server, met, engine, session>>
  BY DEF Returns, Ends, EndsGone, EndFails, FirstFails, RestartFails, sockets,
         panel, Finish, FinishServerEnded, FinishEnded
<1>2. /\ call[k].stage \notin {"idle", "done"}
      /\ \E s \in {"retry", "create", "done"} :
           Stage(k, s) /\ (s = "retry" => call[k].stage = "first")
  BY DEF Returns, Ends, EndsGone, EndFails, FirstFails, RestartFails, Settled
<1>3. PICK s \in {"retry", "create", "done"} :
        Stage(k, s) /\ (s = "retry" => call[k].stage = "first")
  BY <1>2
<1>4. /\ call' \in [Call -> CallRecord]
      /\ call'[k].class = call[k].class /\ call'[k].stage = s
      /\ \A j \in Call \ {k} : call'[j] = call[j]
  BY <1>3, StageTyped DEF IInv
<1>5. /\ post' \in [Call -> [Tries -> PostState]]
      /\ \A j \in Call \ {k} : post'[j] = post[j]
      /\ \A t \in Tries : post'[k][t] # "none" =>
           post[k][t] # "none" \/ call[k].stage \in Tries
  <2>1. CASE FirstFails(k)
    BY <2>1 DEF FirstFails, GivenUp, IInv, TypeOK, PostState
  <2>2. CASE Ends(k) \/ EndsGone(k) \/ EndFails(k)
    <3>1. StopWaiting(k) /\ call[k].stage \in Tries
      BY <2>2 DEF Ends, EndsGone, EndFails
    <3> QED
      BY <3>1 DEF StopWaiting, GivenUp, IInv, TypeOK, PostState
  <2>3. CASE RestartFails(k)
    BY <2>3 DEF RestartFails, IInv, TypeOK
  <2> QED
    BY <2>1, <2>2, <2>3 DEF Returns
<1>6. PostsNamed'
  BY <1>3, <1>4, <1>5 DEF IInv, TypeOK, PostsNamed
<1>7. \A j \in Call : /\ call'[j].stage \in Tries => call'[j].class \in Class
                      /\ call'[j].stage = "prepare" => call'[j].opened \in Class
  BY <1>3, <1>4 DEF IInv, TypeOK
<1>8. /\ grace' \subseteq Class
      /\ link' \in [Class -> {"none", "trying", "up", "kicked", "closed"}]
      /\ over' \in BOOLEAN /\ busy' \in BOOLEAN
      /\ notice' \in {"none", "unsaved", "server"} /\ note' \in BOOLEAN
      /\ unsavedOf' \in Class \cup {NoClass}
  <2>1. CASE FirstFails(k) \/ RestartFails(k) \/ EndFails(k)
    BY <2>1 DEF FirstFails, RestartFails, EndFails, Settled, sockets, panel,
                IInv, TypeOK
  <2>2. CASE Ends(k) \/ EndsGone(k)
    <3>1. call[k].class \in Class
      BY <2>2 DEF Ends, EndsGone, IInv, TypeOK
    <3>2. \/ session # NoClass /\ FinishEnded
          \/ UNCHANGED <<session, over, link, grace>>
      BY <2>2, <3>1, UploadAssumption
         DEF Ends, EndsGone, Finish, FinishServerEnded, panel
    <3>3. busy' \in {busy, FALSE} /\ notice' \in {notice, "unsaved", "server"}
      BY <2>2 DEF Ends, EndsGone, Settled, Finish, FinishServerEnded, panel
    <3>4. note' \in BOOLEAN
      BY <2>2 DEF Ends, EndsGone, Finish, FinishServerEnded, panel, IInv, TypeOK
    <3>5. unsavedOf' \in {unsavedOf, call[k].class}
      BY <2>2 DEF Ends, EndsGone, Finish, FinishServerEnded, panel
    <3> QED
      BY <3>1, <3>2, <3>3, <3>4, <3>5, FinishTyped DEF IInv, TypeOK
  <2> QED
    BY <2>1, <2>2 DEF Returns
<1> QED
  BY <1>1, <1>4, <1>5, <1>6, <1>7, <1>8 DEF server, IInv, TypeOK, BasesKnown

\* A new class is made, and shown.
LEMMA OpenIInv ==
  ASSUME IInv, NEW k \in Call,
         ConnectPanel(k) \/ \E c \in Class : CreateLiveSession(k, c)
  PROVE  IInv'
<1>1. ASSUME NEW c \in Class, CreateLiveSession(k, c)
      PROVE  IInv'
  <2>1. /\ call' \in [Call -> CallRecord]
        /\ call'[k].class = call[k].class /\ call'[k].stage = "prepare"
        /\ call'[k].opened = c /\ call[k].stage = "create"
        /\ \A j \in Call \ {k} : call'[j] = call[j]
    BY <1>1 DEF CreateLiveSession, IInv, TypeOK, CallRecord
  <2>2. /\ row' \in [Class -> {"none", "lobby", "ended"}]
        /\ base' \in [Class -> Version] /\ grace' \subseteq Class
        /\ link' \in [Class -> {"none", "trying", "up", "kicked", "closed"}]
    BY <1>1 DEF CreateLiveSession, HangUp, IInv, TypeOK
  <2>3. BasesKnown'
    BY <1>1 DEF CreateLiveSession, IInv, TypeOK, Version, BasesKnown
  <2>4. PostsNamed'
    BY <1>1, <2>1 DEF CreateLiveSession, IInv, PostsNamed
  <2> QED
    BY <1>1, <2>1, <2>2, <2>3, <2>4 DEF CreateLiveSession, panel, IInv, TypeOK
<1>2. CASE ConnectPanel(k)
  <2>1. /\ call' \in [Call -> CallRecord]
        /\ call'[k].class = call[k].class /\ call'[k].stage = "done"
        /\ call[k].stage = "prepare" /\ call[k].opened \in Class
        /\ \A j \in Call \ {k} : call'[j] = call[j]
    BY <1>2, StageTyped DEF ConnectPanel, Settled, IInv, TypeOK
  <2>2. PostsNamed'
    BY <1>2, <2>1 DEF ConnectPanel, IInv, PostsNamed
  <2>3. /\ session' \in Class /\ grace' \subseteq Class
        /\ link' \in [Class -> {"none", "trying", "up", "kicked", "closed"}]
        /\ busy' = FALSE
    BY <1>2, <2>1 DEF ConnectPanel, Settled, IInv, TypeOK
  <2> QED
    BY <1>2, <2>1, <2>2, <2>3 DEF ConnectPanel, server, IInv, TypeOK, BasesKnown
<1> QED
  BY <1>1, <1>2

LEMMA Inductive == Spec => []IInv
<1>1. IInv /\ [Next]_vars => IInv'
  <2> SUFFICES ASSUME IInv, [Next]_vars PROVE IInv'
    OBVIOUS
  <2>1. CASE UNCHANGED vars
    BY <2>1 DEF vars, IInv, TypeOK, PostsNamed, BasesKnown
  <2>2. CASE Handles
    BY <2>2, RouteIInv DEF Handles
  <2>3. ASSUME NEW c \in Class,
               GraceExpires(c) \/ Connect(c) \/ Refused(c) \/ Drop(c)
        PROVE  IInv'
    BY <2>3, SocketIInv
  <2>4. CASE SaveLesson
    BY <2>4, SaveIInv
  <2>5. ASSUME NEW k \in Call, End(k) \/ RestartSession(k)
        PROVE  IInv'
    BY <2>5, PressIInv
  <2>6. ASSUME NEW k \in Call, Returns(k) \/ RestartFails(k)
        PROVE  IInv'
    BY <2>6, ReturnIInv
  <2>7. ASSUME NEW k \in Call,
               ConnectPanel(k) \/ \E c \in Class : CreateLiveSession(k, c)
        PROVE  IInv'
    BY <2>7, OpenIInv
  <2> QED
    BY <2>1, <2>2, <2>3, <2>4, <2>5, <2>6, <2>7 DEF Next
<1> QED
  BY InitIInv, <1>1, PTL DEF Spec

\* Types, and every call under way has the class that it is about.
THEOREM TypeCorrect == Spec => []TypeOK
<1>1. IInv => TypeOK
  BY DEF IInv
<1> QED
  BY <1>1, Inductive, PTL

-----------------------------------------------------------------------------
\* How a step changes the lesson: by a save, or by the hints of a class that
\* was opened with the current version.
LEMMA LessonStep ==
  ASSUME IInv, [Next]_vars
  PROVE  \/ UNCHANGED lesson
         \/ SaveLesson
         \/ \E c \in Class : StillCurrent(c) /\ lesson' = WithHints(c)
<1>1. CASE UNCHANGED vars
  BY <1>1 DEF vars
<1>2. ASSUME NEW k \in Call, NEW t \in Tries,
             RouteGone(k, t) \/ RouteRefuses(k, t)
      PROVE  UNCHANGED lesson
  BY <1>2 DEF RouteGone, RouteRefuses
<1>3. ASSUME NEW k \in Call, NEW t \in Tries,
             RouteEnds(k, t) \/ RouteRaisesLate(k, t)
      PROVE  \/ UNCHANGED lesson
             \/ \E c \in Class : StillCurrent(c) /\ lesson' = WithHints(c)
  <2>1. call[k].class \in Class
    BY <1>3 DEF RouteEnds, RouteRaisesLate, IInv, PostsNamed
  <2> QED
    BY <1>3, <2>1 DEF RouteEnds, RouteRaisesLate, PersistTableHints
<1>4. ASSUME NEW c \in Class,
             GraceExpires(c) \/ Connect(c) \/ Refused(c) \/ Drop(c)
      PROVE  UNCHANGED lesson
  BY <1>4 DEF GraceExpires, Connect, Refused, Drop, server
<1>5. ASSUME NEW k \in Call,
             \/ End(k) \/ RestartSession(k) \/ Returns(k) \/ RestartFails(k)
             \/ ConnectPanel(k) \/ \E c \in Class : CreateLiveSession(k, c)
      PROVE  UNCHANGED lesson
  BY <1>5 DEF End, RestartSession, Returns, Ends, EndsGone, EndFails, FirstFails,
              RestartFails, ConnectPanel, CreateLiveSession, server
<1> QED
  BY <1>1, <1>2, <1>3, <1>4, <1>5 DEF Next, Handles

\* No save of the lesson is lost to the hints that a class writes back, and no
\* class overwrites the hints of another without having been opened with them.
THEOREM EditsStay == Spec => EditsAreKept
<1> DEFINE Kept ==
      /\ lesson'.edits >= lesson.edits
      /\ lesson'.hints # lesson.hints =>
           base[lesson'.hints].hints = lesson.hints
<1>1. ASSUME IInv, [Next]_vars
      PROVE  [Kept]_lesson
  <2>1. CASE SaveLesson
    BY <1>1, <2>1 DEF SaveLesson, IInv, TypeOK, Version
  <2>2. ASSUME NEW c \in Class, StillCurrent(c), lesson' = WithHints(c)
        PROVE  Kept
    <3>1. base[c] = lesson
      BY <1>1, <2>2 DEF IInv, BasesKnown, StillCurrent
    <3>2. lesson'.hints = c /\ lesson'.edits = lesson.edits /\ lesson.edits \in Int
      BY <1>1, <2>2, <3>1 DEF WithHints, IInv, TypeOK, Version
    <3> QED
      BY <3>1, <3>2
  <2> QED
    BY <1>1, <2>1, <2>2, LessonStep
<1> QED
  BY <1>1, Inductive, PTL DEF Spec, EditsAreKept

-----------------------------------------------------------------------------
(***************************************************************************)
(* What the panel says of the summary.                                     *)
(***************************************************************************)
Replied(k, t) == post[k][t] \in {"saved", "unhinted"}

\* Only a restart makes a class, and what is sent first is a summary.
Kinds ==
  \A k \in Call :
    /\ call[k].stage \in {"create", "prepare"} => call[k].kind = "restart"
    /\ k \in UnderWay => call[k].kind # "none"
    /\ call[k].stage = "first" => call[k].upload # "empty"

\* There is an answer only where it is waited for, and what it says is so: 200 to
\* the first request, the summary is stored; 200 to the retry, it never will be.
RepliesTrue ==
  \A k \in Call :
    /\ \A t \in Tries : post[k][t] \notin {"none", "sent"} => call[k].stage = t
    /\ Replied(k, "first") => call[k].class \in stored
    /\ Replied(k, "retry") => call[k].class \notin stored /\ row[call[k].class] = "ended"

\* A summary is stored with the end of its class.
StoredEnded == \A c \in stored : row[c] = "ended"

Honest == Kinds /\ RepliesTrue /\ StoredEnded

\* What NoticeIsTrue says, of a panel that is finished or not, and that the class
\* whose summary is not saved is over.
Shows ==
  /\ over => session \in Class /\ (notice = "none" => session \in stored)
  /\ notice = "unsaved" => /\ unsavedOf \in Class \ stored
                           /\ row[unsavedOf] = "ended"

\* A step of the tab leaves nothing answered of the call that it is about.
LEMMA HonestTab ==
  ASSUME IInv, Honest, stored' = stored,
         \A c \in Class : row[c] = "ended" => row'[c] = "ended",
         NEW k \in Call, \A j \in Call \ {k} : call'[j] = call[j] /\ post'[j] = post[j],
         \A t \in Tries : post'[k][t] \in {"none", "sent"},
         call'[k].stage \in {"create", "prepare"} => call'[k].kind = "restart",
         call'[k].stage \notin {"idle", "done"} => call'[k].kind # "none",
         call'[k].stage = "first" => call'[k].upload # "empty"
  PROVE  Honest'
<1>1. Kinds'
  BY DEF Honest, Kinds, UnderWay
<1>2. StoredEnded'
  BY DEF Honest, StoredEnded, IInv, TypeOK
<1>3. ASSUME NEW j \in Call
      PROVE  /\ \A t \in Tries : post'[j][t] \notin {"none", "sent"} => call'[j].stage = t
             /\ Replied(j, "first")' => call'[j].class \in stored'
             /\ Replied(j, "retry")' => call'[j].class \notin stored' /\ row'[call'[j].class] = "ended"
  <2>1. CASE j = k
    BY <2>1 DEF Replied
  <2>2. CASE j # k
    <3>1. call'[j] = call[j] /\ post'[j] = post[j]
      BY <2>2
    <3>2. Replied(j, "retry") => call[j].class \in Class
      BY DEF Replied, IInv, PostsNamed
    <3> QED  BY <3>1, <3>2 DEF Honest, RepliesTrue, Replied
  <2> QED  BY <2>1, <2>2
<1> QED  BY <1>1, <1>2, <1>3 DEF Honest, RepliesTrue

\* A class that was running is ended, with its summary or without.
LEMMA HonestEnd ==
  ASSUME IInv, Honest, NEW c \in Class, NEW u, NEW by, MayEnd(c), EndSession(c, u, by),
         call' = call,
         \A j \in Call, t \in Tries :
            \/ post'[j][t] \in {"none", post[j][t]}
            \/ /\ call[j].stage = t /\ call[j].class = c
               /\ u = IF t = "first" THEN call[j].upload ELSE "empty"
  PROVE  Honest'
<1>1. /\ row[c] = "lobby" /\ row'[c] = "ended" /\ \A d \in Class \ {c} : row'[d] = row[d]
      /\ stored' = IF u = "empty" THEN stored ELSE stored \cup {c}
  BY DEF MayEnd, EndSession, IInv, TypeOK
<1>2. c \notin stored
  BY <1>1 DEF Honest, StoredEnded
<1>3. Kinds' /\ StoredEnded'
  BY <1>1 DEF Honest, Kinds, UnderWay, StoredEnded, IInv, TypeOK
<1>4. ASSUME NEW j \in Call, NEW t \in Tries, post'[j][t] \notin {"none", "sent"}
      PROVE  call'[j].stage = t
  BY <1>4 DEF Honest, RepliesTrue
<1>5. ASSUME NEW j \in Call, Replied(j, "first")'
      PROVE  call'[j].class \in stored'
  <2>1. CASE Replied(j, "first")
    BY <1>1, <2>1 DEF Honest, RepliesTrue
  <2>2. CASE ~ Replied(j, "first")
    <3>1. call[j].stage = "first" /\ call[j].class = c /\ u = call[j].upload
      BY <1>5, <2>2 DEF Replied
    <3> QED  BY <1>1, <3>1 DEF Honest, Kinds
  <2> QED  BY <2>1, <2>2
<1>6. ASSUME NEW j \in Call, Replied(j, "retry")'
      PROVE  call'[j].class \notin stored' /\ row'[call'[j].class] = "ended"
  <2>1. CASE Replied(j, "retry")
    <3>1. call[j].class \in Class /\ call[j].class \notin stored /\ row[call[j].class] = "ended"
      BY <2>1 DEF Honest, RepliesTrue, Replied, IInv, PostsNamed
    <3> QED  BY <1>1, <3>1
  <2>2. CASE ~ Replied(j, "retry")
    <3>1. call[j].class = c /\ u = "empty"
      BY <1>6, <2>2 DEF Replied
    <3> QED  BY <1>1, <1>2, <3>1
  <2> QED  BY <2>1, <2>2
<1> QED  BY <1>3, <1>4, <1>5, <1>6 DEF Honest, RepliesTrue

\* The server handles a request.
LEMMA HonestRoute ==
  ASSUME IInv, Honest, NEW k \in Call, NEW t \in Tries,
         RouteGone(k, t) \/ RouteEnds(k, t) \/ RouteRefuses(k, t) \/ RouteRaisesLate(k, t)
  PROVE  Honest'
<1>0. call' = call /\ call[k].class \in Class
  BY DEF RouteGone, RouteEnds, RouteRefuses, RouteRaisesLate, Untouched, IInv, PostsNamed
<1>1. PICK a \in PostState : /\ Answer(k, t, a)
                             /\ a \in {"saved", "unhinted"} => RouteEnds(k, t)
  BY DEF RouteGone, RouteEnds, RouteRefuses, RouteRaisesLate, PostState
<1>2. /\ \A j \in Call, s \in Tries : j # k \/ s # t => post'[j][s] = post[j][s]
      /\ post'[k][t] = IF call[k].stage = t THEN a ELSE "none"
  BY <1>1 DEF Answer, IInv, TypeOK
<1>3. CASE RouteGone(k, t) \/ RouteRefuses(k, t)
  <2>1. UNCHANGED <<row, stored>> /\ a \notin {"saved", "unhinted"}
    <3>1. CASE a \in {"saved", "unhinted"}
      <4>1. MayEnd(call[k].class) /\ EndSession(call[k].class, Body(k, t), "teacher")
        BY <1>1, <3>1 DEF RouteEnds
      <4>2. row'[call[k].class] = "ended" /\ row[call[k].class] = "lobby"
        BY <1>0, <4>1 DEF MayEnd, EndSession, IInv, TypeOK
      <4> QED  BY <1>3, <4>2 DEF RouteGone, RouteRefuses
    <3> QED  BY <1>3, <3>1 DEF RouteGone, RouteRefuses
  <2> QED  BY <1>0, <1>2, <2>1 DEF Honest, Kinds, UnderWay, RepliesTrue, Replied, StoredEnded
<1>4. CASE RouteEnds(k, t) \/ RouteRaisesLate(k, t)
  <2>1. MayEnd(call[k].class) /\ EndSession(call[k].class, Body(k, t), "teacher")
    BY <1>4 DEF RouteEnds, RouteRaisesLate
  <2>2. \A j \in Call, s \in Tries :
            \/ post'[j][s] \in {"none", post[j][s]}
            \/ /\ call[j].stage = s /\ call[j].class = call[k].class
               /\ Body(k, t) = IF s = "first" THEN call[j].upload ELSE "empty"
    BY <1>2 DEF Body
  <2> QED  BY <1>0, <2>1, <2>2, HonestEnd
<1> QED  BY <1>3, <1>4

\* The call of a step, and what the step makes of it.
LEMMA TabCall ==
  ASSUME IInv, Honest, NEW k \in Call, Returns(k) \/ RestartFails(k)
  PROVE  /\ UNCHANGED <<row, stored, session>> /\ k \in UnderWay
         /\ \A j \in Call \ {k} : call'[j] = call[j] /\ post'[j] = post[j]
         /\ \A t \in Tries : post'[k][t] \in {"none", "sent"}
         /\ call'[k].class = call[k].class /\ call'[k].kind = call[k].kind
         /\ call'[k].stage \in {"retry", "create", "done"}
         /\ call'[k].stage = "create" => call[k].kind # "end"
         /\ call'[k].stage # "done" => busy' = busy
<1>0. call \in [Call -> CallRecord] /\ post \in [Call -> [Tries -> PostState]]
      /\ call[k] \in CallRecord /\ post[k] \in [Tries -> PostState]
  BY DEF IInv, TypeOK
<1>1. UNCHANGED <<row, stored, session>>
  BY DEF Returns, Ends, EndsGone, EndFails, FirstFails, RestartFails, server, sockets,
         panel, Finish, FinishServerEnded, FinishEnded
<1>2. /\ call[k].stage \notin {"idle", "done"}
      /\ \E s \in {"retry", "create", "done"} :
           /\ Stage(k, s)
           /\ s = "create" => call[k].kind # "end"
           /\ s # "done" => busy' = busy
  BY DEF Returns, Ends, EndsGone, EndFails, FirstFails, RestartFails, Settled
<1>3. PICK s \in {"retry", "create", "done"} :
           /\ Stage(k, s)
           /\ s = "create" => call[k].kind # "end"
           /\ s # "done" => busy' = busy
  BY <1>2
<1>4. /\ call'[k].class = call[k].class /\ call'[k].kind = call[k].kind /\ call'[k].stage = s
      /\ \A j \in Call \ {k} : call'[j] = call[j]
  <2> DEFINE r == [call[k] EXCEPT !.stage = s]
  <2>1. r.class = call[k].class /\ r.kind = call[k].kind /\ r.stage = s
    BY <1>0 DEF CallRecord
  <2>2. call' = [call EXCEPT ![k] = r]
    BY <1>3 DEF Stage
  <2> QED  BY <1>0, <2>1, <2>2
<1>5. \A t \in Tries : post[k][t] \in {"none", "sent"} \/ call[k].stage = t
  BY DEF Honest, RepliesTrue
<1>6. /\ \A j \in Call \ {k} : post'[j] = post[j]
      /\ \A t \in Tries : post'[k][t] \in {"none", "sent"}
  <2>1. CASE FirstFails(k)
    BY <1>0, <2>1 DEF FirstFails, GivenUp
  <2>2. CASE Ends(k) \/ EndsGone(k) \/ EndFails(k)
    <3>1. StopWaiting(k) /\ call[k].stage \in Tries
      BY <2>2 DEF Ends, EndsGone, EndFails
    <3> QED
      BY <1>0, <1>5, <3>1 DEF StopWaiting, GivenUp
  <2>3. CASE RestartFails(k)
    BY <1>5, <2>3 DEF RestartFails
  <2> QED
    BY <2>1, <2>2, <2>3 DEF Returns
<1> QED  BY <1>1, <1>2, <1>3, <1>4, <1>6 DEF UnderWay

\* The steps that leave the calls and their answers alone.
LEMMA HonestElse ==
  ASSUME IInv, Honest, UNCHANGED <<call, post, stored>>,
         \A c \in Class : row[c] = "ended" => row'[c] = "ended"
  PROVE  Honest'
<1>1. Kinds' /\ StoredEnded'
  BY DEF Honest, Kinds, UnderWay, StoredEnded, IInv, TypeOK
<1>2. \A k \in Call : Replied(k, "retry") => call[k].class \in Class
  BY DEF Replied, IInv, PostsNamed
<1>3. RepliesTrue'
  BY <1>2 DEF Honest, RepliesTrue, Replied
<1> QED  BY <1>1, <1>3 DEF Honest

\* A timer, a socket, or a save of the lesson.
LEMMA HonestSocket ==
  ASSUME IInv, Honest,
         SaveLesson \/ \E c \in Class : GraceExpires(c) \/ Connect(c) \/ Refused(c) \/ Drop(c)
  PROVE  Honest'
<1>1. CASE UNCHANGED <<row, stored, call, post>>
  BY <1>1, HonestElse
<1>2. ASSUME NEW c \in Class, GraceExpires(c) PROVE Honest'
  <2>1. UNCHANGED <<call, post>>
    BY <1>2 DEF GraceExpires, Untouched
  <2>2. CASE MayEnd(c) /\ EndSession(c, "empty", "grace")
    BY <2>1, <2>2, HonestEnd
  <2> QED  BY <1>1, <1>2, <2>1, <2>2 DEF GraceExpires
<1>3. CASE SaveLesson \/ \E c \in Class : Connect(c) \/ Refused(c) \/ Drop(c)
  BY <1>1, <1>3 DEF SaveLesson, Connect, Refused, Drop, server
<1> QED  BY <1>2, <1>3

\* A press of a button.
LEMMA HonestPress ==
  ASSUME IInv, Honest, NEW k \in Call, End(k) \/ RestartSession(k)
  PROVE  Honest'
<1>0. call \in [Call -> CallRecord] /\ post \in [Call -> [Tries -> PostState]]
  BY DEF IInv, TypeOK
<1>1. call[k].stage = "idle" /\ UNCHANGED <<row, stored>>
  BY DEF End, RestartSession, server
<1>2. \A t \in Tries : post[k][t] = "none"
  BY <1>1 DEF IInv, PostsNamed
<1>3. PICK kind \in {"end", "restart"}, stage \in {"first", "create", "done"},
           u \in {"empty", "plain", "hinted"} :
        /\ Start(k, kind, stage, u)
        /\ stage = "first" => SendPost(k, "first") /\ u # "empty"
        /\ stage # "first" => UNCHANGED post
        /\ stage = "create" => kind = "restart"
  BY DEF End, RestartSession
<1>4. /\ call'[k].kind = kind /\ call'[k].stage = stage /\ call'[k].upload = u
      /\ \A j \in Call \ {k} : call'[j] = call[j] /\ post'[j] = post[j]
      /\ \A t \in Tries : post'[k][t] \in {"none", "sent"}
  BY <1>0, <1>2, <1>3 DEF Start, SendPost
<1> QED  BY <1>1, <1>3, <1>4, HonestTab

\* A new class is made, and shown.
LEMMA HonestOpen ==
  ASSUME IInv, Honest, NEW k \in Call,
         ConnectPanel(k) \/ \E c \in Class : CreateLiveSession(k, c)
  PROVE  /\ Honest' /\ call[k].kind = "restart" /\ k \in UnderWay
         /\ \A j \in Call \ {k} : call'[j] = call[j]
         /\ UNCHANGED stored /\ \A c \in Class : row[c] = "ended" => row'[c] = "ended"
         /\ ConnectPanel(k) => call'[k].stage = "done"
         /\ ~ConnectPanel(k) => call'[k].kind = "restart" /\ UNCHANGED <<panel, busy>>
<1>0. call \in [Call -> CallRecord] /\ post \in [Call -> [Tries -> PostState]]
      /\ call[k] \in CallRecord /\ row \in [Class -> {"none", "lobby", "ended"}]
  BY DEF IInv, TypeOK
<1>1. call[k].stage \in {"create", "prepare"}
  BY DEF ConnectPanel, CreateLiveSession
<1>2. \A t \in Tries : post[k][t] \in {"none", "sent"}
  BY <1>1 DEF Honest, RepliesTrue
<1>3. call[k].kind = "restart" /\ k \in UnderWay
  BY <1>1 DEF Honest, Kinds, UnderWay
<1>4. UNCHANGED <<stored, post>> /\ \A c \in Class : row[c] = "ended" => row'[c] = "ended"
  BY <1>0 DEF ConnectPanel, CreateLiveSession, server
<1>5. CASE ConnectPanel(k)
  <2>1. call'[k].stage = "done" /\ \A j \in Call \ {k} : call'[j] = call[j]
    BY <1>5, StageTyped DEF ConnectPanel, Settled, IInv
  <2>2. Honest'
    BY <1>2, <1>4, <2>1, HonestTab
  <2> QED  BY <1>3, <1>4, <1>5, <2>1, <2>2
<1>6. ASSUME NEW c \in Class, CreateLiveSession(k, c), ~ConnectPanel(k)
      PROVE  /\ Honest' /\ \A j \in Call \ {k} : call'[j] = call[j]
             /\ call'[k].kind = "restart" /\ UNCHANGED <<panel, busy>>
  <2>1. /\ call'[k].stage = "prepare" /\ call'[k].kind = "restart"
        /\ \A j \in Call \ {k} : call'[j] = call[j]
    BY <1>0, <1>3, <1>6 DEF CreateLiveSession
  <2>2. Honest'
    BY <1>2, <1>4, <2>1, HonestTab
  <2> QED  BY <1>6, <2>1, <2>2 DEF CreateLiveSession
<1> QED  BY <1>3, <1>4, <1>5, <1>6

\* Every step keeps the answers true.
LEMMA HonestStep ==
  ASSUME IInv, Honest, [Next]_vars
  PROVE  Honest'
<1>1. CASE UNCHANGED vars
  BY <1>1, HonestElse DEF vars
<1>2. CASE Handles
  BY <1>2, HonestRoute DEF Handles
<1>3. ASSUME NEW k \in Call, Returns(k) \/ RestartFails(k) PROVE Honest'
  <2>1. /\ UNCHANGED <<row, stored>>
        /\ \A j \in Call \ {k} : call'[j] = call[j] /\ post'[j] = post[j]
        /\ \A t \in Tries : post'[k][t] \in {"none", "sent"}
        /\ call'[k].kind = call[k].kind
        /\ call'[k].stage \in {"retry", "create", "done"}
        /\ call'[k].stage = "create" => call[k].kind # "end"
    BY <1>3, TabCall
  <2>2. call[k].kind \in {"end", "restart"}
    BY <1>3, TabCall DEF Honest, Kinds, IInv, TypeOK, CallRecord
  <2> QED  BY <2>1, <2>2, HonestTab
<1> QED  BY <1>1, <1>2, <1>3, HonestSocket, HonestPress, HonestOpen DEF Next

\* Nothing is answered at first.
LEMMA HonestInit == Init => Honest
BY DEF Init, NoCall, Honest, Kinds, UnderWay, RepliesTrue, Replied, StoredEnded

\* What is stored stays so, what is over stays over, and of a class that is over
\* nothing more is stored.
LEMMA ShowsElse ==
  ASSUME IInv, Shows, UNCHANGED <<session, over, notice, unsavedOf>>,
         stored \subseteq stored', \A c \in Class : row[c] = "ended" =>
           row'[c] = "ended" /\ (c \in stored' => c \in stored)
  PROVE  Shows'
BY DEF Shows

\* The end of a class, in one step of the server.
LEMMA RowsGo ==
  ASSUME IInv, [Next]_vars
  PROVE  /\ stored \subseteq stored'
         /\ \A c \in Class : row[c] = "ended" =>
              row'[c] = "ended" /\ (c \in stored' => c \in stored)
<1>1. row \in [Class -> {"none", "lobby", "ended"}]
  BY DEF IInv, TypeOK
<1>2. CASE UNCHANGED <<row, endedBy, stored>>
  BY <1>2
<1>3. ASSUME NEW c, NEW u, NEW by, MayEnd(c), EndSession(c, u, by)
      PROVE  /\ stored \subseteq stored'
             /\ \A d \in Class : row[d] = "ended" =>
                  row'[d] = "ended" /\ (d \in stored' => d \in stored)
  BY <1>1, <1>3 DEF MayEnd, EndSession
<1>4. ASSUME NEW c \in Class, row[c] = "none", row' = [row EXCEPT ![c] = "lobby"],
             UNCHANGED <<endedBy, stored>>
      PROVE  /\ stored \subseteq stored'
             /\ \A d \in Class : row[d] = "ended" =>
                  row'[d] = "ended" /\ (d \in stored' => d \in stored)
  BY <1>1, <1>4
<1> QED  BY <1>2, <1>3, <1>4, EveryStep DEF RowStep

\* The server's word that a class is gone.
LEMMA ShowsServerEnded ==
  ASSUME IInv, Shows, UNCHANGED stored, UNCHANGED row, FinishServerEnded
  PROVE  Shows'
<1>1. CASE session = NoClass \/ over
  BY <1>1 DEF FinishServerEnded, panel, Shows
<1>2. CASE ~ (session = NoClass \/ over)
  <2>1. session \in Class /\ session' = session /\ over' = TRUE /\ notice' = "server"
    BY <1>2 DEF FinishServerEnded, FinishEnded, IInv, TypeOK
  <2> QED  BY <2>1 DEF Shows
<1> QED  BY <1>1, <1>2

\* Every step keeps what the panel says true.
LEMMA ShowsStep ==
  ASSUME IInv, Honest, Shows, [Next]_vars
  PROVE  Shows'
<1>0. /\ stored \subseteq stored'
      /\ \A c \in Class : row[c] = "ended" =>
           row'[c] = "ended" /\ (c \in stored' => c \in stored)
  BY RowsGo
<1>1. CASE UNCHANGED <<session, over, notice, unsavedOf>>
  BY <1>0, <1>1, ShowsElse
<1>2. CASE UNCHANGED <<row, stored>> /\ FinishServerEnded
  BY <1>2, ShowsServerEnded
<1>3. CASE \/ UNCHANGED vars \/ Handles \/ SaveLesson
           \/ \E c \in Class : GraceExpires(c) \/ Connect(c) \/ Drop(c)
  <2>1. UNCHANGED <<session, over, notice, unsavedOf>>
    BY <1>3 DEF vars, Handles, RouteGone, RouteEnds, RouteRefuses, RouteRaisesLate, Untouched,
                SaveLesson, GraceExpires, Connect, Drop, panel
  <2> QED  BY <1>1, <2>1
<1>4. ASSUME NEW c \in Class, Refused(c) PROVE Shows'
  BY <1>2, <1>4 DEF Refused, server
<1>5. ASSUME NEW k \in Call, End(k) \/ RestartSession(k) PROVE Shows'
  <2>1. UNCHANGED <<session, over, notice, unsavedOf>> \/ (UNCHANGED <<row, stored>> /\ FinishServerEnded)
    BY <1>5 DEF End, RestartSession, panel, server
  <2> QED  BY <1>1, <1>2, <2>1
<1>6. ASSUME NEW k \in Call, Ends(k), call[k].kind = "end" PROVE Shows'
  <2> DEFINE t == call[k].stage
  <2>1. /\ t \in Tries /\ post[k][t] \in {"saved", "unhinted"} /\ Finish(k, t)
        /\ UNCHANGED <<row, stored>>
    BY <1>6 DEF Ends, server
  <2>2. call[k].class \in Class /\ session' = session
    BY <2>1 DEF Finish, FinishEnded, IInv, TypeOK
  <2>3. over' => over \/ (over' /\ session = call[k].class)
    BY <2>1 DEF Finish, FinishEnded
  <2>4. CASE t = "first"
    <3>1. call[k].class \in stored
      BY <2>1, <2>4 DEF Honest, RepliesTrue, Replied
    <3>2. UNCHANGED <<notice, unsavedOf>>
      BY <2>1, <2>4 DEF Finish
    <3> QED  BY <2>1, <2>2, <2>3, <3>1, <3>2 DEF Shows
  <2>5. CASE t = "retry"
    <3>1. call[k].class \notin stored /\ row[call[k].class] = "ended"
      BY <2>1, <2>5 DEF Honest, RepliesTrue, Replied
    <3>2. notice' = "unsaved" /\ unsavedOf' = call[k].class
      BY <2>1, <2>5 DEF Finish
    <3> QED  BY <2>1, <2>2, <2>3, <3>1, <3>2 DEF Shows
  <2> QED  BY <2>1, <2>4, <2>5
<1>7. ASSUME NEW k \in Call, Ends(k), call[k].kind # "end" PROVE Shows'
  BY <1>1, <1>7 DEF Ends, panel
<1>8. ASSUME NEW k \in Call, EndsGone(k) PROVE Shows'
  <2>1. UNCHANGED <<session, over, notice, unsavedOf>> \/ (UNCHANGED <<row, stored>> /\ FinishServerEnded)
    BY <1>8 DEF EndsGone, panel, server
  <2> QED  BY <1>1, <1>2, <2>1
<1>9. ASSUME NEW k \in Call, EndFails(k) \/ FirstFails(k) \/ RestartFails(k) PROVE Shows'
  BY <1>1, <1>9 DEF EndFails, FirstFails, RestartFails, panel
<1>10. ASSUME NEW k \in Call, NEW c \in Class, CreateLiveSession(k, c) PROVE Shows'
  BY <1>1, <1>10 DEF CreateLiveSession, panel
<1>11. ASSUME NEW k \in Call, ConnectPanel(k) PROVE Shows'
  BY <1>11 DEF ConnectPanel, Shows
<1> QED
  BY <1>3, <1>4, <1>5, <1>6, <1>7, <1>8, <1>9, <1>10, <1>11 DEF Next, Returns

\* However the calls overlap and whatever is lost, what the panel says of the
\* summary is true: without a notice the summary of the class that it has finished
\* is stored, and a notice that says otherwise was put up by the end of a class
\* whose summary is not.
THEOREM NoticeTrue == Spec => []NoticeIsTrue
<1>1. Init => Shows
  BY DEF Init, Shows
<1>2. IInv /\ Honest /\ Shows /\ [Next]_vars => Honest' /\ Shows'
  BY HonestStep, ShowsStep
<1>3. Shows => NoticeIsTrue
  BY DEF Shows, NoticeIsTrue
<1> QED
  BY <1>1, <1>2, <1>3, HonestInit, Inductive, PTL DEF Spec

=============================================================================
