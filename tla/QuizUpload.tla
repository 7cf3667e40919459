----------------------------- MODULE QuizUpload -----------------------------
(***************************************************************************)
(* The end of a class and the change to the next one: endLiveSession and   *)
(* createLiveSession of liveQuizClient.ts, the panel that calls them       *)
(* (LiveQuizPanel.tsx), and the server's routes with their transactions    *)
(* (live_quiz.py, db.py).                                                  *)
(*                                                                         *)
(* A call is one press of "end the class" or of "Run", which ends the      *)
(* class and opens another.  It POSTs the class's anonymous summary and,   *)
(* if that fails in whatever way, an empty body.  A request that the tab   *)
(* has given up may still be handled, and the answer to one that was       *)
(* handled may be lost.  end_session does not yield between its reads and  *)
(* its writes, and update_lesson_owned_by compares and writes in one       *)
(* transaction, so the handling of a request is one action.                *)
(*                                                                         *)
(* There is one teacher tab and one lesson.  What the relay does with the  *)
(* students is QuizRelay's subject; here it is the set of classes whose    *)
(* students were told and released (relay_end).  The reload of the lesson  *)
(* after a class (restoreLatest) is left out.                              *)
(***************************************************************************)
EXTENDS Integers, FiniteSets

CONSTANTS
  Class,      \* classes
  NoClass,    \* null
  Call,       \* presses of one of the two buttons
  MaxEdits,   \* bound on saves of the lesson
  MayFail,    \* whether the server's store may raise
  MayLose     \* whether the network may lose requests, answers and connections

ASSUME UploadAssumption ==
  /\ NoClass \notin Class
  /\ MaxEdits \in Nat
  /\ MayFail \in BOOLEAN
  /\ MayLose \in BOOLEAN

VARIABLES
  \* the server
  row,         \* state of the live_quiz_sessions row of each class
  endedBy,     \* history: what ended the class
  stored,      \* the classes whose summary is in live_quiz_questions
  hintless,    \* history: the classes whose hints were not written back
  lesson,      \* the current version of the lesson
  base,        \* the version each class was opened with
  grace,       \* the classes with a grace timer
  told,        \* the classes for which relay_end has run
  met,         \* history: the classes whose teacher was ever connected
  \* the tab
  link,        \* the teacher's socket of each class
  engine,      \* the class of `engine` and `seed`
  session,     \* the class of sessionRef
  over,        \* endedRef
  notice,      \* endedNotice
  unsavedOf,   \* history: the class whose end put up the notice "not saved"
  note,        \* whether endedNote says that the hints were not saved
  busy,        \* the buttons are disabled
  \* between them
  call,        \* the calls
  post         \* the two POSTs /end of each call, and their answers

server == <<row, endedBy, stored, hintless, lesson, base, told>>
sockets == <<grace, met, link>>
panel == <<session, over, notice, unsavedOf, note>>
vars == <<row, endedBy, stored, hintless, lesson, base, grace, told, met, link,
          engine, session, over, notice, unsavedOf, note, busy, call, post>>

\* A call: the class it ends, with what summary, and the class it opens.
CallRecord == [kind   : {"none", "end", "restart"},
               class  : Class \cup {NoClass},
               upload : {"empty", "plain", "hinted"},
               opened : Class \cup {NoClass},
               stage  : {"idle", "first", "retry", "create", "prepare", "done"}]

NoCall == [kind |-> "none", class |-> NoClass, upload |-> "empty",
           opened |-> NoClass, stage |-> "idle"]

\* A version of the lesson: its number, the edits in it, and the class whose
\* variable hints it carries.
Version == [version : Nat \ {0}, edits : 0 .. MaxEdits,
            hints : Class \cup {NoClass}]

FirstVersion == [version |-> 1, edits |-> 0, hints |-> NoClass]

\* The two POSTs of a call.  Each is under way ("sent") until the server has
\* handled it, and is then its answer, 200 with hint_saved true or false, 400,
\* 404 or 500, for as long as the tab waits for it; "none" before and after.
Tries == {"first", "retry"}
PostState == {"none", "sent", "saved", "unhinted", "rejected", "gone", "failed"}

TypeOK ==
  /\ row \in [Class -> {"none", "lobby", "ended"}]
  /\ endedBy \in [Class -> {"nobody", "teacher", "grace"}]
  /\ stored \subseteq Class /\ hintless \subseteq Class /\ told \subseteq Class
  /\ grace \subseteq Class /\ met \subseteq Class
  /\ lesson \in Version /\ base \in [Class -> Version]
  /\ link \in [Class -> {"none", "trying", "up", "kicked", "closed"}]
  /\ {engine, session, unsavedOf} \subseteq Class \cup {NoClass}
  /\ over \in BOOLEAN /\ note \in BOOLEAN /\ busy \in BOOLEAN
  /\ notice \in {"none", "unsaved", "server"}
  /\ call \in [Call -> CallRecord]
  /\ post \in [Call -> [Tries -> PostState]]
  /\ \A k \in Call :
       /\ call[k].stage \in Tries => call[k].class \in Class
       /\ call[k].stage = "prepare" => call[k].opened \in Class

-----------------------------------------------------------------------------
Init ==
  /\ row = [c \in Class |-> "none"]
  /\ endedBy = [c \in Class |-> "nobody"]
  /\ stored = {} /\ hintless = {} /\ told = {} /\ grace = {} /\ met = {}
  /\ lesson = FirstVersion
  /\ base = [c \in Class |-> FirstVersion]
  /\ link = [c \in Class |-> "none"]
  /\ engine = NoClass /\ session = NoClass /\ unsavedOf = NoClass
  /\ over = FALSE /\ busy = FALSE /\ notice = "none" /\ note = FALSE
  /\ call = [k \in Call |-> NoCall]
  /\ post = [k \in Call |-> [t \in Tries |-> "none"]]

-----------------------------------------------------------------------------
(* The server.                                                             *)

\* Mutant: a class is ended whatever its state.
MutantEndAgain(c) == row[c] # "none"

\* end_session finds the class running.
MayEnd(c) == row[c] = "lobby"

\* Mutant: the hints are written without comparing the lesson's version.
MutantBlindUpdate(c) == TRUE

\* update_lesson_owned_by finds the version that the class was opened with.
StillCurrent(c) == lesson.version = base[c].version

\* The lesson after the hints of class c were written into the version that
\* the class was opened with.
WithHints(c) == [version |-> lesson.version + 1, edits |-> base[c].edits,
                 hints |-> c]

\* _persist_table_hints: its effect on the lesson, and what it reports.
PersistTableHints(c, hinted, saved) ==
  /\ hintless' = IF saved THEN hintless ELSE hintless \cup {c}
  /\ \/ /\ ~hinted \/ base[c].hints = c
        /\ saved /\ UNCHANGED lesson
     \/ /\ hinted /\ base[c].hints # c
        /\ StillCurrent(c)
        /\ saved /\ lesson' = WithHints(c)
     \/ /\ hinted /\ base[c].hints # c
        /\ ~StillCurrent(c) \/ MayFail
        /\ ~saved /\ UNCHANGED lesson

\* The transaction of end_session for a running class.
EndSession(c, upload, by) ==
  /\ row' = [row EXCEPT ![c] = "ended"]
  /\ endedBy' = [endedBy EXCEPT ![c] = by]
  /\ stored' = IF upload = "empty" THEN stored ELSE stored \cup {c}

\* relay_end, and the disconnects it makes.
RelayEnd(c) ==
  /\ told' = told \cup {c}
  /\ grace' = grace \ {c}
  /\ link' = [link EXCEPT ![c] = IF @ = "up" THEN "kicked" ELSE @]

\* An answer that the tab no longer waits for is dropped.
Answer(k, t, a) ==
  post' = [post EXCEPT ![k][t] = IF call[k].stage = t THEN a ELSE "none"]

\* Mutant: the retry sends the summary once more.
MutantSameBody(k, t) == call[k].upload

\* What a POST carries: the retry has no body.
Body(k, t) == IF t = "first" THEN call[k].upload ELSE "empty"

Untouched == UNCHANGED <<base, met, engine, panel, busy, call>>

\* end_session_route of a class that is not running: 404.
RouteGone(k, t) ==
  /\ post[k][t] = "sent"
  /\ ~MayEnd(call[k].class)
  /\ Answer(k, t, "gone")
  /\ UNCHANGED <<row, endedBy, stored, hintless, lesson, told, grace, link>>
  /\ Untouched

\* end_session_route that ends the class.
RouteEnds(k, t) ==
  LET c == call[k].class IN
  /\ post[k][t] = "sent"
  /\ MayEnd(c)
  /\ EndSession(c, Body(k, t), "teacher")
  /\ \E saved \in BOOLEAN :
       /\ PersistTableHints(c, Body(k, t) = "hinted", saved)
       /\ Answer(k, t, IF saved THEN "saved" ELSE "unhinted")
  /\ RelayEnd(c)
  /\ Untouched

\* end_session_route that refuses the summary (400), or whose transaction
\* raises and is rolled back (500).
RouteRefuses(k, t) ==
  /\ post[k][t] = "sent"
  /\ MayEnd(call[k].class)
  /\ \/ /\ Body(k, t) # "empty"
        /\ Answer(k, t, "rejected")
     \/ /\ MayFail
        /\ Answer(k, t, "failed")
  /\ UNCHANGED <<row, endedBy, stored, hintless, lesson, told, grace, link>>
  /\ Untouched

\* end_session_route that commits and raises while it reads the class back:
\* 500, and relay_end is not called.
RouteRaisesLate(k, t) ==
  LET c == call[k].class IN
  /\ MayFail
  /\ post[k][t] = "sent"
  /\ MayEnd(c)
  /\ EndSession(c, Body(k, t), "teacher")
  /\ \E saved \in BOOLEAN : PersistTableHints(c, Body(k, t) = "hinted", saved)
  /\ Answer(k, t, "failed")
  /\ UNCHANGED <<told, grace, link>>
  /\ Untouched

\* Mutant: nobody is told if the class is over already.
MutantOnlyIfRunning(c) == IF row[c] = "lobby" THEN told \cup {c} ELSE told

\* Who has been told when a grace period is over: relay_end comes after the
\* check of the row, whatever the check found.
ToldByGrace(c) == told \cup {c}

\* _teacher_grace_expired of the current timer, the teacher being away.
GraceExpires(c) ==
  /\ c \in grace
  /\ \/ /\ MayEnd(c)
        /\ EndSession(c, "empty", "grace")
     \/ /\ ~MayEnd(c) \/ MayFail
        /\ UNCHANGED <<row, endedBy, stored>>
  /\ told' = ToldByGrace(c)
  /\ grace' = grace \ {c}
  /\ UNCHANGED <<hintless, lesson, link, post>>
  /\ Untouched

\* The lesson is saved from another tab while classes run.
SaveLesson ==
  /\ lesson.edits < MaxEdits
  /\ lesson' = [version |-> lesson.version + 1, edits |-> lesson.edits + 1,
                 hints |-> lesson.hints]
  /\ UNCHANGED <<row, endedBy, stored, hintless, base, told, sockets, engine,
                 panel, busy, call, post>>

-----------------------------------------------------------------------------
(* The teacher's socket.                                                   *)

\* disconnectRef.current() or socket.disconnect(): the server starts a grace
\* period for a teacher it had registered.
HangUp(cs) ==
  /\ link' = [c \in Class |->
                IF c \in cs /\ link[c] # "none" THEN "closed" ELSE link[c]]
  /\ grace' = grace \cup {c \in cs : link[c] = "up"}

\* finishEnded for the session that the panel shows.
FinishEnded ==
  /\ over' = TRUE
  /\ HangUp({session})
  /\ UNCHANGED session

\* finishServerEnded: it looks at the session that the panel shows, whichever
\* class it is called for.
FinishServerEnded ==
  IF session = NoClass \/ over
  THEN UNCHANGED <<panel, link, grace>>
  ELSE notice' = "server" /\ FinishEnded /\ UNCHANGED <<unsavedOf, note>>

\* _connect_teacher accepts the socket: its timer is removed.
Connect(c) ==
  /\ link[c] = "trying"
  /\ row[c] = "lobby"
  /\ link' = [link EXCEPT ![c] = "up"]
  /\ grace' = grace \ {c}
  /\ met' = met \cup {c}
  /\ UNCHANGED <<server, engine, panel, busy, call, post>>

\* _connect_teacher refuses the socket of a class that is over: onRefused.
Refused(c) ==
  /\ link[c] = "trying"
  /\ row[c] # "lobby"
  /\ FinishServerEnded
  /\ UNCHANGED <<server, met, engine, busy, call, post>>

\* The connection is lost; the client tries again by itself.
Drop(c) ==
  /\ MayLose
  /\ link[c] = "up"
  /\ link' = [link EXCEPT ![c] = "trying"]
  /\ grace' = grace \cup {c}
  /\ UNCHANGED <<server, met, engine, panel, busy, call, post>>

-----------------------------------------------------------------------------
(* The tab.                                                                *)

UnderWay == {k \in Call : call[k].stage \notin {"idle", "done"}}

\* endLiveSession gets past its guard for class c.
HasEngine(c) == c # NoClass /\ engine = c

Start(k, kind, stage, upload) ==
  call' = [call EXCEPT ![k] =
             [kind |-> kind, class |-> session, upload |-> upload,
              opened |-> NoClass, stage |-> stage]]

Stage(k, s) == call' = [call EXCEPT ![k] = [@ EXCEPT !.stage = s]]

SendPost(k, t) == post' = [post EXCEPT ![k][t] = "sent"]

\* The tab stops to wait; the server may still handle the request.
GivenUp(p) == IF p = "sent" THEN "sent" ELSE "none"
StopWaiting(k) == post' = [post EXCEPT ![k][call[k].stage] = GivenUp(@)]

\* "End the class".
End(k) ==
  /\ call[k].stage = "idle"
  /\ session # NoClass /\ ~over /\ ~busy
  /\ IF HasEngine(session)
     THEN /\ \E u \in {"plain", "hinted"} : Start(k, "end", "first", u)
          /\ SendPost(k, "first")
          /\ busy' = TRUE
          /\ UNCHANGED <<panel, link, grace>>
     ELSE /\ Start(k, "end", "done", "empty")   \* guard throws a 404
          /\ FinishServerEnded
          /\ UNCHANGED <<post, busy>>
  /\ UNCHANGED <<server, met, engine>>

\* "Run": restartSession.  It may be pressed while a call is under way.
RestartSession(k) ==
  /\ call[k].stage = "idle"
  /\ IF HasEngine(session)
     THEN /\ \E u \in {"plain", "hinted"} : Start(k, "restart", "first", u)
          /\ SendPost(k, "first")
     ELSE /\ Start(k, "restart", "create", "empty")
          /\ UNCHANGED post
  /\ busy' = TRUE
  /\ UNCHANGED <<server, sockets, engine, panel>>

\* The first POST has failed: its answer says so, or there is none.  An
\* answer 200 may be lost like any other.
FirstFails(k) ==
  /\ call[k].stage = "first"
  /\ MayLose \/ post[k]["first"] \in {"rejected", "gone", "failed"}
  /\ Stage(k, "retry")
  /\ post' = [post EXCEPT ![k]["first"] = GivenUp(@), ![k]["retry"] = "sent"]
  /\ UNCHANGED <<server, sockets, engine, panel, busy>>

\* end() after a POST of stage t that was answered 200.  The notices are put
\* up whichever class the panel shows by then.
Finish(k, t) ==
  /\ IF t = "first"
     THEN UNCHANGED <<notice, unsavedOf>>
     ELSE notice' = "unsaved" /\ unsavedOf' = call[k].class
  /\ note' = (note \/ (t = "first" /\ post[k][t] = "unhinted"))
  /\ IF call[k].class = session /\ ~over
     THEN FinishEnded
     ELSE UNCHANGED <<session, over, link, grace>>

\* The rest of end(): its promise is settled.
Settled(k) == Stage(k, "done") /\ busy' = FALSE

\* endLiveSession returns.  In restartSession nothing is done with its result.
Ends(k) ==
  /\ call[k].stage \in Tries
  /\ post[k][call[k].stage] \in {"saved", "unhinted"}
  /\ IF call[k].kind = "end"
     THEN Settled(k) /\ Finish(k, call[k].stage)
     ELSE Stage(k, "create") /\ UNCHANGED <<busy, panel, link, grace>>
  /\ StopWaiting(k)
  /\ UNCHANGED <<server, met, engine>>

\* The retry is answered 404.
EndsGone(k) ==
  /\ call[k].stage = "retry"
  /\ post[k]["retry"] = "gone"
  /\ IF call[k].kind = "end"
     THEN Settled(k) /\ FinishServerEnded
     ELSE Stage(k, "create") /\ UNCHANGED <<busy, panel, link, grace>>
  /\ StopWaiting(k)
  /\ UNCHANGED <<server, met, engine>>

\* The retry fails in another way, or its answer is lost.
EndFails(k) ==
  /\ call[k].stage = "retry"
  /\ MayLose \/ post[k]["retry"] = "failed"
  /\ IF call[k].kind = "end"
     THEN Settled(k)
     ELSE Stage(k, "create") /\ UNCHANGED busy
  /\ StopWaiting(k)
  /\ UNCHANGED <<server, sockets, engine, panel>>

\* POST /sessions: the server makes the row (create_session), and the client
\* changes to the new class (createLiveSession).
CreateLiveSession(k, c) ==
  /\ call[k].stage = "create"
  /\ row[c] = "none"
  /\ row' = [row EXCEPT ![c] = "lobby"]
  /\ base' = [base EXCEPT ![c] = lesson]
  /\ engine' = c
  /\ HangUp({d \in Class : link[d] # "closed"})
  /\ call' = [call EXCEPT ![k] =
                [kind |-> @.kind, class |-> @.class, upload |-> @.upload,
                 opened |-> c, stage |-> "prepare"]]
  /\ UNCHANGED <<endedBy, stored, hintless, lesson, told, met, panel, busy,
                 post>>

\* createLiveSession or prepareVersion fails.
RestartFails(k) ==
  /\ call[k].stage \in {"create", "prepare"}
  /\ Settled(k)
  /\ UNCHANGED <<server, sockets, engine, panel, post>>

\* connect: the panel shows the new class, whose socket is made.
ConnectPanel(k) ==
  LET c == call[k].opened IN
  /\ call[k].stage = "prepare"
  /\ session' = c
  /\ over' = FALSE /\ notice' = "none" /\ unsavedOf' = NoClass
  /\ link' = [d \in Class |-> IF d = c THEN "trying"
                              ELSE IF link[d] = "none" THEN "none"
                              ELSE "closed"]
  /\ grace' = grace \cup {d \in Class : link[d] = "up"}
  /\ Settled(k)
  /\ UNCHANGED <<server, met, engine, note, post>>

-----------------------------------------------------------------------------
Handles ==
  \E k \in Call, t \in Tries :
    RouteGone(k, t) \/ RouteEnds(k, t) \/ RouteRefuses(k, t)
      \/ RouteRaisesLate(k, t)

Returns(k) == Ends(k) \/ EndsGone(k) \/ EndFails(k) \/ FirstFails(k)

Next ==
  \/ Handles
  \/ \E c \in Class : GraceExpires(c) \/ Connect(c) \/ Refused(c) \/ Drop(c)
  \/ SaveLesson
  \/ \E k \in Call :
       \/ End(k) \/ RestartSession(k)
       \/ Returns(k)
       \/ RestartFails(k) \/ ConnectPanel(k)
       \/ \E c \in Class : CreateLiveSession(k, c)

Spec == Init /\ [][Next]_vars

\* A request comes to an end, one way or another, and the hub runs a timer
\* that is due.
Fairness ==
  /\ \A k \in Call : WF_vars(Returns(k))
  /\ \A c \in Class : WF_vars(GraceExpires(c))

FairSpec == Spec /\ Fairness

-----------------------------------------------------------------------------
(* Properties.                                                             *)

\* What a class's end has written stays: a request that was given up and comes
\* late, a retry, a second call or a grace period that is over neither adds a
\* summary to a class that was ended without one nor ends it once more.
EndedIsFinal ==
  [][\A c \in Class :
       row[c] = "ended" =>
         /\ row'[c] = "ended" /\ endedBy'[c] = endedBy[c]
         /\ (c \in stored') = (c \in stored)]_vars

\* What the panel says of the summary is true, whatever was lost on the way and
\* however the calls overlap: without a notice ("statistics kept") the summary
\* of the class it has finished is stored; the notice "not saved" stands for a
\* class whose summary is not.  That is the class shown, unless Run was pressed
\* while an end was under way: then end() may put the notice of the class
\* before up on the next one, whose summary is stored.  See README 6.
NoticeIsTrue ==
  over => /\ notice = "none" => session \in stored
          /\ notice = "unsaved" => unsavedOf \in Class \ stored

\* A save of the lesson during a class is not overwritten by the variable
\* hints that are written back when the class ends, nor by the hints of a
\* class that was opened with the same version.
EditsAreKept ==
  [][ /\ lesson'.edits >= lesson.edits
      /\ lesson'.hints # lesson.hints =>
           base[lesson'.hints].hints = lesson.hints ]_lesson

\* A tab whose "end the class" came back, with whatever notice, has released
\* the students, also when the server committed the end and then failed
\* before telling them: hanging up starts a grace period.  (A class whose
\* teacher was never connected has none: see QuizRelay.)
EndReachesStudents ==
  \A c \in Class : (over /\ session = c /\ c \in met) ~> (c \in told)

\* LiveQuizPanel.tsx:758: "/end answered 404 twice = the server says that the
\* class is gone", and then the panel says that the server has ended it after
\* a lost connection.  So a class with that notice was not ended by the
\* teacher.  The code does not have it, see README 6.
ServerEndedMeansGrace ==
  over /\ notice = "server" => endedBy[session] # "teacher"

\* LiveQuizPanel.jest.ts:1085: at the end of a class with hint_saved = false
\* the panel says that the statistics are kept and adds that the hints are not
\* saved.  So it says so of a class whose hints were not saved.  The code does
\* not have it, see README 6.
NoteIsOfThisClass ==
  over /\ notice = "none" /\ note => session \in hintless
=============================================================================
