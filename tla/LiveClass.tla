----------------------------- MODULE LiveClass ------------------------------
(***************************************************************************)
(* A live class from the students' pages to the teacher's engine:          *)
(*   - the student page, studentQuiz.tsx with studentQuizState.ts;         *)
(*   - the relay of live_quiz.py, reduced to whom it forwards to (its      *)
(*     memory is the subject of QuizRelay);                                *)
(*   - the teacher's client, liveQuizClient.ts, around the engine, which   *)
(*     is QuizEngine;                                                      *)
(*   - the Socket.IO links, which break, lose what was under way, and come *)
(*     back as new connections.                                            *)
(*                                                                         *)
(* A link is "up", "broken" (dead, unnoticed: what is emitted is lost),    *)
(* "down" (noticed: the Socket.IO client buffers what is emitted) or       *)
(* "closed" (it will not reconnect).  The relay notices a lost student     *)
(* separately, so the connection of a page that is back may share the room *)
(* with the ghost of the one before.  Each direction has one queue, behind *)
(* the relay.  The questions are choice questions; a table is handled the  *)
(* same way on this path.  The relay's rate limit is left out.             *)
(***************************************************************************)
EXTENDS Integers, Sequences, FiniteSets

CONSTANTS
  Device,         \* one page each
  ChoiceQuestion,
  Option,
  correct_option,
  None,           \* JavaScript's null
  MaxLinks,       \* bound: connections of a page
  MaxTeacherLinks,\* bound: connections of the teacher
  MaxAnswers,     \* bound: answers a page sends
  MaxQueue,       \* bound: messages under way to a page before the teacher acts
  MaxResync       \* bound: messages under way before a page resyncs

ASSUME ClassAssumption ==
  /\ IsFiniteSet(Device)
  /\ None \notin ChoiceQuestion \cup Option \cup {"open", "closed"}
  /\ correct_option \in [ChoiceQuestion -> Option]
  /\ {MaxLinks, MaxTeacherLinks, MaxAnswers, MaxQueue} \subseteq Nat \ {0}
  /\ MaxResync \in Nat

VARIABLES
  qstate, opened_at, clock, participants, answers,
  answer_count, correct_count, option_counts, cell_stats,  \* the engine
  deviceBySid,    \* of each device, the sids that the client maps to it
  connectedSids,  \* of each device, the sids that the client holds connected
  teacherLink, teacherLinks,  \* the teacher's link; how often it connected
  inbox,          \* from the relay to the teacher
  sendBuffer,     \* what the client emitted while its link was down
  session,        \* the class: "lobby" or "ended"
  SIDS,           \* of each device, the sids the relay has
  pinned,         \* ... and those pinned to it
  link, links,    \* the page's link; how often it connected, which names its sid
  down,           \* from the relay to the page
  buffer,         \* what the page emitted while its link was down
  page,           \* the page's React state and refs
  sent            \* answers the page has sent, which names its nonces

Engine == INSTANCE QuizEngine WITH TableQuestion <- {}, Cell <- {None}

engine == <<qstate, opened_at, clock, participants, answers,
            answer_count, correct_count, option_counts, cell_stats>>
client == <<deviceBySid, connectedSids>>
teacherNet == <<teacherLink, teacherLinks, inbox, sendBuffer>>
relay == <<session, SIDS, pinned>>
pageNet == <<link, links, down, buffer>>
pages == <<page, sent>>
vars == <<engine, client, teacherNet, relay, pageNet, pages>>

Sid == 1 .. MaxLinks
Nonce == 1 .. MaxAnswers

\* An answer under way, as the page remembers it.
InFlight == [nonce : Nonce, question : ChoiceQuestion, answer : Option,
             phase : {"sending", "failed"}]

ASSUME NullAssumption == None \notin InFlight

Page == [status   : {"waiting", "open", "answered", "closed", "ended", "error"},
         question : ChoiceQuestion \cup {None},    \* active_question.id
         state    : {"open", "closed", None},      \* active_question.state
         selected : Option \cup {None},            \* the answer it shows as received
         pending  : Option \cup {None},            \* waiting to be confirmed
         flight   : InFlight \cup {None}]

\* A page that has loaded and has a device and a nickname.
FreshPage == [status |-> "waiting", question |-> None, state |-> None,
              selected |-> None, pending |-> None, flight |-> None]

\* A page that shows nothing but this status.
BlankPage(status) == [FreshPage EXCEPT !.status = status]

Init ==
  /\ Engine!Init
  /\ deviceBySid = [d \in Device |-> {}]
  /\ connectedSids = [d \in Device |-> {}]
  /\ teacherLink = "down" /\ teacherLinks = 0
  /\ inbox = << >>
  /\ sendBuffer = [d \in Device |-> << >>]
  /\ session = "lobby"
  /\ SIDS = [d \in Device |-> {}]
  /\ pinned = [d \in Device |-> {}]
  /\ link = [d \in Device |-> "down"] /\ links = [d \in Device |-> 0]
  /\ down = [d \in Device |-> << >>]
  /\ buffer = [d \in Device |-> << >>]
  /\ page = [d \in Device |-> FreshPage]
  /\ sent = [d \in Device |-> 0]

-----------------------------------------------------------------------------
(***************************************************************************)
(* The relay.                                                              *)
(***************************************************************************)
\* A message of the teacher and the sids of a device that it is for; a broadcast
\* is for all of them.
Addressed(to, msg) == << [to |-> to, msg |-> msg] >>

\* The messages in `out' that are for this sid, in their order.
For(sid, out) ==
  LET upTo[i \in 0 .. Len(out)] ==
        IF i = 0 THEN << >>
        ELSE IF sid \in out[i].to THEN Append(upTo[i - 1], out[i].msg)
        ELSE upTo[i - 1]
  IN  upTo[Len(out)]

\* What reaches the page of d, now, of these: the relay has its sid, and the
\* connection is alive.
Reaching(d, out) ==
  IF link[d] = "up" /\ links[d] \in SIDS[d] THEN For(links[d], out) ELSE << >>

\* socket.emit of the teacher's client, out[d] being for device d:
\* relay:to-students and relay:to-student.
TeacherEmits(out) ==
  /\ down' = [d \in Device |-> IF teacherLink = "up" THEN down[d] \o Reaching(d, out[d])
                                                     ELSE down[d]]
  /\ sendBuffer' = [d \in Device |-> IF teacherLink = "down" THEN sendBuffer[d] \o out[d]
                                                             ELSE sendBuffer[d]]

\* The relay emits to the teacher room.
ToTeacher(msgs) == IF teacherLink = "up" THEN inbox \o msgs ELSE inbox

Presence(d, sid, connected) ==
  << [type |-> "presence", device |-> d, sid |-> sid, connected |-> connected] >>

\* What the page of d emits goes through the relay to the teacher, pinning the
\* sid (_relay_from_student).
PageEmits(d, msgs) ==
  IF link[d] = "up" /\ links[d] \in SIDS[d]
  THEN /\ inbox' = ToTeacher(msgs)
       /\ pinned' = [pinned EXCEPT ![d] = IF msgs = << >> THEN @ ELSE @ \cup {links[d]}]
       /\ UNCHANGED buffer
  ELSE /\ buffer' = [buffer EXCEPT ![d] = IF link[d] = "down" THEN @ \o msgs ELSE @]
       /\ UNCHANGED <<inbox, pinned>>

-----------------------------------------------------------------------------
(***************************************************************************)
(* The teacher.                                                            *)
(***************************************************************************)
\* engine.studentState(d) as a message; the question that it shows.
ActiveQuestion == Engine!ActiveQuestion
AnswerOf(d, q) == IF d \in DOMAIN answers[q] THEN answers[q][d] ELSE None

\* Mutant: the question that was opened first, as long as none is open.
MutantFirstClosed(d) ==
  LET asked == {q \in ChoiceQuestion : qstate[q] # "ready"}
      earliest == {q \in asked : \A x \in asked : opened_at[q] <= opened_at[x]}
  IN  IF earliest = {}
      THEN [type |-> "state", question |-> None, state |-> None, answer |-> None]
      ELSE LET q == CHOOSE x \in earliest : TRUE
           IN  [type |-> "state", question |-> q, state |-> qstate[q],
                answer |-> AnswerOf(d, q)]

StudentState(d) ==
  IF ActiveQuestion = {}
  THEN [type |-> "state", question |-> None, state |-> None, answer |-> None]
  ELSE LET q == CHOOSE x \in ActiveQuestion : TRUE
       IN  [type |-> "state", question |-> q, state |-> qstate[q],
            answer |-> AnswerOf(d, q)]

\* Mutant: the state is read before the engine's step.
MutantStateBefore(d, sids) ==
  IF d \in participants /\ sids # {} THEN Addressed(sids, StudentState(d)) ELSE << >>

\* sendStudentState, for some of the sids of d, after the engine's step; nothing
\* for a device that has not said hello.
SendStudentState(d, sids) ==
  IF d \in participants' /\ sids # {} THEN Addressed(sids, StudentState(d)') ELSE << >>

Nothing == [d \in Device |-> << >>]

\* broadcastQuestion, after the engine's step.
Broadcast(q) ==
  Addressed(Sid, [type |-> "question", question |-> q, state |-> qstate'[q]])

Quick == \A d \in Device : Len(down[d]) < MaxQueue /\ Len(sendBuffer[d]) < MaxQueue

\* triggerLiveQuestion, which the playback gate calls for a question that is
\* ready (onGdbPause).
TriggerLiveQuestion(q) ==
  /\ Quick
  /\ qstate[q] = "ready"
  /\ Engine!Trigger(q)
  /\ TeacherEmits([d \in Device |-> Broadcast(q)])
  /\ UNCHANGED <<client, teacherLink, teacherLinks, inbox, relay, link, links, buffer, pages>>

\* closeLiveQuestion, which the panel calls for the open question: the broadcast,
\* then a personal state for every connection with a device.
CloseLiveQuestion(q) ==
  /\ Quick
  /\ qstate[q] = "open"
  /\ Engine!Close(q)
  /\ TeacherEmits([d \in Device |->
       Broadcast(q) \o SendStudentState(d, connectedSids[d] \cap deviceBySid[d])])
  /\ UNCHANGED <<client, teacherLink, teacherLinks, inbox, relay, link, links, buffer, pages>>

\* onStudentHello
OnStudentHello(d, sid) ==
  /\ Engine!Hello(d)
  /\ deviceBySid' = [deviceBySid EXCEPT ![d] = @ \cup {sid}]
  /\ connectedSids' = [connectedSids EXCEPT ![d] = @ \cup {sid}]
  /\ TeacherEmits([Nothing EXCEPT ![d] = SendStudentState(d, {sid})])

\* onStudentAnswer, of an answer that the engine accepts: acknowledged ...
OnAnswerAccepted(d, msg) ==
  /\ Engine!Accept(d, msg.question, msg.answer)
  /\ deviceBySid' = [deviceBySid EXCEPT ![d] = @ \cup {msg.sid}]
  /\ TeacherEmits([Nothing EXCEPT
       ![d] = Addressed({msg.sid}, [type |-> "received", nonce |-> msg.nonce])])
  /\ UNCHANGED connectedSids

\* ... and of one that it rejects: the page is told its state.
OnAnswerRejected(d, msg) ==
  /\ Engine!Rejects(d, msg.question)
  /\ UNCHANGED engine
  /\ TeacherEmits([Nothing EXCEPT ![d] = SendStudentState(d, {msg.sid})])
  /\ UNCHANGED client

\* onPresence
OnPresence(d, msg) ==
  /\ IF msg.connected
     THEN /\ connectedSids' = [connectedSids EXCEPT ![d] = @ \cup {msg.sid}]
          /\ UNCHANGED <<engine, deviceBySid>>
          /\ TeacherEmits([Nothing EXCEPT
               ![d] = SendStudentState(d, {msg.sid} \cap deviceBySid[d])])
     ELSE /\ connectedSids' = [connectedSids EXCEPT ![d] = @ \ {msg.sid}]
          /\ deviceBySid' = [deviceBySid EXCEPT ![d] = @ \ {msg.sid}]
          /\ UNCHANGED <<engine, down, sendBuffer>>

\* Mutant: the connections of before are kept.
MutantRosterAdds(msg) ==
  /\ connectedSids' = [d \in Device |-> connectedSids[d] \cup msg.sids[d]]
  /\ deviceBySid' = [d \in Device |-> deviceBySid[d] \cup msg.pinned[d]]
  /\ UNCHANGED <<engine, down, sendBuffer>>

\* onRoster
OnRoster(msg) ==
  /\ connectedSids' = msg.sids
  /\ deviceBySid' = [d \in Device |-> deviceBySid[d] \cup msg.pinned[d]]
  /\ UNCHANGED <<engine, down, sendBuffer>>

\* The teacher's tab handles the next event.
TeacherReceives ==
  /\ teacherLink = "up" /\ inbox # << >>
  /\ inbox' = Tail(inbox)
  /\ \E msg \in {Head(inbox)} :
       \/ msg.type = "hello" /\ OnStudentHello(msg.device, msg.sid)
       \/ msg.type = "answer" /\ \/ OnAnswerAccepted(msg.device, msg)
                                 \/ OnAnswerRejected(msg.device, msg)
       \/ msg.type = "presence" /\ OnPresence(msg.device, msg)
       \/ msg.type = "roster" /\ OnRoster(msg)
  /\ UNCHANGED <<teacherLink, teacherLinks, relay, link, links, buffer, pages>>

\* The teacher's link breaks, and the client notices.
TeacherLinkBreaks ==
  /\ teacherLink = "up" /\ teacherLinks < MaxTeacherLinks
  /\ teacherLink' = "broken"
  /\ inbox' = << >>
  /\ UNCHANGED <<engine, client, teacherLinks, sendBuffer, relay, pageNet, pages>>

TeacherNotices ==
  /\ teacherLink = "broken"
  /\ teacherLink' = "down"
  /\ UNCHANGED <<engine, client, teacherLinks, inbox, sendBuffer, relay, pageNet,
                 pages>>

\* The teacher connects (again): the relay sends the roster and tells the pages,
\* then the client's buffer is flushed.
TeacherConnects ==
  /\ teacherLink = "down" /\ session = "lobby"
  /\ teacherLink' = "up"
  /\ teacherLinks' = teacherLinks + 1
  /\ inbox' = << [type |-> "roster", sids |-> SIDS, pinned |-> pinned] >>
  /\ down' = [d \in Device |->
       down[d] \o Reaching(d, Addressed(Sid, [type |-> "teacher-online"]) \o sendBuffer[d])]
  /\ sendBuffer' = Nothing
  /\ UNCHANGED <<engine, client, relay, link, links, buffer, pages>>

\* The class ends, by the teacher's POST /end or by the grace period: relay_end.
SessionEnds ==
  /\ session = "lobby"
  /\ session' = "ended"
  /\ SIDS' = [d \in Device |-> {}]
  /\ pinned' = [d \in Device |-> {}]
  /\ down' = [d \in Device |->
       down[d] \o Reaching(d, Addressed(Sid, [type |-> "ended"]))]
  /\ teacherLink' = "closed"
  /\ inbox' = << >>
  /\ UNCHANGED <<engine, client, teacherLinks, sendBuffer, link, links, buffer,
                 pages>>

-----------------------------------------------------------------------------
(***************************************************************************)
(* The student page.                                                       *)
(***************************************************************************)
Hello(d, sid) == << [type |-> "hello", device |-> d, sid |-> sid] >>

\* The page connects, for the first time or again, and is let in: a new sid; what
\* was buffered is flushed, then hello is sent.
PageConnects(d) ==
  LET sid == links[d] + 1
      flushed == [i \in DOMAIN buffer[d] |-> [buffer[d][i] EXCEPT !.sid = sid]]
  IN  /\ link[d] = "down" /\ session = "lobby"
      /\ link' = [link EXCEPT ![d] = "up"]
      /\ links' = [links EXCEPT ![d] = sid]
      /\ SIDS' = [SIDS EXCEPT ![d] = @ \cup {sid}]
      /\ pinned' = [pinned EXCEPT ![d] = @ \cup {sid}]
      /\ inbox' = ToTeacher(Presence(d, sid, TRUE) \o flushed \o Hello(d, sid))
      /\ buffer' = [buffer EXCEPT ![d] = << >>]
      /\ UNCHANGED <<engine, client, teacherLink, teacherLinks, sendBuffer, session,
                     down, pages>>

\* Mutant: every connect_error is taken for a transient one, to be retried.
MutantRetryForEver(d) ==
  /\ link[d] = "down"
  /\ UNCHANGED vars

\* The page connects and is refused, because the class has ended, or while it goes
\* on because it is full or the join token has aged: a connect_error for good.
PageRefused(d) ==
  /\ link[d] = "down"
  /\ link' = [link EXCEPT ![d] = "closed"]
  /\ page' = [page EXCEPT ![d] = BlankPage("error")]
  /\ UNCHANGED <<engine, client, teacherNet, relay, links, down, buffer, sent>>

\* The page's link breaks; the page notices; the relay notices.
PageLinkBreaks(d) ==
  /\ link[d] = "up" /\ links[d] < MaxLinks
  /\ link' = [link EXCEPT ![d] = "broken"]
  /\ down' = [down EXCEPT ![d] = << >>]
  /\ UNCHANGED <<engine, client, teacherNet, relay, links, buffer, pages>>

PageNotices(d) ==
  /\ link[d] = "broken"
  /\ link' = [link EXCEPT ![d] = "down"]
  /\ UNCHANGED <<engine, client, teacherNet, relay, links, down, buffer, pages>>

RelayNotices(d, sid) ==
  /\ sid \in SIDS[d]
  /\ sid # links[d] \/ link[d] # "up"
  /\ SIDS' = [SIDS EXCEPT ![d] = @ \ {sid}]
  /\ pinned' = [pinned EXCEPT ![d] = @ \ {sid}]
  /\ inbox' = ToTeacher(Presence(d, sid, FALSE))
  /\ UNCHANGED <<engine, client, teacherLink, teacherLinks, sendBuffer, session,
                 pageNet, pages>>

\* The student reloads the page, which keeps its device and nothing else.
Reload(d) ==
  /\ links[d] < MaxLinks
  /\ page' = [page EXCEPT ![d] = FreshPage]
  /\ link' = [link EXCEPT ![d] = "down"]
  /\ down' = [down EXCEPT ![d] = << >>]
  /\ buffer' = [buffer EXCEPT ![d] = << >>]
  /\ UNCHANGED <<engine, client, teacherNet, relay, links, sent>>

\* reduceStudentState and the rest of applySnapshot: a question that is gone or
\* closed takes the answer under way with it, another question also what waits
\* to be confirmed.
AfterSnapshot(p, q, state, selected) ==
  [p EXCEPT
     !.status = CASE q = None -> "waiting"
                  [] state = "closed" -> "closed"
                  [] OTHER -> IF selected = None THEN "open" ELSE "answered",
     !.question = q,
     !.state = state,
     !.selected = selected,
     !.pending = IF q = p.question THEN @ ELSE None,
     !.flight = IF @ # None /\ (q # @.question \/ state = "closed") THEN None ELSE @]

\* Mutant: a broadcast leaves the answer, whatever the question.
MutantAnswerSticks(p, msg) == AfterSnapshot(p, msg.question, msg.state, p.selected)

\* A broadcast has no answer of one's own: the same question keeps it.
AfterBroadcast(p, msg) ==
  AfterSnapshot(p, msg.question, msg.state,
                IF msg.question = p.question THEN p.selected ELSE None)

\* onAnswerReceived and markSubmitted
AfterReceived(p, nonce) ==
  IF p.flight # None /\ p.flight.nonce = nonce
  THEN [p EXCEPT !.status = "answered", !.selected = p.flight.answer, !.flight = None]
  ELSE p

\* Mutant: relay:teacher-online is not listened to.
MutantSilent(d) == PageEmits(d, << >>)

\* sendHello, which the page does on relay:teacher-online.
OnTeacherOnline(d) == PageEmits(d, Hello(d, links[d]))

\* The page handles the next message.
PageReceives(d) ==
  /\ link[d] = "up" /\ down[d] # << >>
  /\ down' = [down EXCEPT ![d] = Tail(@)]
  /\ LET msg == Head(down[d])
         Becomes(p) == page' = [page EXCEPT ![d] = p] /\ UNCHANGED <<inbox, pinned, link, buffer>>
     IN \/ msg.type = "question" /\ Becomes(AfterBroadcast(page[d], msg))
        \/ msg.type = "state"
             /\ Becomes(AfterSnapshot(page[d], msg.question, msg.state, msg.answer))
        \/ msg.type = "received" /\ Becomes(AfterReceived(page[d], msg.nonce))
        \/ msg.type = "teacher-online"
             /\ OnTeacherOnline(d) /\ UNCHANGED <<page, link>>
        \/ /\ msg.type = "ended"
           /\ page' = [page EXCEPT ![d] = BlankPage("ended")]
           /\ link' = [link EXCEPT ![d] = "closed"]
           /\ UNCHANGED <<inbox, pinned, buffer>>
  /\ UNCHANGED <<engine, client, teacherLink, teacherLinks, sendBuffer, session,
                 SIDS, links, sent>>

\* resync, when the page is looked at again: hello once more.
Resync(d) ==
  /\ link[d] = "up" /\ links[d] \in SIDS[d]
  /\ Len(inbox) + Len(down[d]) < MaxResync
  /\ PageEmits(d, Hello(d, links[d]))
  /\ UNCHANGED <<engine, client, teacherLink, teacherLinks, sendBuffer, session, SIDS,
                 link, links, down, pages>>

Submitting(p) == p.flight # None /\ p.flight.phase = "sending"

onlyPage(d) ==
  UNCHANGED <<engine, client, teacherNet, relay, pageNet, sent>>

\* requestChoiceSubmit, with the form enabled.
RequestSubmit(d, o) ==
  /\ page[d].state = "open" /\ ~Submitting(page[d]) /\ page[d].pending = None
  /\ page' = [page EXCEPT ![d].pending = o]
  /\ onlyPage(d)

CancelPending(d) ==
  /\ page[d].pending # None
  /\ page' = [page EXCEPT ![d].pending = None]
  /\ onlyPage(d)

\* transmit, with a new nonce; what waits to be confirmed becomes pending.
Transmit(d, q, o, pending) ==
  LET nonce == sent[d] + 1
  IN  /\ sent[d] < MaxAnswers
      /\ sent' = [sent EXCEPT ![d] = nonce]
      /\ page' = [page EXCEPT ![d].pending = pending,
                              ![d].flight = [nonce |-> nonce, question |-> q, answer |-> o,
                                             phase |-> "sending"]]
      /\ PageEmits(d, << [type |-> "answer", device |-> d, sid |-> links[d],
                          question |-> q, answer |-> o, nonce |-> nonce] >>)
      /\ UNCHANGED <<engine, client, teacherLink, teacherLinks, sendBuffer, session,
                     SIDS, link, links, down>>

\* confirmPending: whether the question is still open is not looked at.
ConfirmPending(d) ==
  /\ page[d].pending # None /\ ~Submitting(page[d])
  /\ Transmit(d, page[d].question, page[d].pending, None)

\* The five seconds are over.
AckTimeout(d) ==
  /\ Submitting(page[d])
  /\ page' = [page EXCEPT ![d].flight.phase = "failed"]
  /\ onlyPage(d)

\* resend: the same answer with a new nonce, whatever waits to be confirmed.
Resend(d) ==
  /\ page[d].flight # None /\ page[d].flight.phase = "failed"
  /\ Transmit(d, page[d].flight.question, page[d].flight.answer, page[d].pending)

Next ==
  \/ \E q \in ChoiceQuestion : TriggerLiveQuestion(q) \/ CloseLiveQuestion(q)
  \/ TeacherReceives \/ TeacherLinkBreaks \/ TeacherNotices \/ TeacherConnects
  \/ SessionEnds
  \/ \E d \in Device :
       \/ PageConnects(d) \/ PageRefused(d) \/ PageLinkBreaks(d) \/ PageNotices(d)
       \/ Reload(d) \/ PageReceives(d) \/ Resync(d)
       \/ CancelPending(d) \/ ConfirmPending(d) \/ AckTimeout(d) \/ Resend(d)
       \/ \E o \in Option : RequestSubmit(d, o)
       \/ \E sid \in Sid : RelayNotices(d, sid)

Spec == Init /\ [][Next]_vars

\* Messages that have reached an end are handled, lost links are noticed, and the
\* Socket.IO clients connect again.  Nothing that a person does is fair.
Fairness ==
  /\ WF_vars(TeacherReceives) /\ WF_vars(TeacherNotices) /\ WF_vars(TeacherConnects)
  /\ \A d \in Device : /\ WF_vars(PageReceives(d))
                       /\ WF_vars(PageNotices(d))
                       /\ WF_vars(PageConnects(d) \/ PageRefused(d))
FairSpec == Spec /\ Fairness

-----------------------------------------------------------------------------
(***************************************************************************)
(* Properties.                                                             *)
(***************************************************************************)
StateMessage == [type : {"state"}, question : ChoiceQuestion \cup {None},
                 state : {"open", "closed", None}, answer : Option \cup {None}]
PageMessage ==
  StateMessage
    \cup [type : {"question"}, question : ChoiceQuestion, state : {"open", "closed"}]
    \cup [type : {"received"}, nonce : Nonce]
    \cup [type : {"teacher-online", "ended"}]
TeacherMessage ==
  [type : {"hello"}, device : Device, sid : Sid]
    \cup [type : {"answer"}, device : Device, sid : Sid \cup {0},
          question : ChoiceQuestion, answer : Option, nonce : Nonce]
    \cup [type : {"presence"}, device : Device, sid : Sid, connected : BOOLEAN]
    \cup [type : {"roster"}, sids : [Device -> SUBSET Sid], pinned : [Device -> SUBSET Sid]]

\* The type invariant of the client, the links and the pages.
TypeOK ==
  /\ deviceBySid \in [Device -> SUBSET Sid] /\ connectedSids \in [Device -> SUBSET Sid]
  /\ teacherLink \in {"up", "broken", "down", "closed"}
  /\ teacherLinks \in 0 .. MaxTeacherLinks
  /\ inbox \in Seq(TeacherMessage)
  /\ sendBuffer \in [Device -> Seq([to : SUBSET Sid, msg : PageMessage])]
  /\ session \in {"lobby", "ended"}
  /\ SIDS \in [Device -> SUBSET Sid] /\ pinned \in [Device -> SUBSET Sid]
  /\ link \in [Device -> {"up", "broken", "down", "closed"}]
  /\ links \in [Device -> 0 .. MaxLinks]
  /\ down \in [Device -> Seq(PageMessage)]
  /\ buffer \in [Device -> Seq(TeacherMessage)]
  /\ page \in [Device -> Page]
  /\ sent \in [Device -> 0 .. MaxAnswers]

\* Nothing is under way between the teacher and the page of d.
Quiet(d) ==
  /\ session = "lobby"
  /\ teacherLink = "up" /\ inbox = << >>
  /\ link[d] = "up" /\ down[d] = << >>

\* The page shows the question that the engine would show it, in its state, and
\* an answer if the engine has one; while the question is open, that answer.
Agrees(d) ==
  LET state == StudentState(d)
  IN  /\ page[d].question = state.question
      /\ page[d].state = state.state
      /\ page[d].selected = None <=> state.answer = None
      /\ state.state = "open" => page[d].selected = state.answer

\* Whatever was lost, late or resent, once nothing is under way a connected page
\* and the engine agree.
PageAgreesWhenQuiet == \A d \in Device : Quiet(d) => Agrees(d)

\* A page never shows an answer as received while the engine has none of it, not
\* even for a moment: that student would not try again.
ShownIsCounted ==
  \A d \in Device :
    page[d].selected # None => d \in DOMAIN answers[page[d].question]

\* Rosters and presence events of several connections leave the client with the
\* connections of the relay; and with the device of every page, without which it
\* could not send the personal results when it closes a question.
RosterFollowsRelay ==
  teacherLink = "up" /\ inbox = << >> =>
    /\ connectedSids = SIDS
    /\ \A d \in Device : Quiet(d) => links[d] \in deviceBySid[d]

\* A page never goes back: from a question to one opened before it, from a closed
\* question to the same one open, or from a question to waiting for the first
\* one, unless it loses its connection with it.
NeverBackwards ==
  [][\A d \in Device : page[d].question # None /\ link'[d] = "up" =>
       /\ page'[d].question # None
       /\ opened_at'[page[d].question] <= opened_at'[page'[d].question]
       /\ page[d].state = "closed" /\ page'[d].question = page[d].question
            => page'[d].state = "closed"]_vars

\* Every page learns that the class has ended, the ones that were not connected
\* by being refused.
EveryPageLearns ==
  \A d \in Device : session = "ended" ~> page[d].status \in {"ended", "error"}

\* As long as the class goes on, no page is left behind without a word: again and
\* again it agrees with the engine, or it has been refused and says so.
NoPageLeftBehind ==
  \A d \in Device : []<>(session = "ended" \/ Agrees(d) \/ page[d].status = "error")

\* liveQuizEngine.ts:500 says that after a question is closed those who have
\* answered it always get their old answer; the comment at liveQuizClient.ts:201
\* and the test at studentQuiz.jest.ts:312, that an answer after the close is not
\* acknowledged.  So the page of a closed question shows the recorded answer.
OldAnswerAfterClose ==
  \A d \in Device :
    Quiet(d) /\ page[d].state = "closed"
      => page[d].selected = AnswerOf(d, page[d].question)

=============================================================================
