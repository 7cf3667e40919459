# A formal model of CPPcodeVisualizer

CPPcodeVisualizer is a web-based C/C++ debugger for teaching. A program is
compiled and run inside the browser, its execution is recorded, and a debugger
replays the recording. On top of it a teacher writes a *lesson*, a program with
questions bound to source lines, and plays it to a class: when the playback
reaches a question it pauses, the students answer on their phones, and the
teacher sees the statistics. That *live class* is the distributed, concurrent
part of the program, and most of these TLA+ modules are about it. The others
model the teacher's tab: the compiler that a Run goes through, and the debugger
that replays what it recorded.

Sections: 1 inventory, 2 modules, 3 runs, 4 fairness, 5 proofs, 6 findings,
7 what is not modelled, 8 plan.

## 1. The system

Paths are relative to `src/gdbgui/`.

### 1.1 Live classes

A class has three kinds of actors: the teacher's tab, the students' pages and
the server between them. The scores are kept **in the teacher's tab only**. The
server relays messages and stores a class's row; it never sees an answer.

| Component | State | Operations | Talks to |
|---|---|---|---|
| Relay, `server/live_quiz.py` | the class rows (`lobby`/`ended`); `SIDS`, rooms, `_GRACE_TIMERS`, token buckets, all in memory on one eventlet hub | create, end (a POST with an anonymous summary), connect, disconnect, student events, teacher events, grace expiry | Socket.IO both ways, SQLite |
| Scoring engine, `src/js/liveQuizEngine.ts` | questions, participants, answers, incremental counters | `hello`, `trigger`, `close`, `answerChoice`, `answerTable`, `stats`, `studentState`, `endedSummary` | called by the teacher client |
| Teacher client, `src/js/liveQuizClient.ts` | the engine, `deviceBySid`, `connectedSids`, `ended`, one socket | `triggerLiveQuestion`, `closeLiveQuestion`, `endLiveSession`, four relay events | engine, relay, panel |
| Student page, `src/js/studentQuiz.tsx`, `studentQuizState.ts` | the snapshot it shows, the answer under way (`inFlightRef`), the answer to be confirmed, one socket | hello, snapshot, acknowledgement, confirm, resend, timeout, resync | relay |
| Playback gate, `src/js/lessonQuizRuntime.ts` | the pending question, the pending capture of a table, the command put aside, the questions that were triggered | pause, resume, open, retry, close, session changes | debugger, narration, panel |
| Panel, `src/js/LiveQuizPanel.tsx` | the session shown, the end of a class under way | start, restart, end, refused | gate, client |

How they work together:

1. `POST /sessions` makes a row in state `lobby`. The teacher's socket connects
   with the session's id; students connect with a signed token.
2. A page says `student:hello` on every connect. The relay pins the connection
   (its *sid*) to the first `device_id` it sends and forwards the event, with
   the sid, to the teacher. The client answers with that student's state.
3. Opening and closing a question are engine steps, followed by a broadcast;
   a close is followed by a personal state for every connected student.
4. An answer carries a nonce. The client applies it to the engine and sends the
   nonce back as an acknowledgement; an answer that is rejected makes it send
   the student's state instead. After 5 s without an answer the page offers to
   resend, with a new nonce.
5. A teacher who comes (back) gets the roster of connections and their pinned
   devices, and the pages are told to say hello again.
6. The class ends by `POST /end`, or when the last teacher has been away for
   30 s. Everybody is told, and then disconnected.

What is hard here, and what correct means:

- **Relay.** Two teacher tabs, timers of earlier absences, connects that raise
  half-way, disconnects that the relay itself causes, restarts. Correct: rooms
  follow roles; an ended class is empty; a grace period is never cut short by
  an old timer; each connection speaks for one device; a teacher knows exactly
  the connected students; classes do not touch each other; an abandoned class
  ends.
- **Engine.** The counters are incremental, and answers are changed, resent and
  late. Correct: counters equal the recorded answers; one question is open at a
  time; a closed question is final; the teacher and the students are shown the
  same question.
- **Client and pages.** Two unreliable links, messages that are lost or come
  after a reconnect, several connections of one page, acknowledgements that
  race a close. Correct: a page shows no answer that is not recorded; it never
  goes back; once nothing is under way page and engine agree; no page is left
  behind; every page learns that the class has ended.
- **Gate and panel.** The narration steps the program by itself, with commands
  that wait for a delay and for a drawing while a question opens, a class changes
  or the program starts again. Correct: while a question is open the playback
  is held; when it is over it goes on; a closed gate can always be opened.
- **End of a class.** A POST that is committed and whose response is lost, then
  repeated without a body. Correct: the class ends once, and what the teacher is
  told about the summary is what the server stored.

### 1.2 The rest of the program

| Component | Files | Character | Correctness |
|---|---|---|---|
| Lesson store | `server/db.py` | SQLite; versions of a lesson, optimistic update, quotas, cascades | no lost update, a quota that holds |
| Login and rate limits | `server/auth.py`, `ratelimit.py`, `blocking.py` | a check and a record on two sides of a yield; a bounded table | the budget bounds the attempts |
| Lesson generation | `server/lesson_gen.py` | one call to a language model and a validator | what is stored is valid |
| Routes, application | `server/http_routes.py`, `app.py`, `cli.py`, ... | parsing, templates, start-up | sequential |
| Local engine socket | `src/js/localEngine.ts` | Runs that replace each other or are interrupted while modules and engines load | every Run is answered; only the last one's program is shown |
| Browser compiler and runner | `static/engine/index.js`, `*.worker.js` | two workers, a watchdog, a queue, a worker that is replaced | a compiler that hangs ends its own Run only |
| Source instrumentation | `static/engine/instrument.js`, `trace.js`, `pch.js` | translators between text formats | no interaction |
| Replaying debugger | `static/engine/localgdb/*.js` | position in the recording, breakpoints, moves in both directions, selected frame, variable objects | no breakpoint is passed; next and finish keep to their frame |
| Front end | `src/js/*.tsx` | React views | projections of the above |

In the tab, a Run is `createAndUpload`: the modules, then the engine, then a
compilation and an execution, each with a promise of its own. Its result is a
*trace*, one step per line that was run with the frame and the depth; a `LocalGdb`
session over the trace answers the debugger's commands.

`PROJECT.json` lists every component with its status, and every hazard at the
line where it bites.

## 2. The modules

| Module | Models | Uses |
|---|---|---|
| `QuizRelay` | the relay of `live_quiz.py` | |
| `QuizEngine` | `liveQuizEngine.ts` | |
| `LiveClass` | student pages, links, forwarding, teacher client | `QuizEngine` by `INSTANCE` |
| `QuizUpload` | the end of a class and the change to the next one: panel, client, route, transactions | |
| `QuizRuntime` | the playback gate with the debugger's pauses, the narration, the panel's buttons and the class | |
| `EngineTab` | `localEngine.ts` and the class `Engine` | |
| `Stepping` | `exec.js` and the commands of `session.js` that drive it, over every trace that can be recorded | |
| `MCQuizRelay`, `MCQuizEngine`, `MCLiveClass`, `MCQuizUpload`, `MCQuizRuntime`, `MCStepping` | the instances for TLC | |
| `QuizRelay_proofs`, `QuizEngine_proofs`, `QuizUpload_proofs`, `QuizRuntime_proofs`, `EngineTab_proofs`, `LiveClass_proofs`, `LivePages_proofs`, `Stepping_proofs` | theorems | the module they are about; `LiveClass_proofs` uses `QuizEngine_proofs` by `INSTANCE`, `LivePages_proofs` extends it |

### QuizRelay

`SIDS`, `timers` (`_GRACE_TIMERS`), `generation` and the rooms are the code's
variables; `tasks` are the sleeping `_teacher_grace_expired` tasks with the time
they still have to sleep. Since the server runs on one hub and no handler yields
while it works on this state, each handler is one action; only the sleeping task
is split, at its sleep. `RelayEnd` and `Leave` are operators, since both the
route and the timer end a class and since a disconnect comes from the network
and also from the rate limiter. `ConnectTeacherRaises` is the connect whose
emit raises after the room was joined. `EndSessionRaises` is the POST whose
`end_session` raises before its commit or after it: the route answers 500, and
`relay_end` is not called, whatever became of the row. `MayFail` allows it, and the
same in an expiry, which closes the class all the same. `Restart` clears the memory
and keeps the rows. A token bucket is a count of tokens, with `Refill` for the
passing time. The variables `away`, `known`, `heard`, `told` and `course` are
history: what the relay has told whom, and whether it has had a teacher of a class
(`hosted`) or has closed the class (`closed`). Only properties read them.

### QuizEngine

Each exported function that changes state is an action (`Hello`, `Trigger`,
`Close`, `AnswerChoice`, `AnswerTable`, `AnswerLate`), with the counters exactly
as the code updates them, in place and in its order: the old answer is taken out
and the new one is put in. A table answer is the set of cells it has right;
`Math.max(0, ...)` is kept (`OneLess`). `StatsQuestion` and `ActiveQuestion` are
the two rules by which `stats()` and `studentState()` choose "the current
question". The clock advances between two openings.

### LiveClass

One page per device. `page` holds what the page shows (`question`, `state`,
`selected`), the answer that waits to be confirmed (`pending`) and the answer
under way with its nonce (`flight`). `AfterSnapshot` is `reduceStudentState`
with the rest of `applySnapshot`; a broadcast has no answer of one's own and
keeps the shown one if the question is the same (`AfterBroadcast`).

A link is `up`, `broken` (dead without anybody noticing, so that what is
emitted is lost), `down` (noticed: Socket.IO buffers what is emitted, and sends
it before the next `connect` event) or `closed`. A page that comes back has a
new sid while the relay may still hold the old one, and their disconnect events
arrive in any order (`RelayNotices`). Such a page may also be refused
(`PageRefused`): because the class is over, because it is full
(`live_quiz.py:1271`), or because its token has aged (`load_join_token`, 927). It
then shows the terminal error and tries no more (`studentQuiz.tsx:229`), until it
is reloaded (`Reload`). Fullness and age depend on more than the model holds, so
that it may happen at any time. `inbox` is what is under way from the relay
to the teacher, `down` from the relay to each page: the relay itself adds no
delay and no reordering, because its handlers run on one hub and TCP keeps order
per connection.

The engine is `Engine == INSTANCE QuizEngine WITH
TableQuestion <- {}, ...`: its actions are conjuncts of the client's handlers,
and what a handler sends after the engine's step is written with the engine's
primed state, so that order (step, then read, then send) is part of the model.

### QuizUpload

A `call` is one press of "end the class" (`end`) or of Run (`restartSession`).
Its stages are the awaits of the code: the first POST of `endLiveSession`, the
retry without a body, and for Run `createLiveSession` and `prepareVersion`.
`post` holds the two POSTs of each call. A request that the tab has given up stays
`sent` and may still be handled; an answer may be lost at any time
(`FirstFails`, `EndFails`).

The server handles a request in one step, because `end_session` is one
transaction on a hub that does not yield, with five outcomes: 404
(`RouteGone`), the class ended (`RouteEnds`), 400 or a rollback
(`RouteRefuses`), and an exception after the commit, which answers 500 and never
reaches `relay_end` (`RouteRaisesLate`). `PersistTableHints` writes the class's
variable hints into the lesson if that still has the version the class was
opened with (`base`). `SaveLesson` is a save from another tab.

`session`, `over`, `notice` and `note` are the panel's `sessionRef`, `endedRef`,
`endedNotice` and `endedNote`. Run may be pressed during any call, as in the code,
and what an end reports may come back when the panel shows another class; `unsavedOf`
is history, the class whose end put up the notice "not saved". `FinishServerEnded` is used for two things, as in
the code: a socket that is refused, and an end that is answered 404. Closing the
socket of a registered teacher starts the grace period (`HangUp`), whose
bookkeeping is `QuizRelay`'s; `told` says that `relay_end` has run.

### QuizRuntime

`runtime` is a record of the variables of `lessonQuizRuntime.ts` and the store's
`quiz_playback_gate`; each of its functions is an operator from record to
record, so that a caller may run several of them in one step, as the code does
(`CloseQuestion` is the engine's step, `onState` with `syncSession`, then
`questionClosed` with the command it gives back). The engine of the class is in
the same tab: the promise of `trigger` settles before the browser takes its next
event, so `openQuestion` is one step with three outcomes (opened, refused by the
state of the class, refused because of the table), and the `generation` that
guards against a late answer never differs.

The rest is what drives the gate. `PauseToSpeak`, `PauseOnChoice` and
`PauseOnTable` are `inferior_program_paused`; `speech` is a narration that is being
prepared, plays or is held; `timers` are the commands in
`gdbgui_execute_autoplay_command` with the wait they are in, whose end looks at
the gate again (`DelayEnds`, `DrawingEnds`). `phase` is a press of Run on its way
through the compiler, the end of the old class, the new class and its QR code
(`gateRun`). `rerun` is the flag of a Run that takes a new table for the same
class, and `hides` the flag by which a captured table hides the container.
A command is named by the line it was written for, so that the wrong one can be
told from the right one. `overrun` is history, read by properties only.

### EngineTab

A step is an event of the browser together with all promises that settle in it.
`run[r]` is a call of `createAndUpload`: its generation, the engine it is on, and
what its caller was told. An engine has the name of the Run that loads it, since
an interrupt gives one up and the next Run loads another. `engine[e]` is the class
`Engine`: the promise `ready`, the worker `pipe`, the queue of Runs with the
stage of its head, and an armed watchdog whose request could not be posted
(`stray`). `Request` is `request` up to its `postMessage`: it waits for `ready`,
posts, or throws. Modules, engines and workers fail to load at most `MaxFaults`
times; a compiler may hang or crash at any time (`TimesOut`). A worker that cannot
be loaded rejects `ready` (`WorkerFails`). One that is loaded and raises while it sets
up the compiler does not (`InitRaises`): its `failed` has no id and is ignored
(`index.js:197`), so `ready` never settles, here the value `stuck`.

### Stepping

`Traces` are the traces that `vg.h` and `trace.js` can record, up to a length and
with the exceptions of section 7: frames open and close like a stack, a frame records the closing line of its function and
then still runs the destructors of its locals, a program may stop anywhere. A
trace is drawn in the initial state, and `model` is what `TraceModel` computes
from it. `pos`, `disp`, `landed`, `signalPending` and `selectedLevel` are the
variables of `ExecState`. A scan over the steps is a minimum or a maximum
over the positions where it would stop (`ScanUp`, `ScanDown`), and spending ignore
counts on the way is a count of the steps scanned; a condition is the set of
steps where it holds. `stop` is the kind of the last stop.

## 3. The runs

| Run | Instance | Shows |
|---|---|---|
| `relay_faults` | 1 class, 4 connections, 2 devices, grace 2, buckets of 2, restarts, ends that raise | types, `RoomsFollowRoles`, `NobodyIsStranded`, `TimerOnlyWhileAway`, `TeacherKnowsClass`, `PinnedDevice`, `GraceNeverCutsShort`, `NoSilentDrop` |
| `relay_live` | 2 classes, 3 connections, fair | `ClassesAreSeparate`, `AbandonedClassEnds` |
| `engine` | 3 students, a choice question, a 2-cell table | types, `CountsMatchAnswers`, `OptionCountsMatch`, `CellStatsMatch`, `OneOpenQuestion`, `SameQuestionShown`, `ClosedIsFinal` |
| `class_faults` | 1 page, 2 questions, 2 answers, both links break once | `ShownIsCounted`, `PageAgreesWhenQuiet`, `RosterFollowsRelay`, `NeverBackwards` |
| `class_live` | 1 page, 1 question, fair | `EveryPageLearns`, `NoPageLeftBehind` |
| `class_late_answer` | 1 page, 1 question, 2 answers | violates `OldAnswerAfterClose` (section 6) |
| `upload_end` | 2 classes, 3 presses that overlap, failing store, 1 save | `NoticeIsTrue`, `EditsAreKept` |
| `upload_live` | 1 class, 3 presses that overlap, failing store, fair | `EndedIsFinal`, `EndReachesStudents` |
| `quiz_runtime` | a choice and a table on one of 2 lines, 1 command at a time, fair | `WayOut`, `NeverStalls`, `StashIsHeld`, `HeldWhileOpen`, `DialogComesBack` |
| `engine_tab` | 4 Runs, 2 signals, 2 failures, fair | `SessionIsReported`, `NeverOnDisposed`, `EveryRunIsAnswered` |
| `stepping` | all traces of 0, 3 or 6 steps, depth 3, a breakpoint | `SelectionIsOnStack`, `NoBreakpointIsPassed`, `EveryMoveMoves`, `FinishUnwinds`, `NextKeepsFrame` |
| `stepping_finished` | the same | violates `FinishedIsLeft` (section 6) |

Every module states its types in `TypeOK`. That of the relay and of the engine
is checked by a run, where the types say something (a full bucket, a counter that
is decremented); it is proved (section 5) for every module but `EngineTab`, where it
documents the variables.

Why the bounds are enough for what they check:

- *Connections of the relay.* A sid is used once, so four sids are four connects
  in a row. Two teachers and two students at a time, or a teacher who leaves,
  returns and leaves again beside a student, fit; the last is the shortest way
  to have two timers of one class, which `GraceNeverCutsShort` needs. The grace
  period of two ticks lets the timers be out of phase. The theorems of section 5
  remove all these bounds.
- *Engine.* Three devices are one more than a counter needs to confuse "one
  less" and "none"; two options and two cells are needed to move a vote. The
  state space is finite without any other bound, and deadlock is checked.
- *Class.* Two connections of a page make the ghost of the first one possible;
  two of the teacher, a roster after presence. Two answers make a changed
  answer, a resend, and an acknowledgement of the earlier one. Two questions make a broadcast
  of the second race what is about the first. `MaxQueue` holds a teacher's click
  back while more messages than that are under way to some page; the order of
  clicks and messages is free below it. `MaxResync` does the same for `Resync`
  (the page is looked at again), which otherwise could fill the queues without
  end. There is one page: what a page shows depends on others only through the
  engine, whose run has three students, and through the relay's addressing.
- *End of a class.* Three presses are: open, end, and one that races or follows
  it, with up to six POSTs; two classes are an old and a new one. One save is enough to
  make the class's version an old one. Run may be pressed while a call is under way.
  A second end that comes back under the notice of the first takes four presses, and
  is beyond TLC here; the theorem `NoticeTrue` has no bound on the presses.
- *Playback gate.* A choice and a table on the same line meet each other in every
  order when the program is in a loop or is restarted; the second line is where
  the program goes on. One command waits at a time: the narration of a line ends
  before the next line's begins, except for what an open question and a restart
  leave over, and those are still possible with one.
- *A Run.* Four Runs are one that is replaced, one that is interrupted, one behind it
  in the queue of the same engine, and one on the next engine. Two failures are
  one of an engine and one of a worker or the modules.
- *Stepping.* Six steps are enough for a call in a loop, a recursion of depth three
  and a destructor that runs after the closing line; three steps are the
  shortest with a call and a return. One breakpoint, with or without a condition
  and an ignore count, may be deleted and changed at any time.
- *No bound* is hidden in an operator: every one is a CONSTANT, named in the
  module where it is declared.

`CHECK_DEADLOCK FALSE` is given where the system may really stop: a relay whose
connections are used up, a class that has ended, or a teacher who presses
nothing more.

Symmetry is used on connections, devices and questions, never in a run with a
liveness property.

Every property of a passing run has a *mutant*: one definition of the model
changed the way a plausible bug would (an old timer honoured, the old option not
taken out, the roster added to instead of replacing, the state read before the
engine's step, ...), under which TLC finds the property violated. The mutated operators
stand beside the originals, named `Mutant...`; nothing else uses them.

## 4. Fairness

- *Relay:* `WF(Tick)` and `WF(GraceExpires)`: time passes, and the hub runs a
  task that is due. Nobody is assumed to connect, leave or send anything.
  `AbandonedClassEnds` is checked without restarts and without an `end_session`
  that raises, since the row is then not ended by anybody. That the connections are
  released all the same when it raises is `NobodyIsStranded` (no fairness) and
  `EndReachesStudents`.
- *Class:* weak fairness of handling a message that has arrived
  (`TeacherReceives`, `PageReceives`), of noticing a dead link (Socket.IO's
  heartbeat) and of the Socket.IO client's reconnecting, which it attempts for
  ever by default, or being refused. A refused page stays where it is:
  `NoPageLeftBehind` asks that it says so, and nobody is assumed to reload it.
  Nothing that a person does is fair: no question need be opened, no answer sent,
  no class ended.
- *Playback gate:* only that the roster of a new class arrives
  (`WF(RosterArrives)`), which the relay sends on connect. Everything a person, a
  program or a narration does may fail to happen.
- *A Run:* modules load or fail (a timer of 30 s ends the wait), an engine that is
  loading gets there, fails or raises, a worker is replaced by one that starts,
  fails or raises, and the watchdog and the wall clock of the program end what does
  not end by itself (`WF(TimesOut)`, `WF(ExecEnds)`). No compilation is assumed to
  end, no person to press anything. An engine whose set-up raised never answers, and
  `EveryRunIsAnswered` excepts the Runs that wait for it and for nothing else
  (section 6).
- *End of a class:* a request comes back or fails (`WF(Returns)`), and the hub runs
  a grace timer (`WF(GraceExpires)`). No request need be handled, and no
  button pressed.

## 5. Proofs

`tlapm` checks, for every value of the constants, the safety properties of every
module. The assumptions are
`RelayAssumption`, `SidAssumption`, `EngineAssumption`, `ClassAssumption`,
`UploadAssumption`, `RuntimeAssumption`, `TabAssumption` and `SteppingAssumption`:
bounds are positive, null is no value, and the sets of connections and devices are
finite. `NullAssumption`, in `LiveClass` and in `QuizRuntime`, says that null is not
one of the records that a variable may hold instead of it.

**`QuizRelay_proofs`.** The properties are not inductive as they stand. That an
expiry comes after a whole grace period, for example, needs to know of every
sleeping task whose generation is current how long it still sleeps. `IInv` adds:

- `Registered`: a sid with a role is connected, and to a class that has a row and
  that the relay has not closed. It need not be in the lobby: a row that was ended
  by an `end_session` that raised keeps its connections;
- `CourseFollows`: a class that the relay closed is in the lobby no more, and one that
  had a teacher has a teacher or a timer. From the two follows `NobodyIsStranded`;
- `InRooms`: rooms follow roles, and a teacher room may hold a sid without a
  role (a connect that raised) but never a student;
- `TimersRun`: no task and no timer has a generation that is still to be given
  out, so a generation names one absence;
- `GraceKept`: for the task of the current generation, time away plus time left
  to sleep is at least the grace period.

`Inductive` proves `Spec => []IInv` with one lemma per action or group of
actions; `RelayEnd` and `Leave`, which several actions share, have lemmas of
their own. From it follow `TypeCorrect`, `RoomsCorrect`, `NobodyStranded`,
`TimersCorrect`, `TeachersKnow`, `DevicesPinned`, and, as properties of single
steps, `GraceIsWhole`, `StudentsAreTold` and `ClassesApart`.

**`QuizEngine_proofs`.** The heart is that the incremental counters are the
cardinalities of sets of devices: an answer takes its device out of the set of
its old option and puts it into that of the new one. `CountRejoin` says what
leaving and rejoining do to a cardinality, once; the lemmas about options, right
answers and cells cite it. `IInv` adds that a question that is `ready` has no
answers, and that opening times are distinct and in the past (`Stamped`), which
`SameQuestionShown` needs. It gives `TypeCorrect` (the counters never go below
zero, although the code subtracts), `OneOpen`, `NamesFound`, `CountsCorrect`,
`OptionsCorrect`, `CellsCorrect`, `ShownSame` and `ClosedStays`.

**`QuizUpload_proofs`.** `EndIsFinal` needs little: every action changes the rows
in one of three ways (`EveryStep`), and only a running class is ended. That no
edit is lost (`EditsStay`) needs the whole invariant: that a class whose version
number is the lesson's current one has that very content (`BasesKnown`), and
that a request under way names a class (`PostsNamed`), since a request may
outlive its call. `TypeCorrect` comes with it. That what the panel says of the
summary is true (`NoticeTrue`) needs to know what every answer under way is worth
(`Honest`): after 200 to the first POST the summary is stored, after 200 to the
retry it is not and never will be. An answer is about the class of its call, which
need not be the one that the panel shows; `Shows` says for which class no notice and
the notice "not saved" stand, also while a class is under way. No step of another
call makes them false, so it holds however the calls overlap.

**`QuizRuntime_proofs`.** `WayOut` says that a closed gate shows the teacher
something to do. To prove that it stays so, `IInv` says what the gate waits for
(`Waits`): an open question, a table to be made, or, only when the class has been
unlinked, an opening that failed. With it come `Sound`, that the debugger's gate
is the runtime's and that a question which waits for a table or a Retry is still
`ready` in the engine; `AtRest`, that the runtime of no class waits for nothing;
and that at most one question is open, which the engine grants and which lets
the gate open when that one is closed. `Sync`, `Calls`, `Fails`,
`SucceedsInv`, `ChoiceInv` and `TableInv` follow a call of `trigger` from one
function to the next. The theorems are `TypeCorrect`, `GateOpens`,
`CommandIsHeld` and `GateHolds`.

That the playback does not stop by itself (`PlaybackGoesOn`) has an invariant of its
own, in two halves. `BarInv`: as long as anything waits for the teacher the gate is
closed, and behind a closed gate no command is held back by a pause, since a Resume
would lose it. `DriveInv`: a program that stands on a line with a narration is
carried on by something, which is the narration, a command on its way, the one that
a Resume runs, or the one that the end of the question runs.

**`EngineTab_proofs`.** That a session is the one its page was told of comes down to
order: Runs are called one after the other with newer generations (`Calls`), an
engine's queue holds Runs of that engine in the order of their calls, and the one
that is current has not been answered (`QueueIn`). So when the head of a queue
succeeds and is current, no later Run exists, and it is told of success in the
same step. `NeverOnDisposed` needs that the engine of the promise has not been
given up (`EnginesKept`) and that a Run in flight is the current one (`Flying`);
that a failed load of the modules answers nobody who is on an engine needs
`NoneYet`. `Requests`, `Runs`, `Advances` and `Resumes` say what the functions of
the class `Engine` do to a queue; `Moves` says once what any event of one engine
keeps, and the events cite it. The theorems are `SessionCorrect` and
`NeverGivenUp`.

**`LiveClass_proofs`.** `Sound` is three things. `Shape`: which messages are in which
queue, when a queue is empty, and what a link says about a sid. The invariant of the
engine, taken over from `QuizEngine_proofs` by `INSTANCE`: every step of the class is a
step of the engine or leaves it alone (`EngineStep`). And `Latest`, that the open
question is the one opened last, so that what the engine shows a student depends
on the clock. `SoundAlways` proves it, `ClassTypeCorrect` the types, and
`ClassImplementsEngine` that the class, with all that is lost, late or resent in it,
implements the specification of the engine.

**`LivePages_proofs`.** Each property needs to know what is under way.

- `RosterFollows`, from `Tracked`: the *last* event in the inbox that decides about a
  connection tells what the relay has; where there is none, the client holds what
  the relay has. A roster decides about every connection.
- `ShownCounted`, from `Counted`: a state that is under way with an answer, or an
  acknowledgement of the page's current nonce, is of an answer that the engine has; an
  answer under way with that nonce is the one the page remembers.
- `PageNeverBackwards`, from `Ordered`: what the page shows, what is under way to it and
  what the client still buffers form one rising sequence, below what the engine
  shows now. "Rising" is by opening time, and for one question from open to closed.
- `PagesAgree`, from `Agreement`, which rests on the other three. `Forecast(d)` is what
  the page of `d` will show when it has handled all that is under way to it, `Base(d)`
  the same if none of its own answers is acknowledged. A page whose way to the engine
  is not broken is either `Greeted` (its hello is under way, or it will be asked for
  it, so that it will be told its state) or `Settled`: the forecast is what the engine
  shows, except that a newer answer to the open question may be under way
  (`Answering`). To keep that, the answers of a page must arrive in the order of
  their numbers (`PostedAt`), the last one to the open question must still be on its
  way and still be the one that the page remembers (`Covered`), also while it waits in
  the buffer of a lost link (`WaitsAt`), and a stale answer or a roster must be
  followed by the hello of this connection (`Trails`). The invariant was found and
  checked with TLC before it was proved. `Quiet` leaves neither a hello nor an answer
  under way, and the forecast is then the page. The lemmas about `Ahead` (the page
  after a queue of messages) carry most of it: where two pages part that differ only
  in the answer shown (`AheadDiffers`, `AheadElsewhere`), and when an answer under way
  outlives the queue (`AheadStill`).

**`Stepping_proofs`.** Everything a move looks at comes from recursive definitions: the
chain of callers, and the traces themselves. They are recursive functions, so that
each is first shown to satisfy its own equation (`ChainDefined`, `TracesDefined`), and
what is claimed of all values follows by induction: `NatInductionSet` and
`StrongInduction` state it for sets, from the well-foundedness of the numbers. By it
every trace that can be recorded is a `GoodTrace` (`TracesGood`): frames are numbered as
they start and keep their depth, the caller of a frame has a step one level up
before it, since a step on the stack nothing ran but what it called (`Stacked`), and
between two steps of a frame nothing runs but the frame and what it calls
(`Nested`). `StackRests` says that the stack of the caller is the rest of the stack.
The invariant `SInv` of the debugger is then small, and the properties of the moves
follow from what a move does (`ForwardIs`, `BackwardIs`): `SelectionStays`,
`NoneIsPassed`, `EveryMove`, `FinishUnwindsStack`, `NextStays`, and `TypeCorrect`.

**Only model-checked:** the liveness properties (`AbandonedClassEnds`,
`EveryPageLearns`, `NoPageLeftBehind`, `EndReachesStudents`, `DialogComesBack`,
`EveryRunIsAnswered`), which are out of the prover's reach.

## 6. Findings

- **An answer confirmed after the close is shown as received and is not
  recorded** (`class_late_answer`). A student who has answered picks another
  option; the teacher closes the question while the confirm bar is up; the bar
  stays, and confirming sends the answer. The engine keeps the old answer and
  returns without an error, as `liveQuizEngine.ts:500` says it should, but the
  client takes "no error" for "recorded" and acknowledges. The page shows the
  new option as its answer to a closed question.
- **After `finish` the debugger may run again what was already finished**
  (`stepping_finished`). The position is put on the finished frame's own last step.
  If that frame was still inside a call there (an outer frame that was selected,
  in a program that crashes or calls `exit()` further in), or if destructors of
  its locals ran after its closing line, the next command runs those steps a
  second time and hits their breakpoints again.

The following were met while modelling. They follow from the modules, where the
property named is stated, and have no run: the properties below do not hold.

*Live classes.*

- **A class whose teacher never connected never ends** (`QuizRelay`,
  `ClosedTabEndsClass`). The grace period starts in the disconnect handler of a
  registered teacher. If the tab is closed between `POST /sessions` and the
  socket's connect, there is no such event; `zz_live_quiz.spec.ts:269` says that
  closing the tab ends the class.
- **A class that the teacher ended is reported as ended by the server after a
  lost connection** (`QuizUpload`, `ServerEndedMeansGrace`). The first POST is
  committed, its answer is lost, and the retry is answered 404. The comment at
  `LiveQuizPanel.tsx:758` speaks of two 404s; the client passes on the second
  answer only.
- **"The hints were not saved" is said of a class whose hints were saved**
  (`QuizUpload`, `NoteIsOfThisClass`). `endedNote` is set and never cleared, and
  the panel stays mounted between classes.

- **An end that is committed and then raises leaves the class connected**
  (`QuizRelay`, `EndSessionRaises`; `QuizUpload`, `RouteRaisesLate`). The route answers
  500 before it reaches `relay_end` (`live_quiz.py:843`, `1007`); the client's
  second POST finds the row ended and gets 404. The students are told when the
  teacher's socket is closed and the grace period is over (`NobodyIsStranded`,
  `EndReachesStudents`), and not before.

Two more take a Run that is pressed while the end of the old class is under way,
so that the end comes back when the panel shows the new class.

- *The notice of the old class stands on the new one.* `end()` sets
  `endedNotice` whichever class the panel shows, and `connect` clears it too early. When
  the new class ends with its summary stored, the panel still says that it is
  not. `Finish` models it, and it is why `NoticeIsTrue` says of the notice "not saved"
  only that it is true of the class whose end put it up (`unsavedOf`): that this is
  the class on the panel does not hold. It takes four presses, the two classes and
  14 steps. The other half, that a panel without a notice has its summary stored,
  holds of the class on the panel.
- *A 404 of the old class finishes the new one.* `finishServerEnded` makes its
  `ended` session from the one that is shown, so the check "which class does this
  end belong to" always passes. The late result also sets the client's `ended`
  flag after `createLiveSession` has cleared it (that flag is not in the model).

*Playback gate* (`QuizRuntime`).

- **A command of another line is played when a question ends**
  (`StashIsOfThisLine`). `stop_tts` cancels what plays, not a narration that is
  still being prepared. It then plays on the line of the question, and its end
  puts its own command in the place of the one that `inferior_program_paused` has
  kept, although the comment at `Actions.ts:178` says why it must not be the
  command of the line before.
- *Resume loses a command while the gate is closed* (`ResumeAutoplay`): the
  pending command is cleared, and the button it presses does nothing. It takes a
  question that stayed open over a restart of the program (`overrun`), which
  `NeverStalls` therefore excepts; the comment at `GdbApi.tsx:1097` says that a
  command is kept and not lost.
- *In such a class* a refused table leaves the container hidden, so that the next
  table has no dialog: `DialogComesBack` excepts it.
- *Jumping to a step* does not look at the gate (`seek_to_step`); and a re-run
  that does not compile leaves its flag set, so that the next Run stays in the
  class.

*A Run* (`EngineTab`).

- **A replaced worker that does not start stops every later Run**
  (`NextRunWorks`). `ready` stays rejected, and `request` throws until the page is
  reloaded; `tests/engine/timeouts.test.mjs:43` says "worker respawned, next run
  works", which holds if the respawn does.
- *A disposed engine gets a new worker* (`DisposedIsGone`): `dispose` does not
  clear the watchdog of the request under way.
- **A compiler whose set-up raises leaves the Run waiting for ever** (`InitRaises`).
  `pipeline.worker.js` posts `failed` with the id of the message, and `init` has none;
  `index.js:197` ignores an answer without a request, so that `ready` is neither
  resolved nor rejected. Neither `await this.ready` (224) nor the loading of an
  engine (364) has a watchdog. A signal or a later Run answers the one that waits; the
  later one, without a signal, waits at the same place. `EveryRunIsAnswered` excepts them.
- *Two engines are kept* (`OneEngine`): an engine that was given up while loading and
  fails later clears the promise of the engine that has replaced it.

*Stepping* (`Stepping`).

- **Breakpoints are passed after a crash that was looked at in reverse.** A reverse
  move leaves `signalPending` set (only `-vg-seek-step` clears it), so the next
  forward command ends the program at once. `NoBreakpointIsPassed` excepts it.
- *`next` from the end of a callee* stops in another call of the same caller's line,
  if there is one: the rule is about depth. The README of `localgdb` says that it
  stops on the next line.
- **A reverse move after a `finish` starts at the call.** The program is behind the last
  step of the finished frame, the step shown is the call, and a reverse move starts one before
  that (`exec.js:234`, `241`). So a reverse `continue` passes the breakpoints inside the
  finished frame (break in `f`, run, finish, reverse-continue), where the README of
  `localgdb` promises "continue to the previous breakpoint" (125), and a reverse `step` goes before
  the call instead of "back into a callee's last step". `Skipped` is what is left
  out. `NoBreakpointIsPassed` measures every move from the program's position and
  excepts exactly these steps.
- *Reverse `finish`* passes breakpoints, where the same README promises "the same
  rules"; `NoBreakpointIsPassed` excepts it too.
- *A signal leaves the selected frame selected*, unlike every other stop:
  `SelectionIsOnStack` excepts it.

## 7. What is not modelled, and why

- *Payloads.* Prompts, labels and nicknames are opaque; the format checks around
  them reject a call without a step, so a refused call has no action.
- *A student's connect that raises* after its sid is registered (`live_quiz.py:1274`,
  before the room is joined and the presence sent, 1281). In `QuizRelay` only the
  teacher's connect raises. After a student's, the relay counts a student that its
  teachers have not been told of and that may be in no room: `RoomsFollowRoles` and
  `TeacherKnowsClass` hold of connects that do not raise there.
- *`trigger` of a question that is open or closed* replaces its `test_input`
  (`liveQuizEngine.ts:475`), and that of a closed one is then not final. It is a text
  that nothing else depends on; `ClosedIsFinal` speaks of status, answers and counters.
- *Relay in `LiveClass`.* It forwards at once and has no rate limit there; both are
  `QuizRelay`'s subject. Pinning happens at the connect, with the hello that the
  page sends first.
- *Tables in `LiveClass`.* On that path a table differs from a choice only in
  what is compared; the engine's tables are in `QuizEngine`.
- *A reload of the teacher's tab* loses the engine, so the class cannot go on:
  for `LiveClass` it is the end of the class.
- *In `QuizUpload`:* the numbers of a summary (it is there, or not), the format
  checks of `_validated_end_upload` (any summary may be refused), answers that
  arrive while the summary is under way, a second teacher tab, a restart of the
  server, and the reload of the lesson after a class. `POST /sessions` and the
  client's change of class are one step; a row that is made without the client
  hearing of it is the class that was never connected of section 6.
- *The wall clock* may be set back between two openings; the model's clock is
  not. `SameQuestionShown` depends on it.
- *In `QuizRuntime`:* the steps of `for` headers, fast forward and silent
  passing, which play commands of their own; the switch that turns autoplay
  off; and what the students do, of which only the states of the class matter here.
- *In `EngineTab`:* what is compiled; the commands that the socket buffers; the
  pre-run of the call tree, which uses an engine of its own.
- *In `Stepping`:* variables, expressions and the text of the answers;
  `[fast @N]`, which is a sequence of `next`; breakpoints that never resolve;
  hit counts, which only the display reads; the constructors and destructors of global
  objects, which run before and after `main`; lambdas, which have a frame of their own on
  the line of their caller, while here a line belongs to one function; and functions
  whose closing brace shares its line with a call, where that line is recorded again after
  the callee (`instrument.js:1006`, `1216`), while here nothing but destructors follows a
  closing line. Frames nest in all of these, which is what the proofs rest on.
- *Lesson store, login and limits:* every call is one transaction or one table
  access on the single hub, with two exceptions: the save of hints, which is in
  `QuizUpload`, and the login, which checks its budget, yields to the password
  hash and records the attempt afterwards (`auth.py:177`), so that as many attempts
  pass beyond the budget as hash at the same time.
- *C and C++ in the repository* is the compiler's standard library and its headers,
  third-party code, and example programs. The program itself is TypeScript,
  JavaScript and Python; of its C++ there is only `vg.h`, whose frames are in
  `Stepping`, and whose printing of values is a text format.
- *The source instrumentation, the text formats and the React views* have no
  interaction that a model would explain.

## 8. Plan

Done: all modules of section 2 with their proofs. What would come next:

1. The engine's answers between the summary of a class and its end: `QuizUpload`
   and `LiveClass` composed.
2. `LessonStore`: the tree of versions, restored versions, quotas and deletion.
3. `RateLimit`: the login's check and record on two sides of the password hash.
