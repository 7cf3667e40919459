---------------------------- MODULE QuizRuntime ----------------------------
(***************************************************************************)
(* The gate that holds the playback of a lesson while a question is open:  *)
(* lessonQuizRuntime.ts with what drives it in the teacher's tab, the      *)
(* debugger's pauses (Actions.ts), the narration that steps the program by *)
(* itself (GdbApi.tsx), the panel's buttons (LiveQuizPanel.tsx) and the    *)
(* engine of the class.  A command of the narration is named by the line   *)
(* it was written for.  The engine is in this tab: the promise of a call   *)
(* of `trigger` settles before the browser takes its next event, so a call *)
(* and its handlers are one step, and `generation`, which tells a late     *)
(* answer, has nothing to do here.                                         *)
(***************************************************************************)
EXTENDS Naturals, FiniteSets

CONSTANTS Question,       \* the questions of the lesson
          TableQuestion,  \* those that capture a table; the rest are choices
          Line,           \* the lines the program may pause on
          LineOf,         \* the line of each question's trigger
          Spoken,         \* the lines whose narration ends with a command
          None,
          MaxTimers       \* commands waiting for their delay at one time

ASSUME RuntimeAssumption ==
    /\ TableQuestion \subseteq Question
    /\ Spoken \subseteq Line
    /\ LineOf \in [Question -> Line]
    /\ None \notin Question \cup Line

\* No narration is the null of the code.
ASSUME NullAssumption == None \notin Spoken \X {"preparing", "playing", "held"}

VARIABLES engine,    \* the questions, as the runtime's class shows them
          linked,    \* that class is the one in the tab's engine
          runtime,   \* the variables of lessonQuizRuntime.ts, and the gate
          hides,     \* gdbgui_table_quiz_hides_container
          program,   \* inferior_program
          line,      \* paused_on_frame
          speech,    \* the narration: <<line, phase>>, or None
          timers,    \* autoplay commands on their way: {<<line, stage>>}
          paused,    \* autoplay_paused
          pendingCmd,\* autoplay_pending_command
          phase,     \* how far a press of Run has come
          rerun,     \* gdbgui_rerunning_for_quiz; "passing": a stop on the way
          rostered,  \* the relay has greeted this class's teacher
          overrun    \* the program was restarted under an open question: a
                     \* history of the class, read by properties only

gateVars == <<engine, runtime, hides>>
debugVars == <<program, line>>
playVars == <<speech, timers, paused, pendingCmd>>
classVars == <<linked, phase, rerun, rostered, overrun>>
vars == <<gateVars, debugVars, playVars, classVars>>

Ready == [q \in Question |-> "ready"]
OpenIn(e) == \E q \in Question : e[q] = "open"

\* Mutant: the command in the queue is kept, which a pause has just cleared.
MutantQueuedCommand(l) == None

\* autoplay_command_for_line: the command the narration of a line ends with.
Command(l) == IF l \in Spoken THEN l ELSE None

-----------------------------------------------------------------------------
(* lessonQuizRuntime.ts: every function is a step from record to record    *)

Idle == [active |-> FALSE, blocked |-> FALSE, gate |-> FALSE,
         inFlight |-> None, failed |-> None, error |-> FALSE,
         pending |-> None, captured |-> FALSE, triggered |-> {},
         stash |-> None]

\* Mutant: the command kept for the end of a question outlives the program.
MutantStashStays(r) ==
    [r EXCEPT !.blocked = FALSE, !.inFlight = None, !.failed = None,
              !.pending = None, !.captured = FALSE, !.error = FALSE,
              !.gate = IF r.active THEN FALSE ELSE @]

clearGate(r) ==
    [r EXCEPT !.blocked = FALSE, !.stash = None, !.inFlight = None,
              !.failed = None, !.pending = None, !.captured = FALSE,
              !.error = FALSE, !.gate = IF r.active THEN FALSE ELSE @]

deactivate(r) == [clearGate(r) EXCEPT !.active = FALSE, !.triggered = {}]

activate(r, e) ==
    [deactivate(r) EXCEPT !.active = TRUE, !.blocked = OpenIn(e),
                          !.gate = OpenIn(e)]

\* openQuestion up to the call of `trigger`.
Opening(r, q) ==
    [r EXCEPT !.blocked = TRUE, !.gate = TRUE, !.error = FALSE,
              !.failed = None, !.inFlight = q, !.triggered = @ \cup {q}]

\* Mutant: a failed call offers nothing to retry.
MutantNoRetry(r, q) ==
    [r EXCEPT !.triggered = @ \ {q}, !.inFlight = None, !.error = TRUE]

\* The handler of openQuestion for a call that failed.
Rejected(r, q) ==
    [r EXCEPT !.triggered = @ \ {q}, !.failed = q, !.inFlight = None,
              !.error = TRUE]

PendingTable(r, q) ==
    [r EXCEPT !.blocked = TRUE, !.gate = TRUE, !.error = FALSE,
              !.pending = q, !.captured = FALSE, !.triggered = @ \cup {q}]

prepareReRunForQuestion(r, q) ==
    [r EXCEPT !.triggered = @ \ {q}, !.pending = None, !.captured = FALSE,
              !.blocked = FALSE, !.gate = FALSE]

PendingIsReady(r, e) == r.pending # None /\ e[r.pending] = "ready"

\* The question under way is overtaken by what the engine says.
Overtaken(r, e) ==
    \/ r.pending # None /\ ~PendingIsReady(r, e)
    \/ OpenIn(e) /\ (r.pending # None \/ r.inFlight # None)

Dropped(r, e) ==
    IF ~Overtaken(r, e) THEN r
    ELSE [r EXCEPT
             !.triggered = IF PendingIsReady(r, e) /\ OpenIn(e)
                           THEN @ \ {r.pending} ELSE @,
             !.pending = None, !.captured = FALSE, !.inFlight = None,
             !.failed = None, !.error = FALSE]

\* Mutant: only a table that waits for its dialog counts.
MutantOnlyPending(r, e) ==
    LET d == Dropped(r, e)
        next == d.pending # None
    IN  IF ~r.active THEN r
        ELSE [d EXCEPT !.blocked = next, !.gate = next]

syncSession(r, e) ==
    LET d == Dropped(r, e)
        next == OpenIn(e) \/ d.pending # None
    IN  IF ~r.active THEN r
        ELSE IF d.blocked = next THEN d
        ELSE IF next THEN [d EXCEPT !.blocked = TRUE, !.gate = TRUE]
        ELSE [d EXCEPT !.blocked = FALSE, !.gate = FALSE, !.inFlight = None,
                       !.failed = None, !.error = FALSE]

\* Its last step, resumeAutoplay, is part of Close below.
questionClosed(r) ==
    [r EXCEPT !.blocked = FALSE, !.gate = FALSE, !.inFlight = None,
              !.failed = None, !.pending = None, !.captured = FALSE,
              !.error = FALSE, !.stash = None]

-----------------------------------------------------------------------------
(* The engine's answer to `trigger`, and the panel's to a new state        *)

Accepts(q) ==
    linked /\ (engine[q] = "ready" =>
                  ~\E p \in Question \ {q} : engine[p] = "open")
Opened(q) == [engine EXCEPT ![q] = IF @ = "ready" THEN "open" ELSE @]

\* Mutant: a table that waits for its dialog is protected, error or not.
MutantAnyPending(r) == IF r.inFlight # None THEN r.inFlight ELSE r.pending

\* onState of the panel: the container comes back unless a request waits.
Protected(r) ==
    IF r.inFlight # None THEN r.inFlight
    ELSE IF r.error THEN r.pending ELSE None
HidesAfter(r, e) ==
    OpenIn(e) \/ (Protected(r) # None /\ e[Protected(r)] = "ready")

\* openQuestion, from a runtime r: the engine opens the question and tells
\* the panel, or the promise is rejected.
OpenSucceeds(r, q) ==
    /\ Accepts(q)
    /\ engine' = Opened(q)
    /\ runtime' = [syncSession(Opening(r, q), Opened(q)) EXCEPT
                      !.inFlight = None]
    /\ hides' = ((hides \/ r.captured) /\ HidesAfter(Opening(r, q), Opened(q)))

OpenChoice(r, q) ==
    IF Accepts(q) THEN OpenSucceeds(r, q)
    ELSE /\ runtime' = Rejected(Opening(r, q), q)
         /\ UNCHANGED <<engine, hides>>

\* With a captured table there are two refusals: of the table (400), and of
\* the state of the class, after which the panel looks at the class again.
OpenTable(r, q) ==
    LET o == [Opening(r, q) EXCEPT !.captured = TRUE]
    IN  \/ OpenSucceeds(o, q)
        \/ /\ Accepts(q) /\ engine[q] = "ready"
           /\ runtime' = Rejected(o, q)
           /\ hides' = FALSE
           /\ UNCHANGED engine
        \/ /\ ~Accepts(q)
           /\ runtime' = IF Overtaken(o, engine) THEN syncSession(o, engine)
                         ELSE Rejected(syncSession(o, engine), q)
           /\ hides' = TRUE
           /\ UNCHANGED engine

-----------------------------------------------------------------------------
(* Autoplay                                                                *)

Narrating(stage) == speech # None /\ speech[2] = stage

\* stop_tts: a narration whose text is still being looked up goes on.
Silenced == IF Narrating("preparing") THEN speech ELSE None

\* gdbgui_execute_autoplay_command(c) when the runtime is r.
Execute(r, c) ==
    IF r.gate THEN runtime' = [r EXCEPT !.stash = c] /\ UNCHANGED timers
    ELSE runtime' = r /\ timers' = timers \cup {<<c, "delay">>}

\* gdbgui_run_autoplay_command and the buttons it presses: the guards of
\* click_*_button, then inferior_program_resuming.
RunCommand ==
    IF program = "paused" /\ ~runtime.gate
    THEN program' = "running" /\ speech' = Silenced
    ELSE UNCHANGED <<program, speech>>

-----------------------------------------------------------------------------
Init == /\ engine = Ready /\ linked = FALSE
        /\ runtime = Idle
        /\ hides = FALSE
        /\ program = "exited" /\ line = None
        /\ speech = None /\ timers = {} /\ paused = FALSE /\ pendingCmd = None
        /\ phase = "none" /\ rerun = "no" /\ rostered = FALSE
        /\ overrun = FALSE

-----------------------------------------------------------------------------
(* The debugger                                                            *)

Matches(l) ==
    IF runtime.active /\ ~runtime.blocked
    THEN {q \in Question : /\ LineOf[q] = l
                           /\ engine[q] = "ready"
                           /\ q \notin runtime.triggered}
    ELSE {}

\* The program stops on a line without a question to open.
PauseToSpeak(l) ==
    /\ program = "running"
    /\ Matches(l) = {}
    /\ program' = "paused" /\ line' = l
    /\ IF rerun = "no"
       THEN /\ speech' = IF l \in Spoken THEN <<l, "preparing">> ELSE None
            /\ UNCHANGED rerun
       ELSE speech' = Silenced /\ rerun' = "passing"
    /\ UNCHANGED <<gateVars, timers, paused, pendingCmd, linked, phase,
                   rostered, overrun>>

\* The rest of inferior_program_paused when the line has a question.
QuizMatched(l) ==
    /\ program' = "paused" /\ line' = l
    /\ speech' = Silenced /\ pendingCmd' = None /\ rerun' = "no"
    /\ UNCHANGED <<timers, paused, linked, phase, rostered, overrun>>

PauseOnChoice(l, q) ==
    /\ program = "running"
    /\ q \in Matches(l) \ TableQuestion
    /\ OpenChoice([runtime EXCEPT !.stash = Command(l)], q)
    /\ QuizMatched(l)

PauseOnTable(l, q) ==
    /\ program = "running"
    /\ q \in Matches(l) \cap TableQuestion
    /\ runtime' = [PendingTable(runtime, q) EXCEPT !.stash = Command(l)]
    /\ QuizMatched(l)
    /\ UNCHANGED <<engine, hides>>

\* inferior_program_exited: the last line, an interrupt or a kill.
ProgramExits ==
    /\ program \in {"running", "paused"}
    /\ program' = "exited" /\ line' = None /\ rerun' = "no"
    /\ runtime' = clearGate(runtime)
    /\ speech' = Silenced
    /\ UNCHANGED <<engine, hides, timers, paused, pendingCmd, linked, phase,
                   rostered, overrun>>

\* The Edit button: the class stays, the runtime does not.
EnterEdit ==
    /\ runtime' = deactivate(runtime)
    /\ program' = "exited" /\ line' = None
    /\ speech' = Silenced
    /\ rerun' = IF program = "exited" THEN rerun ELSE "no"
    /\ UNCHANGED <<engine, hides, timers, paused, pendingCmd, linked, phase,
                   rostered, overrun>>

\* A re-run for a table does not stop to speak on its way.
RerunContinues ==
    /\ rerun = "passing" /\ rerun' = "asked"
    /\ RunCommand
    /\ UNCHANGED <<gateVars, line, timers, paused, pendingCmd, linked, phase,
                   rostered, overrun>>

\* The buttons next, step, continue and return.
ClickStep ==
    /\ program = "paused" /\ ~runtime.gate
    /\ RunCommand
    /\ UNCHANGED <<gateVars, classVars, line, timers, paused, pendingCmd>>

\* seek_to_step, offered while the last question to open is closed.
JumpToStep ==
    /\ program = "paused" /\ runtime.active
    /\ ~OpenIn(engine) /\ \E q \in Question : engine[q] = "closed"
    /\ program' = "running" /\ speech' = Silenced
    /\ UNCHANGED <<gateVars, classVars, line, timers, paused, pendingCmd>>

-----------------------------------------------------------------------------
(* Run, and the class it starts                                            *)

ProgramStarts ==
    /\ program' = "running" /\ line' = None
    /\ runtime' = clearGate(runtime)
    /\ speech' = Silenced
    /\ phase' = "none"
    /\ overrun' = (overrun \/ OpenIn(engine))
    /\ UNCHANGED <<engine, hides, timers, pendingCmd, rerun, rostered>>

ClickRun ==
    /\ phase = "none"
    /\ phase' = "compiling"
    /\ UNCHANGED <<gateVars, debugVars, playVars, linked, rerun, rostered,
                   overrun>>

CompileFails ==
    /\ phase = "compiling"
    /\ phase' = "none"
    /\ UNCHANGED <<gateVars, debugVars, playVars, linked, rerun, rostered,
                   overrun>>

\* gateRun: a re-run for a table stays in its class, any other Run leaves it.
CompileSucceeds ==
    /\ phase = "compiling"
    /\ IF rerun # "no"
       THEN ProgramStarts /\ UNCHANGED <<paused, linked>>
       ELSE /\ phase' = "ending"
            /\ UNCHANGED <<gateVars, debugVars, playVars, linked, rerun,
                           rostered, overrun>>

\* createLiveSession: the engine is the new class's, its socket is closed.
ClassIsCreated ==
    /\ phase = "ending"
    /\ phase' = "connecting" /\ linked' = FALSE
    /\ UNCHANGED <<gateVars, debugVars, playVars, rerun, rostered, overrun>>

\* connect: the version of the lesson is loaded; the QR code is shown.
ClassStarts ==
    /\ phase = "connecting"
    /\ engine' = Ready /\ linked' = TRUE /\ rostered' = FALSE
    /\ overrun' = FALSE
    /\ runtime' = activate(runtime, Ready)
    /\ paused' = TRUE /\ phase' = "qr"
    /\ UNCHANGED <<debugVars, hides, speech, timers, pendingCmd, rerun>>

\* No class, or no version of the lesson: the program runs all the same.
ClassFails ==
    /\ phase \in {"ending", "connecting"}
    /\ ProgramStarts
    /\ UNCHANGED <<paused, linked>>

CloseQr ==
    /\ phase = "qr"
    /\ paused' = FALSE
    /\ ProgramStarts
    /\ UNCHANGED linked

\* finishEnded.
EndClass ==
    /\ (runtime.active \/ linked) /\ phase \notin {"ending", "connecting"}
    /\ runtime' = deactivate(runtime)
    /\ hides' = FALSE /\ linked' = FALSE
    /\ UNCHANGED <<debugVars, playVars, engine, phase, rerun, rostered,
                   overrun>>

\* A student who joins, answers or leaves: notify, then onState.
onState ==
    /\ linked
    /\ runtime' = syncSession(runtime, engine)
    /\ hides' = (hides /\ HidesAfter(runtime, engine))
    /\ UNCHANGED <<debugVars, playVars, engine, linked, phase, rerun, overrun>>

StateArrives == onState /\ rostered /\ UNCHANGED rostered

\* The roster that greets the teacher of a new class does the same.
RosterArrives == onState /\ ~rostered /\ rostered' = TRUE

-----------------------------------------------------------------------------
(* The panel's buttons                                                     *)

DialogShown == runtime.pending # None /\ ~hides

confirmTable ==
    /\ DialogShown
    /\ OpenTable(runtime, runtime.pending)
    /\ UNCHANGED <<debugVars, playVars, classVars>>

\* The table on the page is of an older input: run again, then confirm.
ConfirmReRun ==
    /\ DialogShown /\ phase = "none"
    /\ runtime' = prepareReRunForQuestion(runtime, runtime.pending)
    /\ rerun' = "asked" /\ phase' = "compiling"
    /\ UNCHANGED <<debugVars, playVars, engine, hides, linked, rostered,
                   overrun>>

retryTrigger ==
    /\ runtime.error
    /\ IF runtime.pending # None /\ runtime.captured
       THEN OpenTable(runtime, runtime.pending)
       ELSE runtime.failed # None /\ OpenChoice(runtime, runtime.failed)
    /\ UNCHANGED <<debugVars, playVars, classVars>>

\* closeQuestion: the engine, onState, then questionClosed and the replay.
CloseQuestion(q) ==
    /\ linked /\ engine[q] = "open"
    /\ LET e == [engine EXCEPT ![q] = "closed"]
           r == syncSession(runtime, e)
       IN  /\ engine' = e
           /\ hides' = FALSE
           /\ IF ~r.active \/ r.stash = None
              THEN /\ runtime' = IF r.active THEN questionClosed(r) ELSE r
                   /\ UNCHANGED timers
              ELSE Execute(questionClosed(r), r.stash)
    /\ UNCHANGED <<debugVars, classVars, speech, paused, pendingCmd>>

-----------------------------------------------------------------------------
(* Narration and its commands                                              *)

SpeechStarts ==
    /\ Narrating("preparing")
    /\ speech' = <<speech[1], "playing">>
    /\ UNCHANGED <<gateVars, debugVars, classVars, timers, paused, pendingCmd>>

SpeechEnds ==
    /\ Narrating("playing")
    /\ Cardinality(timers) < MaxTimers
    /\ speech' = None
    /\ Execute(runtime, speech[1])
    /\ UNCHANGED <<debugVars, classVars, engine, hides, paused, pendingCmd>>

\* The delay is over: wait for the drawing of the line.
DelayEnds(t) ==
    /\ t[2] = "delay"
    /\ \/ runtime.gate /\ runtime' = [runtime EXCEPT !.stash = t[1]]
          /\ timers' = timers \ {t} /\ UNCHANGED pendingCmd
       \/ ~runtime.gate /\ paused /\ pendingCmd' = t[1]
          /\ timers' = timers \ {t} /\ UNCHANGED runtime
       \/ ~runtime.gate /\ ~paused
          /\ timers' = (timers \ {t}) \cup {<<t[1], "drawing">>}
          /\ UNCHANGED <<runtime, pendingCmd>>
    /\ UNCHANGED <<debugVars, classVars, engine, hides, speech, paused>>

DrawingEnds(t) ==
    /\ t[2] = "drawing"
    /\ timers' = timers \ {t}
    /\ \/ runtime.gate /\ runtime' = [runtime EXCEPT !.stash = t[1]]
          /\ UNCHANGED <<program, speech, pendingCmd>>
       \/ ~runtime.gate /\ paused /\ pendingCmd' = t[1]
          /\ UNCHANGED <<runtime, program, speech>>
       \/ ~runtime.gate /\ ~paused /\ RunCommand
          /\ UNCHANGED <<runtime, pendingCmd>>
    /\ UNCHANGED <<classVars, engine, hides, line, paused>>

PauseAutoplay ==
    /\ ~paused /\ paused' = TRUE
    /\ speech' = IF Narrating("playing")
                 THEN <<speech[1], "held">> ELSE speech
    /\ UNCHANGED <<gateVars, debugVars, classVars, timers, pendingCmd>>

ResumeAutoplay ==
    /\ paused /\ phase # "qr" /\ paused' = FALSE
    /\ \/ /\ Narrating("held")
          /\ speech' = <<speech[1], "playing">>
          /\ UNCHANGED <<program, pendingCmd>>
       \/ /\ ~Narrating("held")
          /\ pendingCmd' = None
          /\ IF pendingCmd = None THEN UNCHANGED <<program, speech>>
                                  ELSE RunCommand
    /\ UNCHANGED <<gateVars, classVars, line, timers>>

-----------------------------------------------------------------------------
Debugger == \/ \E l \in Line : \/ PauseToSpeak(l)
                               \/ \E q \in Question : \/ PauseOnChoice(l, q)
                                                      \/ PauseOnTable(l, q)
            \/ ProgramExits
            \/ RerunContinues

Classes == \/ CompileFails \/ CompileSucceeds
           \/ ClassIsCreated \/ ClassStarts \/ ClassFails
           \/ StateArrives \/ RosterArrives

Teacher == \/ EnterEdit \/ ClickStep \/ JumpToStep \/ ClickRun \/ CloseQr
           \/ EndClass \/ confirmTable \/ ConfirmReRun \/ retryTrigger
           \/ \E q \in Question : CloseQuestion(q)
           \/ PauseAutoplay \/ ResumeAutoplay

Narration == \/ SpeechStarts \/ SpeechEnds
             \/ \E t \in timers : DelayEnds(t) \/ DrawingEnds(t)

Next == Debugger \/ Classes \/ Teacher \/ Narration
Spec == Init /\ [][Next]_vars

\* The socket of a class delivers its roster.
FairSpec == Spec /\ WF_vars(RosterArrives)

-----------------------------------------------------------------------------
RuntimeType ==
    [active : BOOLEAN, blocked : BOOLEAN, gate : BOOLEAN, inFlight : {None},
     failed : Question \cup {None},
     error : BOOLEAN, pending : TableQuestion \cup {None},
     captured : BOOLEAN, triggered : SUBSET Question,
     stash : Spoken \cup {None}]

\* Type invariant.
TypeOK ==
    /\ engine \in [Question -> {"ready", "open", "closed"}]
    /\ runtime \in RuntimeType
    /\ linked \in BOOLEAN /\ hides \in BOOLEAN
    /\ program \in {"running", "paused", "exited"}
    /\ line \in Line \cup {None}
    /\ speech \in (Spoken \X {"preparing", "playing", "held"}) \cup {None}
    /\ timers \subseteq Spoken \X {"delay", "drawing"}
    /\ paused \in BOOLEAN
    /\ pendingCmd \in Spoken \cup {None}
    /\ phase \in {"none", "compiling", "ending", "connecting", "qr"}
    /\ rerun \in {"no", "asked", "passing"} /\ rostered \in BOOLEAN

\* A gate that is closed can be opened: there is a question to close, a table
\* to confirm, or an error with its Retry.
WayOut ==
    runtime.gate =>
        \/ OpenIn(engine)
        \/ runtime.pending # None
        \/ runtime.error /\ runtime.failed # None

\* The playback never stops by itself: a program that stands on a line with a
\* command, in a class whose gate is open and with autoplay on, has a
\* narration, a command on its way, or a Run under way.  A question that was
\* left open over a restart of the program is another matter (README 6).
Stalled ==
    /\ program = "paused" /\ line \in Spoken
    /\ runtime.active /\ ~runtime.gate /\ ~paused
    /\ speech = None /\ timers = {} /\ phase = "none" /\ rerun = "no"
NeverStalls == Stalled => overrun

\* What is kept for the end of a question is never left behind: it exists
\* only while the gate is closed or the program is about to run again.
StashIsHeld == runtime.stash # None => runtime.gate \/ rerun # "no"

\* While a question is open the gate opens only because the program ends or
\* starts again, because the teacher asks for that to take a new table, or
\* because the runtime leaves the class.
HeldWhileOpen ==
    [][runtime.gate /\ ~runtime'.gate /\ OpenIn(engine)' =>
          \/ program' = "exited"
          \/ program' = "running" /\ phase # "none"
          \/ rerun' # rerun /\ rerun' = "asked"
          \/ ~runtime'.active]_vars

\* The container that a table hid is not in the way of the next table for
\* ever: once the roster of its class has come, its dialog is shown.
DialogComesBack ==
    runtime.pending # None /\ linked ~>
        \/ DialogShown \/ runtime.pending = None \/ runtime.error
        \/ ~linked \/ overrun

\* The command kept for the end of a question is of the line the program
\* stands on.  The code does not have it, see README 6.
StashIsOfThisLine ==
    runtime.gate /\ runtime.stash # None /\ program = "paused" =>
        runtime.stash = line
=============================================================================
