----------------------------- MODULE EngineTab -----------------------------
(***************************************************************************)
(* A Run of the debugger: localEngine.ts, which compiles and runs a        *)
(* program in the browser and attaches a session to the result, with the   *)
(* class Engine of static/engine/index.js, its compiler worker, its        *)
(* watchdogs and its queue.  A Run may replace another one or be           *)
(* interrupted; modules, engines and workers may fail to load, a compiler  *)
(* may hang or crash.  A step is an event of the browser with every        *)
(* promise that settles in it.                                             *)
(***************************************************************************)
EXTENDS Naturals, Sequences, Functions

CONSTANTS MaxRuns,     \* bound: presses of Run
          MaxSignals,  \* bound: signals
          MaxFaults    \* bound: loads, workers and compilations that fail

ASSUME TabAssumption ==
    MaxRuns \in Nat \ {0} /\ MaxSignals \in Nat /\ MaxFaults \in Nat

Run == 1 .. MaxRuns
Id == Run                  \* an engine has the name of the Run that loads it

VARIABLES modules,    \* loadModules: "loading", "ready" or "failed"
          socket,     \* the UI's socket: "opening", "up" or "closed"
          session,    \* the Run whose LocalGdb is attached; 0: an empty one
          generation, \* _generation
          inFlight,   \* _inFlight
          promise,    \* _enginePromise: an engine, or 0 for null
          run,        \* the calls of createAndUpload
          engine,     \* the engines
          signals,    \* signals so far
          faults      \* failures so far

pageVars == <<modules, socket, session>>
callVars == <<generation, inFlight, promise, run>>
boundVars == <<signals, faults>>
vars == <<pageVars, callVars, engine, boundVars>>

\* gen: its generation; on: its engine; told: what its caller was told.
NoRun == [gen |-> 0, on |-> 0, told |-> "none"]

\* load: loadEngine; ready, pipe: the promise and the worker of the latest
\* spawnPipeline ("stuck": they never settle); queue, stage: runProgram; stray: a watchdog is armed whose
\* request could not be posted; end: what becomes of the engine.
NoEngine == [load |-> "none", ready |-> "pending", pipe |-> "null",
             queue |-> << >>, stage |-> "idle", stray |-> FALSE,
             end |-> "kept"]

Newest == CHOOSE n \in 0 .. MaxRuns :
              \A r \in Run : (r <= n) = (run[r].gen # 0)

-----------------------------------------------------------------------------
(* class Engine: an engine x, and what becomes of it                       *)

\* request, up to its postMessage, for the head of the queue.  It waits for
\* the worker to be ready, or it is posted; or it throws, as then every later
\* one does.
Throws(x) == x.ready = "rejected" \/ (x.ready = "resolved" /\ x.pipe = "null")
Request(x, stage) ==
    IF Throws(x)
    THEN [x EXCEPT !.queue = << >>, !.stage = "idle",
                   !.stray = @ \/ x.ready = "resolved"]
    ELSE [x EXCEPT !.stage = IF x.ready = "resolved" THEN stage
                             ELSE IF stage = "compile" THEN "await compile"
                             ELSE "await decode"]

\* runProgram: behind what the engine still has to do.
runProgram(x, r) ==
    IF x.queue = << >> THEN Request([x EXCEPT !.queue = <<r>>], "compile")
    ELSE [x EXCEPT !.queue = Append(@, r)]

\* Mutant: the queue does not survive a Run that fails or ends.
MutantQueueStops(x) == [x EXCEPT !.queue = Tail(@), !.stage = "idle"]

\* The Run at the head is over: _run of the next one.
NextRun(x) ==
    IF Tail(x.queue) = << >>
    THEN [x EXCEPT !.queue = << >>, !.stage = "idle"]
    ELSE Request([x EXCEPT !.queue = Tail(@)], "compile")

\* A request that waited for the worker goes on.
Resumed(x) == CASE x.stage = "await compile" -> Request(x, "compile")
                [] x.stage = "await decode" -> Request(x, "decode")
                [] OTHER -> x

respawn(x) == [x EXCEPT !.ready = "pending", !.pipe = "live"]

dispose(x) == [x EXCEPT !.end = "disposed", !.pipe = "null"]

-----------------------------------------------------------------------------
(* createAndUpload: the answer to the caller of a Run                      *)

\* Mutant: a Run counts as long as any Run is in flight.
MutantAnyInFlight(r) == inFlight

\* gen === _generation.
Current(r) == run[r].gen = generation

\* finish, for the Runs in the domain of bodies; a promise settles once.
Settle(bodies) ==
    LET S == {r \in DOMAIN bodies : run[r].told = "none"}
    IN  /\ run' = [r \in Run |->
                      IF r \notin S THEN run[r]
                      ELSE [run[r] EXCEPT !.told =
                               IF Current(r) THEN bodies[r] ELSE "superseded"]]
        /\ inFlight' = (inFlight /\ \A r \in S : ~Current(r))

\* Engine e becomes x: the Runs that leave its queue are over, the first of
\* them with body.
Becomes(e, x, body) ==
    LET q == engine[e].queue
    IN  /\ engine' = [engine EXCEPT ![e] = x]
        /\ Settle([r \in Range(q) \ Range(x.queue) |->
                      IF r = Head(q) THEN body ELSE "error"])

\* The socket after attach: opened again and announced again if need be.
Reopened == "up"

\* The Run at the head of e's queue succeeds.  A session is attached to it if
\* it is current.
Succeeds(e) ==
    LET r == Head(engine[e].queue)
    IN  /\ Becomes(e, NextRun(engine[e]), "success")
        /\ IF Current(r) THEN session' = r /\ socket' = Reopened
                         ELSE UNCHANGED <<session, socket>>

-----------------------------------------------------------------------------
Init == /\ modules = "loading" /\ socket = "opening" /\ session = 0
        /\ generation = 0 /\ inFlight = FALSE /\ promise = 0
        /\ run = [r \in Run |-> NoRun]
        /\ engine = [e \in Id |-> NoEngine]
        /\ signals = 0 /\ faults = 0

Fault == faults < MaxFaults /\ faults' = faults + 1

\* The calls, where r goes on once the modules are there: with the engine of
\* the promise, or with one of its own.
Work(r, calls) ==
    LET e == IF promise = 0 THEN r ELSE promise
        x == engine[e]
        y == IF promise = 0 THEN [x EXCEPT !.load = "loading"]
             ELSE IF x.load = "ready" THEN runProgram(x, r) ELSE x
        thrown == promise # 0 /\ x.load = "ready" /\ r \notin Range(y.queue)
    IN  /\ promise' = e
        /\ engine' = [engine EXCEPT ![e] = y]
        /\ run' = [calls EXCEPT ![r].on = e,
                                ![r].told = IF thrown THEN "error" ELSE @]
        /\ inFlight' = ~thrown

\* _supersedeCurrent: the Run that is replaced is settled.
Superseded ==
    [r \in Run |-> IF run[r].gen # 0 /\ run[r].told = "none"
                   THEN [run[r] EXCEPT !.told = "superseded"] ELSE run[r]]

createAndUpload(r) ==
    /\ r = Newest + 1
    /\ generation' = generation + 1
    /\ LET calls == [Superseded EXCEPT ![r].gen = generation + 1]
       IN  IF modules = "ready" THEN Work(r, calls) /\ UNCHANGED modules
           ELSE /\ run' = calls /\ inFlight' = TRUE /\ modules' = "loading"
                /\ UNCHANGED <<promise, engine>>
    /\ UNCHANGED <<socket, session, boundVars>>

\* Run r waits for the modules (e = 0) or for engine e to load.
Waits(r, e) == run[r].gen # 0 /\ run[r].told = "none" /\ run[r].on = e /\ Current(r)

ModulesLoad ==
    /\ modules = "loading" /\ modules' = "ready"
    /\ socket' = IF socket = "opening" THEN "up" ELSE socket
    /\ \/ \E r \in Run : Waits(r, 0) /\ Work(r, run)
       \/ /\ \A r \in Run : ~Waits(r, 0)
          /\ UNCHANGED <<run, inFlight, promise, engine>>
    /\ UNCHANGED <<session, generation, boundVars>>

\* The first failure is the handshake's as well: the UI closes the socket.
ModulesFail ==
    /\ modules = "loading" /\ modules' = "failed"
    /\ Fault
    /\ socket' = IF socket = "opening" THEN "closed" ELSE socket
    /\ Settle([r \in {s \in Run : run[s].gen # 0} |-> "error"])
    /\ UNCHANGED <<session, generation, promise, engine, signals>>

EngineLoads(e) ==
    /\ engine[e].load = "loading"
    /\ LET x == [engine[e] EXCEPT !.load = "ready", !.ready = "resolved",
                                  !.pipe = "live"]
       IN  engine' = [engine EXCEPT ![e] =
               IF x.end = "to dispose" THEN dispose(x)
               ELSE IF \E r \in Run : Waits(r, e)
               THEN runProgram(x, CHOOSE r \in Run : Waits(r, e)) ELSE x]
    /\ UNCHANGED <<pageVars, callVars, boundVars>>

\* The promise is forgotten, whichever it is by now.
EngineFails(e) ==
    /\ engine[e].load = "loading"
    /\ Fault
    /\ engine' = [engine EXCEPT ![e].load = "failed"]
    /\ promise' = 0
    /\ Settle([r \in {s \in Run : run[s].on = e} |-> "error"])
    /\ UNCHANGED <<pageVars, generation, signals>>

-----------------------------------------------------------------------------
(* The workers                                                             *)

Asked(e) == engine[e].stage \in {"compile", "decode"}
Answers(e) == Asked(e) /\ engine[e].pipe = "live"

Compiled(e) ==
    /\ Answers(e) /\ engine[e].stage = "compile"
    /\ engine' = [engine EXCEPT ![e].stage = "exec"]
    /\ UNCHANGED <<pageVars, callVars, boundVars>>

\* A program that does not compile.
Rejects(e) ==
    /\ Answers(e)
    /\ Becomes(e, NextRun(engine[e]), "error")
    /\ UNCHANGED <<pageVars, generation, promise, boundVars>>

Decoded(e) ==
    /\ Answers(e) /\ engine[e].stage = "decode"
    /\ Succeeds(e)
    /\ UNCHANGED <<modules, generation, promise, boundVars>>

\* The budget is used up, or the worker crashes: it is replaced.  The watchdog
\* of a request is armed until the request is answered.
TimesOut(e) ==
    /\ Asked(e)
    /\ Becomes(e, NextRun(respawn(engine[e])), "error")
    /\ UNCHANGED <<pageVars, generation, promise, boundVars>>

StrayTimesOut(e) ==
    /\ engine[e].stray /\ engine[e].queue = << >>
    /\ engine' = [engine EXCEPT ![e] = [respawn(@) EXCEPT !.stray = FALSE]]
    /\ UNCHANGED <<pageVars, callVars, boundVars>>

Respawning(e) == engine[e].load = "ready" /\ engine[e].ready = "pending"
                 /\ engine[e].pipe = "live"

WorkerIsReady(e) ==
    /\ Respawning(e)
    /\ engine' = [engine EXCEPT ![e] = Resumed([@ EXCEPT !.ready = "resolved"])]
    /\ UNCHANGED <<pageVars, callVars, boundVars>>

\* Its script cannot be fetched, or it dies: onerror rejects `ready`.
WorkerFails(e) ==
    /\ Respawning(e)
    /\ Fault
    /\ Becomes(e, Resumed([engine[e] EXCEPT !.ready = "rejected"]), "error")
    /\ UNCHANGED <<pageVars, generation, promise, signals>>

\* The set-up of the compiler raises: the worker posts "failed" without an id,
\* nobody is asked for it, and `ready` never settles, nor does loadEngine if it
\* waits for this worker.
InitRaises(e) ==
    /\ Fault
    /\ \/ /\ engine[e].load = "loading"
          /\ engine' = [engine EXCEPT ![e].load = "stuck"]
       \/ /\ Respawning(e)
          /\ engine' = [engine EXCEPT ![e].ready = "stuck"]
    /\ UNCHANGED <<pageVars, callVars, signals>>

\* The program ends, or its time is up, which is a result like any other; a
\* program that recorded no step has nothing to decode.
ExecEnds(e) ==
    /\ engine[e].stage = "exec"
    /\ \/ Succeeds(e)
       \/ /\ Becomes(e, NextRun(engine[e]), "error")
          /\ UNCHANGED <<socket, session>>
       \/ /\ Becomes(e, Request(engine[e], "decode"), "error")
          /\ UNCHANGED <<socket, session>>
    /\ UNCHANGED <<modules, generation, promise, boundVars>>

-----------------------------------------------------------------------------
\* _abortCurrent: the Run in flight answers that it was interrupted.
Aborted == [r \in Run |-> IF run[r].gen # 0 /\ run[r].told = "none"
                          THEN [run[r] EXCEPT !.told = "interrupted"] ELSE run[r]]

\* Mutant: the next Run takes the engine that is being disposed of.
MutantKeepPromise == promise

\* The promise after an interrupt.
Forgotten == 0

\* sendSignal while a Run is under way.
Interrupt ==
    /\ inFlight /\ signals < MaxSignals
    /\ signals' = signals + 1
    /\ generation' = generation + 1 /\ inFlight' = FALSE
    /\ run' = Aborted
    /\ promise' = Forgotten
    /\ engine' = IF promise = 0 THEN engine
                 ELSE [engine EXCEPT ![promise] =
                          IF @.load = "ready" THEN dispose(@)
                          ELSE [@ EXCEPT !.end = "to dispose"]]
    /\ UNCHANGED <<pageVars, faults>>

\* sendSignal otherwise: it ends the session, or has the modules loaded again.
Kill ==
    /\ ~inFlight /\ signals < MaxSignals
    /\ signals' = signals + 1
    /\ \/ /\ modules = "ready" /\ socket # "closed"
          /\ session' = 0
          /\ UNCHANGED modules
       \/ /\ modules = "failed" /\ modules' = "loading"
          /\ UNCHANGED session
    /\ UNCHANGED <<socket, callVars, engine, faults>>

-----------------------------------------------------------------------------
EngineStep(e) ==
    \/ EngineLoads(e) \/ EngineFails(e)
    \/ Compiled(e) \/ Rejects(e) \/ Decoded(e)
    \/ TimesOut(e) \/ StrayTimesOut(e)
    \/ WorkerIsReady(e) \/ WorkerFails(e) \/ InitRaises(e)
    \/ ExecEnds(e)

Next == \/ \E r \in Run : createAndUpload(r)
        \/ ModulesLoad \/ ModulesFail
        \/ \E e \in Id : EngineStep(e)
        \/ Interrupt \/ Kill

Spec == Init /\ [][Next]_vars

\* loadModules gives up after 30 seconds; a download ends; a new worker sets
\* up its compiler unless it fails or its set-up raises; a watchdog and the wall clock of the program end
\* what does not end by itself.
FairSpec ==
    /\ Spec
    /\ WF_vars(ModulesLoad)
    /\ \A e \in Id : /\ WF_vars(EngineLoads(e))
                     /\ WF_vars(WorkerIsReady(e))
                     /\ WF_vars(TimesOut(e))
                     /\ WF_vars(ExecEnds(e))

-----------------------------------------------------------------------------
Stages == {"idle", "await compile", "compile", "exec", "await decode", "decode"}

\* Type invariant.
TypeOK ==
    /\ modules \in {"loading", "ready", "failed"}
    /\ socket \in {"opening", "up", "closed"}
    /\ session \in Run \cup {0} /\ promise \in Id \cup {0}
    /\ generation \in 0 .. MaxRuns + MaxSignals
    /\ inFlight \in BOOLEAN
    /\ run \in [Run -> [gen : 0 .. MaxRuns + MaxSignals, on : Id \cup {0},
                        told : {"none", "success", "error", "superseded",
                                "interrupted"}]]
    /\ \A e \in Id :
          LET x == engine[e]
          IN  /\ x.load \in {"none", "loading", "ready", "failed", "stuck"}
              /\ x.ready \in {"pending", "resolved", "rejected", "stuck"}
              /\ x.pipe \in {"live", "null"} /\ x.stage \in Stages
              /\ Range(x.queue) \subseteq Run
              /\ (x.stage = "idle") = (x.queue = << >>)
              /\ x.stray \in BOOLEAN /\ x.end \in {"kept", "to dispose", "disposed"}
    /\ signals \in 0 .. MaxSignals /\ faults \in 0 .. MaxFaults

\* The session that answers the debugger is the one its page was told of: the
\* program of a Run that was replaced or interrupted is never attached, and
\* the socket of a session is open.
SessionIsReported ==
    session # 0 =>
        /\ run[session].told = "success" /\ socket = "up"
        /\ \A r \in Run : r > session => run[r].told # "success"

\* A Run in flight is never on an engine that an interrupt has given up.
NeverOnDisposed ==
    inFlight /\ run[Newest].on # 0 => engine[run[Newest].on].end = "kept"

\* Every Run is answered, by its own end, a later Run, a signal or a failure,
\* unless it waits for an engine whose compiler could not be set up, for which
\* no watchdog is armed (README 6): there it waits for a later Run or a signal.
Stuck(r) == run[r].on # 0 /\ "stuck" \in {engine[run[r].on].load,
                                         engine[run[r].on].ready}
EveryRunIsAnswered ==
    \A r \in Run : run[r].gen # 0 ~> run[r].told # "none" \/ Stuck(r)

\* An engine that is used for the next Run has a worker, or will have one: a
\* compiler that had to be stopped does not stop the Runs after it.  The code
\* has neither this nor the next two, see README 6.
NextRunWorks ==
    promise # 0 /\ engine[promise].load = "ready" =>
        engine[promise].ready # "rejected"

\* A disposed engine has no worker left.
DisposedIsGone ==
    \A e \in Id : engine[e].end = "disposed" => engine[e].pipe = "null"

\* One engine at a time is kept for the page.
OneEngine ==
    \A e \in Id : engine[e].load = "ready" /\ engine[e].end = "kept" => promise = e
=============================================================================
