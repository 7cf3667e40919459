------------------------- MODULE QuizRuntime_proofs -------------------------
(***************************************************************************)
(* Theorems about QuizRuntime, for any questions, lines and narrations: a  *)
(* closed gate has a way out, it is not opened under an open question, the *)
(* command it keeps is not left behind, and the playback never stops by    *)
(* itself.                                                                 *)
(***************************************************************************)
EXTENDS QuizRuntime, TLAPS

States == [Question -> {"ready", "open", "closed"}]

\* The runtime in the middle of a call of `trigger`.
CallType ==
    [active : BOOLEAN, blocked : BOOLEAN, gate : BOOLEAN,
     inFlight : Question \cup {None}, failed : Question \cup {None},
     error : BOOLEAN, pending : TableQuestion \cup {None},
     captured : BOOLEAN, triggered : SUBSET Question,
     stash : Spoken \cup {None}]

\* The two gates agree, and a question that waits for the teacher or for a
\* Retry is one the engine has not opened.
Sound(r, e) ==
    /\ r.gate = r.blocked
    /\ r.pending # None => e[r.pending] = "ready"
    /\ r.failed # None => e[r.failed] = "ready"

\* The runtime of no class has nothing to wait for.
AtRest(r) ==
    r.active \/ (~r.blocked /\ ~r.error /\ r.pending = None /\ r.stash = None)

\* What a closed gate waits for.  A failed opening is what it waits for only
\* when the class has gone; otherwise another question is open.
Waits(r, e, l) ==
    r.blocked => \/ OpenIn(e)
                 \/ r.pending # None
                 \/ r.error /\ r.failed # None /\ ~l

RuntimeInv(r, e, l) ==
    r \in RuntimeType /\ Sound(r, e) /\ AtRest(r) /\ Waits(r, e, l)

OneOpen(e) == \A p, q \in Question : e[p] = "open" /\ e[q] = "open" => p = q

-----------------------------------------------------------------------------
(* What the functions of lessonQuizRuntime.ts do                           *)

LEMMA IdleInv ==
  ASSUME NEW e, NEW l
  PROVE  RuntimeInv(Idle, e, l)
BY RuntimeAssumption DEF RuntimeInv, RuntimeType, Idle, Sound, AtRest, Waits

LEMMA ClearGate ==
  ASSUME NEW r \in RuntimeType, NEW e, NEW l, r.gate = r.blocked, AtRest(r)
  PROVE  /\ RuntimeInv(clearGate(r), e, l)
         /\ clearGate(r).stash = None /\ clearGate(r).pending = None
<1> DEFINE c == clearGate(r)
<1>1. /\ c \in RuntimeType
      /\ ~c.blocked /\ c.stash = None /\ c.failed = None
      /\ c.pending = None /\ ~c.error
      /\ ~c.gate /\ c.active = r.active
  BY DEF clearGate, RuntimeType, AtRest
<1> QED  BY <1>1 DEF RuntimeInv, RuntimeType, Sound, AtRest, Waits

LEMMA Deactivate ==
  ASSUME NEW r \in RuntimeType, NEW e, NEW l, r.gate = r.blocked, AtRest(r)
  PROVE  /\ RuntimeInv(deactivate(r), e, l)
         /\ ~deactivate(r).active /\ deactivate(r).stash = None
         /\ deactivate(r).pending = None
<1> DEFINE c == clearGate(r)
           d == deactivate(r)
<1>1. /\ c \in RuntimeType
      /\ ~c.blocked /\ c.stash = None /\ c.failed = None
      /\ c.pending = None /\ ~c.error /\ ~c.gate
  BY DEF clearGate, RuntimeType, AtRest
<1>2. d = [c EXCEPT !.active = FALSE, !.triggered = {}]
  BY DEF deactivate
<1>3. /\ d \in RuntimeType
      /\ ~d.active /\ ~d.blocked /\ d.stash = None /\ d.failed = None
      /\ d.pending = None /\ ~d.error /\ ~d.gate
  BY <1>1, <1>2 DEF RuntimeType
<1> QED  BY <1>3 DEF RuntimeInv, RuntimeType, Sound, AtRest, Waits

LEMMA Activate ==
  ASSUME NEW r \in RuntimeType, NEW e, NEW l, r.gate = r.blocked, AtRest(r)
  PROVE  /\ RuntimeInv(activate(r, e), e, l)
         /\ activate(r, e).stash = None /\ activate(r, e).pending = None
<1> DEFINE d == deactivate(r)
           a == activate(r, e)
<1>1. RuntimeInv(d, e, l) /\ d.stash = None /\ d.pending = None
  BY Deactivate
<1>2. OpenIn(e) \in BOOLEAN
  BY DEF OpenIn
<1>3. a = [d EXCEPT !.active = TRUE, !.blocked = OpenIn(e), !.gate = OpenIn(e)]
  BY DEF activate
<1>4. /\ a \in RuntimeType /\ a.active
      /\ a.blocked = OpenIn(e) /\ a.gate = OpenIn(e)
      /\ a.stash = None /\ a.failed = d.failed /\ a.pending = None
  BY <1>1, <1>2, <1>3 DEF RuntimeInv, RuntimeType
<1> QED  BY <1>1, <1>4 DEF RuntimeInv, Sound, AtRest, Waits

\* What a state of the class leaves of a question under way.
LEMMA DropStep ==
  ASSUME NEW r \in CallType, NEW e
  PROVE  /\ Dropped(r, e) \in CallType
         /\ Dropped(r, e).active = r.active /\ Dropped(r, e).blocked = r.blocked
         /\ Dropped(r, e).gate = r.gate /\ Dropped(r, e).stash = r.stash
         /\ ~Overtaken(r, e) => Dropped(r, e) = r
         /\ Overtaken(r, e) => /\ Dropped(r, e).pending = None
                               /\ Dropped(r, e).failed = None
                               /\ Dropped(r, e).inFlight = None
                               /\ ~Dropped(r, e).error
<1>1. CASE ~Overtaken(r, e)
  BY <1>1 DEF Dropped
<1>2. CASE Overtaken(r, e)
  <2> DEFINE t == IF PendingIsReady(r, e) /\ OpenIn(e)
                  THEN r.triggered \ {r.pending} ELSE r.triggered
  <2>1. t \in SUBSET Question
    BY DEF CallType
  <2>2. Dropped(r, e) = [r EXCEPT !.triggered = t, !.pending = None,
                                  !.captured = FALSE, !.inFlight = None,
                                  !.failed = None, !.error = FALSE]
    BY <1>2 DEF Dropped
  <2> HIDE DEF t
  <2> QED  BY <1>2, <2>1, <2>2 DEF CallType
<1> QED  BY <1>1, <1>2

\* The two ways in which syncSession sets the gate.
Shut(d) == [d EXCEPT !.blocked = TRUE, !.gate = TRUE]
Lifted(d) == [d EXCEPT !.blocked = FALSE, !.gate = FALSE, !.inFlight = None,
                       !.failed = None, !.error = FALSE]

LEMMA Gates ==
  ASSUME NEW d \in CallType
  PROVE  /\ Shut(d) \in CallType /\ Shut(d).blocked = TRUE /\ Shut(d).gate = TRUE
         /\ Shut(d).active = d.active /\ Shut(d).stash = d.stash
         /\ Shut(d).pending = d.pending /\ Shut(d).failed = d.failed
         /\ Shut(d).inFlight = d.inFlight
         /\ Lifted(d) \in CallType /\ Lifted(d).blocked = FALSE
         /\ Lifted(d).gate = FALSE
         /\ Lifted(d).active = d.active /\ Lifted(d).stash = d.stash
         /\ Lifted(d).pending = d.pending /\ Lifted(d).failed = None
         /\ Lifted(d).inFlight = None
BY DEF CallType, Shut, Lifted

\* syncSession: the gate is closed exactly when a question is open or a table
\* waits for its dialog.
LEMMA Sync ==
  ASSUME NEW r \in CallType, NEW e, r.active, r.gate = r.blocked,
         r.failed # None => e[r.failed] = "ready"
  PROVE  LET s == syncSession(r, e)
         IN  /\ s \in CallType /\ s.active /\ Sound(s, e)
             /\ s.stash = r.stash
             /\ s.blocked = (OpenIn(e) \/ s.pending # None)
             /\ s.pending # None => s.pending = r.pending
             /\ s.inFlight \in {None, r.inFlight}
             /\ Overtaken(r, e) => s.inFlight = None
             /\ ~Overtaken(r, e) => s.pending = r.pending
<1> DEFINE d == Dropped(r, e)
           n == OpenIn(e) \/ d.pending # None
           s == syncSession(r, e)
<1>1. d \in CallType /\ d.active /\ d.blocked = r.blocked /\ d.gate = r.gate /\ d.stash = r.stash
  BY DropStep
<1>2. Sound(d, e) /\ (d.pending # None => d.pending = r.pending)
  BY DropStep DEF Sound, Overtaken, PendingIsReady
<1>3. d.inFlight \in {None, r.inFlight} /\ (Overtaken(r, e) => d.inFlight = None)
      /\ (~Overtaken(r, e) => d.pending = r.pending)
  BY DropStep
<1>4. n \in BOOLEAN
  BY DEF OpenIn
<1>5. s = IF d.blocked = n THEN d
          ELSE IF n THEN Shut(d) ELSE Lifted(d)
  BY DEF syncSession, Shut, Lifted
<1>6. /\ s \in CallType /\ s.active /\ s.stash = d.stash /\ s.pending = d.pending
      /\ s.blocked = n /\ s.gate = n
      /\ s.failed \in {None, d.failed}
      /\ s.inFlight \in {None, d.inFlight}
  <2>1. d.blocked \in BOOLEAN /\ d.gate = d.blocked
    BY <1>1, <1>2 DEF CallType, Sound
  <2> HIDE DEF d, n, s
  <2>2. CASE d.blocked = n
    BY <2>1, <2>2, <1>1, <1>5
  <2>3. CASE d.blocked # n /\ n
    BY <2>3, <1>1, <1>4, <1>5, Gates
  <2>4. CASE d.blocked # n /\ ~n
    BY <2>4, <1>1, <1>4, <1>5, Gates
  <2> QED  BY <1>4, <2>2, <2>3, <2>4
<1> QED  BY <1>1, <1>2, <1>3, <1>6 DEF Sound

-----------------------------------------------------------------------------
(* A call of `trigger`                                                     *)

\* Between two calls none is in flight.
LEMMA Between ==
  ASSUME NEW r
  PROVE  r \in RuntimeType <=> r \in CallType /\ r.inFlight = None
BY DEF RuntimeType, CallType

\* The start of a call closes the gate.
LEMMA Calls ==
  ASSUME NEW r \in CallType, NEW q \in Question, NEW e,
         r.active, r.pending # None => e[r.pending] = "ready"
  PROVE  LET o == Opening(r, q)
         IN  /\ o \in CallType /\ o.active /\ Sound(o, e)
             /\ o.inFlight = q /\ o.blocked = TRUE /\ o.gate = TRUE
             /\ o.stash = r.stash /\ o.pending = r.pending /\ o.failed = None
<1> DEFINE o == Opening(r, q)
<1>1. /\ o \in CallType /\ o.active = r.active /\ o.failed = None
      /\ o.inFlight = q /\ o.blocked = TRUE /\ o.gate = TRUE
      /\ o.stash = r.stash /\ o.pending = r.pending
  BY DEF Opening, CallType
<1> QED  BY <1>1 DEF Sound

\* A call that fails keeps the gate closed, with its Retry.
LEMMA Fails ==
  ASSUME NEW o \in CallType, NEW q \in Question
  PROVE  LET f == Rejected(o, q)
         IN  /\ f \in RuntimeType /\ f.active = o.active
             /\ f.blocked = o.blocked /\ f.gate = o.gate /\ f.stash = o.stash
             /\ f.pending = o.pending /\ f.failed = q /\ f.error = TRUE
BY DEF Rejected, RuntimeType, CallType

\* A call that succeeds.
Settled(s) == [s EXCEPT !.inFlight = None]

LEMMA Settles ==
  ASSUME NEW s \in CallType
  PROVE  /\ Settled(s) \in RuntimeType /\ Settled(s).active = s.active
         /\ Settled(s).blocked = s.blocked /\ Settled(s).gate = s.gate
         /\ Settled(s).stash = s.stash /\ Settled(s).pending = s.pending
         /\ Settled(s).failed = s.failed
BY DEF Settled, RuntimeType, CallType

\* The table is captured when the teacher confirms it.
Captured(p) == [p EXCEPT !.captured = TRUE]

LEMMA Captures ==
  ASSUME NEW p \in CallType
  PROVE  /\ Captured(p) \in CallType /\ Captured(p).active = p.active
         /\ Captured(p).stash = p.stash /\ Captured(p).inFlight = p.inFlight
         /\ Captured(p).pending = p.pending /\ Captured(p).blocked = p.blocked
         /\ Captured(p).gate = p.gate /\ Captured(p).failed = p.failed
BY DEF Captured, CallType

\* The engine opens at most one question at a time, and the one that it opens
\* is no longer ready.
LEMMA EngineOpens ==
  ASSUME NEW q \in Question, Accepts(q), engine \in States, OneOpen(engine)
  PROVE  /\ Opened(q) \in States /\ OneOpen(Opened(q))
         /\ \A p \in Question : p # q => Opened(q)[p] = engine[p]
         /\ Opened(q)[q] # "ready"
         /\ OpenIn(engine) => OpenIn(Opened(q))
         /\ engine[q] = "ready" => OpenIn(Opened(q))
<1>1. /\ Opened(q) \in States
      /\ \A p \in Question : p # q => Opened(q)[p] = engine[p]
      /\ Opened(q)[q] = IF engine[q] = "ready" THEN "open" ELSE engine[q]
  BY DEF Opened, States
<1>2. OneOpen(Opened(q))
  BY <1>1 DEF Accepts, OneOpen
<1> QED  BY <1>1, <1>2 DEF OpenIn

\* The gate is as it was before a call, or as the call leaves it: it is closed
\* while a question is open.
CallDone(r, e, l) ==
    /\ RuntimeInv(r, e, l) /\ r.active
    /\ OpenIn(e) => r.gate

LEMMA SucceedsInv ==
  ASSUME NEW r \in CallType, NEW q \in Question, r.active,
         r.pending # None => engine[r.pending] = "ready",
         engine \in States, OneOpen(engine), engine[q] = "ready",
         OpenSucceeds(r, q)
  PROVE  /\ engine' \in States /\ OneOpen(engine')
         /\ CallDone(runtime', engine', linked) /\ runtime'.stash = r.stash
         /\ runtime'.gate /\ runtime'.pending \in {None, r.pending}
<1> DEFINE o == Opening(r, q)
           e == Opened(q)
           s == syncSession(o, e)
<1>1. /\ Accepts(q) /\ engine' = e
      /\ runtime' = Settled(s)
  BY DEF OpenSucceeds, Settled
<1>2. e \in States /\ OneOpen(e) /\ OpenIn(e)
  BY <1>1, EngineOpens
<1>3. /\ o \in CallType /\ o.active
      /\ o.inFlight = q /\ o.stash = r.stash /\ o.pending = r.pending
      /\ o.failed = None /\ o.blocked = TRUE /\ o.gate = TRUE
  BY Calls
<1>4. Overtaken(o, e)
  BY <1>2, <1>3, RuntimeAssumption DEF Overtaken
<1>5. /\ s \in CallType /\ s.active /\ Sound(s, e) /\ s.stash = r.stash
      /\ s.blocked = TRUE /\ s.pending \in {None, r.pending}
  <2> HIDE DEF o, e, s
  <2>1. s = syncSession(o, e)
    BY DEF s
  <2>2. OpenIn(e) = TRUE
    BY <1>2 DEF OpenIn
  <2> QED  BY <1>3, <2>1, <2>2, Sync
<1>6. /\ runtime' \in RuntimeType /\ runtime'.active /\ Sound(runtime', e)
      /\ runtime'.gate /\ runtime'.stash = r.stash
      /\ runtime'.pending \in {None, r.pending}
  <2> HIDE DEF o, e, s
  <2> QED  BY <1>1, <1>5, Settles DEF Sound
<1> QED
  BY <1>1, <1>2, <1>6 DEF CallDone, RuntimeInv, AtRest, Waits

LEMMA ChoiceInv ==
  ASSUME NEW r \in RuntimeType, NEW q \in Question, r.active,
         r.pending # None => engine[r.pending] = "ready",
         engine \in States, OneOpen(engine), engine[q] = "ready",
         OpenChoice(r, q)
  PROVE  /\ engine' \in States /\ OneOpen(engine')
         /\ CallDone(runtime', engine', linked) /\ runtime'.stash = r.stash
         /\ runtime'.gate /\ runtime'.pending \in {None, r.pending}
<1>1. CASE Accepts(q)
  <2>1. OpenSucceeds(r, q)
    BY <1>1 DEF OpenChoice
  <2> QED  BY <2>1, Between, SucceedsInv
<1>2. CASE ~Accepts(q)
  <2> DEFINE o == Opening(r, q)
  <2>1. /\ o \in CallType /\ o.active /\ o.stash = r.stash
        /\ o.pending = r.pending /\ o.blocked = TRUE /\ o.gate = TRUE
    BY Between, Calls
  <2>2. /\ runtime' = Rejected(o, q) /\ engine' = engine
    BY <1>2 DEF OpenChoice
  <2>3. /\ runtime' \in RuntimeType /\ runtime'.active
        /\ runtime'.blocked = TRUE /\ runtime'.gate = TRUE
        /\ runtime'.stash = r.stash /\ runtime'.pending = r.pending
        /\ runtime'.failed = q /\ runtime'.error
    <3> HIDE DEF o
    <3> QED  BY <2>1, <2>2, Fails
  <2>4. OpenIn(engine) \/ ~linked
    BY <1>2 DEF Accepts, OpenIn
  <2> QED
    BY <2>2, <2>3, <2>4, RuntimeAssumption
       DEF CallDone, RuntimeInv, Sound, AtRest, Waits
<1> QED  BY <1>1, <1>2

LEMMA TableInv ==
  ASSUME NEW r \in RuntimeType, NEW q \in Question, r.active,
         r.pending = q, engine[q] = "ready",
         engine \in States, OneOpen(engine),
         OpenTable(r, q)
  PROVE  /\ engine' \in States /\ OneOpen(engine')
         /\ CallDone(runtime', engine', linked) /\ runtime'.stash = r.stash
         /\ runtime'.gate /\ runtime'.pending \in {None, r.pending}
<1> DEFINE p == Opening(r, q)
           o == [p EXCEPT !.captured = TRUE]
           s == syncSession(o, engine)
<1>1. /\ p \in CallType /\ p.active /\ p.stash = r.stash /\ p.inFlight = q
      /\ p.pending = q /\ p.blocked = TRUE /\ p.gate = TRUE /\ p.failed = None
  BY Between, Calls
<1>2. /\ o \in CallType /\ o.active /\ o.stash = r.stash /\ o.inFlight = q
      /\ o.pending = q /\ o.blocked = TRUE /\ o.gate = TRUE /\ o.failed = None
  BY <1>1, Captures DEF Captured
<1>3. q # None
  BY RuntimeAssumption
<1>4. CASE OpenSucceeds(o, q)
  <2> HIDE DEF o
  <2> QED  BY <1>2, <1>3, <1>4, SucceedsInv
<1>5. ASSUME runtime' = Rejected(o, q), engine' = engine
      PROVE  /\ CallDone(runtime', engine', linked)
             /\ runtime'.gate /\ runtime'.stash = r.stash /\ runtime'.pending = q
  <2>1. /\ runtime' \in RuntimeType /\ runtime'.active
        /\ runtime'.blocked = TRUE /\ runtime'.gate = TRUE
        /\ runtime'.stash = r.stash /\ runtime'.pending = q /\ runtime'.failed = q
    <3> HIDE DEF o
    <3> QED  BY <1>2, <1>5, Fails
  <2> QED
    BY <1>3, <1>5, <2>1 DEF CallDone, RuntimeInv, Sound, AtRest, Waits
<1>6. /\ s \in CallType /\ s.active /\ Sound(s, engine) /\ s.stash = r.stash
      /\ s.blocked = (OpenIn(engine) \/ s.pending # None)
      /\ s.pending \in {None, q}
      /\ Overtaken(o, engine) => s.inFlight = None
      /\ ~Overtaken(o, engine) => s.pending = q
  <2> HIDE DEF o
  <2> QED  BY <1>2, Sync
<1>7. Overtaken(o, engine) => OpenIn(engine)
  <2> HIDE DEF o
  <2> QED  BY <1>2, <1>3 DEF Overtaken, PendingIsReady
<1>8. CASE runtime' = s /\ Overtaken(o, engine) /\ engine' = engine
  <2>1. runtime' \in RuntimeType
    BY <1>6, <1>8, Between
  <2>2. s.blocked /\ s.gate
    BY <1>6, <1>7, <1>8 DEF Sound
  <2> HIDE DEF s
  <2> QED
    BY <1>6, <1>7, <1>8, <2>1, <2>2 DEF CallDone, RuntimeInv, AtRest, Waits
<1>9. CASE runtime' = Rejected(s, q) /\ ~Overtaken(o, engine) /\ engine' = engine
  <2> HIDE DEF o, s
  <2>1. s.blocked /\ s.gate
    BY <1>3, <1>6, <1>9 DEF Sound
  <2>2. /\ runtime' \in RuntimeType /\ runtime'.active
        /\ runtime'.blocked /\ runtime'.gate /\ runtime'.gate = runtime'.blocked
        /\ runtime'.stash = r.stash /\ runtime'.pending = q /\ runtime'.failed = q
    BY <1>6, <1>9, <2>1, Fails DEF Sound
  <2> QED
    BY <1>3, <1>9, <2>2 DEF CallDone, RuntimeInv, Sound, AtRest, Waits
<1> QED
  BY <1>4, <1>5, <1>8, <1>9 DEF OpenTable

-----------------------------------------------------------------------------
(* The inductive invariant                                                 *)

\* The types of what is not the gate's.
OthersOK ==
    /\ linked \in BOOLEAN /\ hides \in BOOLEAN
    /\ program \in {"running", "paused", "exited"}
    /\ line \in Line \cup {None}
    /\ speech \in (Spoken \X {"preparing", "playing", "held"}) \cup {None}
    /\ timers \subseteq Spoken \X {"delay", "drawing"}
    /\ paused \in BOOLEAN
    /\ pendingCmd \in Spoken \cup {None}
    /\ phase \in {"none", "compiling", "ending", "connecting", "qr"}
    /\ rerun \in {"no", "asked", "passing"} /\ rostered \in BOOLEAN

\* A table waits for its dialog only where no re-run is under way, which is
\* how the teacher comes by a new one.
GateInv == /\ engine \in States
           /\ RuntimeInv(runtime, engine, linked)
           /\ OneOpen(engine)
           /\ StashIsHeld
           /\ runtime.pending # None => rerun = "no"

IInv == OthersOK /\ GateInv

\* What HeldWhileOpen says of a step.
Held ==
    runtime.gate /\ ~runtime'.gate /\ OpenIn(engine)' =>
        \/ program' = "exited"
        \/ program' = "running" /\ phase # "none"
        \/ rerun' # rerun /\ rerun' = "asked"
        \/ ~runtime'.active

LEMMA Types == TypeOK <=> OthersOK /\ engine \in States /\ runtime \in RuntimeType
BY DEF TypeOK, OthersOK, States

LEMMA InitInv == Init => IInv
<1> SUFFICES ASSUME Init PROVE IInv
  OBVIOUS
<1>1. RuntimeInv(runtime, engine, linked)
  BY IdleInv DEF Init
<1>2. runtime.stash = None /\ runtime.pending = None
  BY DEF Init, Idle
<1>3. engine \in States /\ OneOpen(engine)
  BY DEF Init, Ready, States, OneOpen
<1>4. OthersOK
  BY DEF Init, OthersOK
<1> QED  BY <1>1, <1>2, <1>3, <1>4 DEF IInv, GateInv, StashIsHeld

\* A step that leaves the gate and its class alone.
LEMMA Apart ==
  ASSUME IInv, UNCHANGED <<engine, runtime, linked>>, OthersOK',
         rerun' = rerun \/ (rerun # "no" /\ rerun' # "no")
  PROVE  IInv' /\ Held
<1>1. GateInv'
  BY DEF IInv, GateInv, StashIsHeld, RuntimeInv, Sound, AtRest, Waits, OpenIn, OneOpen
<1> QED  BY <1>1 DEF IInv, Held

\* stop_tts leaves a narration or none.
LEMMA Silences ==
  ASSUME OthersOK
  PROVE  Silenced \in (Spoken \X {"preparing", "playing", "held"}) \cup {None}
BY DEF OthersOK, Silenced

\* The steps of the narration and of the program that keep the gate as it is.
LEMMA PlaybackInv ==
  ASSUME IInv,
         \/ \E l \in Line : PauseToSpeak(l)
         \/ RerunContinues \/ ClickStep \/ JumpToStep \/ SpeechStarts
         \/ PauseAutoplay \/ ResumeAutoplay
  PROVE  IInv' /\ Held
<1>0. OthersOK /\ Silenced \in (Spoken \X {"preparing", "playing", "held"}) \cup {None}
  BY Silences DEF IInv
<1>1. ASSUME NEW l \in Line, PauseToSpeak(l)
      PROVE  IInv' /\ Held
  <2>1. UNCHANGED <<engine, runtime, linked>>
        /\ (rerun' = rerun \/ (rerun # "no" /\ rerun' # "no"))
    BY <1>1 DEF PauseToSpeak, gateVars
  <2>2. l \in Spoken => <<l, "preparing">> \in Spoken \X {"preparing", "playing", "held"}
    OBVIOUS
  <2>3. OthersOK'
    BY <1>0, <1>1, <2>2 DEF PauseToSpeak, gateVars, OthersOK
  <2> QED  BY <2>1, <2>3, Apart
<1>2. CASE RerunContinues
  <2>1. OthersOK' /\ UNCHANGED <<engine, runtime, linked>>
    BY <1>0, <1>2 DEF RerunContinues, RunCommand, gateVars, OthersOK
  <2>2. rerun # "no" /\ rerun' # "no"
    BY <1>2 DEF RerunContinues
  <2> QED  BY <2>1, <2>2, Apart
<1>3. CASE ClickStep \/ JumpToStep
  <2>1. OthersOK' /\ UNCHANGED <<engine, runtime, linked>> /\ rerun' = rerun
    BY <1>0, <1>3 DEF ClickStep, JumpToStep, RunCommand, gateVars, classVars, OthersOK
  <2> QED  BY <2>1, Apart
<1>4. CASE SpeechStarts \/ PauseAutoplay
  <2>1. speech[1] \in Spoken \/ speech = None
    BY <1>0 DEF OthersOK
  <2>2. speech' \in (Spoken \X {"preparing", "playing", "held"}) \cup {None}
    BY <1>0, <1>4, <2>1 DEF SpeechStarts, PauseAutoplay, Narrating, OthersOK
  <2>3. OthersOK' /\ UNCHANGED <<engine, runtime, linked>> /\ rerun' = rerun
    BY ZenonT(40), <1>0, <1>4, <2>2
      DEF SpeechStarts, PauseAutoplay, gateVars, debugVars, classVars, OthersOK
  <2> QED  BY <2>3, Apart
<1>5. CASE ResumeAutoplay
  <2>1. speech[1] \in Spoken \/ speech = None
    BY <1>0 DEF OthersOK
  <2>2. speech' \in (Spoken \X {"preparing", "playing", "held"}) \cup {None}
    BY <1>0, <1>5, <2>1 DEF ResumeAutoplay, RunCommand, Narrating, OthersOK
  <2>3. /\ program' \in {"running", "paused", "exited"}
        /\ pendingCmd' \in Spoken \cup {None} /\ paused' \in BOOLEAN
    BY <1>0, <1>5 DEF ResumeAutoplay, RunCommand, OthersOK
  <2>4. UNCHANGED <<engine, runtime, hides, linked, phase, rerun, rostered, line, timers>>
    BY <1>5 DEF ResumeAutoplay, gateVars, classVars
  <2>5. OthersOK'
    BY <1>0, <2>2, <2>3, <2>4 DEF OthersOK
  <2> QED  BY <2>4, <2>5, Apart
<1> QED  BY <1>1, <1>2, <1>3, <1>4, <1>5

\* A command that meets a closed gate is kept, whether its narration ends, its
\* delay, or the drawing of its line.
Kept(c) == [runtime EXCEPT !.stash = c]

LEMMA StashInv ==
  ASSUME IInv, OthersOK', NEW c \in Spoken, runtime.gate, runtime' = Kept(c),
         UNCHANGED <<engine, linked, rerun>>
  PROVE  IInv' /\ Held
<1>1. runtime \in RuntimeType /\ runtime.active
  BY DEF IInv, GateInv, RuntimeInv, Sound, AtRest
<1>2. /\ runtime' \in RuntimeType /\ runtime'.active
      /\ runtime'.gate = runtime.gate /\ runtime'.blocked = runtime.blocked
      /\ runtime'.pending = runtime.pending /\ runtime'.failed = runtime.failed
      /\ runtime'.error = runtime.error
  BY <1>1 DEF Kept, RuntimeType
<1>3. GateInv'
  BY <1>2 DEF IInv, GateInv, StashIsHeld, RuntimeInv, Sound, AtRest, Waits, OpenIn, OneOpen
<1> QED  BY <1>2, <1>3 DEF IInv, Held

LEMMA NarrationInv ==
  ASSUME IInv, SpeechEnds \/ \E t \in timers : DelayEnds(t) \/ DrawingEnds(t)
  PROVE  IInv' /\ Held
<1>0. OthersOK /\ Silenced \in (Spoken \X {"preparing", "playing", "held"}) \cup {None}
  BY Silences DEF IInv
<1>1. CASE SpeechEnds
  <2>1. speech[1] \in Spoken
    BY <1>0, <1>1 DEF SpeechEnds, Narrating, OthersOK
  <2>2. <<speech[1], "delay">> \in Spoken \X {"delay", "drawing"}
    BY <2>1
  <2>3. OthersOK' /\ UNCHANGED <<engine, linked, rerun>>
    BY <1>0, <1>1, <2>2 DEF SpeechEnds, Execute, debugVars, classVars, OthersOK
  <2>4. CASE runtime.gate
    BY <1>1, <2>1, <2>3, <2>4, StashInv DEF SpeechEnds, Execute, Kept
  <2>5. CASE ~runtime.gate
    <3>1. runtime' = runtime
      BY <1>1, <2>5 DEF SpeechEnds, Execute
    <3> QED  BY <2>3, <3>1, Apart
  <2> QED  BY <2>4, <2>5
<1>2. ASSUME NEW t \in timers, DelayEnds(t) \/ DrawingEnds(t)
      PROVE  IInv' /\ Held
  <2>1. t[1] \in Spoken /\ <<t[1], "drawing">> \in Spoken \X {"delay", "drawing"}
    BY <1>0 DEF OthersOK
  <2>2. OthersOK' /\ UNCHANGED <<engine, linked, rerun>>
    <3>1. CASE DelayEnds(t)
      BY <1>0, <2>1, <3>1 DEF DelayEnds, debugVars, classVars, OthersOK
    <3>2. CASE DrawingEnds(t)
      BY <1>0, <2>1, <3>2 DEF DrawingEnds, RunCommand, classVars, OthersOK
    <3> QED  BY <1>2, <3>1, <3>2
  <2>3. CASE runtime.gate
    BY <1>2, <2>1, <2>2, <2>3, StashInv DEF DelayEnds, DrawingEnds, Kept
  <2>4. CASE ~runtime.gate
    <3>1. runtime' = runtime
      BY <1>2, <2>4 DEF DelayEnds, DrawingEnds
    <3> QED  BY <2>2, <3>1, Apart
  <2> QED  BY <2>3, <2>4
<1> QED  BY <1>1, <1>2

-----------------------------------------------------------------------------
(* The program and the class                                               *)

\* clearGate and deactivate leave nothing that a later step could be held by.
LEMMA ClearedInv ==
  ASSUME IInv, OthersOK', engine' = engine,
         \/ runtime' = clearGate(runtime)
         \/ runtime' = deactivate(runtime)
  PROVE  IInv'
<1>1. runtime \in RuntimeType /\ runtime.gate = runtime.blocked /\ AtRest(runtime)
  BY DEF IInv, GateInv, RuntimeInv, Sound
<1>2. /\ RuntimeInv(runtime', engine', linked')
      /\ runtime'.stash = None /\ runtime'.pending = None
  BY <1>1, ClearGate, Deactivate
<1>3. engine' \in States /\ OneOpen(engine')
  BY DEF IInv, GateInv
<1> QED  BY <1>2, <1>3 DEF IInv, GateInv, StashIsHeld

LEMMA ProgramStartsInv ==
  ASSUME IInv, ProgramStarts, phase # "none", linked' = linked, paused' \in BOOLEAN
  PROVE  IInv' /\ Held
<1>0. OthersOK /\ Silenced \in (Spoken \X {"preparing", "playing", "held"}) \cup {None}
  BY Silences DEF IInv
<1>1. OthersOK'
  BY <1>0 DEF ProgramStarts, OthersOK
<1>2. IInv'
  BY <1>1, ClearedInv DEF ProgramStarts
<1> QED  BY <1>2 DEF ProgramStarts, Held

LEMMA ProgramEndsInv ==
  ASSUME IInv, ProgramExits \/ EnterEdit
  PROVE  IInv' /\ Held
<1>0. OthersOK /\ Silenced \in (Spoken \X {"preparing", "playing", "held"}) \cup {None}
  BY Silences DEF IInv
<1>1. OthersOK' /\ engine' = engine /\ program' = "exited"
  BY <1>0 DEF ProgramExits, EnterEdit, OthersOK
<1>2. IInv'
  BY <1>1, ClearedInv DEF ProgramExits, EnterEdit
<1> QED  BY <1>1, <1>2 DEF Held

LEMMA RunInv ==
  ASSUME IInv,
         ClickRun \/ CompileFails \/ CompileSucceeds \/ ClassFails \/ CloseQr
  PROVE  IInv' /\ Held
<1>0. OthersOK
  BY DEF IInv
<1>1. CASE ClickRun \/ CompileFails
  <2>1. OthersOK' /\ UNCHANGED <<engine, runtime, linked, rerun>>
    BY <1>0, <1>1 DEF ClickRun, CompileFails, gateVars, debugVars, playVars, OthersOK
  <2> QED  BY <2>1, Apart
<1>2. CASE CompileSucceeds
  <2>1. CASE rerun # "no"
    BY <1>0, <1>2, <2>1, ProgramStartsInv DEF CompileSucceeds, OthersOK
  <2>2. CASE rerun = "no"
    <3>1. OthersOK' /\ UNCHANGED <<engine, runtime, linked, rerun>>
      BY <1>0, <1>2, <2>2 DEF CompileSucceeds, gateVars, debugVars, playVars, OthersOK
    <3> QED  BY <3>1, Apart
  <2> QED  BY <2>1, <2>2
<1>3. CASE ClassFails \/ CloseQr
  BY <1>0, <1>3, ProgramStartsInv DEF ClassFails, CloseQr, OthersOK
<1> QED  BY <1>1, <1>2, <1>3

\* An engine with nothing open.
LEMMA ReadyEngine == Ready \in States /\ OneOpen(Ready) /\ ~OpenIn(Ready)
BY DEF Ready, States, OneOpen, OpenIn

LEMMA ClassInv ==
  ASSUME IInv, ClassIsCreated \/ ClassStarts \/ EndClass
  PROVE  IInv' /\ Held
<1>0. OthersOK /\ GateInv
  BY DEF IInv
<1>1. CASE ClassIsCreated
  <2>1. OthersOK' /\ UNCHANGED <<engine, runtime, rerun>> /\ ~linked'
    BY <1>0, <1>1 DEF ClassIsCreated, gateVars, debugVars, playVars, OthersOK
  <2>2. GateInv'
    BY <1>0, <2>1 DEF GateInv, StashIsHeld, RuntimeInv, Sound, AtRest, Waits, OpenIn, OneOpen
  <2> QED  BY <2>1, <2>2 DEF IInv, Held
<1>2. CASE ClassStarts
  <2>1. OthersOK' /\ engine' = Ready /\ runtime' = activate(runtime, Ready)
    BY <1>0, <1>2 DEF ClassStarts, debugVars, OthersOK
  <2>2. /\ RuntimeInv(runtime', engine', linked')
        /\ runtime'.stash = None /\ runtime'.pending = None
    BY <1>0, <2>1, Activate DEF GateInv, RuntimeInv, Sound
  <2>3. IInv'
    BY <2>1, <2>2, ReadyEngine DEF IInv, GateInv, StashIsHeld
  <2>4. ~OpenIn(engine)'
    BY <2>1, ReadyEngine DEF OpenIn
  <2> QED  BY <2>3, <2>4 DEF Held
<1>3. CASE EndClass
  <2>1. OthersOK' /\ engine' = engine /\ runtime' = deactivate(runtime)
    BY <1>0, <1>3 DEF EndClass, debugVars, playVars, OthersOK
  <2>2. IInv'
    BY <2>1, ClearedInv
  <2>3. ~runtime'.active
    BY <1>0, <2>1, Deactivate DEF GateInv, RuntimeInv, Sound
  <2> QED  BY <2>2, <2>3 DEF Held
<1> QED  BY <1>1, <1>2, <1>3

-----------------------------------------------------------------------------
(* States of the class                                                     *)

\* syncSession between two calls, for a class that is the tab's: it opens the
\* gate only when nothing is open and nothing waits, and then nothing is kept.
LEMMA SyncInv ==
  ASSUME NEW e \in States, runtime \in RuntimeType, runtime.active,
         runtime.gate = runtime.blocked,
         runtime.failed # None => e[runtime.failed] = "ready"
  PROVE  LET s == syncSession(runtime, e)
         IN  /\ RuntimeInv(s, e, linked) /\ s.active /\ s.stash = runtime.stash
             /\ s.gate = (OpenIn(e) \/ s.pending # None)
             /\ s.pending \in {None, runtime.pending}
             /\ ~Overtaken(runtime, e) => s.pending = runtime.pending
<1> DEFINE s == syncSession(runtime, e)
<1>1. runtime \in CallType /\ runtime.inFlight = None
  BY Between
<1>2. /\ s \in CallType /\ s.active /\ Sound(s, e) /\ s.stash = runtime.stash
      /\ s.blocked = (OpenIn(e) \/ s.pending # None)
      /\ s.pending \in {None, runtime.pending} /\ s.inFlight \in {None}
      /\ ~Overtaken(runtime, e) => s.pending = runtime.pending
  BY <1>1, Sync
<1>3. s \in RuntimeType
  BY <1>2, Between
<1>4. s.gate = s.blocked
  BY <1>2 DEF Sound
<1> HIDE DEF s
<1> QED  BY <1>2, <1>3, <1>4 DEF s, RuntimeInv, AtRest, Waits

LEMMA StateInv ==
  ASSUME IInv, onState, OthersOK', linked' = linked, rerun' = rerun
  PROVE  IInv' /\ Held
<1> DEFINE s == syncSession(runtime, engine)
<1>0. /\ runtime \in RuntimeType /\ Sound(runtime, engine) /\ Waits(runtime, engine, linked)
      /\ engine \in States /\ OneOpen(engine) /\ StashIsHeld
      /\ runtime.pending # None => rerun = "no"
  BY DEF IInv, GateInv, RuntimeInv
<1>1. linked /\ runtime' = s /\ engine' = engine
  BY DEF onState
<1>2. CASE ~runtime.active
  <2>1. s = runtime
    BY <1>2 DEF syncSession
  <2> QED  BY <1>1, <2>1, Apart
<1>3. CASE runtime.active
  <2>1. /\ RuntimeInv(s, engine, linked) /\ s.stash = runtime.stash
        /\ s.gate = (OpenIn(engine) \/ s.pending # None)
        /\ s.pending \in {None, runtime.pending}
        /\ ~Overtaken(runtime, engine) => s.pending = runtime.pending
    BY <1>0, <1>3, SyncInv DEF Sound
  <2>2. runtime.gate => OpenIn(engine) \/ runtime.pending # None
    BY <1>0, <1>1 DEF Sound, Waits
  <2>3. Overtaken(runtime, engine) => OpenIn(engine)
    BY <1>0 DEF Sound, Overtaken, PendingIsReady
  <2> HIDE DEF s
  <2>4. runtime.gate => s.gate
    BY <2>1, <2>2, <2>3
  <2>5. GateInv'
    BY <1>0, <1>1, <2>1, <2>4 DEF GateInv, StashIsHeld
  <2> QED  BY <1>1, <2>4, <2>5 DEF IInv, Held
<1> QED  BY <1>2, <1>3

LEMMA ArrivalInv ==
  ASSUME IInv, StateArrives \/ RosterArrives
  PROVE  IInv' /\ Held
<1>1. OthersOK' /\ linked' = linked /\ rerun' = rerun /\ onState
  BY DEF StateArrives, RosterArrives, onState, debugVars, playVars, IInv, OthersOK, HidesAfter
<1> QED  BY <1>1, StateInv

-----------------------------------------------------------------------------
(* Questions                                                               *)

\* A table that waits for its dialog.
LEMMA Pends ==
  ASSUME NEW r \in RuntimeType, NEW q \in TableQuestion
  PROVE  LET p == PendingTable(r, q)
         IN  /\ p \in RuntimeType /\ p.active = r.active
             /\ p.blocked = TRUE /\ p.gate = TRUE
             /\ p.pending = q /\ p.failed = r.failed /\ p.stash = r.stash
BY RuntimeAssumption DEF PendingTable, RuntimeType

\* The command of the line is kept before the gate is closed.
Keeps(r, c) == [r EXCEPT !.stash = c]

LEMMA KeepsCommand ==
  ASSUME NEW r \in RuntimeType, NEW c \in Spoken \cup {None}
  PROVE  /\ Keeps(r, c) \in RuntimeType /\ Keeps(r, c).active = r.active
         /\ Keeps(r, c).pending = r.pending /\ Keeps(r, c).stash = c
         /\ Keeps(r, c).failed = r.failed
BY DEF Keeps, RuntimeType

LEMMA MatchedType ==
  ASSUME IInv, NEW l \in Line, QuizMatched(l), hides' \in BOOLEAN
  PROVE  OthersOK' /\ linked' = linked /\ rerun' = "no"
<1>1. Silenced \in (Spoken \X {"preparing", "playing", "held"}) \cup {None}
  BY Silences DEF IInv
<1> QED  BY <1>1 DEF QuizMatched, IInv, OthersOK

LEMMA PauseInv ==
  ASSUME IInv, NEW l \in Line, NEW q \in Question,
         PauseOnChoice(l, q) \/ PauseOnTable(l, q)
  PROVE  IInv' /\ Held
<1>0. /\ runtime \in RuntimeType /\ Sound(runtime, engine)
      /\ engine \in States /\ OneOpen(engine) /\ hides \in BOOLEAN
  BY DEF IInv, GateInv, RuntimeInv, OthersOK
<1>1. runtime.active /\ ~runtime.blocked /\ engine[q] = "ready"
  BY DEF PauseOnChoice, PauseOnTable, Matches
<1>2. Command(l) \in Spoken \cup {None}
  BY DEF Command
<1>3. CASE PauseOnChoice(l, q)
  <2> DEFINE r == Keeps(runtime, Command(l))
  <2>1. /\ r \in RuntimeType /\ r.active
        /\ r.pending # None => engine[r.pending] = "ready"
    BY <1>0, <1>1, <1>2, KeepsCommand DEF Sound
  <2>2. OpenChoice(r, q) /\ QuizMatched(l)
    BY <1>3 DEF PauseOnChoice, Keeps
  <2> HIDE DEF r
  <2>3. hides' \in BOOLEAN
    BY <1>0, <2>2 DEF OpenChoice, OpenSucceeds, HidesAfter
  <2>4. /\ engine' \in States /\ OneOpen(engine')
        /\ CallDone(runtime', engine', linked) /\ runtime'.gate
    BY <1>0, <1>1, <2>1, <2>2, ChoiceInv
  <2>5. OthersOK' /\ linked' = linked /\ rerun' = "no"
    BY <2>2, <2>3, MatchedType
  <2> QED
    BY <2>4, <2>5 DEF CallDone, IInv, GateInv, StashIsHeld, Held
<1>4. CASE PauseOnTable(l, q)
  <2> DEFINE p == PendingTable(runtime, q)
  <2>1. q \in TableQuestion /\ runtime' = Keeps(p, Command(l))
        /\ QuizMatched(l) /\ UNCHANGED <<engine, hides>>
    BY <1>4 DEF PauseOnTable, Keeps
  <2>2. /\ p \in RuntimeType /\ p.active /\ p.blocked = TRUE /\ p.gate = TRUE
        /\ p.pending = q /\ p.failed = runtime.failed
    BY <1>0, <1>1, <2>1, Pends
  <2> HIDE DEF p
  <2>3. /\ runtime' \in RuntimeType /\ runtime'.active
        /\ runtime'.blocked = TRUE /\ runtime'.gate = TRUE
        /\ runtime'.pending = q /\ runtime'.failed = runtime.failed
    BY <1>2, <2>1, <2>2, KeepsCommand DEF Keeps, RuntimeType
  <2>4. OthersOK' /\ linked' = linked /\ rerun' = "no"
    BY <1>0, <2>1, MatchedType
  <2>5. q # None
    BY RuntimeAssumption
  <2>6. RuntimeInv(runtime', engine', linked')
    BY <1>0, <1>1, <2>1, <2>3, <2>5 DEF RuntimeInv, Sound, AtRest, Waits
  <2> QED
    BY <1>0, <2>1, <2>3, <2>4, <2>6 DEF IInv, GateInv, StashIsHeld, Held
<1> QED  BY <1>3, <1>4

LEMMA DialogInv ==
  ASSUME IInv, confirmTable \/ retryTrigger
  PROVE  IInv' /\ Held
<1>0. /\ runtime \in RuntimeType /\ Sound(runtime, engine) /\ AtRest(runtime)
      /\ engine \in States /\ OneOpen(engine) /\ hides \in BOOLEAN /\ OthersOK
      /\ runtime.pending # None => rerun = "no"
  BY DEF IInv, GateInv, RuntimeInv, OthersOK
<1>1. UNCHANGED <<program, line, speech, timers, paused, pendingCmd, linked, phase,
                  rerun, rostered>>
  BY DEF confirmTable, retryTrigger, debugVars, playVars, classVars
<1>2. runtime.active
  BY <1>0 DEF confirmTable, retryTrigger, DialogShown, AtRest
<1>3. \/ runtime.pending # None /\ OpenTable(runtime, runtime.pending)
      \/ runtime.failed # None /\ OpenChoice(runtime, runtime.failed)
  BY DEF confirmTable, retryTrigger, DialogShown
<1>4. hides' \in BOOLEAN
  BY <1>0, <1>3 DEF OpenTable, OpenChoice, OpenSucceeds, HidesAfter
<1>5. OthersOK'
  BY <1>0, <1>1, <1>4 DEF OthersOK
<1>6. /\ engine' \in States /\ OneOpen(engine')
      /\ CallDone(runtime', engine', linked) /\ runtime'.gate
      /\ runtime'.pending \in {None, runtime.pending}
  <2>1. CASE runtime.pending # None /\ OpenTable(runtime, runtime.pending)
    <3>1. runtime.pending \in Question /\ engine[runtime.pending] = "ready"
      BY <1>0, <2>1, RuntimeAssumption DEF RuntimeType, Sound
    <3> QED  BY <1>0, <1>2, <2>1, <3>1, TableInv
  <2>2. CASE runtime.failed # None /\ OpenChoice(runtime, runtime.failed)
    <3>1. runtime.failed \in Question /\ engine[runtime.failed] = "ready"
          /\ (runtime.pending # None => engine[runtime.pending] = "ready")
      BY <1>0, <2>2 DEF RuntimeType, Sound
    <3> QED  BY <1>0, <1>2, <2>2, <3>1, ChoiceInv
  <2> QED  BY <1>3, <2>1, <2>2
<1>7. GateInv'
  BY <1>0, <1>1, <1>6 DEF CallDone, GateInv, StashIsHeld
<1> QED  BY <1>5, <1>6, <1>7 DEF IInv, Held

LEMMA ReRunInv ==
  ASSUME IInv, ConfirmReRun
  PROVE  IInv' /\ Held
<1> DEFINE q == runtime.pending
           r == prepareReRunForQuestion(runtime, q)
<1>0. /\ runtime \in RuntimeType /\ Sound(runtime, engine) /\ AtRest(runtime)
      /\ engine \in States /\ OneOpen(engine) /\ OthersOK
      /\ runtime.pending # None => rerun = "no"
  BY DEF IInv, GateInv, RuntimeInv
<1>1. /\ q # None /\ runtime' = r
      /\ rerun' = "asked" /\ UNCHANGED <<engine, linked>>
  BY DEF ConfirmReRun, DialogShown
<1>2. OthersOK'
  BY <1>0 DEF ConfirmReRun, debugVars, playVars, OthersOK
<1>3. /\ r \in RuntimeType /\ r.active = runtime.active
      /\ r.blocked = FALSE /\ r.gate = FALSE /\ r.pending = None
      /\ r.failed = runtime.failed
  BY <1>0 DEF prepareReRunForQuestion, RuntimeType
<1>4. runtime.active
  BY <1>0, <1>1 DEF AtRest
<1>5. RuntimeInv(runtime', engine', linked')
  <2> HIDE DEF r
  <2> QED  BY <1>0, <1>1, <1>3, <1>4 DEF RuntimeInv, Sound, AtRest, Waits
<1>6. rerun = "no"
  BY <1>0, <1>1
<1> HIDE DEF r
<1> QED
  BY <1>0, <1>1, <1>2, <1>3, <1>5, <1>6 DEF IInv, GateInv, StashIsHeld, OneOpen, Held

LEMMA Closes ==
  ASSUME NEW r \in RuntimeType, r.active, NEW e, NEW l
  PROVE  /\ RuntimeInv(questionClosed(r), e, l)
         /\ questionClosed(r).stash = None /\ questionClosed(r).pending = None
         /\ questionClosed(r).gate = FALSE
<1> DEFINE c == questionClosed(r)
<1>1. /\ c \in RuntimeType /\ c.active /\ c.blocked = FALSE /\ c.gate = FALSE
      /\ c.stash = None /\ c.pending = None /\ c.failed = None
  BY DEF questionClosed, RuntimeType
<1> HIDE DEF c
<1> QED  BY <1>1 DEF c, RuntimeInv, Sound, AtRest, Waits

LEMMA CloseInv ==
  ASSUME IInv, NEW q \in Question, CloseQuestion(q)
  PROVE  IInv' /\ Held
<1> DEFINE e == [engine EXCEPT ![q] = "closed"]
           r == syncSession(runtime, e)
<1>0. /\ runtime \in RuntimeType /\ Sound(runtime, engine) /\ AtRest(runtime)
      /\ RuntimeInv(runtime, engine, linked)
      /\ engine \in States /\ OneOpen(engine) /\ OthersOK
      /\ runtime.pending # None => rerun = "no"
  BY DEF IInv, GateInv, RuntimeInv
<1>1. /\ engine[q] = "open" /\ engine' = e /\ hides' = FALSE
      /\ UNCHANGED <<program, line, linked, phase, rerun, rostered, speech, paused, pendingCmd>>
  BY DEF CloseQuestion, debugVars, classVars
<1>2. /\ e \in States
      /\ \A p \in Question : e[p] = IF p = q THEN "closed" ELSE engine[p]
  BY <1>0 DEF States
<1>3. ~OpenIn(e) /\ OneOpen(e)
  BY <1>0, <1>1, <1>2 DEF OpenIn, OneOpen
<1>4. \A p \in Question : engine[p] = "ready" => e[p] = "ready"
  BY <1>1, <1>2
<1>5. ~OpenIn(engine)'
  BY <1>1, <1>3 DEF OpenIn
<1>6. CASE ~runtime.active
  <2>1. r = runtime
    BY <1>6 DEF syncSession
  <2>2. runtime' = runtime /\ timers' = timers
    BY <1>6, <2>1 DEF CloseQuestion
  <2>3. OthersOK'
    BY ZenonT(40), <1>0, <1>1, <2>2 DEF OthersOK
  <2>4. ~runtime.blocked /\ runtime.gate = runtime.blocked /\ runtime.stash = None
        /\ runtime.pending = None
    BY <1>0, <1>6 DEF AtRest, Sound
  <2>5. Sound(runtime, e)
    BY <1>0, <1>4, <2>4 DEF Sound, RuntimeType
  <2>6. RuntimeInv(runtime', engine', linked')
    BY <1>0, <1>1, <2>2, <2>4, <2>5 DEF RuntimeInv, Waits
  <2> QED
    BY <1>1, <1>2, <1>3, <1>5, <2>2, <2>3, <2>4, <2>6 DEF IInv, GateInv, StashIsHeld, Held
<1>7. CASE runtime.active
  <2>1. r \in RuntimeType /\ r.active
    <3>1. runtime.failed # None => e[runtime.failed] = "ready"
      BY <1>0, <1>4 DEF Sound, RuntimeType
    <3> HIDE DEF e
    <3> QED  BY <1>0, <1>2, <1>7, <3>1, SyncInv DEF Sound, RuntimeInv
  <2>2. questionClosed(r).gate = FALSE
    BY <2>1, Closes
  <2>3. /\ runtime' = questionClosed(r)
        /\ \/ timers' = timers
           \/ r.stash # None /\ timers' = timers \cup {<<r.stash, "delay">>}
    BY <2>1, <2>2 DEF CloseQuestion, Execute
  <2>4. r.stash # None => <<r.stash, "delay">> \in Spoken \X {"delay", "drawing"}
    <3> HIDE DEF r
    <3> QED  BY <2>1 DEF RuntimeType
  <2>5. OthersOK'
    <3>1. timers' \subseteq Spoken \X {"delay", "drawing"}
      <4> HIDE DEF r
      <4> QED  BY <1>0, <2>3, <2>4 DEF OthersOK
    <3> HIDE DEF e, r
    <3> QED  BY ZenonT(40), <1>0, <1>1, <3>1 DEF OthersOK
  <2>6. /\ RuntimeInv(runtime', engine', linked')
        /\ runtime'.stash = None /\ runtime'.pending = None
    <3> HIDE DEF r
    <3> QED  BY <2>1, <2>3, Closes
  <2> QED
    BY <1>1, <1>2, <1>3, <1>5, <2>5, <2>6 DEF IInv, GateInv, StashIsHeld, Held
<1> QED  BY <1>6, <1>7

-----------------------------------------------------------------------------
(* The theorems                                                            *)

\* Every step keeps the invariant and opens no gate under an open question.
LEMMA NextInv == IInv /\ [Next]_vars => IInv' /\ [Held]_vars
<1> SUFFICES ASSUME IInv, [Next]_vars PROVE IInv' /\ [Held]_vars
  OBVIOUS
<1>1. CASE Debugger
  BY <1>1, PlaybackInv, PauseInv, ProgramEndsInv DEF Debugger
<1>2. CASE Classes
  BY <1>2, RunInv, ClassInv, ArrivalInv DEF Classes
<1>3. CASE Teacher
  BY <1>3, PlaybackInv, RunInv, ClassInv, ProgramEndsInv, DialogInv, ReRunInv, CloseInv
     DEF Teacher
<1>4. CASE Narration
  BY <1>4, PlaybackInv, NarrationInv DEF Narration
<1>5. CASE UNCHANGED vars
  <2>1. OthersOK' /\ UNCHANGED <<engine, runtime, linked, rerun>>
    BY <1>5 DEF vars, gateVars, debugVars, playVars, classVars, IInv, OthersOK
  <2> QED  BY <1>5, <2>1, Apart
<1> QED  BY <1>1, <1>2, <1>3, <1>4, <1>5 DEF Next

THEOREM Inductive == Spec => []IInv
BY InitInv, NextInv, PTL DEF Spec

\* The variables of the runtime, of the playback and of a press of Run keep
\* their types: in particular no call of `trigger` stays in flight.
THEOREM TypeCorrect == Spec => []TypeOK
<1>1. IInv => TypeOK
  BY Types DEF IInv, GateInv, RuntimeInv
<1> QED  BY <1>1, Inductive, PTL

\* A closed gate has a way out, however pauses, refusals, states of the class
\* and the teacher's buttons follow each other.
THEOREM GateOpens == Spec => []WayOut
<1>1. IInv => WayOut
  BY DEF IInv, GateInv, RuntimeInv, Sound, Waits, WayOut
<1> QED  BY <1>1, Inductive, PTL

\* A command that is kept for the end of a question never outlives it.
THEOREM CommandIsHeld == Spec => []StashIsHeld
<1>1. IInv => StashIsHeld
  BY DEF IInv, GateInv
<1> QED  BY <1>1, Inductive, PTL

\* No step of the playback, of the class or of the panel opens the gate under
\* an open question.
THEOREM GateHolds == Spec => HeldWhileOpen
<1>1. IInv /\ [Next]_vars =>
        [runtime.gate /\ ~runtime'.gate /\ OpenIn(engine)' =>
            \/ program' = "exited"
            \/ program' = "running" /\ phase # "none"
            \/ rerun' # rerun /\ rerun' = "asked"
            \/ ~runtime'.active]_vars
  BY NextInv DEF Held
<1> QED  BY <1>1, Inductive, PTL DEF Spec, HeldWhileOpen

-----------------------------------------------------------------------------
(* The playback does not stop by itself                                    *)

\* A program that the narration is to carry on, in a class that is open.
Playing == runtime.active /\ program # "exited" /\ rerun = "no" /\ ~overrun

\* The gate is closed while anything waits, and an autoplay command that a
\* pause holds back never waits behind it: a Resume would lose it.
Barred(r, e, c) ==
    /\ OpenIn(e) \/ r.pending # None \/ r.error => r.gate
    /\ r.gate => c = None

\* What carries the program on: a narration, a command on its way, the one
\* that a Resume runs, or the one that the end of the question runs.
Driven == \/ speech # None
          \/ timers # {}
          \/ paused /\ pendingCmd # None
          \/ runtime.gate /\ runtime.stash # None

Standing == program = "paused" /\ line \in Spoken /\ phase # "qr"

BarInv == Playing => Barred(runtime, engine, pendingCmd)
DriveInv == Playing /\ Standing => Driven

\* A gate that clearGate opens has nothing that waits.
LEMMA Clears ==
  ASSUME NEW r \in RuntimeType
  PROVE  /\ clearGate(r) \in RuntimeType
         /\ clearGate(r).active = r.active
         /\ clearGate(r).pending = None /\ clearGate(r).error = FALSE
         /\ r.active => clearGate(r).gate = FALSE
BY DEF clearGate, RuntimeType

LEMMA Activates ==
  ASSUME NEW r \in RuntimeType
  PROVE  LET a == activate(r, Ready)
         IN  a.pending = None /\ a.error = FALSE /\ a.gate = FALSE
<1> DEFINE c == clearGate(r)
           d == deactivate(r)
<1>1. c \in RuntimeType /\ c.pending = None /\ c.error = FALSE
  BY Clears
<1>2. d = [c EXCEPT !.active = FALSE, !.triggered = {}]
  BY DEF deactivate
<1>3. d \in RuntimeType /\ d.pending = None /\ d.error = FALSE
  <2> HIDE DEF c
  <2> QED  BY <1>1, <1>2 DEF RuntimeType
<1>4. OpenIn(Ready) = FALSE
  BY ReadyEngine DEF OpenIn
<1>5. activate(r, Ready) = [d EXCEPT !.active = TRUE, !.blocked = FALSE,
                                     !.gate = FALSE]
  BY <1>4 DEF activate
<1> HIDE DEF d
<1> QED  BY <1>3, <1>5 DEF RuntimeType

\* syncSession keeps an error only where it keeps the gate closed.
LEMMA SyncError ==
  ASSUME NEW r \in CallType, NEW e, r.active, r.gate = r.blocked,
         r.error => r.gate
  PROVE  syncSession(r, e).error => syncSession(r, e).gate
<1> DEFINE d == Dropped(r, e)
           n == OpenIn(e) \/ d.pending # None
           s == syncSession(r, e)
<1>1. /\ d \in CallType /\ d.gate = r.gate /\ d.blocked = r.blocked
      /\ d.error => r.error
  BY DropStep
<1>2. s = IF d.blocked = n THEN d
          ELSE IF n THEN Shut(d) ELSE Lifted(d)
  BY DEF syncSession, Shut, Lifted
<1>3. Shut(d).gate = TRUE /\ Lifted(d).error = FALSE
  BY <1>1 DEF Shut, Lifted, CallType
<1> HIDE DEF d, n, s
<1> QED  BY <1>1, <1>2, <1>3 DEF s

\* A pause on the line of a question closes the gate and keeps the command of
\* that line.
LEMMA Matched ==
  ASSUME IInv, NEW l \in Line, NEW q \in Question,
         PauseOnChoice(l, q) \/ PauseOnTable(l, q)
  PROVE  runtime'.gate /\ runtime'.stash = Command(l) /\ QuizMatched(l)
<1>0. /\ runtime \in RuntimeType /\ Sound(runtime, engine)
      /\ engine \in States /\ OneOpen(engine)
  BY DEF IInv, GateInv, RuntimeInv
<1>1. runtime.active /\ engine[q] = "ready" /\ QuizMatched(l)
  BY DEF PauseOnChoice, PauseOnTable, Matches
<1>2. Command(l) \in Spoken \cup {None}
  BY DEF Command
<1>3. CASE PauseOnChoice(l, q)
  <2> DEFINE r == Keeps(runtime, Command(l))
  <2>1. /\ r \in RuntimeType /\ r.active /\ r.stash = Command(l)
        /\ r.pending # None => engine[r.pending] = "ready"
    BY <1>0, <1>1, <1>2, KeepsCommand DEF Sound
  <2>2. OpenChoice(r, q)
    BY <1>3 DEF PauseOnChoice, Keeps
  <2> HIDE DEF r
  <2> QED  BY <1>0, <1>1, <2>1, <2>2, ChoiceInv
<1>4. CASE PauseOnTable(l, q)
  <2> DEFINE p == PendingTable(runtime, q)
  <2>1. q \in TableQuestion /\ runtime' = Keeps(p, Command(l))
    BY <1>4 DEF PauseOnTable, Keeps
  <2>2. p \in RuntimeType /\ p.gate = TRUE
    BY <1>0, <2>1, Pends
  <2> HIDE DEF p
  <2> QED  BY <1>1, <1>2, <2>1, <2>2 DEF Keeps, RuntimeType
<1> QED  BY <1>3, <1>4

\* The dialog and the Retry leave the gate closed and the command as it was.
LEMMA Called ==
  ASSUME IInv, confirmTable \/ retryTrigger
  PROVE  /\ runtime'.gate /\ runtime'.stash = runtime.stash
         /\ runtime.pending # None \/ runtime.error
         /\ UNCHANGED <<debugVars, playVars, classVars>>
<1>0. /\ runtime \in RuntimeType /\ Sound(runtime, engine) /\ AtRest(runtime)
      /\ engine \in States /\ OneOpen(engine)
  BY DEF IInv, GateInv, RuntimeInv
<1>1. /\ runtime.pending # None \/ runtime.error
      /\ UNCHANGED <<debugVars, playVars, classVars>>
  BY DEF confirmTable, retryTrigger, DialogShown
<1>2. runtime.active
  BY <1>0, <1>1 DEF AtRest
<1>3. \/ runtime.pending # None /\ OpenTable(runtime, runtime.pending)
      \/ runtime.failed # None /\ OpenChoice(runtime, runtime.failed)
  BY DEF confirmTable, retryTrigger, DialogShown
<1>4. CASE runtime.pending # None /\ OpenTable(runtime, runtime.pending)
  <2>1. runtime.pending \in Question /\ engine[runtime.pending] = "ready"
    BY <1>0, <1>4, RuntimeAssumption DEF RuntimeType, Sound
  <2>2. runtime'.gate /\ runtime'.stash = runtime.stash
    BY <1>0, <1>2, <1>4, <2>1, TableInv
  <2> QED  BY <1>1, <2>2
<1>5. CASE runtime.failed # None /\ OpenChoice(runtime, runtime.failed)
  <2>1. runtime.failed \in Question /\ engine[runtime.failed] = "ready"
        /\ (runtime.pending # None => engine[runtime.pending] = "ready")
    BY <1>0, <1>5 DEF RuntimeType, Sound
  <2>2. runtime'.gate /\ runtime'.stash = runtime.stash
    BY <1>0, <1>2, <1>5, <2>1, ChoiceInv
  <2> QED  BY <1>1, <2>2
<1> QED  BY <1>3, <1>4, <1>5

\* The steps that touch neither the gate nor the class.
LEMMA BarApart ==
  ASSUME BarInv, UNCHANGED <<runtime, engine>>, Playing' => Playing,
         pendingCmd' \in {pendingCmd, None} \/ ~runtime.gate
  PROVE  BarInv'
BY DEF BarInv, Barred, OpenIn

LEMMA BarPlayback ==
  ASSUME IInv, BarInv,
         \/ \E l \in Line : PauseToSpeak(l)
         \/ RerunContinues \/ ClickStep \/ JumpToStep \/ SpeechStarts
         \/ PauseAutoplay \/ ResumeAutoplay
         \/ ClickRun \/ CompileFails \/ ClassIsCreated
         \/ CompileSucceeds /\ rerun = "no"
  PROVE  BarInv'
<1>1. UNCHANGED <<runtime, engine, overrun>> /\ pendingCmd' \in {pendingCmd, None}
  BY DEF PauseToSpeak, RerunContinues, ClickStep, JumpToStep, SpeechStarts, PauseAutoplay,
         ResumeAutoplay, ClickRun, CompileFails, ClassIsCreated, CompileSucceeds, gateVars,
         debugVars, playVars, classVars
<1>2. /\ program' # "exited" => program # "exited"
      /\ rerun' = "no" => rerun = "no"
  BY DEF PauseToSpeak, RerunContinues, ClickStep, JumpToStep, SpeechStarts, PauseAutoplay,
         ResumeAutoplay, ClickRun, CompileFails, ClassIsCreated, CompileSucceeds, gateVars,
         debugVars, playVars, classVars, RunCommand
<1>3. Playing' => Playing
  BY <1>1, <1>2 DEF Playing
<1> QED  BY <1>1, <1>3, BarApart

\* A command of the narration that meets the gate, or that does not.
LEMMA BarNarration ==
  ASSUME IInv, BarInv, SpeechEnds \/ \E t \in timers : DelayEnds(t) \/ DrawingEnds(t)
  PROVE  BarInv'
<1>1. UNCHANGED <<engine, rerun, overrun>> /\ (program' # "exited" => program # "exited")
  BY DEF SpeechEnds, DelayEnds, DrawingEnds, debugVars, classVars, RunCommand
<1>2. CASE runtime.gate
  <2>1. pendingCmd' = pendingCmd /\ \E c : runtime' = Kept(c)
    BY <1>2 DEF SpeechEnds, DelayEnds, DrawingEnds, Execute, Kept
  <2>2. /\ runtime'.active = runtime.active /\ runtime'.gate = runtime.gate
        /\ runtime'.pending = runtime.pending /\ runtime'.error = runtime.error
    BY <2>1 DEF Kept, IInv, GateInv, RuntimeInv, RuntimeType
  <2> QED  BY <1>1, <2>1, <2>2 DEF BarInv, Barred, Playing, OpenIn
<1>3. CASE ~runtime.gate
  <2>1. runtime' = runtime
    BY <1>3 DEF SpeechEnds, DelayEnds, DrawingEnds, Execute
  <2>2. Playing' => Playing
    BY <1>1, <2>1 DEF Playing
  <2> QED  BY <1>1, <1>3, <2>1, <2>2, BarApart
<1> QED  BY <1>2, <1>3

\* The program starts with a gate that is open, unless a question is left open
\* over it.
LEMMA BarStarts ==
  ASSUME IInv, ProgramStarts
  PROVE  BarInv'
<1>1. /\ runtime' = clearGate(runtime) /\ engine' = engine
      /\ overrun' = (overrun \/ OpenIn(engine))
  BY DEF ProgramStarts
<1>2. /\ runtime'.pending = None /\ runtime'.error = FALSE
      /\ runtime'.active => runtime'.gate = FALSE
  BY <1>1, Clears DEF IInv, GateInv, RuntimeInv
<1> QED  BY <1>1, <1>2 DEF BarInv, Barred, Playing, OpenIn

LEMMA BarClass ==
  ASSUME IInv, BarInv,
         \/ CompileSucceeds /\ rerun # "no"
         \/ ClassFails \/ CloseQr \/ ClassStarts
         \/ ProgramExits \/ EnterEdit \/ EndClass \/ ConfirmReRun
  PROVE  BarInv'
<1>1. CASE (CompileSucceeds /\ rerun # "no") \/ ClassFails \/ CloseQr
  BY <1>1, BarStarts DEF CompileSucceeds, ClassFails, CloseQr
<1>2. CASE ClassStarts
  <2>1. engine' = Ready /\ runtime' = activate(runtime, Ready)
    BY <1>2 DEF ClassStarts
  <2>2. runtime'.pending = None /\ runtime'.error = FALSE /\ runtime'.gate = FALSE
    BY <2>1, Activates DEF IInv, GateInv, RuntimeInv
  <2>3. ~OpenIn(engine)'
    BY <2>1, ReadyEngine DEF OpenIn
  <2> QED  BY <2>2, <2>3 DEF BarInv, Barred, OpenIn
<1>3. CASE ProgramExits \/ EnterEdit \/ ConfirmReRun
  BY <1>3 DEF ProgramExits, EnterEdit, ConfirmReRun, BarInv, Playing
<1>4. CASE EndClass
  BY <1>4, Deactivate DEF EndClass, BarInv, Playing, IInv, GateInv, RuntimeInv, Sound
<1> QED  BY <1>1, <1>2, <1>3, <1>4

\* A state of the class closes no gate that was open while nothing waited.
LEMMA SyncBars ==
  ASSUME NEW e \in States, runtime \in RuntimeType, runtime.active,
         Sound(runtime, engine), runtime.failed # None => e[runtime.failed] = "ready",
         Barred(runtime, engine, pendingCmd), OpenIn(e) => OpenIn(engine)
  PROVE  Barred(syncSession(runtime, e), e, pendingCmd)
<1> DEFINE s == syncSession(runtime, e)
<1>1. /\ s.gate = (OpenIn(e) \/ s.pending # None)
      /\ s.pending \in {None, runtime.pending}
  BY SyncInv DEF Sound
<1>2. s.error => s.gate
  BY Between, SyncError DEF Sound, Barred
<1> HIDE DEF s
<1> QED  BY <1>1, <1>2 DEF s, Barred

LEMMA BarArrival ==
  ASSUME IInv, BarInv, onState, rerun' = rerun
  PROVE  BarInv'
<1>1. /\ runtime' = syncSession(runtime, engine)
      /\ UNCHANGED <<engine, program, pendingCmd, overrun>>
  BY DEF onState, debugVars, playVars
<1>2. CASE ~runtime.active
  <2>1. runtime' = runtime
    BY <1>1, <1>2 DEF syncSession
  <2> QED  BY <1>2, <2>1 DEF BarInv, Playing
<1>3. CASE runtime.active /\ ~Playing
  <2>1. ~Playing'
    BY <1>1, <1>3 DEF Playing
  <2> QED  BY <2>1 DEF BarInv
<1>4. CASE runtime.active /\ Playing
  <2>1. Barred(syncSession(runtime, engine), engine, pendingCmd)
    BY <1>4, SyncBars DEF IInv, GateInv, RuntimeInv, BarInv, Sound
  <2> QED  BY <1>1, <2>1 DEF BarInv, Barred, OpenIn
<1> QED  BY <1>2, <1>3, <1>4

\* A question comes, or is tried again: the gate is closed, and no command
\* waits for a Resume.
LEMMA BarQuestion ==
  ASSUME IInv, BarInv,
         \/ \E l \in Line, q \in Question : PauseOnChoice(l, q) \/ PauseOnTable(l, q)
         \/ confirmTable \/ retryTrigger
  PROVE  BarInv'
<1>1. ASSUME NEW l \in Line, NEW q \in Question, PauseOnChoice(l, q) \/ PauseOnTable(l, q)
      PROVE  BarInv'
  BY <1>1, Matched DEF QuizMatched, BarInv, Barred
<1>2. CASE confirmTable \/ retryTrigger
  <2>1. /\ runtime'.gate
        /\ runtime.pending # None \/ runtime.error
        /\ UNCHANGED <<program, pendingCmd, rerun, overrun>>
    BY <1>2, Called DEF debugVars, playVars, classVars
  <2>2. runtime.active
    BY <2>1 DEF IInv, GateInv, RuntimeInv, AtRest
  <2>3. Playing' => Playing
    BY <2>1, <2>2 DEF Playing
  <2> QED  BY <2>1, <2>3 DEF BarInv, Barred
<1> QED  BY <1>1, <1>2

\* The end of a question, in a class that the program plays in: the gate is
\* open, nothing waits, and the command it held is on its way.
LEMMA Ends ==
  ASSUME IInv, NEW q \in Question, CloseQuestion(q), runtime.active
  PROVE  /\ runtime'.gate = FALSE /\ runtime'.pending = None /\ runtime'.error = FALSE
         /\ ~OpenIn(engine)'
         /\ IF runtime.stash = None THEN timers' = timers
            ELSE timers' = timers \cup {<<runtime.stash, "delay">>}
<1> DEFINE e == [engine EXCEPT ![q] = "closed"]
           r == syncSession(runtime, e)
<1>0. /\ runtime \in RuntimeType /\ Sound(runtime, engine)
      /\ engine \in States /\ OneOpen(engine) /\ engine[q] = "open"
  BY DEF IInv, GateInv, RuntimeInv, CloseQuestion
<1>1. e \in States /\ \A p \in Question : e[p] = IF p = q THEN "closed" ELSE engine[p]
  BY <1>0 DEF States
<1>2. ~OpenIn(e)
  BY <1>0, <1>1 DEF OpenIn, OneOpen
<1>3. runtime.failed # None => e[runtime.failed] = "ready"
  BY <1>0, <1>1 DEF Sound, RuntimeType
<1>4. r \in RuntimeType /\ r.active /\ r.stash = runtime.stash
  <2> HIDE DEF e
  <2> QED  BY <1>0, <1>1, <1>3, SyncInv DEF Sound, RuntimeInv
<1> DEFINE c == questionClosed(r)
<1>5. c.gate = FALSE /\ c.pending = None /\ c.error = FALSE
  <2> HIDE DEF r
  <2> QED  BY <1>4 DEF questionClosed, RuntimeType
<1>6. /\ engine' = e /\ runtime' = c
      /\ IF r.stash = None THEN timers' = timers
         ELSE timers' = timers \cup {<<r.stash, "delay">>}
  <2>1. engine' = e /\ IF r.stash = None
                       THEN runtime' = c /\ timers' = timers
                       ELSE Execute(c, r.stash)
    BY <1>4 DEF CloseQuestion
  <2> HIDE DEF c, r, e
  <2> QED  BY <1>5, <2>1 DEF Execute
<1>7. ~OpenIn(engine)'
  BY <1>2, <1>6 DEF OpenIn
<1> HIDE DEF c, r, e
<1> QED  BY <1>4, <1>5, <1>6, <1>7

LEMMA BarEnds ==
  ASSUME IInv, BarInv, NEW q \in Question, CloseQuestion(q)
  PROVE  BarInv'
<1>1. CASE runtime.active
  BY <1>1, Ends DEF BarInv, Barred
<1>2. CASE ~runtime.active
  <2>1. runtime' = runtime
    BY <1>2 DEF CloseQuestion, syncSession
  <2> QED  BY <1>2, <2>1 DEF BarInv, Playing
<1> QED  BY <1>1, <1>2

LEMMA BarStep == IInv /\ BarInv /\ [Next]_vars => BarInv'
<1> SUFFICES ASSUME IInv, BarInv, [Next]_vars PROVE BarInv'
  OBVIOUS
<1>1. CASE Debugger
  BY <1>1, BarPlayback, BarQuestion, BarClass DEF Debugger
<1>2. CASE Classes
  <2>1. CASE StateArrives \/ RosterArrives
    BY <2>1, BarArrival DEF StateArrives, RosterArrives, onState
  <2> QED  BY <1>2, <2>1, BarPlayback, BarClass DEF Classes
<1>3. CASE Teacher
  BY <1>3, BarPlayback, BarClass, BarQuestion, BarEnds DEF Teacher
<1>4. CASE Narration
  BY <1>4, BarPlayback, BarNarration DEF Narration
<1>5. CASE UNCHANGED vars
  BY <1>5 DEF vars, gateVars, debugVars, playVars, classVars, BarInv, Barred, Playing, OpenIn
<1> QED  BY <1>1, <1>2, <1>3, <1>4, <1>5 DEF Next

-----------------------------------------------------------------------------
\* The program runs, or has ended, or is not played after the step.
LEMMA DriveElse ==
  ASSUME program' # "paused" \/ rerun' # "no" \/ ~runtime'.active
  PROVE  DriveInv'
BY DEF DriveInv, Standing, Playing

\* The steps that leave the program where it stands and what drives it alone.
LEMMA DriveApart ==
  ASSUME DriveInv, UNCHANGED <<debugVars, playVars, overrun>>,
         runtime'.active => /\ runtime.active
                            /\ runtime.gate /\ runtime.stash # None =>
                                  runtime'.gate /\ runtime'.stash # None,
         rerun' = rerun, phase' # "qr" => phase # "qr"
  PROVE  DriveInv'
BY DEF DriveInv, Standing, Playing, Driven, debugVars, playVars

\* The buttons and the pauses of the playback.
LEMMA DrivePlayback ==
  ASSUME IInv, BarInv, DriveInv,
         \/ \E l \in Line : PauseToSpeak(l)
         \/ RerunContinues \/ ClickStep \/ JumpToStep \/ SpeechStarts
         \/ PauseAutoplay \/ ResumeAutoplay
  PROVE  DriveInv'
<1>0. OthersOK
  BY DEF IInv
<1>1. ASSUME NEW l \in Line, PauseToSpeak(l)
      PROVE  DriveInv'
  <2>1. CASE rerun = "no" /\ l \in Spoken
    <3>1. speech' = <<l, "preparing">>
      BY <1>1, <2>1 DEF PauseToSpeak
    <3>2. speech' # None
      BY <2>1, <3>1, NullAssumption
    <3> QED  BY <3>2 DEF DriveInv, Driven
  <2>2. CASE rerun # "no"
    <3>1. rerun' # "no"
      BY <1>1, <2>2 DEF PauseToSpeak
    <3> QED  BY <3>1, DriveElse
  <2>3. CASE l \notin Spoken
    BY <1>1, <2>3 DEF PauseToSpeak, DriveInv, Standing
  <2> QED  BY <2>1, <2>2, <2>3
<1>2. CASE RerunContinues \/ ClickStep \/ JumpToStep
  <2>1. program' # "paused" \/ rerun' # "no"
    BY <1>2 DEF RerunContinues, ClickStep, JumpToStep, RunCommand
  <2> QED  BY <2>1, DriveElse
<1>3. CASE SpeechStarts \/ PauseAutoplay
  <2>1. /\ UNCHANGED <<program, line, runtime, timers, pendingCmd, phase, rerun, overrun>>
        /\ paused' \in {paused, TRUE}
    BY <1>3 DEF SpeechStarts, PauseAutoplay, gateVars, debugVars, classVars
  <2>2. speech # None => speech' # None
    <3>1. speech # None => speech[1] \in Spoken
      BY <1>0 DEF OthersOK
    <3>2. \A v \in Spoken : <<v, "playing">> # None /\ <<v, "held">> # None
      BY NullAssumption
    <3> QED  BY <1>3, <3>1, <3>2 DEF SpeechStarts, PauseAutoplay, Narrating
  <2>3. Driven => Driven'
    BY <1>0, <2>1, <2>2 DEF Driven, OthersOK
  <2> QED  BY <2>1, <2>3 DEF DriveInv, Standing, Playing
<1>4. CASE ResumeAutoplay
  <2>1. UNCHANGED <<runtime, phase, rerun, overrun, line, timers>>
    BY <1>4 DEF ResumeAutoplay, gateVars, classVars
  <2>2. CASE Narrating("held")
    <3>1. speech' = <<speech[1], "playing">>
      BY <1>4, <2>2 DEF ResumeAutoplay
    <3>2. speech' # None
      <4>1. speech[1] \in Spoken
        BY <1>0, <2>2 DEF Narrating, OthersOK
      <4> QED  BY <3>1, <4>1, NullAssumption
    <3> QED  BY <3>2 DEF DriveInv, Driven
  <2>3. CASE ~Narrating("held") /\ pendingCmd = None
    <3>1. UNCHANGED <<program, speech>>
      BY <1>4, <2>3 DEF ResumeAutoplay
    <3> QED  BY <2>1, <2>3, <3>1 DEF DriveInv, Standing, Playing, Driven
  <2>4. CASE ~Narrating("held") /\ pendingCmd # None
    <3>1. RunCommand
      BY <1>4, <2>4 DEF ResumeAutoplay
    <3>2. CASE Playing /\ program = "paused"
      <4>1. ~runtime.gate
        BY <2>4, <3>2 DEF BarInv, Barred
      <4>2. program' = "running"
        BY <3>1, <3>2, <4>1 DEF RunCommand
      <4> QED  BY <4>2, DriveElse
    <3>3. CASE ~(Playing /\ program = "paused")
      <4>1. program' = program \/ program = "paused"
        BY <3>1 DEF RunCommand
      <4> QED  BY <2>1, <3>3, <4>1 DEF DriveInv, Standing, Playing
    <3> QED  BY <3>2, <3>3
  <2> QED  BY <2>2, <2>3, <2>4
<1> QED  BY <1>1, <1>2, <1>3, <1>4

\* A command that comes to its end is kept behind the gate, held back for a
\* Resume, or goes on; only then is it off the list.
LEMMA DriveNarration ==
  ASSUME IInv, DriveInv,
         SpeechEnds \/ \E t \in timers : DelayEnds(t) \/ DrawingEnds(t)
  PROVE  DriveInv'
<1>0. OthersOK /\ runtime \in RuntimeType /\ None \notin Spoken
  BY RuntimeAssumption DEF IInv, GateInv, RuntimeInv
<1>1. ASSUME NEW c \in Spoken, runtime.gate, runtime' = Kept(c)
      PROVE  DriveInv'
  <2>1. runtime'.gate /\ runtime'.stash # None
    BY <1>0, <1>1 DEF Kept, RuntimeType
  <2> QED  BY <2>1 DEF DriveInv, Driven
<1>2. CASE SpeechEnds
  <2>1. speech[1] \in Spoken /\ Execute(runtime, speech[1])
    BY <1>0, <1>2 DEF SpeechEnds, Narrating, OthersOK
  <2>2. CASE runtime.gate
    BY <1>1, <2>1, <2>2 DEF Execute, Kept
  <2>3. CASE ~runtime.gate
    <3>1. timers' # {}
      BY <2>1, <2>3 DEF Execute
    <3> QED  BY <3>1 DEF DriveInv, Driven
  <2> QED  BY <2>2, <2>3
<1>3. ASSUME NEW t \in timers, DelayEnds(t) \/ DrawingEnds(t)
      PROVE  DriveInv'
  <2>1. t[1] \in Spoken /\ paused' = paused
    BY <1>0, <1>3 DEF OthersOK, DelayEnds, DrawingEnds
  <2>2. CASE runtime.gate
    BY <1>1, <1>3, <2>1, <2>2 DEF DelayEnds, DrawingEnds, Kept
  <2>3. CASE ~runtime.gate /\ paused
    <3>1. pendingCmd' # None
      BY <1>0, <1>3, <2>1, <2>3 DEF DelayEnds, DrawingEnds
    <3> QED  BY <2>1, <2>3, <3>1 DEF DriveInv, Driven
  <2>4. CASE ~runtime.gate /\ ~paused
    <3>1. CASE DelayEnds(t)
      <4>1. timers' # {}
        BY <2>4, <3>1 DEF DelayEnds
      <4> QED  BY <4>1 DEF DriveInv, Driven
    <3>2. CASE DrawingEnds(t)
      <4>1. program' # "paused"
        BY <2>4, <3>2 DEF DrawingEnds, RunCommand
      <4> QED  BY <4>1, DriveElse
    <3> QED  BY <1>3, <3>1, <3>2
  <2> QED  BY <2>2, <2>3, <2>4
<1> QED  BY <1>2, <1>3

LEMMA DriveClass ==
  ASSUME IInv, DriveInv,
         \/ ClickRun \/ CompileFails \/ CompileSucceeds \/ ClassFails \/ CloseQr
         \/ ClassIsCreated \/ ClassStarts
         \/ ProgramExits \/ EnterEdit \/ EndClass \/ ConfirmReRun
  PROVE  DriveInv'
<1>1. CASE \/ CompileSucceeds /\ rerun # "no"
           \/ ClassFails \/ CloseQr \/ ProgramExits \/ EnterEdit \/ ConfirmReRun
  <2>1. program' # "paused" \/ rerun' # "no"
    BY <1>1 DEF CompileSucceeds, ClassFails, CloseQr, ProgramExits, EnterEdit, ConfirmReRun,
                ProgramStarts
  <2> QED  BY <2>1, DriveElse
<1>2. CASE \/ ClickRun \/ CompileFails \/ ClassIsCreated
           \/ CompileSucceeds /\ rerun = "no"
  <2>1. /\ UNCHANGED <<runtime, debugVars, playVars, overrun, rerun>>
        /\ phase' # "qr"
    BY <1>2 DEF ClickRun, CompileFails, ClassIsCreated, CompileSucceeds, gateVars
  <2>2. CASE phase = "qr"
    BY <1>2, <2>2 DEF ClickRun, CompileFails, ClassIsCreated, CompileSucceeds
  <2>3. CASE phase # "qr"
    BY <2>1, <2>3, DriveApart
  <2> QED  BY <2>2, <2>3
<1>3. CASE ClassStarts
  BY <1>3 DEF ClassStarts, DriveInv, Standing
<1>4. CASE EndClass
  <2>1. ~runtime'.active
    BY <1>4, Deactivate DEF EndClass, IInv, GateInv, RuntimeInv, Sound
  <2> QED  BY <2>1, DriveElse
<1> QED  BY <1>1, <1>2, <1>3, <1>4

LEMMA DriveArrival ==
  ASSUME IInv, DriveInv, onState, rerun' = rerun
  PROVE  DriveInv'
<1>0. /\ runtime \in RuntimeType /\ Sound(runtime, engine) /\ Waits(runtime, engine, linked)
      /\ engine \in States
  BY DEF IInv, GateInv, RuntimeInv
<1>1. /\ linked /\ runtime' = syncSession(runtime, engine)
      /\ UNCHANGED <<debugVars, playVars, phase, overrun>>
  BY DEF onState
<1>2. CASE ~runtime.active
  <2>1. runtime' = runtime
    BY <1>1, <1>2 DEF syncSession
  <2> QED  BY <1>2, <2>1, DriveElse
<1>3. CASE runtime.active
  <2> DEFINE s == syncSession(runtime, engine)
  <2>1. /\ s.stash = runtime.stash
        /\ s.gate = (OpenIn(engine) \/ s.pending # None)
        /\ ~Overtaken(runtime, engine) => s.pending = runtime.pending
    BY <1>0, <1>3, SyncInv DEF Sound, RuntimeInv
  <2>2. runtime.gate => OpenIn(engine) \/ runtime.pending # None
    BY <1>0, <1>1 DEF Sound, Waits
  <2>3. Overtaken(runtime, engine) => OpenIn(engine)
    BY <1>0 DEF Sound, Overtaken, PendingIsReady, RuntimeType
  <2> HIDE DEF s
  <2>4. runtime'.stash = runtime.stash /\ (runtime.gate => runtime'.gate)
    BY <1>1, <2>1, <2>2, <2>3 DEF s
  <2> QED  BY <1>1, <1>3, <2>4, DriveApart
<1> QED  BY <1>2, <1>3

LEMMA DriveQuestion ==
  ASSUME IInv, DriveInv,
         \/ \E l \in Line, q \in Question : PauseOnChoice(l, q) \/ PauseOnTable(l, q)
         \/ confirmTable \/ retryTrigger
  PROVE  DriveInv'
<1>1. ASSUME NEW l \in Line, NEW q \in Question, PauseOnChoice(l, q) \/ PauseOnTable(l, q)
      PROVE  DriveInv'
  <2>1. runtime'.gate /\ runtime'.stash = Command(l) /\ line' = l
    BY <1>1, Matched DEF QuizMatched
  <2>2. line' \in Spoken => runtime'.stash # None
    BY <2>1, RuntimeAssumption DEF Command
  <2> QED  BY <2>1, <2>2 DEF DriveInv, Standing, Driven
<1>2. CASE confirmTable \/ retryTrigger
  <2>1. /\ runtime'.gate /\ runtime'.stash = runtime.stash
        /\ runtime.pending # None \/ runtime.error
        /\ UNCHANGED <<debugVars, playVars, phase, rerun, overrun>>
    BY <1>2, Called DEF classVars
  <2>2. runtime.active
    BY <2>1 DEF IInv, GateInv, RuntimeInv, AtRest
  <2> QED  BY <2>1, <2>2, DriveApart
<1> QED  BY <1>1, <1>2

LEMMA DriveEnds ==
  ASSUME IInv, BarInv, DriveInv, NEW q \in Question, CloseQuestion(q)
  PROVE  DriveInv'
<1>1. UNCHANGED <<debugVars, speech, paused, pendingCmd, phase, rerun, overrun>>
  BY DEF CloseQuestion, classVars
<1>2. CASE runtime.active /\ runtime.stash = None
  <2>1. timers' = timers
    BY <1>2, Ends
  <2> QED  BY <1>1, <1>2, <2>1 DEF DriveInv, Standing, Playing, Driven, debugVars
<1>3. CASE runtime.active /\ runtime.stash # None
  <2>1. timers' # {}
    BY <1>3, Ends
  <2> QED  BY <2>1 DEF DriveInv, Driven
<1>4. CASE ~runtime.active
  <2>1. runtime' = runtime
    BY <1>4 DEF CloseQuestion, syncSession
  <2> QED  BY <1>4, <2>1, DriveElse
<1> QED  BY <1>2, <1>3, <1>4

LEMMA DriveStep == IInv /\ BarInv /\ DriveInv /\ [Next]_vars => DriveInv'
<1> SUFFICES ASSUME IInv, BarInv, DriveInv, [Next]_vars PROVE DriveInv'
  OBVIOUS
<1>1. CASE Debugger
  BY <1>1, DrivePlayback, DriveQuestion, DriveClass DEF Debugger
<1>2. CASE Classes
  <2>1. CASE StateArrives \/ RosterArrives
    BY <2>1, DriveArrival DEF StateArrives, RosterArrives, onState
  <2> QED  BY <1>2, <2>1, DriveClass DEF Classes
<1>3. CASE Teacher
  BY <1>3, DrivePlayback, DriveClass, DriveQuestion, DriveEnds DEF Teacher
<1>4. CASE Narration
  BY <1>4, DrivePlayback, DriveNarration DEF Narration
<1>5. CASE UNCHANGED vars
  BY <1>5 DEF vars, gateVars, debugVars, playVars, classVars, DriveInv, Driven, Standing, Playing
<1> QED  BY <1>1, <1>2, <1>3, <1>4, <1>5 DEF Next

\* In a class whose program was not restarted under an open question, the
\* playback never stops by itself: whatever pauses, questions, refusals and
\* buttons come between, something still carries the program on.
THEOREM PlaybackGoesOn == Spec => []NeverStalls
<1>1. Init => BarInv /\ DriveInv
  BY DEF Init, BarInv, DriveInv, Playing
<1>2. DriveInv => NeverStalls
  BY DEF DriveInv, Playing, Standing, Driven, NeverStalls, Stalled
<1> QED  BY <1>1, <1>2, Inductive, BarStep, DriveStep, PTL DEF Spec
=============================================================================
