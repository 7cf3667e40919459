------------------------------ MODULE Stepping ------------------------------
(***************************************************************************)
(* The replaying debugger of static/engine/localgdb: exec.js, the moves    *)
(* over a recorded trace and its breakpoints, with the commands of         *)
(* session.js that drive it.  A position is an index of the trace, from 1; *)
(* 0 is "before the run", one more than its length "after the exit".       *)
(* `[fast @N]` is a sequence of `next` with nothing in between, and a      *)
(* pending breakpoint is never hit: both are left out.                     *)
(***************************************************************************)
EXTENDS Naturals, Sequences, FiniteSets, FiniteSetsExt, SequencesExt

CONSTANTS Line,        \* lines with code
          FnOf,        \* the function of a line
          Main,        \* the function main
          Entry,       \* the lines a call starts in
          Closing,     \* the lines of the closing braces of functions
          Loop,        \* <<header line, last line>> of the loops
          MaxSteps,    \* bound: steps of a trace
          Length,      \* bound: numbers of steps a trace may have
          MaxDepth,    \* bound: depth of a call
          MaxBreaks,   \* bound: breakpoints set
          MaxIgnore    \* bound: ignore counts

ASSUME SteppingAssumption ==
    /\ Line \subseteq Nat
    /\ FnOf \in [Line -> Nat] /\ Main \in Nat
    /\ Entry \subseteq Line /\ Closing \subseteq Line
    /\ Loop \subseteq Line \X Line
    /\ MaxSteps \in Nat /\ Length \subseteq 0 .. MaxSteps
    /\ MaxDepth \in Nat \ {0} /\ MaxBreaks \in Nat
    /\ MaxIgnore \in Nat

VARIABLES trace,         \* the recorded steps
          model,         \* what TraceModel makes of them
          abnormal,      \* exit.reason is not "exit"
          pos, disp, landed, started, exited, signalPending, selectedLevel,
          list,          \* the breakpoints
          next,          \* the number of the next one
          stop           \* the kind of the last stop reported

program == <<trace, model, abnormal>>
at == <<pos, disp, landed>>
state == <<at, started, exited, signalPending, selectedLevel>>
breaks == <<list, next>>
vars == <<program, state, breaks, stop>>

How == {"continue", "next", "step", "finish"}
Breakpoint == [number : 1 .. MaxBreaks, line : Line, temp : BOOLEAN,
               enabled : BOOLEAN, ignore : 0 .. MaxIgnore,
               cond : SUBSET (1 .. MaxSteps)]

-----------------------------------------------------------------------------
(* The trace (model.js) and what can be recorded (vg.h, trace.js)          *)

N == Len(trace)

callerStep(t, f) ==
    LET i == Min({j \in DOMAIN t : t[j].frame = f})
        calls == {j \in 1 .. i - 1 : t[j].depth = t[i].depth - 1}
    IN  IF calls = {} THEN 0 ELSE Max(calls)

\* The step shown for each frame of the stack at step i, innermost first.
Chain(t) ==
    LET chain[i \in 0 .. Len(t)] ==
            IF i = 0 THEN << >>
            ELSE <<i>> \o chain[callerStep(t, t[i].frame)]
    IN  chain

\* What TraceModel finds out about a trace once and for all.
TraceModel(t) ==
    LET frame == {s.frame : s \in ToSet(t)}
        steps(f, upTo) == {j \in 1 .. upTo : t[j].frame = f}
    IN  [callerStep |-> [f \in frame |-> callerStep(t, f)],
         last |-> [f \in frame |-> Max(steps(f, Len(t)))],
         prevInFrame |->
             [i \in DOMAIN t |-> Max({0} \cup steps(t[i].frame, i - 1))],
         chain |-> [i \in 0 .. Len(t) |-> Chain(t)[i]]]

isLoopRevisit(i) ==
    LET p == model.prevInFrame[i]
    IN  \E loop \in Loop :
            /\ loop[1] = trace[i].line
            /\ p # 0
            /\ trace[p].line \in loop[1] + 1 .. loop[2]

\* A frame records the closing line of its function last, and is popped when
\* the destructors of its locals have run; an abort or exit() pops nothing.  So
\* what comes next is a step of a frame or of a new one on top of it, where all
\* frames above have closed.  trace.js drops a step that repeats the last one.
\* Constructors of globals, which run before main, are left out.
Recordable(t) ==
    LET stack == Chain(t)[Len(t)]
        serial == 1 + Max({s.frame : s \in ToSet(t)})
        reached == {t[stack[k]] : k \in {k \in DOMAIN stack :
                        \A m \in 1 .. k - 1 : t[stack[m]].line \in Closing}}
        goesOn == {[s EXCEPT !.line = l] : s \in {r \in reached : r.line \notin Closing},
                                           l \in Line}
        calls == [line : Entry, frame : {serial},
                  depth : (1 .. MaxDepth) \cap {s.depth + 1 : s \in reached}]
    IN  {s \in goesOn \cup calls :
             /\ s # Last(t)
             /\ s.frame = serial => FnOf[s.line] # Main
             /\ s.frame # serial =>
                    FnOf[s.line] = FnOf[(CHOOSE r \in ToSet(t) : r.frame = s.frame).line]}

Traces ==
    LET recorded[k \in 0 .. MaxSteps] ==
            IF k = 0 THEN {<< >>}
            ELSE IF k = 1
            THEN {<<[line |-> l, frame |-> 1, depth |-> 1]>> :
                      l \in {m \in Entry : FnOf[m] = Main}}
            ELSE UNION {{Append(t, s) : s \in Recordable(t)} :
                            t \in recorded[k - 1]}
    IN  UNION {recorded[k] : k \in Length}

-----------------------------------------------------------------------------
(* What a move looks at                                                    *)

running == started /\ ~exited
hasStack == running /\ pos > 0
topStep == IF landed THEN disp ELSE pos
frames == model.chain[topStep]
Depth == IF pos > 0 THEN trace[topStep].depth ELSE 0

SameLineVisit(origin, i) ==
    \E o \in ToSet(model.chain[origin]) :
        trace[o].frame = trace[i].frame /\ trace[o].line = trace[i].line

\* hitsAt: b counts step i; it stops there once its ignore count is spent.
Counts(b, i) ==
    b.enabled /\ b.line = trace[i].line /\ i \in b.cond /\ ~isLoopRevisit(i)

Counted(b, scanned) == Cardinality({i \in scanned : Counts(b, i)})

hitsAt(i, scanned) ==
    {b \in list : Counts(b, i) /\ Counted(b, scanned) >= b.ignore}

Spend(b, scanned) ==
    [b EXCEPT !.ignore = IF Counted(b, scanned) >= @ THEN 0
                         ELSE @ - Counted(b, scanned)]

\* The same, where a next goes on until its frame returns.
MutantOnlyOut(how, i) ==
    /\ how \in {"next", "step"}
    /\ pos > 0 => ~SameLineVisit(topStep, i)
    /\ how = "next" => trace[i].depth < Depth

\* next and step stop at i, if no breakpoint does.
EndsStep(how, i) ==
    /\ how \in {"next", "step"}
    /\ pos > 0 => ~SameLineVisit(topStep, i)
    /\ how = "next" => trace[i].depth <= Depth

Ends(how) == {i \in 1 .. N : EndsStep(how, i)}

-----------------------------------------------------------------------------
Init ==
    /\ trace \in Traces
    /\ model = TraceModel(trace)
    /\ abnormal \in BOOLEAN
    /\ pos = 0 /\ disp = 0 /\ landed = FALSE
    /\ started = FALSE /\ exited = FALSE /\ signalPending = FALSE
    /\ selectedLevel = 0
    /\ list = {} /\ next = 1
    /\ stop = "none"

PlaceAt(p, d, l) == pos' = p /\ disp' = d /\ landed' = l

\* _stopAt: at step i, for a breakpoint if one was hit.
StopAt(i, kind, hits, pending) ==
    /\ PlaceAt(i, i, FALSE)
    /\ selectedLevel' = 0
    /\ stop' = IF hits = {} THEN kind ELSE "breakpoint"
    /\ exited' = FALSE /\ signalPending' = pending

\* _exit: the signal of an abnormal end comes first, and changes no selection.
Exit(pending, level) ==
    /\ selectedLevel' = level
    /\ IF abnormal /\ ~pending /\ N > 0
       THEN /\ PlaceAt(N, N, FALSE)
            /\ stop' = "signal"
            /\ exited' = FALSE /\ signalPending' = TRUE
       ELSE /\ PlaceAt(N + 1, N + 1, FALSE)
            /\ stop' = "exit"
            /\ exited' = TRUE /\ signalPending' = FALSE

\* The same, where the selection stays.
MutantKeepsLevel(f) ==
    /\ PlaceAt(model.last[f], model.callerStep[f], TRUE)
    /\ selectedLevel' = selectedLevel
    /\ stop' = "finish"
    /\ exited' = FALSE /\ signalPending' = FALSE

\* _landInCaller
LandInCaller(f) ==
    /\ PlaceAt(model.last[f], model.callerStep[f], TRUE)
    /\ selectedLevel' = 0
    /\ stop' = "finish"
    /\ exited' = FALSE /\ signalPending' = FALSE

\* The breakpoints after a scan: counts are spent, and stopItems deletes the
\* temporary ones that are reported.
Reported(hits, scanned) ==
    list' = {Spend(b, scanned) : b \in {x \in list : x \in hits => ~x.temp}}

\* Steps are looked at in order: a breakpoint that is hit comes before a move
\* that ends there.  Without either the move ends as Otherwise says.
ScanUp(from, to, ends, Otherwise) ==
    LET hits(i) == hitsAt(i, from .. i - 1)
        stops == {i \in from .. to : hits(i) # {} \/ i \in ends}
    IN  IF stops = {}
        THEN Otherwise /\ Reported({}, from .. to)
        ELSE LET i == Min(stops)
             IN  StopAt(i, "step", hits(i), FALSE) /\ Reported(hits(i), from .. i)

ScanDown(from, ends, Otherwise) ==
    LET hits(i) == hitsAt(i, i + 1 .. from)
        stops == {i \in 1 .. from : hits(i) # {} \/ i \in ends}
    IN  IF stops = {}
        THEN Otherwise /\ Reported({}, 1 .. from)
        ELSE LET i == Max(stops)
             IN  /\ StopAt(i, "step", hits(i), signalPending)
                 /\ Reported(hits(i), i .. from)

-----------------------------------------------------------------------------
(* The commands; one that is refused changes nothing                       *)

Run ==
    /\ started' = TRUE
    /\ ScanUp(1, N, {}, Exit(FALSE, 0))
    /\ UNCHANGED <<program, next>>

\* The same, where the innermost frame is finished whichever is selected.
MutantInnermost ==
    LET f == trace[topStep].frame
    IN  /\ pos > 0 /\ Depth > 1
        /\ ScanUp(pos + 1, model.last[f], {},
                  IF model.last[f] >= N /\ abnormal
                  THEN Exit(FALSE, selectedLevel) ELSE LandInCaller(f))

\* The same, where nothing in the frame stops it.
MutantRunsOut ==
    LET shown == frames[Min({selectedLevel + 1, Len(frames)})]
        f == trace[shown].frame
    IN  /\ pos > 0 /\ trace[shown].depth > 1
        /\ ScanUp(pos + 1, pos, {},
                  IF model.last[f] >= N /\ abnormal
                  THEN Exit(FALSE, selectedLevel) ELSE LandInCaller(f))

Finish ==
    LET shown == frames[Min({selectedLevel + 1, Len(frames)})]
        f == trace[shown].frame
    IN  /\ pos > 0 /\ trace[shown].depth > 1
        /\ ScanUp(pos + 1, model.last[f], {},
                  IF model.last[f] >= N /\ abnormal
                  THEN Exit(FALSE, selectedLevel) ELSE LandInCaller(f))

\* The same, where the scan begins at the step that is shown.
MutantStaysHere(how) ==
    /\ running
    /\ IF signalPending THEN Exit(TRUE, selectedLevel) /\ UNCHANGED list
       ELSE IF how = "finish" THEN Finish
       ELSE ScanUp(topStep, N, Ends(how), Exit(FALSE, selectedLevel))
    /\ UNCHANGED <<program, started, next>>

Forward(how) ==
    /\ running
    /\ IF signalPending THEN Exit(TRUE, selectedLevel) /\ UNCHANGED list
       ELSE IF how = "finish" THEN Finish
       ELSE ScanUp(pos + 1, N, Ends(how), Exit(FALSE, selectedLevel))
    /\ UNCHANGED <<program, started, next>>

Backward(how) ==
    /\ hasStack
    /\ IF how = "finish"
       THEN /\ Depth > 1
            /\ StopAt(model.callerStep[trace[topStep].frame], "step", {},
                      signalPending)
            /\ UNCHANGED list
       ELSE ScanDown(topStep - 1, Ends(how),
                     StopAt(1, "no-history", {}, signalPending))
    /\ UNCHANGED <<program, started, next>>

vgSeekStep(i) ==
    /\ running
    /\ StopAt(i, "step", {}, FALSE)
    /\ UNCHANGED <<program, started, breaks>>

kill ==
    /\ running
    /\ PlaceAt(0, 0, FALSE)
    /\ started' = FALSE /\ exited' = FALSE /\ signalPending' = FALSE
    /\ selectedLevel' = 0
    /\ stop' = "none"
    /\ UNCHANGED <<program, breaks>>

stackSelectFrame(level) ==
    /\ hasStack
    /\ level < Len(frames)
    /\ selectedLevel' = level
    /\ UNCHANGED <<program, at, started, exited, signalPending, breaks, stop>>

\* resolveLine: a line without code is moved to the next line with code.
breakInsert(line, temp, ignore, cond) ==
    /\ next <= MaxBreaks
    /\ list' = list \cup {[number |-> next, line |-> line, temp |-> temp,
                           enabled |-> TRUE, ignore |-> ignore, cond |-> cond]}
    /\ next' = next + 1
    /\ UNCHANGED <<program, state, stop>>

\* Replaces the breakpoint b, or removes it.
breakChange(b, instead) ==
    /\ list' = (list \ {b}) \cup instead
    /\ UNCHANGED <<program, state, next, stop>>

breakDelete(b) == breakChange(b, {})
breakEnable(b) == breakChange(b, {[b EXCEPT !.enabled = TRUE]})
breakDisable(b) == breakChange(b, {[b EXCEPT !.enabled = FALSE]})
breakCondition(b, cond) == breakChange(b, {[b EXCEPT !.cond = cond]})

\* What the conditions can tell apart: no condition, or one that holds at the
\* odd steps.
Conditions == {1 .. N, {i \in 1 .. N : i % 2 = 1}}

Next ==
    \/ Run
    \/ \E how \in How : Forward(how) \/ Backward(how)
    \/ \E i \in 1 .. N : vgSeekStep(i)
    \/ kill
    \/ \E level \in 0 .. MaxDepth - 1 : stackSelectFrame(level)
    \/ \E s \in ToSet(trace), temp \in BOOLEAN, ignore \in 0 .. MaxIgnore,
          cond \in Conditions : breakInsert(s.line, temp, ignore, cond)
    \/ \E b \in list : \/ breakDelete(b) \/ breakEnable(b) \/ breakDisable(b)
                       \/ \E cond \in Conditions : breakCondition(b, cond)

Spec == Init /\ [][Next]_vars

-----------------------------------------------------------------------------
(* Properties                                                              *)

\* Type invariant: the program is on the trace exactly while it runs, a step is
\* shown that is not the one that runs exactly after a finish, and a signal is
\* pending in a program that is still there.
TypeOK ==
    /\ pos \in 0 .. N + 1 /\ disp \in 0 .. N + 1
    /\ landed \in BOOLEAN /\ started \in BOOLEAN /\ exited \in BOOLEAN
    /\ signalPending \in BOOLEAN /\ selectedLevel \in 0 .. MaxDepth - 1
    /\ list \subseteq Breakpoint /\ next \in 1 .. MaxBreaks + 1
    /\ \A b, c \in list : b.number = c.number => b = c
    /\ stop \in {"none", "breakpoint", "step", "finish", "no-history",
                 "signal", "exit"}
    /\ running <=> pos \in 1 .. N
    /\ landed <=> disp # pos
    /\ signalPending => abnormal /\ running

\* A frame that is selected is on the stack that is shown, except after a
\* signal: every other stop selects the innermost frame again, however deep
\* the stack was when a frame was selected.
SelectionIsOnStack ==
    hasStack /\ stop # "signal" => selectedLevel < Len(frames)

\* A breakpoint is not passed: no move of the program's position goes over a
\* step that a breakpoint counts once its ignore count is spent, and a move that
\* ends on one says so, whatever the lines a step is not to stop on.  Excepted,
\* see README 6, are a forward move with a signal pending, which is the exit at
\* once; the reverse finish, which goes straight to the call; and, in a reverse
\* move right after a finish, which begins before the call that is shown, the
\* steps from that call to the end of the frame that was finished.
Passed(way, before(_)) ==
    \E b \in list, i \in way :
        /\ stop' = "breakpoint" => i # pos'
        /\ Counts(b, i)
        /\ Counted(b, before(i)) >= b.ignore

Skipped == IF landed THEN disp .. pos ELSE {pos}

NoBreakpointIsPassed ==
    [][LET Earlier(i) == pos + 1 .. i - 1
           Later(i) == (i + 1 .. pos) \ Skipped
       IN  /\ ~signalPending /\ Passed(pos + 1 .. Min({N, pos'}), Earlier) =>
                  ~\E how \in How : Forward(how)
           /\ hasStack /\ pos' > 0 /\ Passed((pos' .. pos) \ Skipped, Later) =>
                  ~\E how \in How \ {"finish"} : Backward(how)]_vars

\* Every move goes somewhere: a forward one goes on, leaves a frame for its
\* caller, or reports the signal and then the exit; a backward one goes back,
\* until it is at the first step and says so.  Excepted is the finish of a
\* frame whose last own step is behind the program.
GoesOn ==
    \/ pos' > pos
    \/ pos' = pos /\ landed' /\ trace[disp'].depth < Depth
    \/ stop' \in {"signal", "exit"} /\ stop' # stop
    \/ stop' = "finish" /\ pos' < pos

GoesBack == pos' < topStep \/ (topStep = 1 /\ stop' = "no-history")

EveryMoveMoves ==
    [][/\ ~GoesOn => ~\E how \in How : Forward(how)
       /\ ~GoesBack => ~\E how \in How : Backward(how)]_vars

\* A finish takes the selected frame and all below it off the stack, and
\* nothing of that frame is left to run.
FinishUnwinds ==
    [][stop' = "finish" /\ Forward("finish") =>
           LET level == Min({selectedLevel, Len(frames) - 1})
           IN  /\ frames' = SubSeq(frames, level + 2, Len(frames))
               /\ \A i \in pos' + 1 .. N :
                      trace[i].frame # trace[frames[level + 1]].frame]_vars

\* A frame that was finished is not entered again, nor is one it had called.
FinishedIsLeft ==
    [][stop' = "finish" /\ Forward("finish") =>
           \A i \in pos' + 1 .. N, j \in ToSet(frames) \ ToSet(frames') :
               trace[i].frame # trace[j].frame]_vars

\* A next, in either direction, stays in its frame as long as that frame has
\* another line to run there, whatever is called and called again in between,
\* unless a breakpoint is hit.
NextKeepsFrame ==
    [][LET here == trace[topStep]
           another(i) == trace[i].frame = here.frame /\ trace[i].line # here.line
           kept == stop' = "breakpoint"
                      \/ (stop' = "step" /\ trace[pos'].frame = here.frame)
       IN  hasStack /\ ~kept =>
               /\ ~signalPending /\ (\E i \in pos + 1 .. N : another(i)) =>
                      ~Forward("next")
               /\ (\E i \in 1 .. topStep - 1 : another(i)) => ~Backward("next")]_vars
=============================================================================
