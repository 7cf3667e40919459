-------------------------- MODULE EngineTab_proofs --------------------------
(***************************************************************************)
(* Theorems about EngineTab, for any number of Runs, signals and failures: *)
(* the session that answers the debugger is the one that its page was told *)
(* of, and a Run is never left on an engine that was given up.             *)
(***************************************************************************)
EXTENDS EngineTab, TLAPS

Told == {"none", "success", "error", "superseded", "interrupted"}

EngineType ==
    [load : {"none", "loading", "ready", "failed", "stuck"},
     ready : {"pending", "resolved", "rejected", "stuck"},
     pipe : {"live", "null"}, queue : Seq(Run), stage : Stages,
     stray : BOOLEAN, end : {"kept", "to dispose", "disposed"}]

RunType == [gen : Nat, on : Id \cup {0}, told : Told]

\* The calls: one after the other, each with a newer generation.  No Run has been
\* told anything, or been given an engine, before it is called.
Calls(u, g) ==
    /\ u \in [Run -> RunType] /\ g \in Nat
    /\ \E n \in 0 .. MaxRuns : \A r \in Run : (r <= n) = (u[r].gen # 0)
    /\ \A r, s \in Run : r < s /\ u[s].gen # 0 => u[r].gen < u[s].gen
    /\ \A r \in Run : u[r].gen <= g
    /\ \A r \in Run : u[r].gen = 0 => u[r].told = "none" /\ u[r].on = 0

\* The queue of engine e, whose record is x: Runs of this engine in the order in
\* which they were called.  The one that is current has not been answered.
QueueIn(e, x, u, g) ==
    /\ \A i \in DOMAIN x.queue :
          LET r == x.queue[i]
          IN  u[r].gen # 0 /\ u[r].on = e /\ (u[r].gen = g => u[r].told = "none")
    /\ \A i, j \in DOMAIN x.queue : i < j => x.queue[i] < x.queue[j]
    /\ x.load # "ready" => x.queue = << >>
    /\ x.stage = "idle" <=> x.queue = << >>

Types ==
    /\ modules \in {"loading", "ready", "failed"}
    /\ socket \in {"opening", "up", "closed"}
    /\ session \in Run \cup {0} /\ promise \in Id \cup {0}
    /\ inFlight \in BOOLEAN
    /\ engine \in [Id -> EngineType]

\* The queues of the engines.
Queues == \A e \in Id : QueueIn(e, engine[e], run, generation)

\* An engine is loaded for the Run of its name.  The one that is kept for the
\* next Run has not been given up.
EnginesKept ==
    /\ \A r \in Run : run[r].on = 0 => engine[r].load = "none"
    /\ \A e \in Id : engine[e].load = "none" =>
                        engine[e].end = "kept" /\ ~engine[e].stray
    /\ promise # 0 => engine[promise].load # "none" /\ engine[promise].end = "kept"

\* There is no engine before there are modules.
NoneYet == modules # "ready" => \A r \in Run : run[r].on = 0

\* The Run in flight is the current one, on an engine that is kept.
Flying ==
    inFlight => \E r \in Run :
        /\ run[r].gen # 0 /\ run[r].gen = generation
        /\ run[r].on # 0 => engine[run[r].on].end = "kept"

IInv == /\ Types /\ Calls(run, generation) /\ Queues /\ EnginesKept /\ NoneYet
        /\ Flying /\ SessionIsReported

-----------------------------------------------------------------------------
(* An engine                                                               *)

\* A request for the head of a queue is under way, or it throws and the queue is
\* empty.
LEMMA Requests ==
  ASSUME NEW x \in EngineType, x.queue # << >>, NEW stage \in {"compile", "decode"}
  PROVE  LET y == Request(x, stage)
         IN  /\ y \in EngineType /\ y.load = x.load /\ y.end = x.end
             /\ \/ y.queue = x.queue /\ y.stage # "idle"
                \/ y.queue = << >> /\ y.stage = "idle"
<1>1. CASE Throws(x)
  <2>1. Request(x, stage) = [x EXCEPT !.queue = << >>, !.stage = "idle",
                                      !.stray = x.stray \/ x.ready = "resolved"]
    BY <1>1 DEF Request
  <2>2. (x.stray \/ x.ready = "resolved") \in BOOLEAN
    OBVIOUS
  <2>3. << >> \in Seq(Run) /\ "idle" \in Stages
    BY DEF Stages
  <2> QED  BY <2>1, <2>2, <2>3 DEF EngineType
<1>2. CASE ~Throws(x)
  <2> DEFINE s == IF x.ready = "resolved" THEN stage
                  ELSE IF stage = "compile" THEN "await compile" ELSE "await decode"
  <2>1. Request(x, stage) = [x EXCEPT !.stage = s]
    BY <1>2 DEF Request
  <2>2. s \in Stages /\ s # "idle"
    BY DEF Stages
  <2> HIDE DEF s
  <2> QED  BY <2>1, <2>2 DEF EngineType
<1> QED  BY <1>1, <1>2

LEMMA Requeues ==
  ASSUME NEW x \in EngineType, NEW q \in Seq(Run)
  PROVE  LET y == [x EXCEPT !.queue = q]
         IN  y \in EngineType /\ y.load = x.load /\ y.end = x.end /\ y.queue = q
             /\ y.stage = x.stage
BY DEF EngineType

\* An engine has a stage as long as it has a Run.
Idle(x) == x.stage = "idle" <=> x.queue = << >>

LEMMA Runs ==
  ASSUME NEW x \in EngineType, NEW r \in Run, Idle(x)
  PROVE  LET y == runProgram(x, r)
         IN  /\ y \in EngineType /\ y.load = x.load /\ y.end = x.end /\ Idle(y)
             /\ \/ y.queue = Append(x.queue, r)
                \/ y.queue = << >> /\ x.queue = << >>
<1>1. x.queue \in Seq(Run)
  BY DEF EngineType
<1>2. CASE x.queue = << >>
  <2> DEFINE z == [x EXCEPT !.queue = <<r>>]
  <2>1. <<r>> \in Seq(Run) /\ <<r>> # << >> /\ <<r>> = Append(x.queue, r)
    BY <1>2
  <2>2. z \in EngineType /\ z.load = x.load /\ z.end = x.end /\ z.queue = <<r>>
    BY <2>1, Requeues
  <2>3. runProgram(x, r) = Request(z, "compile")
    BY <1>2 DEF runProgram
  <2> HIDE DEF z
  <2>4. z.queue # << >>
    BY <2>1, <2>2
  <2> DEFINE y == Request(z, "compile")
  <2>5. /\ y \in EngineType /\ y.load = z.load /\ y.end = z.end
        /\ \/ y.queue = z.queue /\ y.stage # "idle"
           \/ y.queue = << >> /\ y.stage = "idle"
    BY <2>2, <2>4, Requests
  <2>6. runProgram(x, r) = y
    BY <2>3
  <2> HIDE DEF y
  <2> QED  BY <1>2, <2>1, <2>2, <2>4, <2>5, <2>6 DEF Idle
<1>3. CASE x.queue # << >>
  <2>1. Append(x.queue, r) \in Seq(Run) /\ Append(x.queue, r) # << >>
    BY <1>1
  <2>2. runProgram(x, r) = [x EXCEPT !.queue = Append(x.queue, r)]
    BY <1>3 DEF runProgram
  <2> DEFINE y == [x EXCEPT !.queue = Append(x.queue, r)]
  <2>3. /\ y \in EngineType /\ y.load = x.load /\ y.end = x.end
        /\ y.queue = Append(x.queue, r) /\ y.stage = x.stage
    BY <2>1, Requeues
  <2>4. runProgram(x, r) = y
    BY <2>2
  <2> HIDE DEF y
  <2> QED  BY <1>3, <2>1, <2>3, <2>4 DEF Idle
<1> QED  BY <1>2, <1>3

\* What is left of a queue when the Run at its head is over.
Advanced(x, y) ==
    /\ y \in EngineType /\ y.load = x.load /\ y.end = x.end /\ Idle(y)
    /\ y.queue \in {Tail(x.queue), << >>}

LEMMA Advances ==
  ASSUME NEW x \in EngineType, x.queue # << >>
  PROVE  Advanced(x, NextRun(x))
<1>0. x.queue \in Seq(Run)
  BY DEF EngineType
<1>1. Tail(x.queue) \in Seq(Run)
  BY <1>0
<1>2. CASE Tail(x.queue) = << >>
  <2>1. NextRun(x) = [x EXCEPT !.queue = << >>, !.stage = "idle"]
    BY <1>2 DEF NextRun
  <2>2. << >> \in Seq(Run) /\ "idle" \in Stages
    BY DEF Stages
  <2> QED  BY <2>1, <2>2 DEF Advanced, Idle, EngineType
<1>3. CASE Tail(x.queue) # << >>
  <2> DEFINE z == [x EXCEPT !.queue = Tail(x.queue)]
  <2>1. /\ z \in EngineType /\ z.load = x.load /\ z.end = x.end
        /\ z.queue = Tail(x.queue)
    BY <1>1, Requeues
  <2>2. NextRun(x) = Request(z, "compile")
    BY <1>3 DEF NextRun
  <2> HIDE DEF z
  <2> QED  BY ZenonT(40), <1>3, <2>1, <2>2, Requests DEF Advanced, Idle
<1> QED  BY <1>2, <1>3

LEMMA Respawns ==
  ASSUME NEW x \in EngineType
  PROVE  LET y == respawn(x)
         IN  /\ y \in EngineType /\ y.load = x.load /\ y.end = x.end
             /\ y.queue = x.queue /\ y.stage = x.stage
BY DEF respawn, EngineType

LEMMA Resumes ==
  ASSUME NEW x \in EngineType, Idle(x), NEW ready \in {"resolved", "rejected"}
  PROVE  LET y == Resumed([x EXCEPT !.ready = ready])
         IN  /\ y \in EngineType /\ y.load = x.load /\ y.end = x.end /\ Idle(y)
             /\ y.queue \in {x.queue, << >>}
<1> DEFINE z == [x EXCEPT !.ready = ready]
<1>1. /\ z \in EngineType /\ z.load = x.load /\ z.end = x.end
      /\ z.queue = x.queue /\ z.stage = x.stage
  BY DEF EngineType
<1> HIDE DEF z
<1>2. CASE z.stage = "await compile"
  <2>1. z.queue # << >> /\ Resumed(z) = Request(z, "compile")
    BY <1>1, <1>2 DEF Resumed, Idle
  <2> QED  BY ZenonT(40), <1>1, <2>1, Requests DEF z, Idle
<1>3. CASE z.stage = "await decode"
  <2>1. z.queue # << >> /\ Resumed(z) = Request(z, "decode")
    BY <1>1, <1>3 DEF Resumed, Idle
  <2> QED  BY ZenonT(40), <1>1, <2>1, Requests DEF z, Idle
<1>4. CASE z.stage \notin {"await compile", "await decode"}
  <2>1. Resumed(z) = z
    BY <1>4 DEF Resumed
  <2> QED  BY <1>1, <2>1 DEF z, Idle
<1> QED  BY <1>2, <1>3, <1>4

-----------------------------------------------------------------------------
(* The queues                                                              *)

\* y: r is behind what x has to do, or all of it has failed.
Longer(x, y, r) ==
    Idle(y) /\ y.load = "ready" /\ y.queue \in {Append(x.queue, r), << >>}

\* A queue that grows by a newer Run, or is lost.
LEMMA QueueGrows ==
  ASSUME NEW e, NEW x \in EngineType, NEW y \in EngineType, NEW u, NEW g, NEW v, NEW h,
         NEW r \in Run, QueueIn(e, x, u, g), Longer(x, y, r),
         \A i \in DOMAIN x.queue :
             LET s == x.queue[i]
             IN  /\ s < r /\ v[s].gen # 0 /\ v[s].on = e
                 /\ v[s].gen = h => v[s].told = "none",
         y.queue # << >> => v[r].gen # 0 /\ v[r].on = e /\ v[r].told = "none"
  PROVE  QueueIn(e, y, v, h)
<1>1. x.queue \in Seq(Run) /\ y.queue \in Seq(Run)
  BY DEF EngineType
<1>2. CASE y.queue = << >>
  BY <1>2 DEF QueueIn, Idle, Longer
<1>3. CASE y.queue = Append(x.queue, r) /\ y.queue # << >>
  <2>1. /\ DOMAIN x.queue = 1 .. Len(x.queue) /\ Len(x.queue) \in Nat
        /\ DOMAIN y.queue = 1 .. Len(x.queue) + 1
        /\ \A i \in DOMAIN x.queue : y.queue[i] = x.queue[i]
        /\ y.queue[Len(x.queue) + 1] = r
    BY <1>1, <1>3
  <2>2. \A i \in DOMAIN y.queue : i \in DOMAIN x.queue \/ i = Len(x.queue) + 1
    BY <2>1
  <2>3. \A i \in DOMAIN y.queue :
            LET s == y.queue[i]
            IN  v[s].gen # 0 /\ v[s].on = e /\ (v[s].gen = h => v[s].told = "none")
    BY <1>3, <2>1, <2>2
  <2>4. \A i, j \in DOMAIN y.queue : i < j => y.queue[i] < y.queue[j]
    <3> SUFFICES ASSUME NEW i \in DOMAIN y.queue, NEW j \in DOMAIN y.queue, i < j
                 PROVE  y.queue[i] < y.queue[j]
      OBVIOUS
    <3>1. i \in DOMAIN x.queue
      BY <2>1
    <3>2. CASE j \in DOMAIN x.queue
      BY <2>1, <3>1, <3>2 DEF QueueIn
    <3>3. CASE j = Len(x.queue) + 1
      BY <2>1, <3>1, <3>3
    <3> QED  BY <2>2, <3>2, <3>3
  <2> QED  BY <2>3, <2>4 DEF QueueIn, Idle, Longer
<1> QED  BY <1>2, <1>3 DEF Longer

\* A queue that is advanced: the Run at its head is in it no more.
LEMMA QueueAdvances ==
  ASSUME NEW e, NEW x \in EngineType, NEW y, NEW u, NEW g, QueueIn(e, x, u, g),
         x.queue # << >>, Advanced(x, y), NEW v,
         \A r \in Range(y.queue) : v[r] = u[r]
  PROVE  /\ QueueIn(e, y, v, g)
         /\ Head(x.queue) \in Range(x.queue) \ Range(y.queue)
<1>1. x.queue \in Seq(Run) /\ x.load = "ready"
  BY DEF EngineType, QueueIn
<1>2. /\ DOMAIN x.queue = 1 .. Len(x.queue) /\ Len(x.queue) \in Nat \ {0}
      /\ Head(x.queue) = x.queue[1] /\ 1 \in DOMAIN x.queue
  BY <1>1
<1>3. Head(x.queue) \in Range(x.queue)
  BY <1>2 DEF Range
<1>4. CASE y.queue = << >>
  BY <1>3, <1>4 DEF QueueIn, Advanced, Idle, Range
<1>5. CASE y.queue = Tail(x.queue)
  <2>1. /\ DOMAIN y.queue = 1 .. Len(x.queue) - 1
        /\ \A i \in DOMAIN y.queue :
              y.queue[i] = x.queue[i + 1] /\ i + 1 \in DOMAIN x.queue /\ i \in Nat /\ 1 < i + 1
    BY <1>1, <1>2, <1>5
  <2>2. \A i \in DOMAIN y.queue : v[y.queue[i]] = u[y.queue[i]]
    BY DEF Range
  <2>3. \A i \in DOMAIN y.queue :
            LET s == y.queue[i]
            IN  v[s].gen # 0 /\ v[s].on = e /\ (v[s].gen = g => v[s].told = "none")
    BY <2>1, <2>2 DEF QueueIn
  <2>4. \A i, j \in DOMAIN y.queue : i < j => y.queue[i] < y.queue[j]
    <3> SUFFICES ASSUME NEW i \in DOMAIN y.queue, NEW j \in DOMAIN y.queue, i < j
                 PROVE  y.queue[i] < y.queue[j]
      OBVIOUS
    <3>1. i + 1 < j + 1
      BY <2>1
    <3> QED  BY <2>1, <3>1 DEF QueueIn
  <2>5. \A i \in DOMAIN y.queue : x.queue[1] < y.queue[i]
    BY <1>2, <2>1 DEF QueueIn
  <2>6. x.queue[1] \in Nat
    BY <1>1, <1>2, TabAssumption DEF Run
  <2>7. Head(x.queue) \notin Range(y.queue)
    BY <1>2, <2>5, <2>6 DEF Range
  <2> QED  BY <1>1, <1>3, <2>3, <2>4, <2>7 DEF QueueIn, Advanced, Idle
<1> QED  BY <1>4, <1>5 DEF Advanced

\* A queue that stays as it is, or is lost.
LEMMA QueueStays ==
  ASSUME NEW e, NEW x, NEW y, NEW u, NEW g, QueueIn(e, x, u, g),
         Idle(y), y.queue \in {x.queue, << >>}, y.load = x.load \/ y.load = "ready",
         NEW v, \A r \in Range(x.queue) : v[r] = u[r]
  PROVE  QueueIn(e, y, v, g)
<1>1. CASE y.queue = << >>
  BY <1>1 DEF QueueIn, Idle
<1>2. CASE y.queue = x.queue
  <2>1. \A i \in DOMAIN x.queue : v[x.queue[i]] = u[x.queue[i]]
    BY DEF Range
  <2> QED  BY <1>2, <2>1 DEF QueueIn, Idle
<1> QED  BY <1>1, <1>2

-----------------------------------------------------------------------------
(* The Runs                                                                *)

\* Only the answers of the Runs in D change, and those that are answered keep
\* their answer.  A Run that is told of success now is the current one.
Answered(D, bodies) ==
    /\ run' \in [Run -> RunType] /\ inFlight' \in BOOLEAN
    /\ inFlight' => inFlight
    /\ \A r \in Run :
          /\ run'[r].gen = run[r].gen /\ run'[r].on = run[r].on
          /\ r \notin D => run'[r] = run[r]
          /\ run[r].told # "none" => run'[r].told = run[r].told
          /\ run[r].told = "none" /\ r \in D =>
                run'[r].told = IF Current(r) THEN bodies[r] ELSE "superseded"

LEMMA Settles ==
  ASSUME IInv, NEW bodies, DOMAIN bodies \subseteq Run,
         \A r \in DOMAIN bodies : bodies[r] \in {"success", "error"},
         Settle(bodies)
  PROVE  Answered(DOMAIN bodies, bodies)
<1> DEFINE D == DOMAIN bodies
           S == {r \in D : run[r].told = "none"}
           body(r) == IF Current(r) THEN bodies[r] ELSE "superseded"
<1>1. /\ run' = [r \in Run |-> IF r \notin S THEN run[r]
                               ELSE [run[r] EXCEPT !.told = body(r)]]
      /\ inFlight' = (inFlight /\ \A r \in S : ~Current(r))
  BY DEF Settle
<1>2. run \in [Run -> RunType] /\ inFlight \in BOOLEAN
  BY DEF IInv, Types, Calls
<1>3. \A r \in D : body(r) \in Told
  BY DEF Told
<1>4. \A r \in Run : run[r] \in RunType
  BY <1>2
<1>5. \A r \in Run :
        /\ run'[r] \in RunType
        /\ run'[r].gen = run[r].gen /\ run'[r].on = run[r].on
        /\ r \notin S => run'[r] = run[r]
        /\ r \in S => run'[r].told = body(r)
  <2> SUFFICES ASSUME NEW r \in Run
               PROVE  /\ run'[r] \in RunType
                      /\ run'[r].gen = run[r].gen /\ run'[r].on = run[r].on
                      /\ r \notin S => run'[r] = run[r]
                      /\ r \in S => run'[r].told = body(r)
    OBVIOUS
  <2>1. CASE r \notin S
    BY <1>1, <1>4, <2>1
  <2>2. CASE r \in S
    <3>1. run'[r] = [run[r] EXCEPT !.told = body(r)]
      BY <1>1, <2>2
    <3>2. body(r) \in Told
      BY <1>3, <2>2
    <3> HIDE DEF body, S
    <3> QED  BY <1>4, <2>2, <3>1, <3>2 DEF RunType
  <2> QED  BY <2>1, <2>2
<1>6. run' \in [Run -> RunType]
  BY <1>1, <1>5
<1>7. inFlight' \in BOOLEAN /\ (inFlight' => inFlight)
  BY <1>1, <1>2
<1>8. \A r \in Run :
          /\ r \notin D => run'[r] = run[r]
          /\ run[r].told # "none" => run'[r].told = run[r].told
          /\ run[r].told = "none" /\ r \in D => run'[r].told = body(r)
  BY <1>5
<1> QED  BY <1>5, <1>6, <1>7, <1>8 DEF Answered

\* No session is left behind by Runs that fail.
LEMMA FailuresKeepSession ==
  ASSUME IInv, NEW D, NEW bodies, Answered(D, bodies),
         \A r \in D : bodies[r] = "error", session' = session,
         socket' = socket \/ socket = "opening"
  PROVE  SessionIsReported'
<1>1. \A r \in Run : run'[r].told = "success" => run[r].told = "success"
  BY DEF Answered
<1>2. session # 0 => run'[session].told = "success"
  BY DEF IInv, Types, Answered, SessionIsReported
<1>3. session # 0 => socket = "up"
  BY DEF IInv, SessionIsReported
<1> QED  BY <1>1, <1>2, <1>3 DEF IInv, SessionIsReported

\* Engine e becomes y, and Runs that have it are answered.
LEMMA Moves ==
  ASSUME IInv, NEW e \in Id, NEW y \in EngineType,
         engine' = [engine EXCEPT ![e] = y],
         engine[e].load # "none", y.load # "none",
         engine[e].end = "kept" => y.end = "kept",
         NEW D, NEW bodies, Answered(D, bodies), \A r \in D : run[r].on = e,
         QueueIn(e, y, run', generation),
         generation' = generation, modules' = modules,
         promise' \in {promise, 0},
         session' \in Run \cup {0}, socket' \in {"opening", "up", "closed"},
         SessionIsReported'
  PROVE  IInv'
<1>1. Types'
  BY DEF IInv, Types, Answered
<1>2. \A r \in Run : run[r].gen = 0 => r \notin D
  BY TabAssumption DEF IInv, Calls, Id, Run
<1>3. Calls(run, generation)'
  BY <1>2 DEF IInv, Calls, Answered
<1>4. Queues'
  <2> SUFFICES ASSUME NEW f \in Id  PROVE  QueueIn(f, engine'[f], run', generation')
    BY DEF Queues
  <2>1. CASE f = e
    BY <2>1 DEF IInv, Types
  <2>2. CASE f # e
    <3>1. engine'[f] = engine[f] /\ QueueIn(f, engine[f], run, generation)
      BY <2>2 DEF IInv, Types, Queues
    <3>2. engine[f].queue \in Seq(Run)
      BY DEF IInv, Types, EngineType
    <3>3. \A i \in DOMAIN engine[f].queue :
             run'[engine[f].queue[i]] = run[engine[f].queue[i]]
      BY <2>2, <3>1, <3>2 DEF QueueIn, Answered
    <3> QED  BY <3>1, <3>3 DEF QueueIn
  <2> QED  BY <2>1, <2>2
<1>5. EnginesKept'
  BY DEF IInv, Types, EnginesKept, Answered, Id
<1>6. NoneYet'
  BY DEF IInv, NoneYet, Answered
<1>7. Flying'
  <2> SUFFICES ASSUME inFlight'  PROVE Flying'
    BY DEF Flying
  <2>1. PICK r \in Run : /\ run[r].gen # 0 /\ run[r].gen = generation
                         /\ run[r].on # 0 => engine[run[r].on].end = "kept"
    BY DEF IInv, Flying, Answered
  <2>2. run[r].on # 0 => run[r].on \in Id
    BY DEF IInv, Calls, RunType
  <2>3. run'[r].on # 0 => engine'[run'[r].on].end = "kept"
    BY <2>1, <2>2 DEF IInv, Types, Answered
  <2> QED  BY <2>1, <2>3 DEF Flying, Answered
<1> QED  BY <1>1, <1>3, <1>4, <1>5, <1>6, <1>7 DEF IInv

-----------------------------------------------------------------------------
(* The events of an engine                                                 *)

\* What the Runs are told that leave queue q when p is left of it.
Bodies(q, p, body) ==
    [r \in Range(q) \ Range(p) |-> IF r = Head(q) THEN body ELSE "error"]

\* x has the Runs of z to do.
Busy(x, z) ==
    /\ x \in EngineType /\ Idle(x) /\ x.queue # << >>
    /\ x.queue = z.queue /\ x.load = z.load /\ x.end = z.end

\* The Run at the head of a queue is over, and so may the others be.
HeadIsOver(e, y, body) ==
    LET q == engine[e].queue
        D == Range(q) \ Range(y.queue)
    IN  /\ engine' = [engine EXCEPT ![e] = y] /\ y \in EngineType
        /\ engine[e].load # "none" /\ y.load # "none" /\ y.end = engine[e].end
        /\ Answered(D, Bodies(q, y.queue, body))
        /\ \A r \in D : run[r].on = e /\ run[r].gen # 0
        /\ QueueIn(e, y, run', generation)
        /\ Head(q) \in D /\ Head(q) \in Run
        /\ Current(Head(q)) => run[Head(q)].told = "none"

\* What an event has to do for the head of a queue to be over.
LEMMA Over ==
  ASSUME IInv, NEW e \in Id, NEW x, NEW y, NEW body,
         Busy(x, engine[e]), Advanced(x, y),
         body \in {"success", "error"}, Becomes(e, y, body)
  PROVE  HeadIsOver(e, y, body)
<1> DEFINE q == engine[e].queue
           D == Range(q) \ Range(y.queue)
           bodies == Bodies(q, y.queue, body)
<1>1. engine' = [engine EXCEPT ![e] = y] /\ Settle(bodies)
  BY DEF Becomes, Bodies
<1>2. engine[e] \in EngineType /\ QueueIn(e, engine[e], run, generation)
  BY DEF IInv, Types, Queues
<1>3. q \in Seq(Run) /\ q # << >> /\ engine[e].load = "ready"
  BY <1>2 DEF EngineType, QueueIn, Busy
<1>4. QueueIn(e, x, run, generation)
  BY <1>2 DEF QueueIn, Idle, Busy
<1>5. y \in EngineType /\ y.load = "ready" /\ y.end = engine[e].end
  BY <1>3 DEF Advanced, Busy
<1>6. \A r \in Range(q) : r \in Run /\ run[r].on = e /\ run[r].gen # 0
  BY <1>2, <1>3 DEF QueueIn, Range
<1>7. DOMAIN bodies = D /\ D \subseteq Run
      /\ \A r \in D : bodies[r] \in {"success", "error"}
  BY <1>6 DEF Bodies
<1>8. Answered(D, bodies)
  BY <1>1, <1>7, Settles
<1>9. \A r \in Run : r \notin D => run'[r] = run[r]
  BY <1>8 DEF Answered
<1>10. \A r \in Range(y.queue) : r \in Run
  <2>1. y.queue \in Seq(Run)
    BY <1>5 DEF EngineType
  <2> QED  BY <2>1 DEF Range
<1>11. \A r \in Range(y.queue) : run'[r] = run[r]
  BY <1>9, <1>10
<1>12. QueueIn(e, y, run', generation) /\ Head(q) \in D
  BY <1>4, <1>11, QueueAdvances DEF Busy
<1>13. Current(Head(q)) => run[Head(q)].told = "none"
  BY <1>2, <1>3 DEF QueueIn, Current
<1> QED  BY <1>1, <1>3, <1>5, <1>6, <1>8, <1>12, <1>13 DEF HeadIsOver

\* It ends without a program that can be debugged.
LEMMA Fails ==
  ASSUME IInv, NEW e \in Id, NEW x, NEW y,
         Busy(x, engine[e]), Advanced(x, y), Becomes(e, y, "error"),
         UNCHANGED <<pageVars, generation, promise>>
  PROVE  IInv'
<1> DEFINE q == engine[e].queue
           D == Range(q) \ Range(y.queue)
           bodies == Bodies(q, y.queue, "error")
<1>1. /\ engine' = [engine EXCEPT ![e] = y] /\ y \in EngineType
      /\ engine[e].load # "none" /\ y.load # "none" /\ y.end = engine[e].end
      /\ Answered(D, bodies)
      /\ \A r \in D : run[r].on = e
      /\ QueueIn(e, y, run', generation)
  <2>1. HeadIsOver(e, y, "error")
    BY Over
  <2> QED  BY <2>1 DEF HeadIsOver
<1>2. \A r \in D : bodies[r] = "error"
  BY DEF Bodies
<1>3. /\ generation' = generation /\ modules' = modules /\ promise' = promise
      /\ session' = session /\ socket' = socket
  BY DEF pageVars
<1> HIDE DEF D, bodies
<1>4. SessionIsReported'
  BY <1>1, <1>2, <1>3, FailuresKeepSession
<1>5. session' \in Run \cup {0} /\ socket' \in {"opening", "up", "closed"}
  BY <1>3 DEF IInv, Types
<1> QED  BY <1>1, <1>3, <1>4, <1>5, Moves

\* It ends with a program, and a session is attached to it if it is current.
LEMMA SucceedsInv ==
  ASSUME IInv, NEW e \in Id, engine[e].queue # << >>, Succeeds(e),
         UNCHANGED <<modules, generation, promise>>
  PROVE  IInv'
<1> DEFINE x == engine[e]
           y == NextRun(x)
           h == Head(x.queue)
           D == Range(x.queue) \ Range(y.queue)
           bodies == Bodies(x.queue, y.queue, "success")
<1>1. x \in EngineType /\ Idle(x) /\ Busy(x, engine[e])
  BY DEF IInv, Types, Queues, QueueIn, Idle, Busy
<1>2. Advanced(x, y) /\ Becomes(e, y, "success")
  BY <1>1, Advances DEF Succeeds
<1>3. /\ engine' = [engine EXCEPT ![e] = y] /\ y \in EngineType
      /\ engine[e].load # "none" /\ y.load # "none" /\ y.end = engine[e].end
      /\ Answered(D, bodies)
      /\ \A r \in D : run[r].on = e /\ run[r].gen # 0
      /\ QueueIn(e, y, run', generation)
      /\ h \in D /\ h \in Run
      /\ Current(h) => run[h].told = "none"
  <2>1. HeadIsOver(e, y, "success")
    BY <1>1, <1>2, Over
  <2> QED  BY <2>1 DEF HeadIsOver
<1>4. \A r \in D : r # h => bodies[r] = "error"
  BY DEF Bodies
<1>5. bodies[h] = "success"
  BY <1>3 DEF Bodies
<1>6. /\ Current(h) => session' = h /\ socket' = "up"
      /\ ~Current(h) => session' = session /\ socket' = socket
  BY DEF Succeeds, Reopened
<1> HIDE DEF y, D, bodies
<1>7. SessionIsReported'
  <2>1. CASE Current(h)
    <3>1. run'[h].told = "success"
      BY <1>3, <1>5, <2>1 DEF Answered
    <3>2. \A r \in Run : r > h => run[r].gen = 0
      BY <1>3, <2>1, TabAssumption DEF IInv, Calls, RunType, Current, Run
    <3>3. \A r \in Run : r > h => run[r].told = "none" /\ r \notin D
      BY <1>3, <3>2 DEF IInv, Calls
    <3>4. \A r \in Run : r > h => run'[r].told # "success"
      BY <1>3, <3>3 DEF Answered
    <3> QED  BY <1>6, <2>1, <3>1, <3>4 DEF SessionIsReported
  <2>2. CASE ~Current(h)
    <3>1. \A r \in Run : run'[r].told = "success" => run[r].told = "success"
      BY <1>3, <1>4, <2>2 DEF Answered
    <3>2. session # 0 => run'[session].told = "success"
      BY <1>3 DEF IInv, Types, Answered, SessionIsReported
    <3> QED  BY <1>6, <2>2, <3>1, <3>2 DEF IInv, SessionIsReported
  <2> QED  BY <2>1, <2>2
<1>8. session' \in Run \cup {0} /\ socket' \in {"opening", "up", "closed"}
  BY <1>3, <1>6 DEF IInv, Types
<1> QED  BY <1>3, <1>7, <1>8, Moves

\* No Run is answered: engine e becomes y, and its queue stays or is lost.
LEMMA Quiet ==
  ASSUME IInv, NEW e \in Id, NEW y \in EngineType,
         engine' = [engine EXCEPT ![e] = y], engine[e].load # "none",
         \/ y.load = engine[e].load
         \/ engine[e].load = "loading" /\ y.load = "stuck",
         y.end = engine[e].end, Idle(y),
         y.queue \in {engine[e].queue, << >>},
         UNCHANGED <<pageVars, callVars>>
  PROVE  IInv'
<1>1. /\ generation' = generation /\ modules' = modules /\ promise' = promise
      /\ session' = session /\ socket' = socket /\ run' = run /\ inFlight' = inFlight
  BY DEF pageVars, callVars
<1> DEFINE D == {}
           bodies == << >>
<1>2. Answered(D, bodies)
  BY <1>1 DEF Answered, IInv, Types, Calls
<1>3. QueueIn(e, engine[e], run, generation)
  BY DEF IInv, Queues
<1>4. QueueIn(e, y, run', generation)
  <2>1. CASE y.load = engine[e].load
    BY <1>1, <1>3, <2>1, QueueStays
  <2>2. CASE engine[e].load = "loading"
    <3>1. y.queue = << >>
      BY <1>3, <2>2 DEF QueueIn
    <3> QED  BY <3>1 DEF QueueIn, Idle
  <2> QED  BY <2>1, <2>2
<1>5. SessionIsReported' /\ session' \in Run \cup {0}
      /\ socket' \in {"opening", "up", "closed"}
  BY <1>1 DEF IInv, Types, SessionIsReported
<1>6. /\ \A r \in D : run[r].on = e
      /\ engine[e].load # "none" /\ y.load # "none" /\ promise' \in {promise, 0}
      /\ engine[e].end = "kept" => y.end = "kept"
  BY <1>1
<1> HIDE DEF D, bodies
<1> QED  BY <1>1, <1>2, <1>4, <1>5, <1>6, Moves

\* A request is repeated or goes on, or it fails with all that waits behind it.
LEMMA StaysOrFails ==
  ASSUME IInv, NEW e \in Id, NEW y \in EngineType, engine[e].load # "none",
         y.load = engine[e].load, y.end = engine[e].end, Idle(y),
         y.queue \in {engine[e].queue, << >>}, Becomes(e, y, "error"),
         UNCHANGED <<pageVars, generation, promise>>
  PROVE  IInv'
<1> DEFINE x == engine[e]
<1>1. x \in EngineType /\ Idle(x) /\ QueueIn(e, x, run, generation)
  BY DEF IInv, Types, Queues, QueueIn, Idle
<1>2. CASE x.queue # << >> /\ y.queue = << >>
  <2>1. Busy(x, engine[e])
    BY <1>1, <1>2 DEF Busy
  <2>2. Advanced(x, y)
    BY <1>2 DEF Advanced
  <2> QED  BY <2>1, <2>2, Fails
<1>3. CASE y.queue = x.queue
  <2> DEFINE D == Range(x.queue) \ Range(y.queue)
             bodies == [r \in D |-> IF r = Head(x.queue) THEN "error" ELSE "error"]
  <2>1. engine' = [engine EXCEPT ![e] = y] /\ Settle(bodies)
    BY DEF Becomes
  <2>2. D = {} /\ DOMAIN bodies = D
    BY <1>3
  <2> HIDE DEF bodies, D
  <2>3. Answered(D, bodies)
    BY <2>1, <2>2, Settles
  <2>4. \A r \in Run : run'[r] = run[r]
    BY <2>2, <2>3 DEF Answered
  <2>5. \A r \in Range(x.queue) : r \in Run
    <3>1. x.queue \in Seq(Run)
      BY <1>1 DEF EngineType
    <3> QED  BY <3>1 DEF Range
  <2>6. QueueIn(e, y, run', generation)
    BY <1>1, <2>4, <2>5, QueueStays
  <2>7. /\ generation' = generation /\ modules' = modules /\ promise' \in {promise, 0}
        /\ session' = session /\ socket' = socket
    BY DEF pageVars
  <2>8. SessionIsReported'
    BY <2>2, <2>3, <2>7, FailuresKeepSession
  <2>9. /\ session' \in Run \cup {0} /\ socket' \in {"opening", "up", "closed"}
        /\ \A r \in D : run[r].on = e
        /\ engine[e].end = "kept" => y.end = "kept"
        /\ y.load # "none"
    BY <2>2, <2>7 DEF IInv, Types
  <2> QED  BY <2>1, <2>3, <2>6, <2>7, <2>8, <2>9, Moves
<1> QED  BY <1>2, <1>3

\* A request that is under way is one for the Run at the head of a queue.
LEMMA AtWork ==
  ASSUME IInv, NEW e \in Id, engine[e].stage # "idle" \/ engine[e].queue # << >>
  PROVE  /\ engine[e] \in EngineType /\ Idle(engine[e]) /\ engine[e].queue # << >>
         /\ engine[e].load = "ready" /\ Busy(engine[e], engine[e])
<1>1. engine[e] \in EngineType /\ QueueIn(e, engine[e], run, generation)
  BY DEF IInv, Types, Queues
<1> QED  BY <1>1 DEF QueueIn, Idle, Busy

LEMMA CompiledInv ==
  ASSUME IInv, NEW e \in Id, Compiled(e)
  PROVE  IInv'
<1> DEFINE x == engine[e]
           y == [x EXCEPT !.stage = "exec"]
<1>1. x \in EngineType /\ Idle(x) /\ x.queue # << >> /\ x.load = "ready"
  BY AtWork DEF Compiled
<1>2. engine' = [engine EXCEPT ![e] = y] /\ UNCHANGED <<pageVars, callVars>>
  BY DEF Compiled
<1>3. /\ y \in EngineType /\ y.load = x.load /\ y.end = x.end /\ y.queue = x.queue
      /\ y.stage = "exec"
  BY <1>1 DEF EngineType, Stages
<1> HIDE DEF y
<1>4. Idle(y)
  BY <1>1, <1>3 DEF Idle
<1> QED  BY <1>1, <1>2, <1>3, <1>4, Quiet

LEMMA RejectsInv ==
  ASSUME IInv, NEW e \in Id, Rejects(e)
  PROVE  IInv'
<1>1. /\ engine[e] \in EngineType /\ engine[e].queue # << >>
      /\ Busy(engine[e], engine[e])
  BY AtWork DEF Rejects, Answers, Asked
<1>2. Advanced(engine[e], NextRun(engine[e]))
  BY <1>1, Advances
<1> QED  BY <1>1, <1>2, Fails DEF Rejects

LEMMA DecodedInv ==
  ASSUME IInv, NEW e \in Id, Decoded(e)
  PROVE  IInv'
<1>1. engine[e].queue # << >>
  BY AtWork DEF Decoded
<1> QED  BY <1>1, SucceedsInv DEF Decoded

LEMMA TimesOutInv ==
  ASSUME IInv, NEW e \in Id, TimesOut(e)
  PROVE  IInv'
<1> DEFINE x == engine[e]
           z == respawn(x)
<1>1. x \in EngineType /\ Idle(x) /\ x.queue # << >>
  BY AtWork DEF TimesOut, Asked
<1>2. /\ z \in EngineType /\ z.load = x.load /\ z.end = x.end
      /\ z.queue = x.queue /\ z.stage = x.stage
  BY <1>1, Respawns
<1>3. Becomes(e, NextRun(z), "error") /\ UNCHANGED <<pageVars, generation, promise>>
  BY DEF TimesOut
<1> HIDE DEF z
<1>4. Busy(z, engine[e]) /\ z.queue # << >>
  BY <1>1, <1>2 DEF Busy, Idle
<1>5. Advanced(z, NextRun(z))
  BY <1>2, <1>4, Advances
<1> QED  BY <1>3, <1>4, <1>5, Fails

LEMMA StrayTimesOutInv ==
  ASSUME IInv, NEW e \in Id, StrayTimesOut(e)
  PROVE  IInv'
<1> DEFINE x == engine[e]
           z == respawn(x)
           y == [z EXCEPT !.stray = FALSE]
<1>1. x \in EngineType /\ Idle(x) /\ x.load # "none"
  BY DEF IInv, Types, Queues, QueueIn, Idle, EnginesKept, StrayTimesOut
<1>2. engine' = [engine EXCEPT ![e] = y] /\ UNCHANGED <<pageVars, callVars>>
  BY DEF StrayTimesOut
<1>3. /\ z \in EngineType /\ z.load = x.load /\ z.end = x.end
      /\ z.queue = x.queue /\ z.stage = x.stage
  BY <1>1, Respawns
<1> HIDE DEF z
<1>4. /\ y \in EngineType /\ y.load = x.load /\ y.end = x.end /\ y.queue = x.queue
      /\ y.stage = x.stage
  BY <1>3 DEF EngineType
<1> HIDE DEF y
<1>5. Idle(y)
  BY <1>1, <1>4 DEF Idle
<1> QED  BY <1>1, <1>2, <1>4, <1>5, Quiet

LEMMA WorkerIsReadyInv ==
  ASSUME IInv, NEW e \in Id, WorkerIsReady(e)
  PROVE  IInv'
<1> DEFINE x == engine[e]
           y == Resumed([x EXCEPT !.ready = "resolved"])
<1>1. x \in EngineType /\ Idle(x) /\ x.load = "ready"
  BY DEF IInv, Types, Queues, QueueIn, Idle, WorkerIsReady, Respawning
<1>2. engine' = [engine EXCEPT ![e] = y] /\ UNCHANGED <<pageVars, callVars>>
  BY DEF WorkerIsReady
<1>3. /\ y \in EngineType /\ y.load = x.load /\ y.end = x.end /\ Idle(y)
      /\ y.queue \in {x.queue, << >>}
  BY <1>1, Resumes
<1> HIDE DEF y
<1> QED  BY <1>1, <1>2, <1>3, Quiet

LEMMA WorkerFailsInv ==
  ASSUME IInv, NEW e \in Id, WorkerFails(e)
  PROVE  IInv'
<1> DEFINE x == engine[e]
           y == Resumed([x EXCEPT !.ready = "rejected"])
<1>1. x \in EngineType /\ Idle(x) /\ x.load = "ready"
  BY DEF IInv, Types, Queues, QueueIn, Idle, WorkerFails, Respawning
<1>2. Becomes(e, y, "error") /\ UNCHANGED <<pageVars, generation, promise>>
  BY DEF WorkerFails
<1>3. /\ y \in EngineType /\ y.load = x.load /\ y.end = x.end /\ Idle(y)
      /\ y.queue \in {x.queue, << >>}
  BY <1>1, Resumes
<1> HIDE DEF y
<1> QED  BY <1>1, <1>2, <1>3, StaysOrFails

\* A compiler that raises while it is set up: the engine keeps what it has to do,
\* and nobody is told.
LEMMA InitRaisesInv ==
  ASSUME IInv, NEW e \in Id, InitRaises(e)
  PROVE  IInv'
<1> DEFINE x == engine[e]
<1>1. x \in EngineType /\ Idle(x)
  BY DEF IInv, Types, Queues, QueueIn, Idle
<1>2. UNCHANGED <<pageVars, callVars>>
  BY DEF InitRaises
<1>3. CASE /\ x.load = "loading"
           /\ engine' = [engine EXCEPT ![e].load = "stuck"]
  <2> DEFINE y == [x EXCEPT !.load = "stuck"]
  <2>1. /\ y \in EngineType /\ y.load = "stuck" /\ y.end = x.end
        /\ y.queue = x.queue /\ y.stage = x.stage
    BY <1>1 DEF EngineType
  <2>2. engine' = [engine EXCEPT ![e] = y] /\ Idle(y)
    BY <1>1, <1>3, <2>1 DEF Idle
  <2> HIDE DEF y
  <2> QED  BY <1>1, <1>2, <1>3, <2>1, <2>2, Quiet
<1>4. CASE /\ Respawning(e)
           /\ engine' = [engine EXCEPT ![e].ready = "stuck"]
  <2> DEFINE y == [x EXCEPT !.ready = "stuck"]
  <2>1. /\ y \in EngineType /\ y.load = x.load /\ y.end = x.end
        /\ y.queue = x.queue /\ y.stage = x.stage
    BY <1>1 DEF EngineType
  <2>2. engine' = [engine EXCEPT ![e] = y] /\ Idle(y) /\ x.load # "none"
    BY <1>1, <1>4, <2>1 DEF Idle, Respawning
  <2> HIDE DEF y
  <2> QED  BY <1>1, <1>2, <2>1, <2>2, Quiet
<1> QED  BY <1>3, <1>4 DEF InitRaises

LEMMA ExecEndsInv ==
  ASSUME IInv, NEW e \in Id, ExecEnds(e)
  PROVE  IInv'
<1> DEFINE x == engine[e]
<1>1. /\ x \in EngineType /\ Idle(x) /\ x.queue # << >> /\ x.load = "ready"
      /\ Busy(x, engine[e])
  BY AtWork DEF ExecEnds
<1>2. CASE Succeeds(e)
  BY <1>1, <1>2, SucceedsInv DEF ExecEnds
<1>3. CASE Becomes(e, NextRun(x), "error") /\ UNCHANGED <<socket, session>>
  <2>1. Advanced(x, NextRun(x))
    BY <1>1, Advances
  <2>2. UNCHANGED <<pageVars, generation, promise>>
    BY <1>3 DEF ExecEnds, pageVars
  <2> QED  BY <1>1, <1>3, <2>1, <2>2, Fails
<1>4. CASE Becomes(e, Request(x, "decode"), "error") /\ UNCHANGED <<socket, session>>
  <2> DEFINE y == Request(x, "decode")
  <2>1. /\ y \in EngineType /\ y.load = x.load /\ y.end = x.end
        /\ \/ y.queue = x.queue /\ y.stage # "idle"
           \/ y.queue = << >> /\ y.stage = "idle"
    BY <1>1, Requests
  <2>2. UNCHANGED <<pageVars, generation, promise>>
    BY <1>4 DEF ExecEnds, pageVars
  <2>3. Becomes(e, y, "error")
    BY <1>4
  <2> HIDE DEF y
  <2>4. Idle(y) /\ y.queue \in {x.queue, << >>}
    BY <1>1, <2>1 DEF Idle
  <2> QED  BY <1>1, <2>1, <2>2, <2>3, <2>4, StaysOrFails
<1> QED  BY <1>2, <1>3, <1>4 DEF ExecEnds

-----------------------------------------------------------------------------
(* The rest of the tab                                                     *)

LEMMA EngineLoadsInv ==
  ASSUME IInv, NEW e \in Id, EngineLoads(e)
  PROVE  IInv'
<1> DEFINE x == [engine[e] EXCEPT !.load = "ready", !.ready = "resolved",
                                  !.pipe = "live"]
<1>1. /\ engine[e] \in EngineType /\ QueueIn(e, engine[e], run, generation)
      /\ engine[e].load = "loading" /\ e \in Run
  BY DEF IInv, Types, Queues, EngineLoads, Id
<1>2. /\ x \in EngineType /\ x.load = "ready" /\ x.end = engine[e].end
      /\ x.queue = << >> /\ x.stage = "idle"
  BY <1>1 DEF EngineType, QueueIn
<1>3. engine' = [engine EXCEPT ![e] =
          IF x.end = "to dispose" THEN dispose(x)
          ELSE IF \E r \in Run : Waits(r, e)
          THEN runProgram(x, CHOOSE r \in Run : Waits(r, e)) ELSE x]
  BY DEF EngineLoads
<1>4. /\ generation' = generation /\ modules' = modules /\ promise' = promise
      /\ session' = session /\ socket' = socket /\ run' = run /\ inFlight' = inFlight
  BY DEF EngineLoads, pageVars, callVars
<1> HIDE DEF x
<1>5. SessionIsReported' /\ session' \in Run \cup {0} /\ promise' \in {promise, 0}
      /\ socket' \in {"opening", "up", "closed"}
  BY <1>4 DEF IInv, Types, SessionIsReported
<1>6. ASSUME NEW y \in EngineType, engine' = [engine EXCEPT ![e] = y],
             y.load = "ready", engine[e].end = "kept" => y.end = "kept",
             QueueIn(e, y, run, generation)
      PROVE  IInv'
  <2> DEFINE D == {}
             bodies == << >>
  <2>1. Answered(D, bodies) /\ \A r \in D : run[r].on = e
    BY <1>4 DEF Answered, IInv, Types, Calls
  <2>2. engine[e].load # "none" /\ y.load # "none" /\ QueueIn(e, y, run', generation)
    BY <1>1, <1>4, <1>6
  <2> HIDE DEF D, bodies
  <2> QED  BY <1>4, <1>5, <1>6, <2>1, <2>2, Moves
<1>7. CASE x.end = "to dispose"
  <2> DEFINE y == dispose(x)
  <2>1. /\ y \in EngineType /\ y.load = "ready" /\ y.queue = << >>
        /\ y.stage = "idle"
    BY <1>2 DEF dispose, EngineType
  <2>2. engine' = [engine EXCEPT ![e] = y] /\ engine[e].end # "kept"
    BY <1>2, <1>3, <1>7
  <2> HIDE DEF y
  <2>3. QueueIn(e, y, run, generation)
    BY <2>1 DEF QueueIn
  <2> QED  BY <1>6, <2>1, <2>2, <2>3
<1>8. CASE x.end # "to dispose" /\ \E r \in Run : Waits(r, e)
  <2> DEFINE r == CHOOSE r \in Run : Waits(r, e)
             y == runProgram(x, r)
  <2>1. r \in Run /\ Waits(r, e)
    BY <1>8
  <2>2. engine' = [engine EXCEPT ![e] = y]
    BY <1>3, <1>8
  <2> HIDE DEF r
  <2>3. /\ y \in EngineType /\ y.load = x.load /\ y.end = x.end /\ Idle(y)
        /\ y.queue \in {Append(x.queue, r), << >>}
    BY <1>2, <2>1, Runs DEF Idle
  <2> HIDE DEF y
  <2>4. QueueIn(e, x, run, generation) /\ y.load = "ready"
    BY <1>2, <2>3 DEF QueueIn
  <2>5. \A i \in DOMAIN x.queue : FALSE
    BY <1>2
  <2>6. run[r].gen # 0 /\ run[r].on = e /\ run[r].told = "none"
    BY <2>1 DEF Waits
  <2>7. Longer(x, y, r)
    BY <2>3, <2>4 DEF Longer
  <2>8. QueueIn(e, y, run, generation)
    BY <1>2, <2>1, <2>3, <2>4, <2>5, <2>6, <2>7, QueueGrows
  <2> QED  BY <1>2, <1>6, <2>2, <2>3, <2>4, <2>8
<1>9. CASE x.end # "to dispose" /\ ~\E r \in Run : Waits(r, e)
  <2>1. engine' = [engine EXCEPT ![e] = x]
    BY <1>3, <1>9
  <2>2. QueueIn(e, x, run, generation)
    BY <1>2 DEF QueueIn
  <2> QED  BY <1>2, <1>6, <2>1, <2>2
<1> QED  BY <1>7, <1>8, <1>9

LEMMA EngineFailsInv ==
  ASSUME IInv, NEW e \in Id, EngineFails(e)
  PROVE  IInv'
<1> DEFINE D == {s \in Run : run[s].on = e}
           bodies == [r \in D |-> "error"]
           y == [engine[e] EXCEPT !.load = "failed"]
<1>1. /\ engine[e] \in EngineType /\ QueueIn(e, engine[e], run, generation)
      /\ engine[e].load = "loading"
  BY DEF IInv, Types, Queues, EngineFails
<1>2. /\ y \in EngineType /\ y.load = "failed" /\ y.end = engine[e].end
      /\ y.queue = << >> /\ y.stage = "idle"
  BY <1>1 DEF EngineType, QueueIn
<1>3. engine' = [engine EXCEPT ![e] = y] /\ Settle(bodies)
  BY DEF EngineFails
<1>4. /\ generation' = generation /\ modules' = modules /\ promise' \in {promise, 0}
      /\ session' = session /\ socket' = socket
  BY DEF EngineFails, pageVars
<1>5. /\ DOMAIN bodies = D /\ D \subseteq Run /\ \A r \in D : bodies[r] = "error"
      /\ \A r \in D : run[r].on = e
  OBVIOUS
<1> HIDE DEF y, bodies, D
<1>6. Answered(D, bodies)
  BY <1>3, <1>5, Settles
<1>7. SessionIsReported'
  BY <1>4, <1>5, <1>6, FailuresKeepSession
<1>8. /\ session' \in Run \cup {0} /\ socket' \in {"opening", "up", "closed"}
      /\ engine[e].load # "none" /\ y.load # "none"
      /\ engine[e].end = "kept" => y.end = "kept"
  BY <1>1, <1>2, <1>4 DEF IInv, Types
<1>9. QueueIn(e, y, run', generation)
  BY <1>2 DEF QueueIn
<1> QED  BY <1>2, <1>3, <1>4, <1>5, <1>6, <1>7, <1>8, <1>9, Moves

\* The modules are not there: no Run has an engine yet.
LEMMA ModulesFailInv ==
  ASSUME IInv, ModulesFail
  PROVE  IInv'
<1> DEFINE D == {s \in Run : run[s].gen # 0}
           bodies == [r \in D |-> "error"]
<1>1. Settle(bodies)
  BY DEF ModulesFail
<1>2. /\ generation' = generation /\ modules' = "failed" /\ promise' = promise
      /\ session' = session /\ engine' = engine
      /\ socket' = socket \/ socket = "opening"
      /\ socket' \in {"opening", "up", "closed"}
  BY DEF ModulesFail, IInv, Types
<1>3. DOMAIN bodies = D /\ D \subseteq Run /\ \A r \in D : bodies[r] = "error"
  OBVIOUS
<1>4. \A r \in Run : run[r].gen = 0 => r \notin D
  OBVIOUS
<1> HIDE DEF bodies, D
<1>5. Answered(D, bodies)
  BY <1>1, <1>3, Settles
<1>6. SessionIsReported'
  BY <1>2, <1>3, <1>5, FailuresKeepSession
<1>7. Types'
  BY <1>2, <1>5 DEF IInv, Types, Answered
<1>8. Calls(run, generation)'
  BY <1>2, <1>4, <1>5 DEF IInv, Calls, Answered
<1>9. \A r \in Run : run[r].on = 0
  BY DEF IInv, NoneYet, ModulesFail
<1>10. Queues'
  <2> SUFFICES ASSUME NEW e \in Id  PROVE  QueueIn(e, engine[e], run', generation)
    BY <1>2 DEF Queues
  <2>1. QueueIn(e, engine[e], run, generation) /\ engine[e].queue \in Seq(Run)
    BY DEF IInv, Types, Queues, EngineType
  <2>2. \A i \in DOMAIN engine[e].queue : FALSE
    BY <1>9, <2>1, TabAssumption DEF QueueIn, Id, Run
  <2> QED  BY <2>1, <2>2 DEF QueueIn
<1>11. EnginesKept'
  BY <1>2, <1>5 DEF IInv, EnginesKept, Answered
<1>12. NoneYet'
  BY <1>5, <1>9 DEF NoneYet, Answered
<1>13. Flying'
  BY <1>2, <1>5, <1>9 DEF IInv, Flying, Answered
<1> QED  BY <1>2, <1>6, <1>7, <1>8, <1>10, <1>11, <1>12, <1>13 DEF IInv

LEMMA KillInv ==
  ASSUME IInv, Kill
  PROVE  IInv'
<1>1. /\ generation' = generation /\ run' = run /\ promise' = promise
      /\ inFlight' = inFlight /\ engine' = engine /\ socket' = socket
      /\ session' = session \/ session' = 0
      /\ modules' = modules \/ (modules = "failed" /\ modules' = "loading")
  <2>1. UNCHANGED <<socket, callVars, engine, faults>>
    BY DEF Kill
  <2>2. \/ session' = 0 /\ modules' = modules
        \/ session' = session /\ modules = "failed" /\ modules' = "loading"
    BY DEF Kill
  <2>3. UNCHANGED callVars
    BY <2>1
  <2> QED  BY <2>1, <2>2, <2>3 DEF callVars
<1>2. Types'
  BY <1>1 DEF IInv, Types
<1>3. Calls(run, generation)' /\ Queues' /\ EnginesKept' /\ Flying'
  BY <1>1 DEF IInv, Queues, EnginesKept, Flying
<1>4. NoneYet'
  BY <1>1 DEF IInv, NoneYet
<1>5. SessionIsReported'
  BY <1>1 DEF IInv, SessionIsReported
<1> QED  BY <1>2, <1>3, <1>4, <1>5 DEF IInv

\* The answers of the Runs that are over are all that change.
LEMMA InterruptInv ==
  ASSUME IInv, Interrupt
  PROVE  IInv'
<1>1. /\ generation' = generation + 1 /\ inFlight' = FALSE /\ run' = Aborted
      /\ promise' = 0
      /\ modules' = modules /\ session' = session /\ socket' = socket
  BY DEF Interrupt, Forgotten, pageVars
<1>2. run \in [Run -> RunType] /\ generation \in Nat
  BY DEF IInv, Calls
<1>3. /\ run' \in [Run -> RunType]
      /\ \A r \in Run :
            /\ run'[r].gen = run[r].gen /\ run'[r].on = run[r].on
            /\ run[r].gen = 0 => run'[r] = run[r]
            /\ run[r].told # "none" => run'[r].told = run[r].told
            /\ run[r].told = "none" => run'[r].told # "success"
  BY <1>1, <1>2 DEF Aborted, RunType, Told
<1>4. /\ engine' \in [Id -> EngineType]
      /\ \A e \in Id : /\ engine'[e].load = engine[e].load
                       /\ engine'[e].queue = engine[e].queue
                       /\ engine'[e].stage = engine[e].stage
                       /\ engine'[e].stray = engine[e].stray
                       /\ e # promise => engine'[e] = engine[e]
  <2>1. engine \in [Id -> EngineType] /\ promise \in Id \cup {0}
    BY DEF IInv, Types
  <2>2. CASE promise = 0
    BY <2>1, <2>2 DEF Interrupt
  <2>3. CASE promise # 0
    <3> DEFINE x == engine[promise]
               y == IF x.load = "ready" THEN dispose(x)
                    ELSE [x EXCEPT !.end = "to dispose"]
    <3>1. engine' = [engine EXCEPT ![promise] = y]
      BY <2>3 DEF Interrupt
    <3>2. x \in EngineType
      BY <2>1, <2>3
    <3>3. /\ y \in EngineType /\ y.load = x.load /\ y.queue = x.queue
          /\ y.stage = x.stage /\ y.stray = x.stray
      BY <3>2 DEF dispose, EngineType
    <3> HIDE DEF y
    <3> QED  BY <2>1, <2>3, <3>1, <3>3
  <2> QED  BY <2>2, <2>3
<1>5. Types'
  BY <1>1, <1>4 DEF IInv, Types
<1>6. Calls(run, generation)'
  BY <1>1, <1>2, <1>3 DEF IInv, Calls, RunType
<1>7. Queues'
  <2> SUFFICES ASSUME NEW e \in Id  PROVE  QueueIn(e, engine'[e], run', generation')
    BY DEF Queues
  <2>1. QueueIn(e, engine[e], run, generation) /\ engine[e].queue \in Seq(Run)
    BY DEF IInv, Types, Queues, EngineType
  <2>2. \A i \in DOMAIN engine[e].queue : engine[e].queue[i] \in Run
    BY <2>1
  <2>3. \A r \in Run : run'[r].gen # generation'
    BY <1>1, <1>2, <1>3 DEF IInv, Calls, RunType
  <2> QED  BY <1>3, <1>4, <2>1, <2>2, <2>3 DEF QueueIn
<1>8. EnginesKept'
  <2>1. \A r \in Run : run'[r].on = 0 => engine'[r].load = "none"
    BY <1>3, <1>4 DEF IInv, EnginesKept, Id
  <2>2. \A e \in Id : engine'[e].load = "none" =>
                         engine'[e].end = "kept" /\ ~engine'[e].stray
    <3> SUFFICES ASSUME NEW e \in Id, engine'[e].load = "none"
                 PROVE  engine'[e].end = "kept" /\ ~engine'[e].stray
      OBVIOUS
    <3>1. engine[e].load = "none" /\ e # 0
      BY <1>4, TabAssumption DEF Id, Run
    <3>2. e # promise
      BY <3>1 DEF IInv, EnginesKept
    <3> QED  BY <1>4, <3>1, <3>2 DEF IInv, EnginesKept
  <2> QED  BY <1>1, <2>1, <2>2 DEF EnginesKept
<1>9. NoneYet'
  BY <1>1, <1>3 DEF IInv, NoneYet
<1>10. Flying'
  BY <1>1 DEF Flying
<1>11. SessionIsReported'
  <2>1. session # 0 => run'[session].told = "success"
    BY <1>3 DEF IInv, Types, SessionIsReported
  <2>2. \A r \in Run : run'[r].told = "success" => run[r].told = "success"
    BY <1>3
  <2> QED  BY <1>1, <2>1, <2>2 DEF IInv, SessionIsReported
<1> QED  BY <1>5, <1>6, <1>7, <1>8, <1>9, <1>10, <1>11 DEF IInv

-----------------------------------------------------------------------------
(* A call of createAndUpload                                               *)

\* Run r can go on: u and h are the calls and the generation with it.
GoesOn(r, u, h) ==
    /\ Types /\ Calls(u, h)
    /\ u[r].gen = h /\ h # 0 /\ u[r].on = 0 /\ u[r].told = "none"
    /\ \A e \in Id : QueueIn(e, engine[e], u, h)
    /\ \A s \in Run : u[s].on = 0 => engine[s].load = "none"
    /\ EnginesKept
    /\ session # 0 => /\ u[session].told = "success" /\ socket = "up"
                      /\ \A s \in Run : s > session => u[s].told # "success"

LEMMA WorkInv ==
  ASSUME NEW r \in Run, NEW u, NEW h, GoesOn(r, u, h), Work(r, u),
         generation' = h, modules' = "ready", session' = session,
         socket' = socket \/ (socket = "opening" /\ socket' = "up")
  PROVE  IInv'
<1> DEFINE e == IF promise = 0 THEN r ELSE promise
           x == engine[e]
           y == IF promise = 0 THEN [x EXCEPT !.load = "loading"]
                ELSE IF x.load = "ready" THEN runProgram(x, r) ELSE x
           thrown == promise # 0 /\ x.load = "ready" /\ r \notin Range(y.queue)
<1>1. /\ promise' = e /\ engine' = [engine EXCEPT ![e] = y]
      /\ run' = [u EXCEPT ![r].on = e,
                          ![r].told = IF thrown THEN "error" ELSE @]
      /\ inFlight' = ~thrown
  BY DEF Work
<1>2. /\ e \in Id /\ e # 0 /\ x \in EngineType /\ x.end = "kept"
      /\ promise = 0 => x.load = "none"
      /\ promise # 0 => x.load # "none"
      /\ QueueIn(e, x, u, h) /\ Idle(x)
  BY TabAssumption DEF GoesOn, Types, EnginesKept, Id, Run, QueueIn, Idle
<1>3. /\ y \in EngineType /\ y.end = "kept" /\ y.load # "none" /\ Idle(y)
      /\ \/ y.queue = x.queue /\ (promise = 0 \/ x.load # "ready")
         \/ /\ promise # 0 /\ x.load = "ready" /\ y.load = "ready"
            /\ y.queue \in {Append(x.queue, r), << >>}
  <2>1. CASE promise = 0
    <3>1. y = [x EXCEPT !.load = "loading"]
      BY <2>1
    <3> HIDE DEF x, y
    <3> QED  BY <1>2, <2>1, <3>1 DEF EngineType, Idle
  <2>2. CASE promise # 0 /\ x.load = "ready"
    <3>1. y = runProgram(x, r)
      BY <2>2
    <3> HIDE DEF x, y, e
    <3> QED  BY <1>2, <2>2, <3>1, Runs
  <2>3. CASE promise # 0 /\ x.load # "ready"
    BY <1>2, <2>3
  <2> QED  BY <2>1, <2>2, <2>3
<1>4. u \in [Run -> RunType] /\ h \in Nat
  BY DEF GoesOn, Calls
<1>5. /\ run' \in [Run -> RunType]
      /\ \A s \in Run : s # r => run'[s] = u[s]
      /\ run'[r].gen = h /\ run'[r].on = e
      /\ ~thrown => run'[r].told = "none"
      /\ run'[r].told # "success"
  <2> HIDE DEF thrown, e
  <2> QED  BY <1>1, <1>2, <1>4 DEF RunType, Told, GoesOn
<1>6. y.queue # << >> /\ promise # 0 /\ x.load = "ready" => ~thrown
  <2> SUFFICES ASSUME y.queue # << >>, promise # 0, x.load = "ready"
               PROVE  r \in Range(y.queue)
    OBVIOUS
  <2>1. y.queue = Append(x.queue, r) /\ x.queue \in Seq(Run)
    BY <1>2, <1>3 DEF EngineType
  <2>2. y.queue[Len(x.queue) + 1] = r /\ Len(x.queue) + 1 \in DOMAIN y.queue
    BY <2>1
  <2> HIDE DEF y
  <2> QED  BY <2>2 DEF Range
<1> HIDE DEF thrown, y, x, e
<1>7. Types'
  BY <1>1, <1>2, <1>3 DEF GoesOn, Types
<1>8. Calls(run, generation)'
  <2>1. \A s \in Run : /\ run'[s].gen = u[s].gen
                       /\ u[s].gen = 0 => run'[s] = u[s]
    BY <1>5 DEF GoesOn
  <2>2. Calls(u, h) /\ run' \in [Run -> RunType] /\ generation' = h
    BY <1>5 DEF GoesOn
  <2> QED  BY <2>1, <2>2 DEF Calls
<1>9. ASSUME NEW s \in Run, u[s].gen # 0, s # r
      PROVE  s < r
  BY <1>4, <1>9, TabAssumption DEF GoesOn, Calls, RunType, Run
<1>10. Queues'
  <2> SUFFICES ASSUME NEW f \in Id  PROVE  QueueIn(f, engine'[f], run', generation')
    BY DEF Queues
  <2>1. QueueIn(f, engine[f], u, h) /\ engine[f].queue \in Seq(Run) /\ f # 0
    <3>1. QueueIn(f, engine[f], u, h) /\ engine[f] \in EngineType
      BY DEF GoesOn, Types
    <3>2. engine[f].queue \in Seq(Run)
      BY <3>1 DEF EngineType
    <3>3. f # 0
      BY TabAssumption DEF Id, Run
    <3> QED  BY <3>1, <3>2, <3>3
  <2>2. \A i \in DOMAIN engine[f].queue :
           LET s == engine[f].queue[i]
           IN  s \in Run /\ s # r /\ u[s].gen # 0 /\ u[s].on = f
               /\ (u[s].gen = h => u[s].told = "none")
    BY <2>1 DEF QueueIn, GoesOn
  <2>3. \A i \in DOMAIN engine[f].queue :
           LET s == engine[f].queue[i] IN run'[s] = u[s] /\ s < r
    BY <1>5, <1>9, <2>2
  <2>4. \A s \in Range(engine[f].queue) : run'[s] = u[s]
    BY <2>3 DEF Range
  <2>5. CASE f # e
    <3>1. engine'[f] = engine[f]
      BY <1>1, <2>5 DEF GoesOn, Types
    <3> QED  BY <2>1, <2>3, <3>1 DEF QueueIn
  <2>6. CASE f = e
    <3>1. engine'[f] = y /\ engine[f] = x
      BY <1>1, <2>6 DEF GoesOn, Types, x
    <3>2. CASE y.queue = x.queue /\ (promise = 0 \/ x.load # "ready")
      <4>1. x.queue = << >>
        BY <1>2, <3>2 DEF QueueIn
      <4> QED  BY <1>3, <3>1, <3>2, <4>1 DEF QueueIn, Idle
    <3>3. CASE /\ promise # 0 /\ x.load = "ready" /\ y.load = "ready"
               /\ y.queue \in {Append(x.queue, r), << >>}
      <4>1. y.queue # << >> => run'[r].gen # 0 /\ run'[r].on = e /\ run'[r].told = "none"
        BY <1>5, <1>6, <3>3 DEF GoesOn
      <4>2. \A i \in DOMAIN x.queue :
               LET s == x.queue[i]
               IN  /\ s < r /\ run'[s].gen # 0 /\ run'[s].on = e
                   /\ run'[s].gen = h => run'[s].told = "none"
        BY <2>2, <2>3, <2>6, <3>1
      <4>3. Longer(x, y, r)
        BY <1>3, <3>3 DEF Longer
      <4>4. QueueIn(e, y, run', h)
        BY <1>2, <1>3, <4>1, <4>2, <4>3, QueueGrows
      <4> QED  BY <2>6, <3>1, <4>4
    <3> QED  BY <1>3, <3>2, <3>3
  <2> QED  BY <2>5, <2>6
<1>11. EnginesKept'
  <2>1. \A s \in Run : run'[s].on = 0 => engine'[s].load = "none"
    <3> SUFFICES ASSUME NEW s \in Run, run'[s].on = 0
                 PROVE  engine'[s].load = "none"
      OBVIOUS
    <3>1. s # r /\ u[s].on = 0
      BY <1>2, <1>5
    <3>2. engine[s].load = "none"
      BY <3>1 DEF GoesOn
    <3>3. e = r \/ (e = promise /\ promise # 0)
      BY DEF e
    <3>4. s # e
      BY <1>2, <3>1, <3>2, <3>3 DEF x
    <3> QED  BY <1>1, <3>2, <3>4 DEF GoesOn, Types, Id
  <2>2. \A f \in Id : engine'[f].load = "none" =>
                         engine'[f].end = "kept" /\ ~engine'[f].stray
    BY <1>1, <1>2, <1>3 DEF GoesOn, Types, EnginesKept
  <2>3. engine'[promise'].load # "none" /\ engine'[promise'].end = "kept"
    BY <1>1, <1>2, <1>3 DEF GoesOn, Types
  <2> QED  BY <2>1, <2>2, <2>3 DEF EnginesKept
<1>12. NoneYet'
  BY DEF NoneYet
<1>13. Flying'
  <2>1. engine'[e].end = "kept"
    BY <1>1, <1>2, <1>3 DEF GoesOn, Types
  <2> QED  BY <1>5, <2>1 DEF Flying, GoesOn
<1>14. SessionIsReported'
  <2>1. session # 0 => session # r /\ session \in Run
    BY DEF GoesOn, Types
  <2>2. session # 0 => socket' = "up"
    BY DEF GoesOn
  <2> QED  BY <1>5, <2>1, <2>2 DEF GoesOn, SessionIsReported
<1> QED  BY <1>7, <1>8, <1>10, <1>11, <1>12, <1>13, <1>14 DEF IInv

\* The Runs are numbered in the order in which they are called.
LEMMA NewestIsLast ==
  ASSUME Calls(run, generation)
  PROVE  Newest \in 0 .. MaxRuns /\ \A r \in Run : (r <= Newest) = (run[r].gen # 0)
BY DEF Calls, Newest

LEMMA CallInv ==
  ASSUME IInv, NEW r \in Run, createAndUpload(r)
  PROVE  IInv'
<1> DEFINE h == generation + 1
           u == [Superseded EXCEPT ![r].gen = h]
<1>1. /\ generation' = h /\ socket' = socket /\ session' = session
      /\ \/ modules = "ready" /\ Work(r, u) /\ modules' = modules
         \/ /\ modules # "ready" /\ run' = u /\ inFlight' = TRUE
            /\ modules' = "loading" /\ promise' = promise /\ engine' = engine
  BY DEF createAndUpload
<1>2. run \in [Run -> RunType] /\ generation \in Nat /\ h \in Nat /\ h # 0
  BY DEF IInv, Calls
<1>3. /\ \A s \in Run : s <= r <=> run[s].gen # 0 \/ s = r
      /\ run[r].gen = 0
  <2>1. /\ Newest \in 0 .. MaxRuns /\ r = Newest + 1
        /\ \A s \in Run : (s <= Newest) = (run[s].gen # 0)
    BY NewestIsLast DEF IInv, createAndUpload
  <2> QED  BY <2>1, TabAssumption DEF Run
<1>4. run[r].told = "none" /\ run[r].on = 0
  BY <1>3 DEF IInv, Calls
<1>5. /\ u \in [Run -> RunType]
      /\ u[r].gen = h /\ u[r].told = "none" /\ u[r].on = 0
      /\ \A s \in Run : s # r => /\ u[s].gen = run[s].gen /\ u[s].on = run[s].on
                                 /\ run[s].gen = 0 => u[s] = run[s]
                                 /\ run[s].told # "none" => u[s].told = run[s].told
                                 /\ run[s].told = "none" => u[s].told # "success"
  <2>1. /\ Superseded \in [Run -> RunType]
        /\ Superseded[r] = run[r]
        /\ \A s \in Run :
              /\ Superseded[s].gen = run[s].gen /\ Superseded[s].on = run[s].on
              /\ run[s].gen = 0 => Superseded[s] = run[s]
              /\ run[s].told # "none" => Superseded[s].told = run[s].told
              /\ run[s].told = "none" => Superseded[s].told # "success"
    BY <1>2, <1>3 DEF Superseded, RunType, Told
  <2> HIDE DEF h
  <2> QED  BY <1>2, <1>4, <2>1 DEF RunType
<1> HIDE DEF u
<1>6. \A s \in Run : run[s].gen < h
  BY <1>2 DEF IInv, Calls, RunType
<1>7. Calls(u, h)
  <2>1. \A s \in Run : s <= r <=> u[s].gen # 0
    BY <1>2, <1>3, <1>5
  <2>2. \E n \in 0 .. MaxRuns : \A s \in Run : (s <= n) = (u[s].gen # 0)
    BY <2>1, TabAssumption DEF Run
  <2>3. ASSUME NEW s \in Run, NEW t \in Run, s < t, u[t].gen # 0
        PROVE  u[s].gen < u[t].gen
    <3>1. CASE t = r
      BY <1>5, <1>6, <2>3, <3>1, TabAssumption DEF Run
    <3>2. CASE t # r
      <4>1. t <= r /\ run[t].gen # 0
        BY <1>3, <1>5, <2>3, <3>2
      <4>2. s # r
        BY <2>3, <4>1, TabAssumption DEF Run
      <4> QED  BY <1>5, <2>3, <3>2, <4>1, <4>2 DEF IInv, Calls
    <3> QED  BY <3>1, <3>2
  <2>4. \A s \in Run : u[s].gen <= h
    BY <1>2, <1>5, <1>6 DEF RunType
  <2>5. \A s \in Run : u[s].gen = 0 => u[s].told = "none" /\ u[s].on = 0
    BY <1>2, <1>5 DEF IInv, Calls
  <2> QED  BY <1>2, <1>5, <2>2, <2>3, <2>4, <2>5 DEF Calls
<1>8. ASSUME NEW e \in Id  PROVE  QueueIn(e, engine[e], u, h)
  <2>1. QueueIn(e, engine[e], run, generation) /\ engine[e] \in EngineType
    BY DEF IInv, Types, Queues
  <2>2. engine[e].queue \in Seq(Run)
    BY <2>1 DEF EngineType
  <2>3. \A i \in DOMAIN engine[e].queue :
           LET s == engine[e].queue[i]
           IN  u[s].gen # 0 /\ u[s].on = e /\ u[s].gen # h
    <3> SUFFICES ASSUME NEW i \in DOMAIN engine[e].queue
                 PROVE  LET s == engine[e].queue[i]
                        IN  u[s].gen # 0 /\ u[s].on = e /\ u[s].gen # h
      OBVIOUS
    <3> DEFINE s == engine[e].queue[i]
    <3>1. s \in Run /\ run[s].gen # 0 /\ run[s].on = e
      BY <2>1, <2>2 DEF QueueIn
    <3> HIDE DEF s
    <3>2. s # r
      BY <1>3, <3>1
    <3>3. u[s].gen # h
      BY <1>2, <1>5, <1>6, <3>1, <3>2 DEF RunType
    <3> QED  BY <1>5, <3>1, <3>2, <3>3 DEF s
  <2> QED  BY <2>1, <2>3 DEF QueueIn
<1>9. \A s \in Run : u[s].on = run[s].on
  BY <1>4, <1>5
<1>10. session # 0 => /\ u[session].told = "success" /\ socket = "up"
                      /\ \A s \in Run : s > session => u[s].told # "success"
  <2>1. session # 0 => session # r /\ session \in Run
    BY <1>4 DEF IInv, Types, SessionIsReported
  <2>2. \A s \in Run : u[s].told = "success" => run[s].told = "success"
    BY <1>5
  <2> QED  BY <1>5, <2>1, <2>2 DEF IInv, SessionIsReported
<1>11. GoesOn(r, u, h)
  BY <1>2, <1>5, <1>7, <1>8, <1>9, <1>10 DEF GoesOn, IInv, EnginesKept
<1>12. CASE modules = "ready" /\ Work(r, u) /\ modules' = modules
  <2> HIDE DEF h
  <2> QED  BY <1>1, <1>11, <1>12, WorkInv
<1>13. CASE /\ modules # "ready" /\ run' = u /\ inFlight' = TRUE
            /\ modules' = "loading" /\ promise' = promise /\ engine' = engine
  <2>1. Types' /\ Calls(run, generation)'
    BY <1>1, <1>7, <1>13 DEF IInv, Types
  <2>2. Queues'
    BY <1>1, <1>8, <1>13 DEF Queues
  <2>3. EnginesKept' /\ NoneYet'
    BY <1>9, <1>13 DEF IInv, EnginesKept, NoneYet
  <2>4. Flying'
    BY <1>1, <1>2, <1>5, <1>13 DEF Flying
  <2>5. SessionIsReported'
    BY <1>1, <1>10, <1>13 DEF SessionIsReported
  <2> QED  BY <2>1, <2>2, <2>3, <2>4, <2>5 DEF IInv
<1> QED  BY <1>1, <1>12, <1>13

LEMMA ModulesLoadInv ==
  ASSUME IInv, ModulesLoad
  PROVE  IInv'
<1>1. /\ modules' = "ready" /\ session' = session /\ generation' = generation
      /\ socket' = socket \/ (socket = "opening" /\ socket' = "up")
  BY DEF ModulesLoad
<1>2. ASSUME NEW r \in Run, Waits(r, 0), Work(r, run)
      PROVE  IInv'
  <2>1. run[r].gen = generation /\ generation # 0 /\ run[r].on = 0
        /\ run[r].told = "none"
    BY <1>2 DEF Waits, Current
  <2>2. GoesOn(r, run, generation)
    BY <2>1 DEF GoesOn, IInv, Queues, EnginesKept, SessionIsReported
  <2> QED  BY <1>1, <1>2, <2>2, WorkInv
<1>3. CASE UNCHANGED <<run, inFlight, promise, engine>>
  <2>1. Types'
    BY <1>1, <1>3 DEF IInv, Types
  <2>2. Calls(run, generation)' /\ Queues' /\ EnginesKept' /\ Flying'
    BY <1>1, <1>3 DEF IInv, Queues, EnginesKept, Flying
  <2>3. NoneYet' /\ SessionIsReported'
    BY <1>1, <1>3 DEF IInv, NoneYet, SessionIsReported
  <2> QED  BY <2>1, <2>2, <2>3 DEF IInv
<1> QED  BY <1>2, <1>3 DEF ModulesLoad

-----------------------------------------------------------------------------
(* The theorems                                                            *)

LEMMA Initially == Init => IInv
<1> SUFFICES ASSUME Init  PROVE  IInv
  OBVIOUS
<1>1. NoEngine \in EngineType /\ NoRun \in RunType
  BY DEF NoEngine, NoRun, EngineType, RunType, Stages, Told
<1>2. Types
  BY <1>1 DEF Init, Types
<1>3. Calls(run, generation)
  <2>1. \A r \in Run : run[r] = NoRun /\ ~(r <= 0)
    BY TabAssumption DEF Init, Run
  <2>2. 0 \in 0 .. MaxRuns
    BY TabAssumption
  <2>3. \E n \in 0 .. MaxRuns : \A r \in Run : (r <= n) = (run[r].gen # 0)
    BY <2>1, <2>2 DEF NoRun
  <2> QED  BY <1>1, <2>1, <2>3 DEF Init, Calls, NoRun
<1>4. Queues
  BY DEF Init, Queues, QueueIn, NoEngine
<1>5. EnginesKept /\ NoneYet /\ Flying /\ SessionIsReported
  BY DEF Init, EnginesKept, NoneYet, Flying, SessionIsReported, NoEngine, NoRun, Id
<1> QED  BY <1>2, <1>3, <1>4, <1>5 DEF IInv

LEMMA Stutters ==
  ASSUME IInv, UNCHANGED vars
  PROVE  IInv'
<1>1. UNCHANGED <<modules, socket, session, generation, inFlight, promise, run, engine>>
  BY DEF vars, pageVars, callVars
<1> QED  BY <1>1 DEF IInv, Types, Queues, EnginesKept, NoneYet, Flying,
                     SessionIsReported

LEMMA Steps == IInv /\ [Next]_vars => IInv'
<1> SUFFICES ASSUME IInv, [Next]_vars  PROVE  IInv'
  OBVIOUS
<1>1. ASSUME NEW r \in Run, createAndUpload(r)  PROVE  IInv'
  BY <1>1, CallInv
<1>2. CASE ModulesLoad \/ ModulesFail
  BY <1>2, ModulesLoadInv, ModulesFailInv
<1>3. ASSUME NEW e \in Id, EngineStep(e)  PROVE  IInv'
  BY <1>3, EngineLoadsInv, EngineFailsInv, CompiledInv, RejectsInv, DecodedInv,
     TimesOutInv, StrayTimesOutInv, WorkerIsReadyInv, WorkerFailsInv, InitRaisesInv,
     ExecEndsInv
     DEF EngineStep
<1>4. CASE Interrupt \/ Kill
  BY <1>4, InterruptInv, KillInv
<1>5. CASE UNCHANGED vars
  BY <1>5, Stutters
<1> QED  BY <1>1, <1>2, <1>3, <1>4, <1>5 DEF Next

\* The invariant: queues in the order of the calls, on engines that are there,
\* and a Run in flight that is the current one.
THEOREM Inductive == Spec => []IInv
BY Initially, Steps, PTL DEF Spec

\* The session that answers the debugger is the one its page was told of
\* (gdbgui's onSuccess after createAndUpload), with its socket open, and no later
\* Run has succeeded.
THEOREM SessionCorrect == Spec => []SessionIsReported
<1>1. IInv => SessionIsReported
  BY DEF IInv
<1> QED  BY <1>1, Inductive, PTL

\* A Run in flight is never on an engine that _abortCurrent has given up.
THEOREM NeverGivenUp == Spec => []NeverOnDisposed
<1>1. IInv => NeverOnDisposed
  <2> SUFFICES ASSUME IInv, inFlight, run[Newest].on # 0
               PROVE  engine[run[Newest].on].end = "kept"
    BY DEF NeverOnDisposed
  <2>1. PICK r \in Run : /\ run[r].gen # 0 /\ run[r].gen = generation
                         /\ run[r].on # 0 => engine[run[r].on].end = "kept"
    BY DEF IInv, Flying
  <2>2. /\ Newest \in 0 .. MaxRuns
        /\ \A s \in Run : (s <= Newest) = (run[s].gen # 0)
    BY NewestIsLast DEF IInv
  <2>3. r <= Newest /\ Newest \in Run
    BY <2>1, <2>2, TabAssumption DEF Run
  <2>4. run[Newest].gen # 0 /\ run[Newest].gen <= generation
    BY <2>2, <2>3, TabAssumption DEF IInv, Calls, Run
  <2>5. ~(r < Newest)
    BY <2>1, <2>3, <2>4 DEF IInv, Calls, RunType
  <2>6. r = Newest
    BY <2>3, <2>5, TabAssumption DEF Run
  <2> QED  BY <2>1, <2>6
<1> QED  BY <1>1, Inductive, PTL
=============================================================================
