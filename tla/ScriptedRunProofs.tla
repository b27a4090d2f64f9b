------------------------- MODULE ScriptedRunProofs --------------------------
(***************************************************************************)
(* Proofs about the scripted debug commands, for any max_stops.            *)
(*                                                                         *)
(* Every step of a command line process is one that the MCP server could   *)
(* take for one of its callers, so what is proved of DebugSessions holds   *)
(* of it too; what its exit leaves follows from there.                     *)
(*                                                                         *)
(* The loop of debug_run runs over 1..max_stops and leaves from its last   *)
(* turn, so the invariant has to count the turns together with the stops   *)
(* and to say that a run which is still stepping has a turn left.          *)
(***************************************************************************)
EXTENDS ScriptedRun, DebugSessionsProofs

Shaped ==
    script = [process |-> script.process, id |-> script.id, pc |-> script.pc,
              stops |-> script.stops, left |-> script.left, state |-> script.state,
              capped |-> script.capped]

Counts ==
    /\ Shaped
    /\ script.pc \in {"start", "opening", "stepping", "stopping", "over"}
    /\ script.stops \in 0..MaxStops + 1 /\ script.left \in 0..MaxStops
    /\ script.capped \in BOOLEAN
    /\ script.pc \in {"start", "opening"} =>
          script.stops = 0 /\ script.left = MaxStops /\ ~script.capped
    /\ script.pc = "stepping" =>
          script.left > 0 /\ ~script.capped /\ script.state = "break"

CountInv == Counts /\ StopsBounded

LEMMA CountInit == ScriptInit => CountInv
<1> SUFFICES ASSUME ScriptInit PROVE CountInv
  OBVIOUS
<1>1. PICK p \in Process :
        script = [process |-> p, id |-> NoId, pc |-> "start", stops |-> 0,
                  left |-> MaxStops, state |-> "other", capped |-> FALSE]
  BY DEF ScriptInit
<1> QED
  BY <1>1, MaxStopsAssumption DEF CountInv, Counts, Shaped, StopsBounded

\* One turn of the loop uses up one of its turns and records one stop.
LEMMA NextStopCounts ==
  ASSUME CountInv, NextStop
  PROVE  CountInv'
<1>1. /\ script.pc = "stepping" /\ script.left \in 1..MaxStops
      /\ script.stops + script.left = MaxStops + 1 /\ script.stops \in 0..MaxStops + 1
      /\ MaxStops \in Nat /\ Shaped /\ script.state = "break"
  BY MaxStopsAssumption DEF CountInv, Counts, StopsBounded, NextStop
<1>2. /\ script'.stops = script.stops + 1 /\ script'.left = script.left - 1
      /\ script'.capped = (script.left = 1)
      /\ script'.pc = IF script.left = 1 THEN "stopping" ELSE "stepping"
      /\ script'.state = "break"
  BY <1>1 DEF Shaped, NextStop
<1>3. Shaped'
  BY <1>1 DEF Shaped, NextStop
<1>4. CASE script.left = 1
  <2>1. /\ script'.pc = "stopping"
        /\ script'.stops = MaxStops + 1 /\ script'.left = 0
    BY <1>1, <1>2, <1>4
  <2>2. script'.capped = TRUE
    BY <1>2, <1>4
  <2> QED
    BY <1>1, <1>2, <1>3, <2>1, <2>2 DEF CountInv, Counts, StopsBounded
<1>5. CASE script.left # 1
  <2>1. /\ script'.pc = "stepping"
        /\ script'.left \in 1..MaxStops
        /\ script'.stops \in 0..MaxStops + 1
        /\ script'.stops + script'.left = MaxStops + 1
    BY <1>1, <1>2, <1>5
  <2>2. script'.capped = FALSE
    BY <1>2, <1>5
  <2>3. script'.stops # MaxStops + 1
    BY <1>1, <2>1
  <2> QED
    BY <1>1, <1>2, <1>3, <2>1, <2>2, <2>3 DEF CountInv, Counts, StopsBounded
<1> QED
  BY <1>4, <1>5

\* The start of a debug_run broke: its first stop, with all turns to come.
LEMMA FirstStopCounts ==
  ASSUME CountInv, FirstStop
  PROVE  CountInv'
<1>1. /\ script.left = MaxStops /\ ~script.capped /\ Shaped
      /\ MaxStops \in Nat \ {0} /\ script.capped \in BOOLEAN
  BY MaxStopsAssumption DEF CountInv, Counts, FirstStop
<1>2. /\ script'.pc = "stepping" /\ script'.stops = 1 /\ script'.left = MaxStops
      /\ script'.capped = script.capped /\ script'.state = "break"
  BY <1>1 DEF Shaped, FirstStop
<1>3. Shaped'
  BY <1>1 DEF Shaped, FirstStop
<1> QED
  BY <1>1, <1>2, <1>3 DEF CountInv, Counts, StopsBounded

LEMMA ReadsCounts ==
  ASSUME CountInv, Reads
  PROVE  CountInv'
<1>1. CASE OpenFailed
  BY <1>1 DEF CountInv, Counts, Shaped, StopsBounded, OpenFailed
<1>2. CASE OpenedOnly
  BY <1>2 DEF CountInv, Counts, Shaped, StopsBounded, OpenedOnly
<1>3. CASE FirstStop
  BY <1>3, FirstStopCounts
<1>4. CASE RanOn
  BY <1>4 DEF CountInv, Counts, Shaped, StopsBounded, RanOn
<1>5. CASE StepFailed
  BY <1>5 DEF CountInv, Counts, Shaped, StopsBounded, StepFailed
<1>6. CASE Stopped
  BY <1>6 DEF CountInv, Counts, Shaped, StopsBounded, Stopped
<1> QED
  BY <1>1, <1>2, <1>3, <1>4, <1>5, <1>6, NextStopCounts DEF Reads

LEMMA CountNext == CountInv /\ [ScriptNext]_svars => CountInv'
<1> SUFFICES ASSUME CountInv, [ScriptNext]_svars PROVE CountInv'
  OBVIOUS
<1>1. CASE UNCHANGED script
  BY <1>1 DEF CountInv, Counts, Shaped, StopsBounded
<1>2. CASE Begins
  BY <1>2 DEF CountInv, Counts, Shaped, StopsBounded, Begins
<1>3. CASE Reads
  BY <1>3, ReadsCounts
<1> QED
  BY <1>1, <1>2, <1>3 DEF ScriptNext, CommandLine, Uses, Proceeds, svars

\* A run records at most max_stops + 1 stops, and is capped exactly when it has
\* recorded that many, the last of them a break.
THEOREM StopsStayBounded == ScriptSafe => []StopsBounded
<1>1. CountInv => StopsBounded
  BY DEF CountInv
<1> QED
  BY CountInit, CountNext, <1>1, PTL DEF ScriptSafe
-----------------------------------------------------------------------------
(***************************************************************************)
(* Where the script is, and where its call is then.                        *)
(***************************************************************************)

Fields == /\ script.process \in Process
          /\ script.id \in Ids \cup {NoId}
          /\ script.state \in {"break", "other", "ended"}

\* A command line process has one caller, and its session does not expire.
Single == ~Serving => /\ \A c \in Callers \ {Runner} : call[c] = NoCall
                      /\ \A i \in Ids : ~stale[i]

\* The session of the script is the only one there can be; a stop that has got
\* beyond its exchange has taken it out of the map.
UsesCall(op) ==
    /\ script.id \in known /\ slot \subseteq {script.id}
    /\ call[Runner].pc = "idle" \/ (call[Runner].op = op /\ call[Runner].id \in {NoId, script.id})

Place ==
    /\ Serving => script.pc = "start"
    /\ ~Serving /\ script.pc = "start" => call[Runner] = NoCall /\ slot = {}
    /\ script.pc = "opening" =>
          /\ call[Runner].pc # "idle" /\ call[Runner].op \in Opens
          /\ slot \subseteq {call[Runner].id}
    /\ script.pc = "stepping" => UsesCall("step")
    /\ script.pc = "stopping" =>
          /\ UsesCall("stop")
          /\ call[Runner].pc \in {"closing", "answered"} => slot = {}
    /\ script.pc = "over" => call[Runner] = NoCall /\ slot = {}

ScriptInv == Fields /\ Single /\ Place

DebugInv == IInv /\ Course

LEMMA ScriptInit1 == ScriptInit => ScriptInv
<1> SUFFICES ASSUME ScriptInit PROVE ScriptInv
  OBVIOUS
<1>1. PICK p \in Process :
        script = [process |-> p, id |-> NoId, pc |-> "start", stops |-> 0,
                  left |-> MaxStops, state |-> "other", capped |-> FALSE]
  BY DEF ScriptInit
<1>2. script.process = p /\ script.id = NoId /\ script.pc = "start" /\ script.state = "other"
  BY <1>1
<1> QED
  BY <1>2, RunnerAssumption DEF ScriptInit, Init, ScriptInv, Fields, Single, Place, Serving

\* Every step of the process is a step of DebugSessions: what the script steps and
\* stops is an id it was given.
LEMMA ScriptIsDebug ==
    ASSUME ScriptInv, [ScriptNext]_svars
    PROVE  [Next]_vars
<1> USE RunnerAssumption
<1>1. CASE Begins
  BY <1>1 DEF Begins, Next, Opens
<1>2. CASE Uses
  <2>1. script.id \in known
    BY <1>2 DEF Uses, ScriptInv, Place, UsesCall
  <2>2. \E op \in {"step", "stop"} :
           UseCall(Runner, op, script.id) \/ UnknownCall(Runner, op, script.id)
    BY <1>2 DEF Uses
  <2> QED
    BY <2>1, <2>2 DEF Next
<1>3. CASE Proceeds
  BY <1>3 DEF Proceeds, Next
<1>4. CASE Reads
  BY <1>4 DEF Reads, Next, Works
<1>5. CASE Serving /\ Next /\ UNCHANGED script
  BY <1>5
<1>6. CASE \E i \in Ids : Dies(i)
  BY <1>6 DEF Next
<1>7. CASE UNCHANGED svars
  BY <1>7 DEF svars, vars
<1> QED
  BY <1>1, <1>2, <1>3, <1>4, <1>5, <1>6, <1>7 DEF ScriptNext, CommandLine

\* What a step of the call in progress leaves of the call and of the map.
RunnerStep ==
    /\ \A d \in Callers \ {Runner} : call'[d] = call[d]
    /\ call'[Runner].op = call[Runner].op
    /\ call[Runner].pc # "idle" /\ call'[Runner].pc # "idle"
    /\ UNCHANGED <<stale, known>>
    /\ \/ slot' = slot /\ call'[Runner].id = call[Runner].id
       \/ slot' = slot /\ call[Runner].id = NoId
       \/ slot' = slot \cup {call[Runner].id} /\ call'[Runner].id = call[Runner].id
       \/ slot' = slot \ {call[Runner].id} /\ call'[Runner].id = call[Runner].id
    /\ call[Runner].op \notin Opens =>
          call'[Runner].id = call[Runner].id /\ slot' \in {slot, slot \ {call[Runner].id}}
    /\ call[Runner].op = "stop" /\ call'[Runner].pc \in {"closing", "answered"} =>
          \/ slot' = slot \ {call[Runner].id} /\ call[Runner].id \in Ids
          \/ slot' = slot /\ call[Runner].pc \in {"closing", "answered"}

LEMMA ProceedsFacts ==
    ASSUME DebugInv, \A i \in Ids : ~stale[i], Proceeds
    PROVE  RunnerStep
<1> USE RunnerAssumption DEF RunnerStep, Moves, Passes
<1>0. TypeOK /\ Shape /\ OpensOnly /\ StopsOnly
  BY DEF DebugInv, IInv, SlotInv, Course
<1>1. ASSUME Reap(Runner) PROVE RunnerStep
  <2>1. {i \in slot : stale[i]} = {}
    BY <1>0 DEF TypeOK
  <2>2. UNCHANGED stale
    BY <1>1 DEF Reap
  <2> QED
    BY <1>0, <1>1, <2>1, <2>2, ReapFacts DEF OpensOnly, Opens
<1>2. ASSUME NEW i \in Ids, Close(Runner, i) PROVE RunnerStep
  <2>1. UNCHANGED stale
    BY <1>2 DEF Close
  <2> QED
    BY <1>0, <1>2, <2>1, CloseFacts
<1>3. ASSUME Closed(Runner) PROVE RunnerStep
  <2>1. UNCHANGED stale
    BY <1>3 DEF Closed
  <2> QED
    BY <1>0, <1>3, <2>1, ClosedFacts DEF Onward
<1>4. ASSUME Check(Runner) \/ ConnectFails(Runner) PROVE RunnerStep
  <2>1. UNCHANGED stale
    BY <1>4 DEF Check, ConnectFails
  <2> QED
    BY <1>0, <1>4, <2>1, CheckFacts DEF OpensOnly, Opens
<1>5. ASSUME NEW i \in Ids, Connect(Runner, i) PROVE RunnerStep
  <2>1. UNCHANGED stale
    BY <1>5 DEF Connect
  <2> QED
    BY <1>0, <1>5, <2>1, ConnectFacts DEF OpensOnly, Opens, Shape
<1>6. ASSUME Create(Runner) PROVE RunnerStep
  <2>1. UNCHANGED stale
    BY <1>6 DEF Create
  <2> QED
    BY <1>0, <1>6, <2>1, CreateFacts DEF OpensOnly, Opens
<1>7. ASSUME Lock(Runner) \/ Send(Runner) PROVE RunnerStep
  <2>1. UNCHANGED stale
    BY <1>7 DEF Lock, Send
  <2> QED
    BY <1>0, <1>7, <2>1, LockFacts
<1>8. ASSUME Replied(Runner) \/ Refused(Runner) \/ Unanswered(Runner) PROVE RunnerStep
  <2>1. call[Runner].op = "stop" => call'[Runner].pc = "remove"
    BY <1>0, <1>8, StopEnds DEF StopsOnly
  <2> QED
    BY <1>0, <1>8, <2>1, ExchangeShape
<1>9. ASSUME Remove(Runner) PROVE RunnerStep
  <2>1. UNCHANGED stale /\ call[Runner].id \in Ids
    BY <1>0, <1>9 DEF Remove, TypeOK
  <2> QED
    BY <1>0, <1>9, <2>1, RemoveFacts
<1>10. ~Return(Runner)
  BY DEF Proceeds, Return
<1> QED
  BY <1>1, <1>2, <1>3, <1>4, <1>5, <1>6, <1>7, <1>8, <1>9, <1>10 DEF Proceeds, Works

\* The fields of a record that is written field by field.
LEMMA ScriptFields ==
    ASSUME Shaped
    PROVE  /\ Begins => script'.pc = "opening" /\ script'.id = script.id
                        /\ script'.process = script.process /\ script'.state = script.state
           /\ OpenFailed \/ Stopped =>
                 /\ script'.pc = "over" /\ script'.id = script.id
                 /\ script'.process = script.process /\ script'.state = script.state
           /\ OpenedOnly =>
                 /\ script'.pc = "stopping" /\ script'.id = call[Runner].id
                 /\ script'.process = script.process /\ script'.state = script.state
           /\ FirstStop =>
                 /\ script'.pc = "stepping" /\ script'.id = call[Runner].id
                 /\ script'.process = script.process /\ script'.state = "break"
           /\ NextStop =>
                 /\ script'.pc \in {"stepping", "stopping"} /\ script'.id = script.id
                 /\ script'.process = script.process /\ script'.state = script.state
           /\ RanOn \/ StepFailed =>
                 /\ script'.pc = "stopping" /\ script'.id = script.id
                 /\ script'.process = script.process /\ script'.state \in {"other", "ended"}
<1>1. CASE Begins
  BY <1>1 DEF Shaped, Begins, OpenFailed, Stopped, OpenedOnly, FirstStop, NextStop, RanOn, StepFailed
<1>2. CASE OpenFailed \/ Stopped
  BY <1>2 DEF Shaped, Begins, OpenFailed, Stopped, OpenedOnly, FirstStop, NextStop, RanOn, StepFailed
<1>3. CASE OpenedOnly
  BY <1>3 DEF Shaped, Begins, OpenFailed, Stopped, OpenedOnly, FirstStop, NextStop, RanOn, StepFailed
<1>4. CASE FirstStop
  BY <1>4 DEF Shaped, Begins, OpenFailed, Stopped, OpenedOnly, FirstStop, NextStop, RanOn, StepFailed
<1>5. CASE NextStop
  BY <1>5 DEF Shaped, Begins, OpenFailed, Stopped, OpenedOnly, FirstStop, NextStop, RanOn, StepFailed
<1>6. CASE RanOn \/ StepFailed
  BY <1>6 DEF Shaped, Begins, OpenFailed, Stopped, OpenedOnly, FirstStop, NextStop, RanOn, StepFailed
<1> QED
  BY <1>1, <1>2, <1>3, <1>4, <1>5, <1>6

\* What a step of the command line leaves alone.
LEMMA SingleKept ==
    ASSUME ScriptInv, ~Serving, UNCHANGED stale, \A d \in Callers \ {Runner} : call'[d] = call[d]
    PROVE  Single'
  BY DEF ScriptInv, Single

LEMMA BeginsPlace ==
    ASSUME DebugInv, CountInv, ScriptInv, ~Serving, Begins
    PROVE  ScriptInv'
<1> USE RunnerAssumption DEF Opens
<1>0. TypeOK /\ Shaped /\ slot = {}
  BY DEF DebugInv, IInv, CountInv, Counts, ScriptInv, Place, Begins
<1>1. PICK op \in Opens : OpenCall(Runner, op)
  BY DEF Begins
<1>2. /\ call'[Runner].pc = "reap" /\ call'[Runner].op = op
      /\ \A d \in Callers \ {Runner} : call'[d] = call[d]
      /\ UNCHANGED <<slot, stale>>
  BY <1>0, <1>1, OpenFacts DEF Moves, OpenCall
<1>3. /\ script'.pc = "opening" /\ script'.id = script.id
      /\ script'.process = script.process /\ script'.state = script.state
  BY <1>0, ScriptFields
<1>4. Single'
  BY <1>2, SingleKept
<1> QED
  BY <1>0, <1>2, <1>3, <1>4 DEF ScriptInv, Fields, Place, Serving

LEMMA UsesPlace ==
    ASSUME DebugInv, ScriptInv, ~Serving, Uses
    PROVE  ScriptInv'
<1> USE RunnerAssumption
<1>0. TypeOK /\ Shape /\ \A i \in Ids : ~stale[i]
  BY DEF DebugInv, IInv, SlotInv, ScriptInv, Single
<1> DEFINE op == IF script.pc = "stepping" THEN "step" ELSE "stop"
<1>1. /\ script.pc \in {"stepping", "stopping"} /\ UsesCall(op) /\ script' = script
      /\ UseCall(Runner, op, script.id) \/ UnknownCall(Runner, op, script.id)
  BY DEF Uses, ScriptInv, Place
<1>2. script.id \in Ids /\ slot \subseteq {script.id}
  BY <1>0, <1>1, KnownIds DEF UsesCall
<1>3. /\ \/ call'[Runner].pc = "lock" /\ call'[Runner].id = script.id
         \/ /\ call'[Runner].pc = "answered" /\ call'[Runner].id = NoId
            /\ script.id \notin slot
      /\ call'[Runner].op = op /\ UNCHANGED <<slot, known, stale>>
      /\ \A d \in Callers \ {Runner} : call'[d] = call[d]
  <2>1. CASE UseCall(Runner, op, script.id)
    <3>1. UNCHANGED stale
      BY <2>1 DEF UseCall
    <3> QED
      BY <1>0, <1>2, <2>1, <3>1, UseFacts DEF Moves
  <2>2. CASE UnknownCall(Runner, op, script.id)
    <3>1. UNCHANGED stale /\ script.id \notin slot
      BY <1>0, <1>2, <2>2 DEF UnknownCall
    <3>2. call[Runner].pc = "idle" /\ call[Runner].id = NoId
      BY <1>0, <2>2, NoCallFields DEF UnknownCall, Shape
    <3> QED
      BY <1>0, <1>2, <2>2, <3>1, <3>2, UnknownFacts DEF Moves
  <2> QED
    BY <1>1, <2>1, <2>2
<1>4. Single'
  BY <1>3, SingleKept
<1>5. UsesCall(op)'
  BY <1>1, <1>3 DEF UsesCall
<1>6. call'[Runner].pc \in {"closing", "answered"} => slot' = {}
  BY <1>2, <1>3
<1>7. Place'
  BY <1>1, <1>5, <1>6 DEF ScriptInv, Place, Serving
<1> QED
  BY <1>1, <1>4, <1>7 DEF ScriptInv, Fields

LEMMA ProceedsPlace ==
    ASSUME DebugInv, CountInv, ScriptInv, ~Serving, Proceeds
    PROVE  ScriptInv'
<1> USE RunnerAssumption
<1>0. slot \subseteq Ids /\ script' = script
  BY DEF DebugInv, IInv, TypeOK, Proceeds
<1>1. RunnerStep
  BY ProceedsFacts DEF ScriptInv, Single
<1>2. Single'
  BY <1>1, SingleKept DEF RunnerStep
<1>3. script.pc \in {"opening", "stepping", "stopping"}
  BY <1>1, NoCallFields DEF RunnerStep, CountInv, Counts, ScriptInv, Place
<1>4. CASE script.pc = "opening"
  <2>1. /\ call'[Runner].pc # "idle" /\ call'[Runner].op \in Opens
        /\ slot \subseteq {call[Runner].id}
    BY <1>1, <1>4 DEF RunnerStep, ScriptInv, Place
  <2>2. call[Runner].id = NoId => slot = {}
    BY <1>0, <2>1, NoIdAssumption
  <2>3. slot' \subseteq {call'[Runner].id}
    BY <1>1, <2>1, <2>2 DEF RunnerStep
  <2> QED
    BY <1>0, <1>2, <1>4, <2>1, <2>3 DEF ScriptInv, Fields, Place, Serving
<1>5. CASE script.pc = "stepping"
  <2>1. UsesCall("step") /\ call[Runner].op = "step" /\ call[Runner].id \in {NoId, script.id}
    BY <1>1, <1>5 DEF RunnerStep, ScriptInv, Place, UsesCall
  <2>2. UsesCall("step")'
    BY <1>0, <1>1, <2>1 DEF RunnerStep, UsesCall, Opens
  <2> QED
    BY <1>0, <1>2, <1>5, <2>2 DEF ScriptInv, Fields, Place, Serving
<1>6. CASE script.pc = "stopping"
  <2>1. /\ UsesCall("stop") /\ call[Runner].op = "stop" /\ call[Runner].id \in {NoId, script.id}
        /\ call[Runner].pc \in {"closing", "answered"} => slot = {}
    BY <1>1, <1>6 DEF RunnerStep, ScriptInv, Place, UsesCall
  <2>2. UsesCall("stop")'
    BY <1>0, <1>1, <2>1 DEF RunnerStep, UsesCall, Opens
  <2>3. call'[Runner].pc \in {"closing", "answered"} => slot' = {}
    BY <1>1, <2>1, NoIdAssumption DEF RunnerStep, UsesCall
  <2> QED
    BY <1>0, <1>2, <1>6, <2>2, <2>3 DEF ScriptInv, Fields, Place, Serving
<1> QED
  BY <1>3, <1>4, <1>5, <1>6

\* A session that failed to open, or was stopped, is out of the map by the time
\* the answer is read.
LEMMA ReadsPlace ==
    ASSUME DebugInv, CountInv, ScriptInv, ~Serving, Reads
    PROVE  ScriptInv'
<1> USE RunnerAssumption
<1>0. /\ TypeOK /\ StaysDown /\ Shaped /\ Return(Runner)
      /\ slot \subseteq Ids /\ script.process \in Process
  BY DEF DebugInv, IInv, SlotInv, TypeOK, CountInv, Counts, ScriptInv, Fields, Reads
<1>1. /\ call[Runner].pc = "answered" /\ call'[Runner] = NoCall /\ call'[Runner].pc = "idle"
      /\ \A d \in Callers \ {Runner} : call'[d] = call[d]
      /\ UNCHANGED <<slot, stale>>
  BY <1>0, ReturnFacts, NoCallFields DEF Return
<1>2. /\ known \subseteq known'
      /\ call[Runner].op \in Opens /\ call[Runner].answer = "ok" => call[Runner].id \in known'
  BY <1>0 DEF Return
<1>3. Single'
  BY <1>1, SingleKept
<1>4. CASE OpenFailed
  <2>1. /\ call[Runner].op \in Opens /\ call[Runner].answer = "error"
        /\ slot \subseteq {call[Runner].id}
    BY <1>4 DEF OpenFailed, ScriptInv, Place
  <2>2. call[Runner].id # NoId => call[Runner].id \notin slot
    BY <1>0, <1>1, <2>1 DEF StaysDown, TookDown
  <2>3. slot' = {}
    BY <1>0, <1>1, <2>1, <2>2, NoIdAssumption
  <2> QED
    BY <1>0, <1>1, <1>3, <1>4, <2>3, ScriptFields DEF ScriptInv, Fields, Place, Serving
<1>5. CASE OpenedOnly \/ FirstStop
  <2>1. /\ script.pc = "opening" /\ call[Runner].answer = "ok" /\ call[Runner].op \in Opens
        /\ slot \subseteq {call[Runner].id}
    BY <1>5 DEF OpenedOnly, FirstStop, Broke, ScriptInv, Place
  <2>2. call[Runner].id \in Ids /\ call[Runner].id \in known'
    BY <1>0, <1>2, <2>1 DEF TypeOK
  <2>3. /\ script'.pc \in {"stepping", "stopping"} /\ script'.id = call[Runner].id
        /\ script'.process = script.process /\ script'.state \in {script.state, "break"}
    BY <1>0, <1>5, ScriptFields
  <2>4. \A op : UsesCall(op)'
    BY <1>1, <2>1, <2>2, <2>3 DEF UsesCall
  <2>5. Fields'
    BY <1>0, <2>2, <2>3 DEF ScriptInv, Fields
  <2> QED
    BY <1>1, <1>3, <2>3, <2>4, <2>5 DEF ScriptInv, Place, Serving
<1>6. CASE NextStop \/ RanOn \/ StepFailed
  <2>1. script.id \in known /\ slot \subseteq {script.id}
    BY <1>6 DEF NextStop, RanOn, StepFailed, ScriptInv, Place, UsesCall
  <2>2. /\ script'.pc \in {"stepping", "stopping"} /\ script'.id = script.id
        /\ script'.process = script.process
        /\ script'.state \in {script.state, "other", "ended"}
    BY <1>0, <1>6, ScriptFields
  <2>3. \A op : UsesCall(op)'
    BY <1>1, <1>2, <2>1, <2>2 DEF UsesCall
  <2>4. Fields'
    BY <1>0, <2>2 DEF ScriptInv, Fields
  <2> QED
    BY <1>1, <1>3, <2>2, <2>3, <2>4 DEF ScriptInv, Place, Serving
<1>7. CASE Stopped
  <2>1. slot' = {}
    BY <1>1, <1>7 DEF Stopped, ScriptInv, Place
  <2> QED
    BY <1>0, <1>1, <1>3, <1>7, <2>1, ScriptFields DEF ScriptInv, Fields, Place, Serving
<1> QED
  BY <1>4, <1>5, <1>6, <1>7 DEF Reads

LEMMA ScriptStep ==
    DebugInv /\ CountInv /\ ScriptInv /\ [ScriptNext]_svars => ScriptInv'
<1> SUFFICES ASSUME DebugInv, CountInv, ScriptInv, [ScriptNext]_svars PROVE ScriptInv'
  OBVIOUS
<1>1. CASE Serving /\ script' = script
  BY <1>1 DEF ScriptInv, Fields, Single, Place, Serving
<1>2. CASE UNCHANGED <<script, call, slot, known, stale>>
  BY <1>2 DEF ScriptInv, Fields, Single, Place, UsesCall, Serving
<1>3. CASE CommandLine
  BY <1>3, BeginsPlace, UsesPlace, ProceedsPlace, ReadsPlace DEF CommandLine
<1> QED
  BY <1>1, <1>2, <1>3 DEF ScriptNext, Dies, svars
-----------------------------------------------------------------------------
(***************************************************************************)
(* The theorems.                                                           *)
(***************************************************************************)

\* The command line process and the session it uses, together.
FullInv == DebugInv /\ CountInv /\ ScriptInv

\* Wherever the script is, the session map holds at most the session it uses, and
\* none once its stop has got beyond its exchange (debugger.rs:1151-1223).
THEOREM ScriptInvariant == ScriptSafe => []FullInv
<1>1. ScriptInit => FullInv
  BY IInvInit, CourseInit, CountInit, ScriptInit1 DEF ScriptInit, FullInv, DebugInv
<1>2. FullInv /\ [ScriptNext]_svars => FullInv'
  BY IInvStep, CourseStep, CountNext, ScriptStep, ScriptIsDebug DEF FullInv, DebugInv
<1> QED
  BY <1>1, <1>2, PTL DEF ScriptSafe

\* A scripted process is one of the servers that DebugSessions describes, with one
\* client: each of its steps is a step of that module or none (main.rs).
THEOREM ScriptImplementsDebug == ScriptSafe => Safe
<1>1. ScriptInit => Init
  BY DEF ScriptInit
<1>2. FullInv /\ [ScriptNext]_svars => [Next]_vars
  BY ScriptIsDebug DEF FullInv
<1> QED
  BY <1>1, <1>2, ScriptInvariant, PTL DEF ScriptSafe, Safe

\* The script steps and stops only a session that it was told the id of
\* (debugger.rs:1170-1223).
THEOREM ScriptTyped == ScriptSafe => []ScriptTypeOK
<1>1. FullInv => ScriptTypeOK
  <2> SUFFICES ASSUME FullInv PROVE ScriptTypeOK
    OBVIOUS
  <2>1. Shaped /\ Counts /\ Fields
    BY DEF FullInv, CountInv, Counts, ScriptInv
  <2>2. script \in Script
    BY <2>1 DEF Shaped, Counts, Fields, Script
  <2>3. script.pc \in {"stepping", "stopping"} => script.id \in known
    BY DEF FullInv, ScriptInv, Place, UsesCall
  <2> QED
    BY <2>2, <2>3 DEF ScriptTypeOK
<1> QED
  BY <1>1, ScriptInvariant, PTL

\* "Always stop the session so the IRIS job resumes" (debugger.rs:1158-1159): when the
\* command is over, whatever failed on the way, no session is registered, no
\* connection is open and nobody holds one.
THEOREM ExitLeavesNothing == ScriptSafe => []ExitFrees
<1>1. FullInv => ExitFrees
  <2> SUFFICES ASSUME FullInv, script.pc = "over"
               PROVE  slot = {} /\ \A i \in Ids : socket[i] # "open" /\ lock[i] = Free
    BY DEF ExitFrees
  <2>1. slot = {} /\ \A c \in Callers : call[c] = NoCall
    BY DEF FullInv, ScriptInv, Place, Single
  <2>2. \A c \in Callers, i \in Ids : ~InHand(c, i)
    BY <2>1, NoCallFields DEF InHand
  <2>3. \A i \in Ids : socket[i] # "open"
    BY <2>1, <2>2 DEF FullInv, DebugInv, IInv, NoOrphans
  <2>4. \A i \in Ids : lock[i] = Free
    BY <2>1, NoCallFields DEF FullInv, DebugInv, IInv, TypeOK, Course, Held
  <2> QED
    BY <2>1, <2>3, <2>4
<1> QED
  BY <1>1, ScriptInvariant, PTL
=============================================================================
