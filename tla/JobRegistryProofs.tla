------------------------- MODULE JobRegistryProofs --------------------------
(***************************************************************************)
(* Theorems about JobRegistry, for every number of jobs, callers and every *)
(* value of the limits.                                                    *)
(***************************************************************************)
EXTENDS JobRegistry, FiniteSetTheorems, TLAPS

USE RunningAssumption, EntriesAssumption, RetentionAssumption, FreeAssumption

-----------------------------------------------------------------------------
(***************************************************************************)
(* The projection of a snapshot.                                           *)
(***************************************************************************)

\* The pair task_state and status_message never diverge: both use the same
\* precedence, so tasks/get is coherent for every JobInfo.
THEOREM ProjectionCoherent ==
    ASSUME NEW info \in JobInfo
    PROVE  /\ StatusMessage(info) = TaskState(info)
           /\ TaskState(info) \in TaskStatus
           /\ TaskState(info) = "working" <=> info.running
  BY DEF JobInfo, StatusMessage, TaskState, TaskStatus

LEMMA EndedState ==
    ASSUME NEW info, ~info.running
    PROVE  /\ TaskState(info) \in TerminalStatus
           /\ TaskState(info) = "cancelled" => info.interrupted
  <1>1. CASE info.failed
    BY <1>1 DEF TaskState, TerminalStatus, TaskStatus
  <1>2. CASE ~info.failed /\ info.interrupted
    BY <1>2 DEF TaskState, TerminalStatus, TaskStatus
  <1>3. CASE ~info.failed /\ ~info.interrupted
    BY <1>3 DEF TaskState, TerminalStatus, TaskStatus
  <1>4. QED
    BY <1>1, <1>2, <1>3

LEMMA SnapshotType ==
    ASSUME TypeOK, NEW j \in Jobs
    PROVE  Snapshot(j) \in JobInfo
  BY DEF TypeOK, Meta, Snapshot, JobInfo
-----------------------------------------------------------------------------
(***************************************************************************)
(* Type correctness.                                                       *)
(***************************************************************************)
LEMMA InitType == Init => TypeOK
  <1> SUFFICES ASSUME Init PROVE TypeOK
    OBVIOUS
  <1>1. meta \in [Jobs -> Meta]
    BY DEF Init, NewMeta, Meta, None
  <1>2. NoRequest \in Request
    BY DEF NoRequest, Request, PC, Holding, Answers, Bare, NoTask
  <1>3. caller \in [Callers -> Request]
    BY <1>2 DEF Init
  <1>4. QED
    BY <1>1, <1>3 DEF Init, TypeOK, TaskPC

LEMMA AnswerType ==
    ASSUME TypeOK, NEW c \in Callers, NEW a \in Answers, Answer(c, a)
    PROVE  caller' \in [Callers -> Request]
  BY DEF TypeOK, Answer, Request, PC

LEMMA GotoType ==
    ASSUME TypeOK, NEW c \in Callers, NEW pc \in PC, Goto(c, pc)
    PROVE  caller' \in [Callers -> Request]
  BY DEF TypeOK, Goto, Request

LEMMA CallType ==
    ASSUME TypeOK, NEW c \in Callers, NEW op \in {"start", "get", "cancel"},
           NEW j \in Jobs, Call(c, op, j)
    PROVE  caller' \in [Callers -> Request]
  <1>1. [pc |-> "waiting", op |-> op, job |-> j, answer |-> Bare("silent")] \in Request
    BY DEF Request, PC, Answers, Bare, NoTask
  <1>2. QED
    BY <1>1 DEF TypeOK, Call

LEMMA BareType ==
    ASSUME NEW s \in NoTask
    PROVE  Bare(s) \in Answers
  BY DEF Bare, Answers

LEMMA ProgressType ==
    ASSUME TypeOK, NEW j \in Jobs, NEW from, NEW to \in TaskPC, Progress(j, from, to)
    PROVE  TypeOK'
  BY DEF TypeOK, Progress

LEMMA FinishType ==
    ASSUME TypeOK, NEW j \in Jobs, NEW i \in BOOLEAN, FinishOk(j, i) \/ FinishErr(j)
    PROVE  TypeOK'
  <1>1. task' \in [Jobs -> TaskPC]
    BY DEF TypeOK, FinishOk, FinishErr, TaskPC
  <1> DEFINE ok  == [meta[j] EXCEPT !.running = FALSE, !.finished = now,
                                    !.interrupted = i, !.result = TRUE]
             err == [meta[j] EXCEPT !.running = FALSE, !.finished = now,
                                    !.failed = TRUE]
  <1>2. ok \in Meta /\ err \in Meta
    <2>1. meta[j] \in Meta /\ now \in Nat
      BY DEF TypeOK
    <2>2. QED
      BY <2>1 DEF Meta
  <1>3. meta' \in [Jobs -> Meta]
    <2>1. meta' = [meta EXCEPT ![j] = ok] \/ meta' = [meta EXCEPT ![j] = err]
      BY DEF FinishOk, FinishErr, TypeOK
    <2>2. QED
      BY <1>2, <2>1 DEF TypeOK
  <1>4. QED
    BY <1>1, <1>3 DEF TypeOK, FinishOk, FinishErr

LEMMA TaskStepType ==
    ASSUME TypeOK, NEW j \in Jobs, TaskStep(j)
    PROVE  TypeOK'
  <1>1. {"running", "breaking", "draining"} \subseteq TaskPC
    BY DEF TaskPC, OnSession
  <1>2. CASE Opened(j)
    BY <1>1, <1>2, ProgressType DEF Opened
  <1>3. CASE OpenFails(j)
    BY <1>3, FinishType DEF OpenFails
  <1>4. CASE Completes(j)
    BY <1>4, FinishType DEF Completes
  <1>5. CASE SeesCancel(j)
    BY <1>1, <1>5, ProgressType DEF SeesCancel
  <1>6. CASE Settles(j)
    BY <1>6, FinishType DEF Settles
  <1>7. CASE Fails(j)
    BY <1>1, <1>7, ProgressType DEF Fails
  <1>8. CASE Drained(j)
    BY <1>8, FinishType DEF Drained
  <1>9. CASE Panics(j)
    BY <1>9, FinishType DEF Panics
  <1>10. QED
    BY <1>2, <1>3, <1>4, <1>5, <1>6, <1>7, <1>8, <1>9 DEF TaskStep

\* The job of a request in progress is one: with the shape of a request in
\* each of its program counters, this is all the callers need to be typed.
RequestShape ==
    \A c \in Callers :
        /\ caller[c].pc # "idle" => caller[c].job \in Jobs /\ caller[c].op # "none"
        /\ caller[c].pc = "idle" => caller[c].op = "none"
        /\ caller[c].pc \in {"inserted", "spawned"} => caller[c].op = "start"
        /\ caller[c].pc \in {"tripping", "reading"} => caller[c].op \in {"get", "cancel"}

LEMMA CallerStepType ==
    ASSUME TypeOK, RequestShape, NEW c \in Callers, CallerStep(c)
    PROVE  TypeOK'
  <1> DEFINE j == caller[c].job
  <1>1. CASE Refuse(c)
    <2>1. caller[c].job \in Jobs
      BY <1>1 DEF Refuse, At, RequestShape
    <2>2. task' \in [Jobs -> TaskPC]
      BY <1>1, <2>1 DEF Refuse, TypeOK, TaskPC
    <2>3. caller' \in [Callers -> Request]
      BY <1>1, AnswerType, BareType DEF Refuse, NoTask
    <2>4. QED
      BY <1>1, <2>2, <2>3 DEF Refuse, TypeOK
  <1>2. CASE Insert(c)
    <2>1. caller[c].job \in Jobs
      BY <1>2 DEF Insert, At, RequestShape
    <2>2. caller' \in [Callers -> Request]
      BY <1>2, GotoType DEF Insert, PC
    <2>3. QED
      BY <1>2, <2>1, <2>2 DEF Insert, TypeOK
  <1>3. CASE Spawn(c)
    <2>1. task' \in [Jobs -> TaskPC]
      BY <1>3 DEF Spawn, TypeOK, TaskPC, OnSession
    <2>2. caller' \in [Callers -> Request]
      BY <1>3, GotoType DEF Spawn, PC
    <2>3. QED
      BY <1>3, <2>1, <2>2 DEF Spawn, TypeOK
  <1>4. CASE Seed(c)
    <2>1. j \in Jobs
      BY <1>4 DEF Seed, RequestShape
    <2>2. CreateTask(Snapshot(j)) \in Answers
      BY <2>1, SnapshotType, ProjectionCoherent DEF CreateTask, Task, Answers, TaskStatus
    <2>3. caller' \in [Callers -> Request]
      BY <1>4, <2>2, AnswerType DEF Seed
    <2>4. QED
      BY <1>4, <2>3 DEF Seed, TypeOK
  <1>5. CASE Unknown(c)
    <2>1. caller' \in [Callers -> Request]
      BY <1>5, AnswerType, BareType DEF Unknown, NoTask
    <2>2. QED
      BY <1>5, <2>1 DEF Unknown, TypeOK
  <1>6. CASE FindForGet(c)
    <2>1. caller' \in [Callers -> Request]
      BY <1>6, GotoType DEF FindForGet, PC, Holding
    <2>2. QED
      BY <1>6, <2>1 DEF FindForGet, TypeOK
  <1>7. CASE FindForCancel(c)
    <2>1. caller' \in [Callers -> Request]
      BY <1>7, GotoType DEF FindForCancel, PC, Holding
    <2>2. QED
      BY <1>7, <2>1 DEF FindForCancel, TypeOK
  <1>8. CASE TripCancel(c)
    <2>1. caller' \in [Callers -> Request]
      BY <1>8, GotoType DEF TripCancel, PC, Holding
    <2>2. cancel' \in [Jobs -> BOOLEAN]
      BY <1>8 DEF TripCancel, TypeOK
    <2>3. QED
      BY <1>8, <2>1, <2>2 DEF TripCancel, TypeOK
  <1>9. CASE Reply(c)
    <2>1. j \in Jobs
      BY <1>9 DEF Reply, RequestShape
    <2>2. DetailedTask(Snapshot(j)) \in Answers
      BY <2>1, SnapshotType, ProjectionCoherent DEF DetailedTask, Task, Answers
    <2>3. Bare("accepted") \in Answers
      BY BareType DEF NoTask
    <2>4. caller' \in [Callers -> Request]
      BY <1>9, <2>2, <2>3, AnswerType DEF Reply
    <2>5. QED
      BY <1>9, <2>4 DEF Reply, TypeOK
  <1>10. CASE Return(c)
    <2>1. NoRequest \in Request
      BY DEF NoRequest, Request, PC, Holding, Answers, Bare, NoTask
    <2>2. caller' \in [Callers -> Request]
      BY <1>10, <2>1 DEF Return, TypeOK
    <2>3. QED
      BY <1>10, <2>2 DEF Return, TypeOK
  <1>11. QED
    BY <1>1, <1>2, <1>3, <1>4, <1>5, <1>6, <1>7, <1>8, <1>9, <1>10 DEF CallerStep

LEMMA CallStepType ==
    ASSUME TypeOK, NEW c \in Callers, NEW j \in Jobs,
           StartCall(c, j) \/ GetCall(c, j) \/ CancelCall(c, j)
    PROVE  TypeOK'
  <1>1. CASE StartCall(c, j)
    <2>1. caller' \in [Callers -> Request]
      BY <1>1, CallType DEF StartCall
    <2>2. task' \in [Jobs -> TaskPC]
      BY <1>1 DEF StartCall, TypeOK, TaskPC
    <2>3. meta' \in [Jobs -> Meta]
      BY <1>1 DEF StartCall, TypeOK, Meta, NewMeta, None
    <2>4. QED
      BY <1>1, <2>1, <2>2, <2>3 DEF StartCall, TypeOK
  <1>2. CASE GetCall(c, j) \/ CancelCall(c, j)
    <2>1. caller' \in [Callers -> Request]
      BY <1>2, CallType DEF GetCall, CancelCall
    <2>2. QED
      BY <1>2, <2>1 DEF GetCall, CancelCall, TypeOK
  <1>3. QED
    BY <1>1, <1>2

LEMMA NextType == TypeOK /\ RequestShape /\ [Next]_vars => TypeOK'
  <1> SUFFICES ASSUME TypeOK, RequestShape, [Next]_vars PROVE TypeOK'
    OBVIOUS
  <1>1. ASSUME NEW c \in Callers, LockAndGc(c) PROVE TypeOK'
    <2>1. caller' \in [Callers -> Request]
      BY <1>1, GotoType DEF LockAndGc, PC, Holding
    <2>2. reg' \subseteq reg
      BY <1>1 DEF LockAndGc, Fresh
    <2>3. QED
      BY <1>1, <2>1, <2>2 DEF LockAndGc, TypeOK
  <1>2. CASE Tick
    BY <1>2 DEF Tick, TypeOK
  <1>3. CASE UNCHANGED vars
    BY <1>3 DEF vars, TypeOK
  <1>4. QED
    BY <1>1, <1>2, <1>3, CallerStepType, CallStepType, TaskStepType DEF Next
-----------------------------------------------------------------------------
(***************************************************************************)
(* What a step of a task does to its job.                                  *)
(***************************************************************************)
Moves(j) == /\ task[j] \in OnSession /\ task'[j] \in OnSession
            /\ task'[j] = "breaking" => cancel[j]
            /\ meta' = meta

Ends(j) == /\ task[j] \in OnSession /\ task'[j] = "done"
           /\ meta'[j].started = meta[j].started
           /\ ~meta'[j].running /\ meta'[j].finished = now
           /\ \/ /\ meta'[j].failed = meta[j].failed /\ meta'[j].result
                 /\ meta'[j].interrupted => cancel[j]
              \/ /\ meta'[j].failed /\ meta'[j].result = meta[j].result
                 /\ meta'[j].interrupted = meta[j].interrupted

LEMMA TaskStepEffect ==
    ASSUME TypeOK, NEW j \in Jobs, TaskStep(j), task[j] = "breaking" => cancel[j]
    PROVE  /\ UNCHANGED <<reg, cancel, caller, lock, now>>
           /\ \A k \in Jobs \ {j} : task'[k] = task[k] /\ meta'[k] = meta[k]
           /\ Moves(j) \/ Ends(j)
  <1>1. ASSUME NEW from \in OnSession, NEW to \in OnSession, Progress(j, from, to),
               to = "breaking" => cancel[j]
        PROVE  Moves(j) /\ \A k \in Jobs \ {j} : task'[k] = task[k] /\ meta'[k] = meta[k]
    BY <1>1 DEF Progress, Moves, TypeOK
  <1>2. ASSUME NEW i \in BOOLEAN, FinishOk(j, i), task[j] \in OnSession, i => cancel[j]
        PROVE  Ends(j) /\ \A k \in Jobs \ {j} : task'[k] = task[k] /\ meta'[k] = meta[k]
    <2>1. meta'[j] = [meta[j] EXCEPT !.running = FALSE, !.finished = now,
                                     !.interrupted = i, !.result = TRUE]
      BY <1>2 DEF FinishOk, TypeOK
    <2>2. meta[j] \in Meta
      BY DEF TypeOK
    <2>3. /\ meta'[j].started = meta[j].started /\ meta'[j].running = FALSE
          /\ meta'[j].finished = now /\ meta'[j].failed = meta[j].failed
          /\ meta'[j].result = TRUE /\ meta'[j].interrupted = i
      BY <2>1, <2>2 DEF Meta
    <2>4. task'[j] = "done"
      BY <1>2 DEF FinishOk, TypeOK
    <2>5. \A k \in Jobs \ {j} : task'[k] = task[k] /\ meta'[k] = meta[k]
      BY <1>2 DEF FinishOk, TypeOK
    <2>6. QED
      BY <1>2, <2>3, <2>4, <2>5 DEF Ends
  <1>3. ASSUME FinishErr(j), task[j] \in OnSession
        PROVE  Ends(j) /\ \A k \in Jobs \ {j} : task'[k] = task[k] /\ meta'[k] = meta[k]
    <2>1. meta'[j] = [meta[j] EXCEPT !.running = FALSE, !.finished = now, !.failed = TRUE]
      BY <1>3 DEF FinishErr, TypeOK
    <2>2. meta[j] \in Meta
      BY DEF TypeOK
    <2>3. /\ meta'[j].started = meta[j].started /\ meta'[j].running = FALSE
          /\ meta'[j].finished = now /\ meta'[j].failed = TRUE
          /\ meta'[j].result = meta[j].result
          /\ meta'[j].interrupted = meta[j].interrupted
      BY <2>1, <2>2 DEF Meta
    <2>4. task'[j] = "done"
      BY <1>3 DEF FinishErr, TypeOK
    <2>5. \A k \in Jobs \ {j} : task'[k] = task[k] /\ meta'[k] = meta[k]
      BY <1>3 DEF FinishErr, TypeOK
    <2>6. QED
      BY <1>3, <2>3, <2>4, <2>5 DEF Ends
  <1>4. UNCHANGED <<reg, cancel, caller, lock, now>>
    BY DEF TaskStep, Opened, OpenFails, Completes, SeesCancel, Settles, Fails,
           Drained, Panics, Progress, FinishOk, FinishErr
  <1>5. CASE Opened(j) \/ SeesCancel(j) \/ Fails(j)
    BY <1>1, <1>4, <1>5 DEF Opened, SeesCancel, Fails, OnSession
  <1>6. CASE Completes(j) \/ Settles(j)
    BY <1>2, <1>4, <1>6 DEF Completes, Settles, OnSession
  <1>7. CASE OpenFails(j) \/ Drained(j) \/ Panics(j)
    BY <1>3, <1>4, <1>7 DEF OpenFails, Drained, Panics, OnSession
  <1>8. QED
    BY <1>5, <1>6, <1>7 DEF TaskStep
-----------------------------------------------------------------------------
(***************************************************************************)
(* The inductive invariant, in parts.                                      *)
(***************************************************************************)

\* A slot is filled once, by finish, and only a tripped flag interrupts.
JobShape ==
    \A j \in Jobs :
        /\ meta[j].started <= now
        /\ task[j] # "done" => meta[j] = NewMeta(meta[j].started)
        /\ task[j] = "done" =>
              /\ ~meta[j].running /\ meta[j].finished \in Nat
              /\ meta[j].started <= meta[j].finished /\ meta[j].finished <= now
              /\ meta[j].failed # meta[j].result
              /\ meta[j].interrupted => meta[j].result /\ cancel[j]
        /\ task[j] = "breaking" => cancel[j]

Starting(c) == /\ caller[c].op = "start"
               /\ caller[c].pc \in {"waiting", "holding", "inserted"}

\* A created job has exactly one start working on it.
StartShape ==
    /\ \A c \in Callers : Starting(c) =>
          /\ task[caller[c].job] = "created"
          /\ caller[c].job \in reg <=> caller[c].pc = "inserted"
    /\ \A c, d \in Callers :
          Starting(c) /\ Starting(d) /\ caller[c].job = caller[d].job => c = d
    /\ \A j \in Jobs : task[j] = "created" =>
          \E c \in Callers : Starting(c) /\ caller[c].job = j

\* A job on a session is in the registry, and only an accepted job is.
RegShape ==
    \A j \in Jobs : /\ task[j] \in OnSession => j \in reg
                    /\ j \in reg => task[j] \in OnSession \cup {"created", "done"}

\* The registry's mutex excludes.
LockShape == \A c \in Callers : caller[c].pc \in Holding => lock = c

\* A client asks only for accepted jobs, and gc spares the one being read.
AskShape ==
    \A c \in Callers :
        /\ caller[c].op \in {"get", "cancel"} =>
              task[caller[c].job] \in OnSession \cup {"done"}
        /\ caller[c].pc = "spawned" => task[caller[c].job] \in OnSession \cup {"done"}
        /\ caller[c].pc \in {"tripping", "reading"} => caller[c].job \in reg

Structure == /\ TypeOK /\ RequestShape /\ JobShape /\ StartShape
             /\ RegShape /\ LockShape /\ AskShape
-----------------------------------------------------------------------------
LEMMA InitStructure == Init => Structure
  <1> SUFFICES ASSUME Init PROVE Structure
    OBVIOUS
  <1>1. \A c \in Callers : caller[c].pc = "idle" /\ caller[c].op = "none"
    BY DEF Init, NoRequest
  <1>2. RequestShape /\ LockShape /\ AskShape
    BY <1>1 DEF RequestShape, LockShape, AskShape, Holding
  <1>3. \A j \in Jobs : /\ task[j] = "unborn" /\ j \notin reg
                        /\ meta[j] = NewMeta(meta[j].started) /\ meta[j].started = now
    BY DEF Init, NewMeta
  <1>4. JobShape /\ RegShape
    BY <1>3, InitType DEF JobShape, RegShape, OnSession, TypeOK
  <1>5. StartShape
    BY <1>1, <1>3 DEF StartShape, Starting
  <1>6. QED
    BY <1>2, <1>4, <1>5, InitType DEF Structure

\* What the steps of callers leave alone.
LEMMA QuietStep ==
    ASSUME NEW c \in Callers,
           \/ LockAndGc(c) \/ Refuse(c) \/ Insert(c) \/ Spawn(c) \/ Seed(c)
           \/ Unknown(c) \/ FindForGet(c) \/ FindForCancel(c) \/ Reply(c) \/ Return(c)
           \/ \E j \in Jobs : GetCall(c, j) \/ CancelCall(c, j)
    PROVE  UNCHANGED <<meta, cancel, now>>
  BY DEF LockAndGc, Refuse, Insert, Spawn, Seed, Unknown, FindForGet,
         FindForCancel, Reply, Return, GetCall, CancelCall

LEMMA JobShapeStep == Structure /\ [Next]_vars => JobShape'
  <1> SUFFICES ASSUME Structure, [Next]_vars, NEW k \in Jobs
               PROVE  JobShape!(k)'
    BY DEF JobShape
  <1> USE DEF Structure
  <1>1. JobShape!(k) /\ meta[k] \in Meta /\ now \in Nat
    BY DEF JobShape, TypeOK
  <1>2. ASSUME NEW j \in Jobs, TaskStep(j) PROVE JobShape!(k)'
    <2>1. /\ UNCHANGED <<reg, cancel, caller, lock, now>>
          /\ \A i \in Jobs \ {j} : task'[i] = task[i] /\ meta'[i] = meta[i]
          /\ Moves(j) \/ Ends(j)
      BY <1>2, TaskStepEffect DEF JobShape
    <2>2. CASE k # j
      BY <1>1, <2>1, <2>2
    <2>3. CASE k = j /\ Moves(j)
      BY <1>1, <2>1, <2>3 DEF Moves, OnSession
    <2>4. CASE k = j /\ Ends(j)
      <3>1. meta[j] = NewMeta(meta[j].started)
        BY <1>1, <2>4 DEF Ends, OnSession
      <3>2. ~meta[j].failed /\ ~meta[j].result /\ ~meta[j].interrupted
        BY <3>1, <1>1, <2>4 DEF NewMeta, Meta
      <3>3. meta'[j] \in Meta
        BY <1>2, TaskStepType DEF TypeOK
      <3>4. meta'[j].failed # meta'[j].result
        BY <2>4, <3>2, <3>3 DEF Ends, Meta
      <3>5. QED
        BY <1>1, <2>1, <2>4, <3>2, <3>3, <3>4 DEF Ends, Meta
    <2>5. QED
      BY <2>1, <2>2, <2>3, <2>4
  <1>3. ASSUME NEW c \in Callers, NEW j \in Jobs, StartCall(c, j) PROVE JobShape!(k)'
    <2>1. CASE k # j
      BY <1>1, <1>3, <2>1 DEF StartCall, TypeOK
    <2>2. CASE k = j
      <3>1. task'[k] = "created" /\ meta'[k] = NewMeta(now) /\ now' = now
        BY <1>3, <2>2 DEF StartCall, TypeOK
      <3>2. NewMeta(now).started = now
        BY DEF NewMeta
      <3>3. QED
        BY <1>1, <3>1, <3>2
    <2>3. QED
      BY <2>1, <2>2
  <1>4. ASSUME NEW c \in Callers, TripCancel(c) PROVE JobShape!(k)'
    <2>1. UNCHANGED <<meta, task, now>> /\ (cancel[k] => cancel'[k])
      BY <1>4 DEF TripCancel, TypeOK
    <2>2. QED
      BY <1>1, <2>1
  <1>5. CASE Tick
    <2>1. UNCHANGED <<meta, task, cancel>> /\ now' = now + 1
      BY <1>5 DEF Tick
    <2>2. meta[k].started \in Nat
      BY <1>1 DEF Meta
    <2>3. meta'[k].started <= now'
      BY <1>1, <2>1, <2>2
    <2>4. task[k] = "done" => meta'[k].finished <= now'
      BY <1>1, <2>1
    <2>5. QED
      BY <1>1, <2>1, <2>3, <2>4
  <1>6. ASSUME NEW c \in Callers, Refuse(c) \/ Spawn(c) PROVE JobShape!(k)'
    <2>1. task[caller[c].job] = "created" /\ caller[c].job \in Jobs
      BY <1>6 DEF Refuse, Spawn, At, StartShape, Starting, RequestShape
    <2>2. task'[k] = task[k] \/ (task[k] = "created" /\ task'[k] \in {"refused", "opening"})
      BY <1>6, <2>1 DEF Refuse, Spawn, TypeOK
    <2>3. QED
      BY <1>1, <1>6, <2>2, QuietStep
  <1>7. ASSUME NEW c \in Callers,
               \/ LockAndGc(c) \/ Insert(c) \/ Seed(c) \/ Unknown(c) \/ FindForGet(c)
               \/ FindForCancel(c) \/ Reply(c) \/ Return(c)
               \/ \E j \in Jobs : GetCall(c, j) \/ CancelCall(c, j)
        PROVE  JobShape!(k)'
    <2>1. task' = task
      BY <1>7 DEF LockAndGc, Insert, Seed, Unknown, FindForGet,
                  FindForCancel, Reply, Return, GetCall, CancelCall
    <2>2. QED
      BY <1>1, <1>7, <2>1, QuietStep
  <1>8. CASE UNCHANGED vars
    BY <1>1, <1>8 DEF vars
  <1>9. QED
    BY <1>2, <1>3, <1>4, <1>5, <1>6, <1>7, <1>8 DEF Next, CallerStep
-----------------------------------------------------------------------------
(***************************************************************************)
(* The shapes that speak of callers: one caller moves at a time.           *)
(***************************************************************************)
LEMMA OtherCallers ==
    ASSUME TypeOK, NEW c \in Callers,
           \/ LockAndGc(c) \/ CallerStep(c)
           \/ \E j \in Jobs : StartCall(c, j) \/ GetCall(c, j) \/ CancelCall(c, j)
    PROVE  \A d \in Callers \ {c} : caller'[d] = caller[d]
  BY DEF TypeOK, LockAndGc, CallerStep, Refuse, Insert, Spawn, Seed, Unknown,
         FindForGet, FindForCancel, TripCancel, Reply, Return, StartCall, GetCall,
         CancelCall, Call, Goto, Answer

LEMMA GotoEffect ==
    ASSUME TypeOK, NEW c \in Callers, NEW pc, Goto(c, pc)
    PROVE  /\ caller'[c].pc = pc /\ caller'[c].op = caller[c].op
           /\ caller'[c].job = caller[c].job /\ caller'[c].answer = caller[c].answer
  BY DEF TypeOK, Request, Goto

LEMMA AnswerEffect ==
    ASSUME TypeOK, NEW c \in Callers, NEW a, Answer(c, a)
    PROVE  /\ caller'[c].pc = "answered" /\ caller'[c].op = caller[c].op
           /\ caller'[c].job = caller[c].job /\ caller'[c].answer = a
  BY DEF TypeOK, Request, Answer

LEMMA CallEffect ==
    ASSUME TypeOK, NEW c \in Callers, NEW op, NEW j, Call(c, op, j)
    PROVE  /\ caller[c].pc = "idle" /\ caller'[c].pc = "waiting"
           /\ caller'[c].op = op /\ caller'[c].job = j
           /\ caller'[c].answer = Bare("silent")
  BY DEF TypeOK, Request, Call

LEMMA ReturnEffect ==
    ASSUME TypeOK, NEW c \in Callers, Return(c)
    PROVE  caller[c].pc = "answered" /\ caller'[c] = NoRequest
  BY DEF TypeOK, Return

LEMMA RequestShapeStep == Structure /\ [Next]_vars => RequestShape'
  <1> SUFFICES ASSUME Structure, [Next]_vars PROVE RequestShape'
    OBVIOUS
  <1> USE DEF Structure
  <1>1. ASSUME NEW c \in Callers,
               \/ LockAndGc(c) \/ CallerStep(c)
               \/ \E j \in Jobs : StartCall(c, j) \/ GetCall(c, j) \/ CancelCall(c, j),
               RequestShape!(c)'
        PROVE  RequestShape'
    BY <1>1, OtherCallers DEF RequestShape
  <1>2. ASSUME NEW c \in Callers, LockAndGc(c) PROVE RequestShape'
    <2>1. caller'[c].pc = "holding" /\ caller[c].pc = "waiting"
      BY <1>2, GotoEffect DEF LockAndGc
    <2>2. QED
      BY <1>1, <1>2, <2>1, GotoEffect DEF LockAndGc, RequestShape
  <1>3. ASSUME NEW c \in Callers, CallerStep(c) PROVE RequestShape'
    <2>1. CASE Refuse(c) \/ Seed(c) \/ Unknown(c) \/ Reply(c)
      <3>1. caller[c].pc # "idle" /\ caller'[c].pc = "answered"
            /\ caller'[c].op = caller[c].op /\ caller'[c].job = caller[c].job
        BY <2>1, AnswerEffect DEF Refuse, Seed, Unknown, Reply, At
      <3>2. QED
        BY <1>1, <1>3, <3>1 DEF RequestShape
    <2>2. CASE Insert(c) \/ Spawn(c) \/ FindForGet(c) \/ FindForCancel(c) \/ TripCancel(c)
      <3>1. /\ caller[c].pc # "idle" /\ caller'[c].pc # "idle"
            /\ caller'[c].op = caller[c].op /\ caller'[c].job = caller[c].job
            /\ caller'[c].pc \in {"inserted", "spawned"} => caller[c].op = "start"
            /\ caller'[c].pc \in {"tripping", "reading"} => caller[c].op \in {"get", "cancel"}
        BY <2>2, GotoEffect
           DEF Insert, Spawn, FindForGet, FindForCancel, TripCancel, At, RequestShape
      <3>2. QED
        BY <1>1, <1>3, <3>1 DEF RequestShape
    <2>3. CASE Return(c)
      BY <1>1, <1>3, <2>3, ReturnEffect DEF NoRequest, RequestShape
    <2>4. QED
      BY <1>3, <2>1, <2>2, <2>3 DEF CallerStep
  <1>4. ASSUME NEW c \in Callers, NEW j \in Jobs,
               StartCall(c, j) \/ GetCall(c, j) \/ CancelCall(c, j)
        PROVE  RequestShape'
    <2>1. caller'[c].pc = "waiting" /\ caller'[c].job = j
          /\ caller'[c].op \in {"start", "get", "cancel"}
      BY <1>4, CallEffect DEF StartCall, GetCall, CancelCall
    <2>2. QED
      BY <1>1, <1>4, <2>1 DEF RequestShape
  <1>5. ASSUME NEW j \in Jobs, TaskStep(j) PROVE RequestShape'
    BY <1>5, TaskStepEffect DEF RequestShape, JobShape
  <1>6. CASE Tick \/ UNCHANGED vars
    BY <1>6 DEF Tick, vars, RequestShape
  <1>7. QED
    BY <1>2, <1>3, <1>4, <1>5, <1>6 DEF Next
-----------------------------------------------------------------------------
LEMMA LockShapeStep == Structure /\ [Next]_vars => LockShape'
  <1> SUFFICES ASSUME Structure, [Next]_vars PROVE LockShape'
    OBVIOUS
  <1> USE DEF Structure
  <1>1. ASSUME NEW c \in Callers, LockAndGc(c) PROVE LockShape'
    <2>1. \A d \in Callers : caller[d].pc \notin Holding
      BY <1>1 DEF LockAndGc, LockShape
    <2>2. lock' = c /\ \A d \in Callers \ {c} : caller'[d] = caller[d]
      BY <1>1, OtherCallers DEF LockAndGc
    <2>3. QED
      BY <2>1, <2>2 DEF LockShape
  <1>2. ASSUME NEW c \in Callers, Refuse(c) \/ Insert(c) \/ Unknown(c) \/ Reply(c)
        PROVE  LockShape'
    <2>1. caller[c].pc \in Holding /\ caller'[c].pc \notin Holding
      BY <1>2, GotoEffect, AnswerEffect
         DEF Refuse, Insert, Unknown, Reply, At, Holding
    <2>2. \A d \in Callers \ {c} : caller[d].pc \notin Holding
      BY <2>1 DEF LockShape
    <2>3. \A d \in Callers \ {c} : caller'[d] = caller[d]
      BY <1>2, OtherCallers DEF CallerStep
    <2>4. QED
      BY <2>1, <2>2, <2>3 DEF LockShape
  <1>3. ASSUME NEW c \in Callers,
               FindForGet(c) \/ FindForCancel(c) \/ TripCancel(c)
        PROVE  LockShape'
    <2>1. caller[c].pc \in Holding /\ lock' = lock
      BY <1>3 DEF FindForGet, FindForCancel, TripCancel, At, Holding
    <2>2. \A d \in Callers \ {c} : caller'[d] = caller[d]
      BY <1>3, OtherCallers DEF CallerStep
    <2>3. QED
      BY <2>1, <2>2 DEF LockShape
  <1>4. ASSUME NEW c \in Callers,
               \/ Spawn(c) \/ Seed(c) \/ Return(c)
               \/ \E j \in Jobs : StartCall(c, j) \/ GetCall(c, j) \/ CancelCall(c, j)
        PROVE  LockShape'
    <2>1. lock' = lock /\ caller'[c].pc \notin Holding
      BY <1>4, GotoEffect, AnswerEffect, CallEffect, ReturnEffect
         DEF Spawn, Seed, Return, StartCall, GetCall, CancelCall, Holding, NoRequest
    <2>2. \A d \in Callers \ {c} : caller'[d] = caller[d]
      BY <1>4, OtherCallers DEF CallerStep
    <2>3. QED
      BY <2>1, <2>2 DEF LockShape
  <1>5. ASSUME NEW j \in Jobs, TaskStep(j) PROVE LockShape'
    BY <1>5, TaskStepEffect DEF LockShape, JobShape
  <1>6. CASE Tick \/ UNCHANGED vars
    BY <1>6 DEF Tick, vars, LockShape
  <1>7. QED
    BY <1>1, <1>2, <1>3, <1>4, <1>5, <1>6 DEF Next, CallerStep

\* The slot of a job that has not ended.
LEMMA OpenSlot ==
    ASSUME JobShape, NEW j \in Jobs, task[j] # "done"
    PROVE  /\ meta[j].running /\ meta[j].finished = None
           /\ ~meta[j].interrupted /\ ~meta[j].failed /\ ~meta[j].result
  <1>1. PICK t : meta[j] = NewMeta(t)
    BY DEF JobShape
  <1>2. QED
    BY <1>1 DEF NewMeta

\* gc drops ended jobs only.
LEMMA GcEffect ==
    ASSUME Structure, NEW c \in Callers, LockAndGc(c)
    PROVE  /\ reg' \subseteq reg
           /\ \A j \in reg \ reg' : task[j] = "done"
           /\ UNCHANGED <<meta, cancel, task, now>>
           /\ \A d \in Callers : caller[d].pc \notin Holding
           /\ lock = Free
  <1>1. PICK E \in Evictions : reg' = Fresh \ E
    BY DEF LockAndGc
  <1>2. reg' \subseteq reg
    BY <1>1 DEF Fresh
  <1>3. ASSUME NEW j \in reg \ reg' PROVE task[j] = "done"
    <2>1. j \in Jobs
      BY <1>3 DEF Structure, TypeOK
    <2>2. meta[j].finished # None
      BY <1>1, <1>3 DEF Evictions, Finished, Fresh
    <2>3. QED
      BY <2>1, <2>2, OpenSlot DEF Structure
  <1>4. QED
    BY <1>2, <1>3 DEF LockAndGc, Structure, LockShape

LEMMA RegShapeStep == Structure /\ [Next]_vars => RegShape'
  <1> SUFFICES ASSUME Structure, [Next]_vars PROVE RegShape'
    OBVIOUS
  <1> USE DEF Structure
  <1>1. ASSUME NEW c \in Callers, LockAndGc(c) PROVE RegShape'
    BY <1>1, GcEffect DEF RegShape, OnSession
  <1>2. ASSUME NEW c \in Callers, Insert(c) PROVE RegShape'
    <2>1. task[caller[c].job] = "created"
      BY <1>2 DEF Insert, At, StartShape, Starting
    <2>2. QED
      BY <1>2, <2>1 DEF Insert, RegShape
  <1>3. ASSUME NEW c \in Callers, Refuse(c) PROVE RegShape'
    <2>1. caller[c].job \notin reg /\ task[caller[c].job] = "created"
      BY <1>3 DEF Refuse, At, StartShape, Starting
    <2>2. QED
      BY <1>3, <2>1 DEF Refuse, RegShape, TypeOK, OnSession
  <1>4. ASSUME NEW c \in Callers, Spawn(c) PROVE RegShape'
    <2>1. caller[c].job \in reg
      BY <1>4 DEF Spawn, StartShape, Starting, RequestShape
    <2>2. QED
      BY <1>4, <2>1 DEF Spawn, RegShape, TypeOK, OnSession
  <1>5. ASSUME NEW c \in Callers, NEW j \in Jobs, StartCall(c, j) PROVE RegShape'
    BY <1>5 DEF StartCall, RegShape, TypeOK, OnSession
  <1>6. ASSUME NEW j \in Jobs, TaskStep(j) PROVE RegShape'
    <2>1. /\ reg' = reg /\ task[j] \in OnSession /\ task'[j] \in OnSession \cup {"done"}
          /\ \A i \in Jobs \ {j} : task'[i] = task[i]
      BY <1>6, TaskStepEffect DEF JobShape, Moves, Ends
    <2>2. QED
      BY <2>1 DEF RegShape
  <1>7. ASSUME NEW c \in Callers,
               \/ Seed(c) \/ Unknown(c) \/ FindForGet(c) \/ FindForCancel(c)
               \/ TripCancel(c) \/ Reply(c) \/ Return(c)
               \/ \E j \in Jobs : GetCall(c, j) \/ CancelCall(c, j)
        PROVE  RegShape'
    BY <1>7 DEF Seed, Unknown, FindForGet, FindForCancel, TripCancel, Reply, Return,
                GetCall, CancelCall, RegShape
  <1>8. CASE Tick \/ UNCHANGED vars
    BY <1>8 DEF Tick, vars, RegShape
  <1>9. QED
    BY <1>1, <1>2, <1>3, <1>4, <1>5, <1>6, <1>7, <1>8 DEF Next, CallerStep

LEMMA StartShapeStep == Structure /\ [Next]_vars => StartShape'
  <1> SUFFICES ASSUME Structure, [Next]_vars PROVE StartShape'
    OBVIOUS
  <1> USE DEF Structure
  <1>1. ASSUME NEW c \in Callers, LockAndGc(c) PROVE StartShape'
    <2>1. /\ caller'[c].pc = "holding" /\ caller[c].pc = "waiting"
          /\ caller'[c].op = caller[c].op /\ caller'[c].job = caller[c].job
      BY <1>1, GotoEffect DEF LockAndGc
    <2>2. \A d \in Callers \ {c} : caller'[d] = caller[d]
      BY <1>1, OtherCallers
    <2>3. \A d \in Callers : /\ Starting(d) <=> Starting(d)'
                             /\ caller'[d].job = caller[d].job
                             /\ caller'[d].pc = "inserted" <=> caller[d].pc = "inserted"
      BY <2>1, <2>2 DEF Starting
    <2>4. \A j \in Jobs : task[j] = "created" => (j \in reg' <=> j \in reg)
      BY <1>1, GcEffect
    <2>5. \A d \in Callers : Starting(d) => caller[d].job \in Jobs
      BY DEF Starting, RequestShape
    <2>6. QED
      BY <1>1, <2>3, <2>4, <2>5, GcEffect DEF StartShape
  <1>2. ASSUME NEW c \in Callers, Refuse(c) \/ Spawn(c) PROVE StartShape'
    <2>1. /\ Starting(c) /\ ~Starting(c)' /\ caller[c].job \in Jobs
      BY <1>2, GotoEffect, AnswerEffect
         DEF Refuse, Spawn, At, Starting, RequestShape
    <2>2. \A d \in Callers \ {c} : caller'[d] = caller[d] /\ (Starting(d) <=> Starting(d)')
      BY <1>2, OtherCallers DEF Starting, CallerStep
    <2>3. /\ task'[caller[c].job] # "created" /\ reg' = reg
          /\ \A j \in Jobs \ {caller[c].job} : task'[j] = task[j]
      BY <1>2, <2>1 DEF Refuse, Spawn, TypeOK
    <2>4. \A d \in Callers \ {c} : Starting(d) => /\ caller[d].job # caller[c].job
                                                  /\ caller[d].job \in Jobs
      BY <2>1 DEF StartShape, Starting, RequestShape
    <2>5. QED
      BY <2>1, <2>2, <2>3, <2>4 DEF StartShape
  <1>3. ASSUME NEW c \in Callers, Insert(c) PROVE StartShape'
    <2>1. /\ Starting(c) /\ Starting(c)' /\ caller'[c].job = caller[c].job
          /\ caller'[c].pc = "inserted" /\ caller[c].job \in Jobs
      BY <1>3, GotoEffect DEF Insert, At, Starting, RequestShape
    <2>2. \A d \in Callers \ {c} : caller'[d] = caller[d] /\ (Starting(d) <=> Starting(d)')
      BY <1>3, OtherCallers DEF Starting, CallerStep
    <2>3. task' = task /\ reg' = reg \cup {caller[c].job}
      BY <1>3 DEF Insert
    <2>4. \A d \in Callers \ {c} : Starting(d) => caller[d].job # caller[c].job
      BY <2>1 DEF StartShape
    <2>5. QED
      BY <2>1, <2>2, <2>3, <2>4 DEF StartShape
  <1>4. ASSUME NEW c \in Callers, NEW j \in Jobs, StartCall(c, j) PROVE StartShape'
    <2>1. /\ caller'[c].pc = "waiting" /\ caller'[c].op = "start" /\ caller'[c].job = j
          /\ Starting(c)' /\ ~Starting(c)
      BY <1>4, CallEffect DEF StartCall, Starting
    <2>2. \A d \in Callers \ {c} : caller'[d] = caller[d] /\ (Starting(d) <=> Starting(d)')
      BY <1>4, OtherCallers DEF Starting
    <2>3. /\ task[j] = "unborn" /\ task'[j] = "created" /\ reg' = reg
          /\ \A k \in Jobs \ {j} : task'[k] = task[k]
      BY <1>4 DEF StartCall, TypeOK
    <2>4. j \notin reg
      BY <2>3 DEF RegShape, OnSession
    <2>5. \A d \in Callers \ {c} : Starting(d) => caller[d].job # j /\ caller[d].job \in Jobs
      BY <2>3 DEF StartShape, Starting, RequestShape
    <2>6. QED
      BY <2>1, <2>2, <2>3, <2>4, <2>5 DEF StartShape
  <1>5. ASSUME NEW j \in Jobs, TaskStep(j) PROVE StartShape'
    <2>1. /\ reg' = reg /\ caller' = caller
          /\ task[j] # "created" /\ task'[j] # "created"
          /\ \A i \in Jobs \ {j} : task'[i] = task[i]
      BY <1>5, TaskStepEffect DEF JobShape, Moves, Ends, OnSession
    <2>2. \A c \in Callers : Starting(c) => caller[c].job # j /\ caller[c].job \in Jobs
      BY <2>1 DEF StartShape, Starting, RequestShape
    <2>3. QED
      BY <2>1, <2>2 DEF StartShape, Starting
  <1>6. ASSUME NEW c \in Callers,
               \/ Seed(c) \/ Unknown(c) \/ FindForGet(c) \/ FindForCancel(c)
               \/ TripCancel(c) \/ Reply(c) \/ Return(c)
               \/ \E j \in Jobs : GetCall(c, j) \/ CancelCall(c, j)
        PROVE  StartShape'
    <2>1. ~Starting(c) /\ ~Starting(c)'
      BY <1>6, GotoEffect, AnswerEffect, CallEffect, ReturnEffect
         DEF Seed, Unknown, FindForGet, FindForCancel, TripCancel, Reply, Return,
             GetCall, CancelCall, Starting, RequestShape, NoRequest, At
    <2>2. \A d \in Callers \ {c} : caller'[d] = caller[d] /\ (Starting(d) <=> Starting(d)')
      BY <1>6, OtherCallers DEF Starting, CallerStep
    <2>3. reg' = reg /\ task' = task
      BY <1>6 DEF Seed, Unknown, FindForGet, FindForCancel, TripCancel, Reply, Return,
                  GetCall, CancelCall
    <2>4. QED
      BY <2>1, <2>2, <2>3 DEF StartShape
  <1>7. CASE Tick \/ UNCHANGED vars
    BY <1>7 DEF Tick, vars, StartShape, Starting
  <1>8. QED
    BY <1>1, <1>2, <1>3, <1>4, <1>5, <1>6, <1>7 DEF Next, CallerStep

LEMMA AskShapeStep == Structure /\ [Next]_vars => AskShape'
  <1> SUFFICES ASSUME Structure, [Next]_vars PROVE AskShape'
    OBVIOUS
  <1> USE DEF Structure
  <1> DEFINE Accepted == OnSession \cup {"done"}
  <1>1. ASSUME NEW c \in Callers, LockAndGc(c) PROVE AskShape'
    <2>1. /\ caller'[c].pc = "holding" /\ caller[c].pc = "waiting"
          /\ caller'[c].op = caller[c].op /\ caller'[c].job = caller[c].job
      BY <1>1, GotoEffect DEF LockAndGc
    <2>2. \A d \in Callers \ {c} : caller'[d] = caller[d] /\ caller[d].pc \notin Holding
      BY <1>1, OtherCallers, GcEffect
    <2>3. QED
      BY <1>1, <2>1, <2>2, GcEffect DEF AskShape, Holding
  <1>2. ASSUME NEW c \in Callers, Refuse(c) \/ Insert(c) PROVE AskShape'
    <2>1. /\ caller[c].op = "start" /\ caller'[c].op = "start"
          /\ caller'[c].pc \in {"answered", "inserted"}
          /\ task[caller[c].job] = "created"
      BY <1>2, GotoEffect, AnswerEffect DEF Refuse, Insert, At, StartShape, Starting
    <2>2. \A d \in Callers \ {c} : caller'[d] = caller[d]
      BY <1>2, OtherCallers DEF CallerStep
    <2>3. reg \subseteq reg' /\ \A j \in Jobs : task'[j] = task[j] \/ task[j] = "created"
      BY <1>2, <2>1 DEF Refuse, Insert, TypeOK
    <2>4. \A d \in Callers : caller[d].op # "none" => caller[d].job \in Jobs
      BY DEF RequestShape
    <2>5. \A d \in Callers \ {c} : caller[d].pc = "spawned" => caller[d].op # "none"
      BY DEF RequestShape
    <2>6. QED
      BY <2>1, <2>2, <2>3, <2>4, <2>5 DEF AskShape, OnSession
  <1>3. ASSUME NEW c \in Callers, Spawn(c) PROVE AskShape'
    <2>1. /\ caller'[c].pc = "spawned" /\ caller'[c].op = "start"
          /\ caller'[c].job = caller[c].job /\ caller[c].job \in Jobs
      BY <1>3, GotoEffect DEF Spawn, RequestShape
    <2>2. /\ task'[caller[c].job] = "opening" /\ reg' = reg
          /\ \A j \in Jobs \ {caller[c].job} : task'[j] = task[j]
      BY <1>3, <2>1 DEF Spawn, TypeOK
    <2>3. \A d \in Callers \ {c} : caller'[d] = caller[d]
      BY <1>3, OtherCallers DEF CallerStep
    <2>4. \A d \in Callers : caller[d].op # "none" => caller[d].job \in Jobs
      BY DEF RequestShape
    <2>5. \A d \in Callers \ {c} : caller[d].pc = "spawned" => caller[d].op # "none"
      BY DEF RequestShape
    <2>6. QED
      BY <2>1, <2>2, <2>3, <2>4, <2>5 DEF AskShape, OnSession
  <1>4. ASSUME NEW c \in Callers, NEW j \in Jobs, StartCall(c, j) PROVE AskShape'
    <2>1. /\ caller'[c].pc = "waiting" /\ caller'[c].op = "start"
      BY <1>4, CallEffect DEF StartCall
    <2>2. /\ task[j] = "unborn" /\ reg' = reg
          /\ \A k \in Jobs \ {j} : task'[k] = task[k]
      BY <1>4 DEF StartCall, TypeOK
    <2>3. \A d \in Callers \ {c} : caller'[d] = caller[d]
      BY <1>4, OtherCallers
    <2>4. \A d \in Callers : caller[d].op # "none" => caller[d].job \in Jobs
      BY DEF RequestShape
    <2>5. \A d \in Callers \ {c} : caller[d].pc = "spawned" => caller[d].op # "none"
      BY DEF RequestShape
    <2>6. QED
      BY <2>1, <2>2, <2>3, <2>4, <2>5 DEF AskShape, OnSession
  <1>5. ASSUME NEW c \in Callers, NEW j \in Jobs, GetCall(c, j) \/ CancelCall(c, j)
        PROVE  AskShape'
    <2>1. caller'[c].pc = "waiting" /\ caller'[c].job = j
      BY <1>5, CallEffect DEF GetCall, CancelCall
    <2>2. UNCHANGED <<reg, task>> /\ \A d \in Callers \ {c} : caller'[d] = caller[d]
      BY <1>5, OtherCallers DEF GetCall, CancelCall
    <2>3. task[j] \in Accepted
      <3>1. task[j] # "unborn" /\ task[j] # "refused"
        BY <1>5 DEF GetCall, CancelCall, HandedOut
      <3>2. task[j] # "created"
        BY <1>5 DEF GetCall, CancelCall, HandedOut, StartShape, Starting
      <3>3. QED
        BY <3>1, <3>2 DEF TypeOK, TaskPC
    <2>4. QED
      BY <2>1, <2>2, <2>3 DEF AskShape
  <1>6. ASSUME NEW c \in Callers, FindForGet(c) \/ FindForCancel(c) \/ TripCancel(c)
        PROVE  AskShape'
    <2>1. /\ caller'[c].pc \in {"tripping", "reading"} /\ caller[c].job \in reg
          /\ caller'[c].op = caller[c].op /\ caller'[c].job = caller[c].job
      BY <1>6, GotoEffect DEF FindForGet, FindForCancel, TripCancel, At, AskShape
    <2>2. UNCHANGED <<reg, task>> /\ \A d \in Callers \ {c} : caller'[d] = caller[d]
      BY <1>6, OtherCallers DEF FindForGet, FindForCancel, TripCancel, CallerStep
    <2>3. QED
      BY <2>1, <2>2 DEF AskShape
  <1>7. ASSUME NEW c \in Callers, Seed(c) \/ Unknown(c) \/ Reply(c) \/ Return(c)
        PROVE  AskShape'
    <2>1. \/ caller'[c].op = "none" /\ caller'[c].pc = "idle"
          \/ /\ caller'[c].op = caller[c].op /\ caller'[c].pc = "answered"
             /\ caller'[c].job = caller[c].job
      BY <1>7, AnswerEffect, ReturnEffect DEF Seed, Unknown, Reply, NoRequest
    <2>2. UNCHANGED <<reg, task>> /\ \A d \in Callers \ {c} : caller'[d] = caller[d]
      BY <1>7, OtherCallers DEF Seed, Unknown, Reply, Return, CallerStep
    <2>3. QED
      BY <2>1, <2>2 DEF AskShape
  <1>8. ASSUME NEW j \in Jobs, TaskStep(j) PROVE AskShape'
    <2>1. /\ reg' = reg /\ caller' = caller /\ task'[j] \in Accepted
          /\ \A i \in Jobs \ {j} : task'[i] = task[i]
      BY <1>8, TaskStepEffect DEF JobShape, Moves, Ends
    <2>2. \A d \in Callers : caller[d].op # "none" => caller[d].job \in Jobs
      BY DEF RequestShape
    <2>3. \A d \in Callers : caller[d].pc = "spawned" => caller[d].op # "none"
      BY DEF RequestShape
    <2>4. QED
      BY <2>1, <2>2, <2>3 DEF AskShape
  <1>9. CASE Tick \/ UNCHANGED vars
    BY <1>9 DEF Tick, vars, AskShape
  <1>10. QED
    BY <1>1, <1>2, <1>3, <1>4, <1>5, <1>6, <1>7, <1>8, <1>9 DEF Next, CallerStep

LEMMA StructureStep == Structure /\ [Next]_vars => Structure'
  BY NextType, RequestShapeStep, JobShapeStep, StartShapeStep, RegShapeStep,
     LockShapeStep, AskShapeStep DEF Structure

LEMMA AlwaysStructure == Safe => []Structure
  BY InitStructure, StructureStep, PTL DEF Safe
-----------------------------------------------------------------------------
(***************************************************************************)
(* The theorems that need no more than the structure.                      *)
(***************************************************************************)

\* Every variable of the registry keeps its type, for every instance.
THEOREM TypeCorrect == Safe => []TypeOK
  <1>1. Structure => TypeOK
    BY DEF Structure
  <1>2. QED
    BY <1>1, AlwaysStructure, PTL

\* A finished job has a result or an error, never both, and only a tripped
\* flag interrupts: the coherence the task projection relies on.
THEOREM OutcomesCohere == Safe => []OutcomeCoherent
  <1>1. Structure => OutcomeCoherent
    BY DEF Structure, JobShape, OutcomeCoherent
  <1>2. QED
    BY <1>1, AlwaysStructure, PTL
-----------------------------------------------------------------------------
(***************************************************************************)
(* The limits.  The bound on entries needs the bound on running jobs: one  *)
(* entry too many can be evicted only if some entry has finished.          *)
(***************************************************************************)
Bounds == /\ IsFiniteSet(reg)
          /\ Cardinality(reg) <= MaxEntries + 1
          /\ Cardinality(Running(reg)) <= MaxRunning
          /\ \A c \in Callers : caller[c].pc \in Holding => Cardinality(reg) <= MaxEntries

LEMMA RunningIsUnfinished ==
    ASSUME Structure, NEW R \in SUBSET reg
    PROVE  Finished(R) = R \ Running(R)
  <1>1. \A j \in R : j \in Jobs
    BY DEF Structure, TypeOK
  <1>2. \A j \in R : meta[j].running <=> meta[j].finished = None
    <2> TAKE j \in R
    <2>1. CASE task[j] = "done"
      BY <1>1, <2>1 DEF Structure, JobShape, None
    <2>2. CASE task[j] # "done"
      BY <1>1, <2>2, OpenSlot DEF Structure
    <2>3. QED
      BY <2>1, <2>2
  <1>3. QED
    BY <1>2 DEF Finished, Running

\* After gc there is room for one entry.
LEMMA GcBound ==
    ASSUME Structure, Bounds, NEW c \in Callers, LockAndGc(c)
    PROVE  /\ IsFiniteSet(reg') /\ Cardinality(reg') <= MaxEntries
           /\ Cardinality(Running(reg)') <= MaxRunning
           /\ Excess # 0 => Cardinality(reg') = MaxEntries
  <1>1. PICK E \in Evictions : reg' = Fresh \ E
    BY DEF LockAndGc
  <1>2. Fresh \subseteq reg /\ IsFiniteSet(Fresh) /\ Cardinality(Fresh) <= Cardinality(reg)
        /\ Cardinality(Fresh) \in Nat /\ Cardinality(reg) \in Nat
    <2>1. Fresh \subseteq reg
      BY DEF Fresh
    <2>2. QED
      BY <2>1, FS_Subset, FS_CardinalityType DEF Bounds
  <1>3. IsFiniteSet(Running(reg)) /\ Cardinality(Running(reg)) \in Nat
    <2>1. Running(reg) \subseteq reg
      BY DEF Running
    <2>2. QED
      BY <2>1, FS_Subset, FS_CardinalityType DEF Bounds
  <1>4. Cardinality(Running(reg)') <= MaxRunning /\ IsFiniteSet(reg')
    <2>1. Running(reg)' \subseteq Running(reg) /\ reg' \subseteq reg
      BY GcEffect DEF Running
    <2>2. IsFiniteSet(reg') /\ IsFiniteSet(Running(reg)')
          /\ Cardinality(Running(reg)') <= Cardinality(Running(reg))
      BY <1>3, <2>1, FS_Subset DEF Bounds
    <2>3. Cardinality(Running(reg)') \in Nat
      BY <2>2, FS_CardinalityType
    <2>4. QED
      BY <1>3, <2>2, <2>3 DEF Bounds
  <1>5. Cardinality(Finished(Fresh)) >= Cardinality(Fresh) - MaxRunning
        /\ Cardinality(Finished(Fresh)) \in Nat
    <2>1. Finished(Fresh) = Fresh \ Running(Fresh)
      BY <1>2, RunningIsUnfinished
    <2>2. Fresh \cap Running(Fresh) \subseteq Running(reg)
      BY <1>2 DEF Running
    <2>3. Cardinality(Fresh \cap Running(Fresh)) <= Cardinality(Running(reg))
          /\ IsFiniteSet(Fresh \cap Running(Fresh))
      BY <1>3, <2>2, FS_Subset
    <2>4. Cardinality(Fresh \cap Running(Fresh)) \in Nat
      BY <2>3, FS_CardinalityType
    <2>5. /\ IsFiniteSet(Finished(Fresh))
          /\ Cardinality(Finished(Fresh))
               = Cardinality(Fresh) - Cardinality(Fresh \cap Running(Fresh))
      <3>1. /\ IsFiniteSet(Fresh \ Running(Fresh))
            /\ Cardinality(Fresh \ Running(Fresh))
                 = Cardinality(Fresh) - Cardinality(Fresh \cap Running(Fresh))
        BY <1>2, FS_Difference, Zenon
      <3>2. QED
        BY <2>1, <3>1, Zenon
    <2>6. Cardinality(Finished(Fresh)) \in Nat
      BY <2>5, FS_CardinalityType
    <2>7. QED
      BY <1>2, <1>3, <2>3, <2>4, <2>5, <2>6 DEF Bounds
  <1>6. CASE Cardinality(Fresh) > MaxEntries
    <2>1. Cardinality(Fresh) = MaxEntries + 1
      BY <1>2, <1>6 DEF Bounds
    <2>2. Cardinality(Finished(Fresh)) >= 1
      BY <1>5, <2>1
    <2>3. Excess = 1
      BY <1>5, <1>6, <2>1, <2>2 DEF Excess, Least
    <2>4. Cardinality(E) = 1 /\ E \subseteq Fresh
      BY <2>3 DEF Evictions, Finished
    <2>5. Fresh \cap E = E
      BY <2>4
    <2>6. Cardinality(reg') = Cardinality(Fresh) - 1
      BY <1>1, <1>2, <2>4, <2>5, FS_Difference
    <2>7. QED
      BY <1>4, <2>1, <2>6
  <1>7. CASE ~(Cardinality(Fresh) > MaxEntries)
    <2>1. Excess = 0
      BY <1>7 DEF Excess
    <2>2. reg' \subseteq Fresh
      BY <1>1
    <2>3. Cardinality(reg') <= Cardinality(Fresh) /\ Cardinality(reg') \in Nat
      BY <1>2, <1>4, <2>2, FS_Subset, FS_CardinalityType
    <2>4. QED
      BY <1>2, <1>4, <1>7, <2>1, <2>3
  <1>8. QED
    BY <1>6, <1>7

LEMMA BoundsStep == Structure /\ Bounds /\ [Next]_vars => Bounds'
  <1> SUFFICES ASSUME Structure, Bounds, [Next]_vars PROVE Bounds'
    OBVIOUS
  <1>1. /\ IsFiniteSet(Running(reg)) /\ Cardinality(Running(reg)) \in Nat
        /\ IsFiniteSet(reg) /\ Cardinality(reg) \in Nat
    <2>1. Running(reg) \subseteq reg
      BY DEF Running
    <2>2. QED
      BY <2>1, FS_Subset, FS_CardinalityType DEF Bounds
  <1>2. ASSUME Running(reg)' \subseteq Running(reg)
        PROVE  Cardinality(Running(reg)') <= MaxRunning
    <2>1. /\ IsFiniteSet(Running(reg)')
          /\ Cardinality(Running(reg)') <= Cardinality(Running(reg))
      BY <1>1, <1>2, FS_Subset
    <2>2. Cardinality(Running(reg)') \in Nat
      BY <2>1, FS_CardinalityType
    <2>3. QED
      BY <1>1, <2>1, <2>2 DEF Bounds
  <1>3. ASSUME NEW c \in Callers, LockAndGc(c) PROVE Bounds'
    <2>1. /\ IsFiniteSet(reg') /\ Cardinality(reg') <= MaxEntries
          /\ Cardinality(Running(reg)') <= MaxRunning
      BY <1>3, GcBound
    <2>2. Cardinality(reg') \in Nat
      BY <2>1, FS_CardinalityType
    <2>3. QED
      BY <2>1, <2>2 DEF Bounds
  <1>4. ASSUME NEW c \in Callers, Insert(c) PROVE Bounds'
    <2> DEFINE j == caller[c].job
    <2>1. /\ reg' = reg \cup {j} /\ meta' = meta /\ lock = c
          /\ Cardinality(reg) <= MaxEntries /\ Cardinality(Running(reg)) < MaxRunning
      BY <1>1, <1>4 DEF Insert, At, Bounds, Holding, TooManyRunning, Structure, LockShape
    <2>2. IsFiniteSet(reg') /\ Cardinality(reg') <= MaxEntries + 1
      <3>1. /\ IsFiniteSet(reg \cup {j})
            /\ \/ Cardinality(reg \cup {j}) = Cardinality(reg)
               \/ Cardinality(reg \cup {j}) = Cardinality(reg) + 1
        BY <1>1, FS_AddElement, Zenon
      <3>2. QED
        BY <1>1, <2>1, <3>1
    <2>3. Running(reg)' \subseteq Running(reg) \cup {j}
      BY <2>1 DEF Running
    <2>4. /\ IsFiniteSet(Running(reg) \cup {j})
          /\ Cardinality(Running(reg) \cup {j}) <= MaxRunning
          /\ Cardinality(Running(reg) \cup {j}) \in Nat
      <3>1. /\ IsFiniteSet(Running(reg) \cup {j})
            /\ \/ Cardinality(Running(reg) \cup {j}) = Cardinality(Running(reg))
               \/ Cardinality(Running(reg) \cup {j}) = Cardinality(Running(reg)) + 1
        BY <1>1, FS_AddElement, Zenon
      <3>2. QED
        BY <1>1, <2>1, <3>1
    <2>5. Cardinality(Running(reg)') <= Cardinality(Running(reg) \cup {j})
          /\ IsFiniteSet(Running(reg)')
      BY <2>3, <2>4, FS_Subset
    <2>6. Cardinality(Running(reg)') <= MaxRunning
      BY <2>4, <2>5, FS_CardinalityType
    <2>7. \A d \in Callers : caller'[d].pc \notin Holding
      <3>1. lock' = Free /\ LockShape'
        BY <1>4, LockShapeStep DEF Insert
      <3>2. QED
        BY <3>1 DEF LockShape
    <2>8. QED
      BY <2>2, <2>6, <2>7 DEF Bounds
  <1>5. ASSUME NEW j \in Jobs, TaskStep(j) PROVE Bounds'
    <2>1. /\ reg' = reg /\ caller' = caller
          /\ \A i \in Jobs \ {j} : meta'[i] = meta[i]
          /\ meta'[j] = meta[j] \/ ~meta'[j].running
      BY <1>5, TaskStepEffect DEF Structure, JobShape, Moves, Ends
    <2>2. Running(reg)' \subseteq Running(reg)
      BY <2>1 DEF Running, Structure, TypeOK
    <2>3. QED
      BY <1>2, <2>1, <2>2 DEF Bounds
  <1>6. ASSUME NEW c \in Callers, NEW j \in Jobs, StartCall(c, j) PROVE Bounds'
    <2>1. reg' = reg /\ \A i \in Jobs \ {j} : meta'[i] = meta[i]
      BY <1>6 DEF StartCall, Structure, TypeOK
    <2>2. j \notin reg
      BY <1>6 DEF StartCall, Structure, RegShape, OnSession
    <2>3. Running(reg)' \subseteq Running(reg)
      BY <2>1, <2>2 DEF Running, Structure, TypeOK
    <2>4. caller'[c].pc = "waiting" /\ \A d \in Callers \ {c} : caller'[d] = caller[d]
      BY <1>6, CallEffect, OtherCallers DEF StartCall, Structure
    <2>5. QED
      BY <1>2, <2>1, <2>3, <2>4 DEF Bounds, Holding
  <1>7. ASSUME NEW c \in Callers,
               \/ Refuse(c) \/ Spawn(c) \/ Seed(c) \/ Unknown(c)
               \/ FindForGet(c) \/ FindForCancel(c) \/ TripCancel(c)
               \/ Reply(c) \/ Return(c)
               \/ \E j \in Jobs : GetCall(c, j) \/ CancelCall(c, j)
        PROVE  Bounds'
    <2>1. UNCHANGED <<reg, meta>>
      BY <1>7 DEF Refuse, Spawn, Seed, Unknown, FindForGet, FindForCancel,
                  TripCancel, Reply, Return, GetCall, CancelCall
    <2>2. Running(reg)' = Running(reg)
      BY <2>1 DEF Running
    <2>3. caller'[c].pc \in Holding => caller[c].pc \in Holding
      BY <1>7, GotoEffect, AnswerEffect, CallEffect, ReturnEffect
         DEF Refuse, Spawn, Seed, Unknown, FindForGet, FindForCancel, TripCancel,
             Reply, Return, GetCall, CancelCall, Holding, NoRequest, At, Structure
    <2>4. \A d \in Callers \ {c} : caller'[d] = caller[d]
      BY <1>7, OtherCallers DEF Structure, CallerStep
    <2>5. QED
      BY <2>1, <2>2, <2>3, <2>4 DEF Bounds
  <1>8. CASE Tick \/ UNCHANGED vars
    <2>1. UNCHANGED <<reg, meta, caller>>
      BY <1>8 DEF Tick, vars
    <2>2. QED
      BY <2>1 DEF Bounds, Running
  <1>9. QED
    BY <1>3, <1>4, <1>5, <1>6, <1>7, <1>8 DEF Next, CallerStep

LEMMA AlwaysBounds == Safe => [](Structure /\ Bounds)
  <1>1. Init => Bounds
    <2> SUFFICES ASSUME Init PROVE Bounds
      OBVIOUS
    <2>1. reg = {} /\ Running(reg) = {} /\ \A c \in Callers : caller[c].pc \notin Holding
      BY DEF Init, Running, NoRequest, Holding
    <2>2. QED
      BY <2>1, FS_EmptySet DEF Bounds
  <1>2. QED
    BY <1>1, InitStructure, StructureStep, BoundsStep, PTL DEF Safe

\* The registry never exceeds its cap by more than the entry start inserts
\* after gc, for every cap that admits the running jobs.
THEOREM EntriesStayBounded == Safe => []EntriesBounded
  <1>1. Bounds => EntriesBounded
    BY DEF Bounds, EntriesBounded
  <1>2. QED
    BY <1>1, AlwaysBounds, PTL

\* Background jobs never hold more than MAX_RUNNING terminal sessions.
THEOREM SessionsStayBounded == Safe => []SessionsBounded
  <1>1. ASSUME Structure, Bounds PROVE SessionsBounded
    <2> DEFINE S == {j \in Jobs : task[j] \in OnSession}
    <2>1. S \subseteq Running(reg)
      <3>1. \A j \in S : task[j] # "done"
        BY DEF OnSession
      <3>2. \A j \in S : meta[j].running
        BY <1>1, <3>1, OpenSlot DEF Structure
      <3>3. QED
        BY <1>1, <3>2 DEF Structure, RegShape, Running
    <2>2. IsFiniteSet(Running(reg))
      <3>1. Running(reg) \subseteq reg
        BY DEF Running
      <3>2. QED
        BY <1>1, <3>1, FS_Subset DEF Bounds
    <2>3. Cardinality(S) <= Cardinality(Running(reg)) /\ IsFiniteSet(S)
      BY <2>1, <2>2, FS_Subset
    <2>4. Cardinality(S) \in Nat /\ Cardinality(Running(reg)) \in Nat
      BY <2>2, <2>3, FS_CardinalityType
    <2>5. QED
      BY <1>1, <2>3, <2>4 DEF Bounds, SessionsBounded
  <1>2. QED
    BY <1>1, AlwaysBounds, PTL
-----------------------------------------------------------------------------
(***************************************************************************)
(* What a client was told.                                                 *)
(***************************************************************************)

\* An ended job never changes again, and once forgotten stays forgotten.
LEMMA EndedIsFinal ==
    ASSUME Structure, [Next]_vars, NEW j \in Jobs, task[j] = "done"
    PROVE  /\ task'[j] = "done" /\ meta'[j] = meta[j]
           /\ j \notin reg => j \notin reg'
  <1> USE DEF Structure
  <1>1. ASSUME NEW c \in Callers, LockAndGc(c)
        PROVE  UNCHANGED <<meta, task>> /\ (j \notin reg => j \notin reg')
    BY <1>1, GcEffect
  <1>2. ASSUME NEW c \in Callers, Insert(c)
        PROVE  UNCHANGED <<meta, task>> /\ (j \notin reg => j \notin reg')
    <2>1. task[caller[c].job] = "created"
      BY <1>2 DEF Insert, At, StartShape, Starting
    <2>2. QED
      BY <1>2, <2>1 DEF Insert
  <1>3. ASSUME NEW c \in Callers, Refuse(c) \/ Spawn(c)
        PROVE  task'[j] = task[j] /\ UNCHANGED <<meta, reg>>
    <2>1. task[caller[c].job] = "created" /\ caller[c].job \in Jobs
      BY <1>3 DEF Refuse, Spawn, At, StartShape, Starting, RequestShape
    <2>2. QED
      BY <1>3, <2>1 DEF Refuse, Spawn, TypeOK
  <1>4. ASSUME NEW c \in Callers, NEW k \in Jobs, StartCall(c, k)
        PROVE  task'[j] = task[j] /\ meta'[j] = meta[j] /\ reg' = reg
    BY <1>4 DEF StartCall, TypeOK
  <1>5. ASSUME NEW k \in Jobs, TaskStep(k)
        PROVE  task'[j] = task[j] /\ meta'[j] = meta[j] /\ reg' = reg
    <2>1. /\ reg' = reg /\ task[k] \in OnSession
          /\ \A i \in Jobs \ {k} : task'[i] = task[i] /\ meta'[i] = meta[i]
      BY <1>5, TaskStepEffect DEF JobShape, Moves, Ends
    <2>2. QED
      BY <2>1 DEF OnSession
  <1>6. ASSUME NEW c \in Callers,
               \/ Seed(c) \/ Unknown(c) \/ FindForGet(c) \/ FindForCancel(c)
               \/ TripCancel(c) \/ Reply(c) \/ Return(c)
               \/ \E k \in Jobs : GetCall(c, k) \/ CancelCall(c, k)
        PROVE  UNCHANGED <<reg, meta, task>>
    BY <1>6 DEF Seed, Unknown, FindForGet, FindForCancel, TripCancel, Reply, Return,
                GetCall, CancelCall
  <1>7. CASE Tick \/ UNCHANGED vars
    BY <1>7 DEF Tick, vars
  <1>8. QED
    BY <1>1, <1>2, <1>3, <1>4, <1>5, <1>6, <1>7 DEF Next, CallerStep

\* What is true of an answer when it is given stays true.
AnswerShape(c) ==
    caller[c].pc = "answered" =>
        /\ caller[c].op = "get" /\ caller[c].answer.status \in TaskStatus =>
              /\ caller[c].answer.message = caller[c].answer.status
              /\ caller[c].answer.status \in TerminalStatus =>
                    /\ task[caller[c].job] = "done"
                    /\ TaskState(Snapshot(caller[c].job)) = caller[c].answer.status
        /\ caller[c].answer.status = "unknown" =>
              task[caller[c].job] = "done" /\ caller[c].job \notin reg

LEMMA AnswerKept ==
    ASSUME Structure, [Next]_vars, NEW c \in Callers, AnswerShape(c),
           caller'[c] = caller[c]
    PROVE  AnswerShape(c)'
  <1>1. SUFFICES ASSUME caller[c].pc = "answered", caller[c].job \in Jobs
                 PROVE  AnswerShape(c)'
    BY DEF AnswerShape, Structure, RequestShape
  <1>2. task[caller[c].job] = "done" =>
          /\ task'[caller[c].job] = "done"
          /\ Snapshot(caller[c].job)' = Snapshot(caller[c].job)
          /\ caller[c].job \notin reg => caller[c].job \notin reg'
    BY <1>1, EndedIsFinal DEF Snapshot
  <1>3. QED
    BY <1>2 DEF AnswerShape, TaskState

LEMMA AnswerShapeStep ==
    ASSUME Structure, [Next]_vars, NEW d \in Callers, AnswerShape(d)
    PROVE  AnswerShape(d)'
  <1> USE DEF Structure
  <1>1. ASSUME caller'[d].pc # "answered" PROVE AnswerShape(d)'
    BY <1>1 DEF AnswerShape
  <1>2. ASSUME NEW c \in Callers, c # d,
               \/ LockAndGc(c) \/ CallerStep(c)
               \/ \E j \in Jobs : StartCall(c, j) \/ GetCall(c, j) \/ CancelCall(c, j)
        PROVE  AnswerShape(d)'
    BY <1>2, OtherCallers, AnswerKept
  <1>3. CASE \/ LockAndGc(d) \/ Insert(d) \/ Spawn(d) \/ FindForGet(d)
             \/ FindForCancel(d) \/ TripCancel(d) \/ Return(d)
             \/ \E j \in Jobs : StartCall(d, j) \/ GetCall(d, j) \/ CancelCall(d, j)
    BY <1>1, <1>3, GotoEffect, CallEffect, ReturnEffect
       DEF LockAndGc, Insert, Spawn, FindForGet, FindForCancel, TripCancel, StartCall,
           GetCall, CancelCall, NoRequest
  <1>4. CASE Refuse(d) \/ Seed(d)
    <2>1. caller'[d].op = "start" /\ caller'[d].answer.status # "unknown"
      <3>1. CASE Refuse(d)
        BY <3>1, AnswerEffect DEF Refuse, At, Bare
      <3>2. CASE Seed(d)
        BY <3>2, AnswerEffect DEF Seed, RequestShape, CreateTask, Task
      <3>3. QED
        BY <1>4, <3>1, <3>2
    <2>2. QED
      BY <2>1 DEF AnswerShape
  <1>5. CASE Unknown(d)
    <2>1. caller'[d].answer.status = "unknown" /\ caller'[d].job = caller[d].job
      BY <1>5, AnswerEffect DEF Unknown, Bare
    <2>2. /\ UNCHANGED <<task, reg>> /\ caller[d].job \notin reg
          /\ caller[d].op \in {"get", "cancel"} /\ caller[d].job \in Jobs
      BY <1>5 DEF Unknown, RequestShape
    <2>3. task[caller[d].job] = "done"
      BY <2>2 DEF AskShape, RegShape
    <2>4. QED
      BY <2>1, <2>2, <2>3 DEF AnswerShape, TaskStatus
  <1>6. CASE Reply(d)
    <2> DEFINE j == caller[d].job
    <2>1. /\ caller'[d].job = j /\ j \in Jobs /\ UNCHANGED <<meta, task, reg>>
          /\ caller'[d].answer = IF caller[d].op = "get"
                                 THEN DetailedTask(Snapshot(j)) ELSE Bare("accepted")
          /\ caller'[d].op = caller[d].op
      BY <1>6, AnswerEffect DEF Reply, RequestShape
    <2>2. CASE caller[d].op # "get"
      BY <2>1, <2>2 DEF AnswerShape, Bare
    <2>3. CASE caller[d].op = "get"
      <3>1. /\ caller'[d].answer.status = TaskState(Snapshot(j))
            /\ caller'[d].answer.message = StatusMessage(Snapshot(j))
        BY <2>1, <2>3 DEF DetailedTask, Task
      <3>2. /\ StatusMessage(Snapshot(j)) = TaskState(Snapshot(j))
            /\ TaskState(Snapshot(j)) \in TaskStatus
            /\ TaskState(Snapshot(j)) = "working" <=> meta[j].running
        BY <2>1, SnapshotType, ProjectionCoherent DEF Snapshot
      <3>3. TaskState(Snapshot(j)) \in TerminalStatus => task[j] = "done"
        BY <2>1, <3>2, OpenSlot DEF TerminalStatus
      <3>4. TaskState(Snapshot(j))' = TaskState(Snapshot(j))
        BY <2>1 DEF Snapshot, TaskState
      <3>5. QED
        BY <2>1, <3>1, <3>2, <3>3, <3>4 DEF AnswerShape, TaskStatus
    <2>4. QED
      BY <2>2, <2>3
  <1>7. CASE (\E j \in Jobs : TaskStep(j)) \/ Tick \/ UNCHANGED vars
    <2>1. caller' = caller
      BY <1>7, TaskStepEffect DEF JobShape, Tick, vars
    <2>2. QED
      BY <2>1, AnswerKept
  <1>8. QED
    BY <1>2, <1>3, <1>4, <1>5, <1>6, <1>7 DEF Next, CallerStep

AnswerInv == Structure /\ \A c \in Callers : AnswerShape(c)

LEMMA AlwaysAnswerInv == Safe => []AnswerInv
  <1>1. Init => AnswerInv
    BY InitStructure DEF AnswerInv, Init, AnswerShape, NoRequest
  <1>2. AnswerInv /\ [Next]_vars => AnswerInv'
    BY StructureStep, AnswerShapeStep DEF AnswerInv
  <1>3. QED
    BY <1>1, <1>2, PTL DEF Safe

\* A terminal status reported by tasks/get is final, and its message agrees.
THEOREM AnswersStayTrue == Safe => []AnswersHold
  <1>1. AnswerInv => AnswersHold
    BY DEF AnswerInv, AnswerShape, AnswersHold, Told, At
  <1>2. QED
    BY <1>1, AlwaysAnswerInv, PTL

\* "unknown or expired" is said of ended jobs only.
THEOREM UnknownIsOver == Safe => []UnknownMeansOver
  <1>1. AnswerInv => UnknownMeansOver
    BY DEF AnswerInv, AnswerShape, UnknownMeansOver
  <1>2. QED
    BY <1>1, AlwaysAnswerInv, PTL
-----------------------------------------------------------------------------
(***************************************************************************)
(* Eviction.                                                               *)
(***************************************************************************)

\* gc gives up a job before its retention is over only to get back to the
\* cap, and then the one that finished first.
THEOREM EvictionIsOldestFirst == Safe => EvictsOldest
  <1> DEFINE A == \A j \in reg \ reg' :
                     now - meta[j].finished < Retention =>
                       /\ Cardinality(reg') = MaxEntries
                       /\ \A k \in Finished(reg') : meta[j].finished <= meta[k].finished
  <1>1. ASSUME Structure, Bounds, NEW c \in Callers, LockAndGc(c) PROVE A
    <2>1. PICK E \in Evictions : reg' = Fresh \ E
      BY <1>1 DEF LockAndGc
    <2>2. TAKE j \in reg \ reg'
    <2>3. HAVE now - meta[j].finished < Retention
    <2>4. j \in E
      BY <2>1, <2>2, <2>3 DEF Fresh
    <2>5. Excess # 0
      <3>1. IsFiniteSet(E)
        <4>1. E \subseteq reg
          BY DEF Evictions, Finished, Fresh
        <4>2. QED
          BY <1>1, <4>1, FS_Subset DEF Bounds
      <3>2. Cardinality(E) # 0
        BY <2>4, <3>1, FS_EmptySet
      <3>3. QED
        BY <3>2 DEF Evictions
    <2>6. \A k \in Finished(reg') : meta[j].finished <= meta[k].finished
      <3>1. Finished(reg') \subseteq Finished(Fresh) \ E
        BY <2>1 DEF Finished
      <3>2. QED
        BY <2>4, <3>1 DEF Evictions
    <2>7. QED
      BY <1>1, <2>5, <2>6, GcBound
  <1>2. ASSUME Structure, [Next]_vars, \A c \in Callers : ~LockAndGc(c)
        PROVE  reg \ reg' = {}
    <2>1. ASSUME NEW c \in Callers,
                 \/ CallerStep(c)
                 \/ \E j \in Jobs : StartCall(c, j) \/ GetCall(c, j) \/ CancelCall(c, j)
          PROVE  reg \subseteq reg'
      BY <2>1 DEF CallerStep, Refuse, Insert, Spawn, Seed, Unknown, FindForGet,
                  FindForCancel, TripCancel, Reply, Return, StartCall, GetCall, CancelCall
    <2>2. ASSUME NEW j \in Jobs, TaskStep(j) PROVE reg' = reg
      BY <1>2, <2>2, TaskStepEffect DEF Structure, JobShape
    <2>3. CASE Tick \/ UNCHANGED vars
      BY <2>3 DEF Tick, vars
    <2>4. QED
      BY <1>2, <2>1, <2>2, <2>3 DEF Next
  <1>3. Structure /\ Bounds /\ [Next]_vars => [A]_vars
    BY <1>1, <1>2
  <1>4. QED
    BY <1>3, AlwaysBounds, PTL DEF Safe, EvictsOldest
-----------------------------------------------------------------------------
(***************************************************************************)
(* The registry implements the safety part of the promised life cycle.     *)
(***************************************************************************)
status == [j \in Jobs |-> TaskOf(j)]

\* What is said of a job depends on its slot, its task and its membership.
LEMMA TaskOfKept ==
    ASSUME NEW j \in Jobs, j \in reg <=> j \in reg', meta'[j] = meta[j],
           task'[j] = "done" <=> task[j] = "done"
    PROVE  TaskOf(j)' = TaskOf(j)
  <1>1. Snapshot(j)' = Snapshot(j)
    BY DEF Snapshot
  <1>2. TaskState(Snapshot(j))' = TaskState(Snapshot(j))
    BY <1>1 DEF TaskState
  <1>3. CASE j \in reg
    BY <1>2, <1>3 DEF TaskOf
  <1>4. CASE j \notin reg /\ task[j] = "done"
    BY <1>4 DEF TaskOf
  <1>5. CASE j \notin reg /\ task[j] # "done"
    BY <1>5 DEF TaskOf
  <1>6. QED
    BY <1>3, <1>4, <1>5

LEMMA TaskOfValue ==
    ASSUME Structure, NEW j \in Jobs
    PROVE  /\ j \in reg => /\ TaskOf(j) = TaskState(Snapshot(j))
                           /\ TaskOf(j) \in TaskStatus
                           /\ TaskOf(j) = "working" <=> meta[j].running
           /\ j \notin reg /\ task[j] = "done" => TaskOf(j) = "gone"
           /\ j \notin reg /\ task[j] # "done" => TaskOf(j) = "unknown"
  <1>1. /\ TaskState(Snapshot(j)) \in TaskStatus
        /\ TaskState(Snapshot(j)) = "working" <=> meta[j].running
    BY SnapshotType, ProjectionCoherent DEF Structure, Snapshot
  <1>2. CASE j \in reg
    BY <1>1, <1>2 DEF TaskOf
  <1>3. CASE j \notin reg /\ task[j] = "done"
    BY <1>3 DEF TaskOf
  <1>4. CASE j \notin reg /\ task[j] # "done"
    BY <1>4 DEF TaskOf
  <1>5. QED
    BY <1>2, <1>3, <1>4

LEMMA StatusExcept ==
    ASSUME NEW j \in Jobs, NEW s, TaskOf(j)' = s,
           \A k \in Jobs \ {j} : TaskOf(k)' = TaskOf(k)
    PROVE  status' = [status EXCEPT ![j] = s]
  BY DEF status

LEMMA StatusKept ==
    ASSUME \A k \in Jobs : TaskOf(k)' = TaskOf(k)
    PROVE  status' = status
  BY DEF status

LEMMA GcForgets ==
    ASSUME Structure, NEW c \in Callers, LockAndGc(c)
    PROVE  Lifecycle!Forget
  <1> DEFINE J == reg \ reg'
  <1>1. /\ reg' \subseteq reg /\ \A j \in J : task[j] = "done"
        /\ UNCHANGED <<meta, cancel, task>>
    BY GcEffect
  <1>2. \A j \in J : j \in Jobs /\ status[j] \in Lifecycle!Ended
    <2> SUFFICES ASSUME NEW j \in J PROVE j \in Jobs /\ status[j] \in Lifecycle!Ended
      OBVIOUS
    <2>1. j \in Jobs /\ ~meta[j].running
      BY <1>1 DEF Structure, TypeOK, JobShape
    <2>2. QED
      BY <2>1, TaskOfValue DEF status, TaskStatus, Lifecycle!Ended
  <1>3. \A j \in Jobs : TaskOf(j)' = IF j \in J THEN "gone" ELSE status[j]
    <2> TAKE j \in Jobs
    <2>1. CASE j \in J
      BY <1>1, <2>1 DEF TaskOf
    <2>2. CASE j \notin J
      BY <1>1, <2>2, TaskOfKept DEF status
    <2>3. QED
      BY <2>1, <2>2
  <1>4. status' = [j \in Jobs |-> IF j \in J THEN "gone" ELSE status[j]]
    BY <1>3 DEF status
  <1>5. QED
    BY <1>1, <1>2, <1>4 DEF Lifecycle!Forget, status

LEMMA InsertCreates ==
    ASSUME Structure, NEW c \in Callers, NEW j, j = caller[c].job, Insert(c)
    PROVE  Lifecycle!Create(j) /\ j \in Jobs
  <1>1. /\ j \in Jobs /\ task[j] = "created" /\ j \notin reg
        /\ reg' = reg \cup {j} /\ UNCHANGED <<meta, cancel, task>>
    BY DEF Insert, At, Structure, RequestShape, StartShape, Starting
  <1>2. TaskOf(j) = "unknown"
    BY <1>1, TaskOfValue
  <1>3. TaskOf(j)' = "working"
    <2>1. meta[j].running /\ Snapshot(j)' = Snapshot(j)
      BY <1>1, OpenSlot DEF Structure, Snapshot
    <2>2. TaskState(Snapshot(j)) = "working"
      BY <1>1, <2>1, SnapshotType, ProjectionCoherent DEF Structure, Snapshot
    <2>3. TaskState(Snapshot(j))' = "working"
      BY <2>1, <2>2
    <2>4. QED
      BY <1>1, <2>3 DEF TaskOf
  <1>4. \A k \in Jobs \ {j} : TaskOf(k)' = TaskOf(k)
    BY <1>1, TaskOfKept
  <1>5. status' = [status EXCEPT ![j] = "working"] /\ status[j] = "unknown"
    BY <1>1, <1>2, <1>3, <1>4, StatusExcept DEF status
  <1>6. QED
    BY <1>1, <1>5 DEF Lifecycle!Create, status

LEMMA TripAsks ==
    ASSUME Structure, NEW c \in Callers, NEW j, j = caller[c].job, TripCancel(c)
    PROVE  Lifecycle!Ask(j) /\ j \in Jobs
  <1>1. /\ j \in Jobs /\ j \in reg /\ UNCHANGED <<reg, meta, task>>
        /\ cancel' = [cancel EXCEPT ![j] = TRUE]
    BY DEF TripCancel, Structure, RequestShape, AskShape
  <1>2. status[j] # "unknown"
    BY <1>1, TaskOfValue DEF status, TaskStatus
  <1>3. status' = status
    BY <1>1, TaskOfKept, StatusKept
  <1>4. QED
    BY <1>1, <1>2, <1>3 DEF Lifecycle!Ask, status

LEMMA TaskResolves ==
    ASSUME Structure, NEW j \in Jobs, TaskStep(j)
    PROVE  Lifecycle!Resolve(j) \/ UNCHANGED <<status, cancel>>
  <1>1. /\ UNCHANGED <<reg, cancel>> /\ j \in reg /\ task[j] \in OnSession
        /\ \A k \in Jobs \ {j} : task'[k] = task[k] /\ meta'[k] = meta[k]
        /\ Moves(j) \/ Ends(j)
    BY TaskStepEffect DEF Structure, JobShape, RegShape, Moves, Ends
  <1>2. \A k \in Jobs \ {j} : TaskOf(k)' = TaskOf(k)
    BY <1>1, TaskOfKept
  <1>3. CASE Moves(j)
    <2>1. TaskOf(j)' = TaskOf(j)
      BY <1>1, <1>3, TaskOfKept DEF Moves, OnSession
    <2>2. QED
      BY <1>1, <1>2, <2>1, StatusKept
  <1>4. CASE Ends(j)
    <2> DEFINE s == TaskOf(j)'
    <2>1. /\ meta[j].running /\ ~meta[j].failed /\ ~meta[j].interrupted
      BY <1>1, OpenSlot DEF Structure, OnSession
    <2>2. TaskOf(j) = "working"
      BY <1>1, <2>1, TaskOfValue
    <2>3. s = TaskState(Snapshot(j)')
      BY <1>1 DEF TaskOf
    <2>4. /\ ~Snapshot(j)'.running
          /\ Snapshot(j)'.interrupted => cancel[j]
      BY <1>4, <2>1 DEF Snapshot, Ends
    <2>5. s \in Lifecycle!Ended /\ (s = "cancelled" => cancel[j])
      <3>1. /\ TaskState(Snapshot(j)') \in TerminalStatus
            /\ TaskState(Snapshot(j)') = "cancelled" => Snapshot(j)'.interrupted
        BY <2>4, EndedState
      <3>2. TerminalStatus = Lifecycle!Ended
        BY DEF TerminalStatus, TaskStatus, Lifecycle!Ended
      <3>3. QED
        BY <2>3, <2>4, <3>1, <3>2
    <2>6. status' = [status EXCEPT ![j] = s] /\ status[j] = "working"
      BY <1>2, <2>2, StatusExcept DEF status
    <2>7. QED
      BY <1>1, <2>5, <2>6 DEF Lifecycle!Resolve, status
  <1>5. QED
    BY <1>1, <1>3, <1>4

LEMMA OthersStutter ==
    ASSUME Structure, NEW c \in Callers,
           \/ Refuse(c) \/ Spawn(c) \/ Seed(c) \/ Unknown(c) \/ FindForGet(c)
           \/ FindForCancel(c) \/ Reply(c) \/ Return(c)
           \/ \E j \in Jobs : StartCall(c, j) \/ GetCall(c, j) \/ CancelCall(c, j)
    PROVE  UNCHANGED <<status, cancel>>
  <1>1. CASE \/ Seed(c) \/ Unknown(c) \/ FindForGet(c)
             \/ FindForCancel(c) \/ Reply(c) \/ Return(c)
             \/ \E j \in Jobs : GetCall(c, j) \/ CancelCall(c, j)
    <2>1. UNCHANGED <<reg, meta, task, cancel>>
      BY <1>1 DEF Seed, Unknown, FindForGet, FindForCancel, Reply, Return,
                  GetCall, CancelCall
    <2>2. QED
      BY <2>1, TaskOfKept, StatusKept
  <1>2. CASE Refuse(c) \/ Spawn(c)
    <2>1. task[caller[c].job] = "created" /\ caller[c].job \in Jobs
      BY <1>2 DEF Refuse, Spawn, At, Structure, StartShape, Starting, RequestShape
    <2>2. /\ UNCHANGED <<reg, meta, cancel>>
          /\ \A j \in Jobs : task'[j] = "done" <=> task[j] = "done"
      BY <1>2, <2>1 DEF Refuse, Spawn, Structure, TypeOK
    <2>3. QED
      BY <2>2, TaskOfKept, StatusKept
  <1>3. ASSUME NEW j \in Jobs, StartCall(c, j) PROVE UNCHANGED <<status, cancel>>
    <2>1. /\ task[j] = "unborn" /\ task'[j] = "created" /\ UNCHANGED <<reg, cancel>>
          /\ \A k \in Jobs \ {j} : task'[k] = task[k] /\ meta'[k] = meta[k]
      BY <1>3 DEF StartCall, Structure, TypeOK
    <2>2. j \notin reg
      BY <2>1 DEF Structure, RegShape, OnSession
    <2>3. TaskOf(j)' = TaskOf(j)
      BY <2>1, <2>2 DEF TaskOf
    <2>4. \A k \in Jobs \ {j} : TaskOf(k)' = TaskOf(k)
      BY <2>1, TaskOfKept
    <2>5. QED
      BY <2>1, <2>3, <2>4, StatusKept
  <1>4. QED
    BY <1>1, <1>2, <1>3

\* Every step of the registry is a step of the promised life cycle or hidden
\* from clients: a task is born working, ends once, is cancelled only when
\* asked, and is forgotten only when it has ended.
THEOREM RegistryImplementsLifecycle == Safe => Lifecycle!Safe
  <1>1. Init => Lifecycle!Init
    <2> SUFFICES ASSUME Init PROVE Lifecycle!Init
      OBVIOUS
    <2>1. \A j \in Jobs : TaskOf(j) = "unknown"
      BY DEF Init, TaskOf
    <2>2. QED
      BY <2>1 DEF Init, Lifecycle!Init
  <1>2. Structure /\ [Next]_vars => [Lifecycle!Next]_(Lifecycle!vars)
    <2> SUFFICES ASSUME Structure, [Next]_vars
                 PROVE  Lifecycle!Next \/ UNCHANGED <<status, cancel>>
      BY DEF Lifecycle!vars, status
    <2>1. ASSUME NEW c \in Callers, LockAndGc(c) PROVE Lifecycle!Next
      BY <2>1, GcForgets DEF Lifecycle!Next
    <2>2. ASSUME NEW c \in Callers, Insert(c) PROVE Lifecycle!Next
      BY <2>2, InsertCreates DEF Lifecycle!Next
    <2>3. ASSUME NEW c \in Callers, TripCancel(c) PROVE Lifecycle!Next
      BY <2>3, TripAsks DEF Lifecycle!Next
    <2>4. ASSUME NEW j \in Jobs, TaskStep(j)
          PROVE  Lifecycle!Next \/ UNCHANGED <<status, cancel>>
      BY <2>4, TaskResolves DEF Lifecycle!Next
    <2>5. CASE Tick \/ UNCHANGED vars
      <3>1. UNCHANGED <<reg, meta, task, cancel>>
        BY <2>5 DEF Tick, vars
      <3>2. QED
        BY <3>1, TaskOfKept, StatusKept
    <2>6. QED
      BY <2>1, <2>2, <2>3, <2>4, <2>5, OthersStutter DEF Next, CallerStep
  <1>3. QED
    BY <1>1, <1>2, AlwaysStructure, PTL DEF Safe, Lifecycle!Safe
=============================================================================
