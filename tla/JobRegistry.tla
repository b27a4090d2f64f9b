---------------------------- MODULE JobRegistry -----------------------------
(***************************************************************************)
(* The background-job registry (src/src/tools/jobs.rs) and the three MCP   *)
(* handlers that call it (call_tool's background gate, get_task and        *)
(* cancel_task of src/src/mcp/mod.rs).  Callers are request handlers on    *)
(* runtime threads: they meet in the registry mutex.  Every accepted job   *)
(* also has a spawned task, which runs its command on a terminal session   *)
(* and finishes the job through the mutex of the job's own slot: it never  *)
(* takes the registry mutex, so it moves between any two steps of a        *)
(* caller, also of the caller that holds the registry.                     *)
(*                                                                         *)
(* One action is one critical section or one step between two of them.     *)
(* The terminal session is abstracted to its outcome (module               *)
(* ReplSession has the protocol), the output to nothing (module            *)
(* OutputBuffer has it), and the wall clock to a counter of seconds that   *)
(* never runs backwards.                                                   *)
(***************************************************************************)
EXTENDS Integers, FiniteSets, TaskProjection

CONSTANTS Jobs,        \* the ids new_id can draw: each is drawn at most once
          Callers,     \* concurrent MCP requests
          MaxRunning,  \* MAX_RUNNING, 16
          MaxEntries,  \* MAX_ENTRIES, 256
          Retention,   \* RETENTION, in seconds
          MaxTime,     \* bound on the clock, for TLC only
          Free         \* no caller holds the registry

ASSUME RunningAssumption == MaxRunning \in Nat \ {0}
ASSUME EntriesAssumption == MaxEntries \in Nat /\ MaxRunning <= MaxEntries
ASSUME RetentionAssumption == Retention \in Nat
ASSUME TimeAssumption == MaxTime \in Nat
ASSUME FreeAssumption == Free \notin Callers

VARIABLES reg,       \* the keys of the registry map
          meta,      \* meta[j]: the JobMeta of the slot of j
          cancel,    \* cancel[j]: the cancel flag of the slot of j
          task,      \* task[j]: where the job is, see TaskPC
          caller,    \* caller[c]: the request c is serving
          lock,      \* the holder of the registry mutex, or Free
          now        \* unix_now()

vars == <<reg, meta, cancel, task, caller, lock, now>>

None == -1           \* Option::None for finished_unix

\* unborn: the id was never drawn; created: there is a slot; refused: start
\* returned Err; opening .. draining: the spawned task runs run_job; done:
\* finish has run.
OnSession == {"opening", "running", "breaking", "draining"}
TaskPC    == {"unborn", "created", "refused", "done"} \cup OnSession

Meta == [started : Nat, finished : Nat \cup {None}, running : BOOLEAN,
         interrupted : BOOLEAN, failed : BOOLEAN, result : BOOLEAN]

\* A request in progress.  `holding`, `tripping` and `reading` own the
\* registry; `inserted` and `spawned` are the tail of start, after the lock.
Holding == {"holding", "tripping", "reading"}
PC      == {"idle", "waiting", "inserted", "spawned", "answered"} \cup Holding

\* An answer: a task, or an error or acknowledgement that is none.
NoTask  == {"silent", "unknown", "refused", "accepted"}
Answers == [status : TaskStatus \cup NoTask, message : TaskStatus \cup NoTask]
Bare(s) == [status |-> s, message |-> s]

Request == [pc : PC, op : {"none", "start", "get", "cancel"},
            job : Jobs \cup {"none"}, answer : Answers]

NoRequest == [pc |-> "idle", op |-> "none", job |-> "none",
              answer |-> Bare("silent")]

Running(R) == {j \in R : meta[j].running}

\* jobs::snapshot: one locked read of the slot's meta.
Snapshot(j) == [running |-> meta[j].running, interrupted |-> meta[j].interrupted,
                failed |-> meta[j].failed, result |-> meta[j].result]

\* The slot start builds before it takes the lock.
NewMeta(t) == [started |-> t, finished |-> None, running |-> TRUE,
               interrupted |-> FALSE, failed |-> FALSE, result |-> FALSE]
-----------------------------------------------------------------------------
Init == /\ reg = {}
        /\ meta = [j \in Jobs |-> NewMeta(0)]
        /\ cancel = [j \in Jobs |-> FALSE]
        /\ task = [j \in Jobs |-> "unborn"]
        /\ caller = [c \in Callers |-> NoRequest]
        /\ lock = Free
        /\ now = 0

At(c, pc, op) == caller[c].pc = pc /\ caller[c].op = op

Goto(c, pc) == caller' = [caller EXCEPT ![c].pc = pc]

Answer(c, a) == caller' = [caller EXCEPT ![c].pc = "answered", ![c].answer = a]

Call(c, op, j) ==
    /\ caller[c].pc = "idle"
    /\ caller' = [caller EXCEPT ![c] = [pc |-> "waiting", op |-> op, job |-> j,
                                        answer |-> Bare("silent")]]

(***************************************************************************)
(* The garbage collection every operation starts with.                     *)
(***************************************************************************)
\* Seeded fault: eviction does not filter on finished_unix.
FinishedFaulty(R) == R

Finished(R) == {j \in R : meta[j].finished # None}

\* What retain keeps.
Fresh == {j \in reg : \/ meta[j].finished = None
                      \/ now - meta[j].finished < Retention}

Least(a, b) == IF a <= b THEN a ELSE b

\* Seeded fault: the entry about to be inserted is allowed for twice.
ExcessFaulty == IF Cardinality(Fresh) > MaxEntries + 1
                THEN Least(Cardinality(Fresh) - MaxEntries,
                           Cardinality(Finished(Fresh)))
                ELSE 0

Excess == IF Cardinality(Fresh) > MaxEntries
          THEN Least(Cardinality(Fresh) - MaxEntries,
                     Cardinality(Finished(Fresh)))
          ELSE 0

\* Seeded fault: sorted the other way round, the newest finish goes first.
EvictionsFaulty == {E \in SUBSET Finished(Fresh) :
                      /\ Cardinality(E) = Excess
                      /\ \A e \in E, k \in Finished(Fresh) \ E :
                            meta[e].finished >= meta[k].finished}

\* The sets eviction may take: oldest finish first; jobs that finished in
\* the same second are ordered by their random ids.
Evictions == {E \in SUBSET Finished(Fresh) :
                /\ Cardinality(E) = Excess
                /\ \A e \in E, k \in Finished(Fresh) \ E :
                      meta[e].finished <= meta[k].finished}

\* lock_reg, then gc.
LockAndGc(c) ==
    /\ caller[c].pc = "waiting"
    /\ lock = Free
    /\ lock' = c
    /\ \E E \in Evictions : reg' = Fresh \ E
    /\ Goto(c, "holding")
    /\ UNCHANGED <<meta, cancel, task, now>>
-----------------------------------------------------------------------------
(***************************************************************************)
(* execute_command(background = true): jobs::start, then the seed answer.  *)
(***************************************************************************)
StartCall(c, j) ==
    /\ task[j] = "unborn"
    /\ Call(c, "start", j)
    /\ task' = [task EXCEPT ![j] = "created"]
    /\ meta' = [meta EXCEPT ![j] = NewMeta(now)]
    /\ UNCHANGED <<reg, cancel, lock, now>>

\* Seeded fault: off by one in the limit.
TooManyRunningFaulty == Cardinality(Running(reg)) > MaxRunning

TooManyRunning == Cardinality(Running(reg)) >= MaxRunning

Refuse(c) ==
    /\ At(c, "holding", "start")
    /\ TooManyRunning
    /\ task' = [task EXCEPT ![caller[c].job] = "refused"]
    /\ lock' = Free
    /\ Answer(c, Bare("refused"))
    /\ UNCHANGED <<reg, meta, cancel, now>>

Insert(c) ==
    /\ At(c, "holding", "start")
    /\ ~TooManyRunning
    /\ reg' = reg \cup {caller[c].job}
    /\ lock' = Free
    /\ Goto(c, "inserted")
    /\ UNCHANGED <<meta, cancel, task, now>>

\* tokio::spawn, with no lock held.
Spawn(c) ==
    /\ caller[c].pc = "inserted"
    /\ task' = [task EXCEPT ![caller[c].job] = "opening"]
    /\ Goto(c, "spawned")
    /\ UNCHANGED <<reg, meta, cancel, lock, now>>

\* The snapshot start returns is taken after the spawn, of whatever the
\* slot holds by then; call_tool projects it with create_task.
Seed(c) ==
    /\ caller[c].pc = "spawned"
    /\ Answer(c, CreateTask(Snapshot(caller[c].job)))
    /\ UNCHANGED <<reg, meta, cancel, task, lock, now>>
-----------------------------------------------------------------------------
(***************************************************************************)
(* tasks/get and tasks/cancel.  A client knows an id from a seed answer.   *)
(***************************************************************************)
HandedOut(j) == /\ task[j] \notin {"unborn", "refused"}
                /\ \A c \in Callers : ~(caller[c].op = "start" /\ caller[c].job = j
                                        /\ caller[c].pc # "answered")

GetCall(c, j) ==
    /\ HandedOut(j)
    /\ Call(c, "get", j)
    /\ UNCHANGED <<reg, meta, cancel, task, lock, now>>

CancelCall(c, j) ==
    /\ HandedOut(j)
    /\ Call(c, "cancel", j)
    /\ UNCHANGED <<reg, meta, cancel, task, lock, now>>

Unknown(c) ==
    /\ caller[c].pc = "holding"
    /\ caller[c].op \in {"get", "cancel"}
    /\ caller[c].job \notin reg
    /\ lock' = Free
    /\ Answer(c, Bare("unknown"))
    /\ UNCHANGED <<reg, meta, cancel, task, now>>

FindForGet(c) ==
    /\ At(c, "holding", "get")
    /\ caller[c].job \in reg
    /\ Goto(c, "reading")
    /\ UNCHANGED <<reg, meta, cancel, task, lock, now>>

\* cancel reads `running` under the slot's mutex and stores the flag after
\* releasing it.
FindForCancel(c) ==
    /\ At(c, "holding", "cancel")
    /\ caller[c].job \in reg
    /\ Goto(c, IF meta[caller[c].job].running THEN "tripping" ELSE "reading")
    /\ UNCHANGED <<reg, meta, cancel, task, lock, now>>

TripCancel(c) ==
    /\ caller[c].pc = "tripping"
    /\ cancel' = [cancel EXCEPT ![caller[c].job] = TRUE]
    /\ Goto(c, "reading")
    /\ UNCHANGED <<reg, meta, task, lock, now>>

\* Seeded fault: the answer locks the registry again.
ReplyFaulty(c) ==
    /\ caller[c].pc = "reading"
    /\ lock = Free
    /\ Answer(c, DetailedTask(Snapshot(caller[c].job)))
    /\ UNCHANGED <<reg, meta, cancel, task, lock, now>>

\* snapshot, still under the registry's mutex; tasks/cancel is answered with
\* a bare acknowledgement.
Reply(c) ==
    /\ caller[c].pc = "reading"
    /\ Answer(c, IF caller[c].op = "get"
                 THEN DetailedTask(Snapshot(caller[c].job)) ELSE Bare("accepted"))
    /\ lock' = Free
    /\ UNCHANGED <<reg, meta, cancel, task, now>>

\* The client has read the answer.
Return(c) ==
    /\ caller[c].pc = "answered"
    /\ caller' = [caller EXCEPT ![c] = NoRequest]
    /\ UNCHANGED <<reg, meta, cancel, task, lock, now>>
-----------------------------------------------------------------------------
(***************************************************************************)
(* The spawned task: run_job, then finish; FinishOnDrop on a panic.        *)
(***************************************************************************)
Progress(j, from, to) ==
    /\ task[j] = from
    /\ task' = [task EXCEPT ![j] = to]
    /\ UNCHANGED <<reg, meta, cancel, caller, lock, now>>

FinishOk(j, interrupted) ==
    /\ task' = [task EXCEPT ![j] = "done"]
    /\ meta' = [meta EXCEPT ![j].running = FALSE, ![j].finished = now,
                            ![j].interrupted = interrupted, ![j].result = TRUE]
    /\ UNCHANGED <<reg, cancel, caller, lock, now>>

FinishErr(j) ==
    /\ task' = [task EXCEPT ![j] = "done"]
    /\ meta' = [meta EXCEPT ![j].running = FALSE, ![j].finished = now,
                            ![j].failed = TRUE]
    /\ UNCHANGED <<reg, cancel, caller, lock, now>>

Opened(j)     == Progress(j, "opening", "running")
OpenFails(j)  == task[j] = "opening" /\ FinishErr(j)
Completes(j)  == task[j] = "running" /\ FinishOk(j, FALSE)
\* Seeded fault: the session is interrupted without a tripped flag.
SeesCancelFaulty(j) == Progress(j, "running", "breaking")
\* A frame poll finds the flag set: the interrupt is sent.
SeesCancel(j) == cancel[j] /\ Progress(j, "running", "breaking")
\* Prompt, error frame, closed socket or 5 s of silence: all settle.
Settles(j)    == task[j] = "breaking" /\ FinishOk(j, TRUE)
\* Timeout, closed socket, server error frame or a stalled send: run_with
\* breaks the child and drains before it returns the error.
Fails(j)      == \/ Progress(j, "running", "draining")
                 \/ Progress(j, "breaking", "draining")
Drained(j)    == task[j] = "draining" /\ FinishErr(j)
\* Seeded fault: nothing finishes a job whose task panics.
PanicsUnfinished(j) == task[j] \in OnSession /\ Progress(j, task[j], "done")
\* Seeded fault: FinishOnDrop is not disarmed after finish.
PanicsTwice(j) == task[j] \in OnSession \cup {"done"} /\ FinishErr(j)
Panics(j)     == task[j] \in OnSession /\ FinishErr(j)

Tick == /\ now < MaxTime
        /\ now' = now + 1
        /\ UNCHANGED <<reg, meta, cancel, task, caller, lock>>
-----------------------------------------------------------------------------
\* The steps a caller takes by itself once it owns, or no longer needs, the
\* registry.
CallerStep(c) ==
    \/ Refuse(c) \/ Insert(c) \/ Spawn(c) \/ Seed(c)
    \/ Unknown(c) \/ FindForGet(c) \/ FindForCancel(c)
    \/ TripCancel(c) \/ Reply(c) \/ Return(c)

TaskStep(j) ==
    \/ Opened(j) \/ OpenFails(j) \/ Completes(j) \/ SeesCancel(j)
    \/ Settles(j) \/ Fails(j) \/ Drained(j) \/ Panics(j)

Next ==
    \/ \E c \in Callers : \/ LockAndGc(c)
                          \/ CallerStep(c)
                          \/ \E j \in Jobs : \/ StartCall(c, j)
                                             \/ GetCall(c, j)
                                             \/ CancelCall(c, j)
    \/ \E j \in Jobs : TaskStep(j)
    \/ Tick

\* The runtime polls every ready task, and a thread inside or past the
\* critical section runs on.  std::sync::Mutex is not fair, so nothing is
\* assumed of LockAndGc; clients need not call.
Fairness == /\ \A c \in Callers : WF_vars(CallerStep(c))
            /\ \A j \in Jobs : WF_vars(TaskStep(j))

Safe == Init /\ [][Next]_vars

Spec == Safe /\ Fairness
-----------------------------------------------------------------------------
(***************************************************************************)
(* Properties.                                                             *)
(***************************************************************************)

\* Every variable has its type.
TypeOK == /\ reg \in SUBSET Jobs
          /\ meta \in [Jobs -> Meta]
          /\ cancel \in [Jobs -> BOOLEAN]
          /\ task \in [Jobs -> TaskPC]
          /\ caller \in [Callers -> Request]
          /\ lock \in Callers \cup {Free}
          /\ now \in Nat

\* At most MAX_RUNNING terminal sessions are open or being opened on the
\* IRIS server by background jobs, whatever callers and tasks interleave:
\* start counts and inserts in one critical section, gc drops no running
\* job, and a task leaves its session before it stops counting as running.
SessionsBounded == Cardinality({j \in Jobs : task[j] \in OnSession}) <= MaxRunning

\* The registry holds at most one entry more than MAX_ENTRIES: gc runs before
\* the insert, and among MAX_ENTRIES + 1 entries at least one has finished,
\* because MAX_RUNNING <= MAX_ENTRIES.  (The comment on MAX_ENTRIES claims
\* MAX_ENTRIES itself, jobs.rs:32-33.)
EntriesBounded == Cardinality(reg) <= MaxEntries + 1

\* A finished job has either the result of the synchronous call or an error,
\* never both and never neither, and only a job whose flag was tripped is
\* interrupted: the coherence sync_result and status_message rely on.
OutcomeCoherent ==
    \A j \in Jobs : task[j] = "done" =>
        /\ ~meta[j].running /\ meta[j].finished >= meta[j].started
        /\ meta[j].failed # meta[j].result
        /\ meta[j].interrupted => meta[j].result /\ cancel[j]

Told(c, op) == At(c, "answered", op) /\ caller[c].answer.status \in TaskStatus

\* tasks/get never contradicts itself, and a terminal status it reported
\* still is the job's status when the client reads the answer and later,
\* for as long as the registry knows the job.
AnswersHold ==
    \A c \in Callers : Told(c, "get") =>
        /\ caller[c].answer.message = caller[c].answer.status
        /\ caller[c].answer.status \in TerminalStatus =>
              TaskState(Snapshot(caller[c].job)) = caller[c].answer.status

\* A client told that an id is unknown or expired may stop watching it: the
\* job has ended, holds no session, and will never be known again.
UnknownMeansOver ==
    \A c \in Callers :
        caller[c].pc = "answered" /\ caller[c].answer.status = "unknown" =>
            task[caller[c].job] = "done" /\ caller[c].job \notin reg

\* gc drops a job before its retention is over, counted from its finish, only
\* above the entry cap, and then only the oldest: what leaves early leaves the
\* registry filled to the cap with running jobs and jobs that finished no
\* earlier (jobs.rs:393-411).
EvictsOldest ==
    [][\A j \in reg \ reg' :
          now - meta[j].finished < Retention =>
            /\ Cardinality(reg') = MaxEntries
            /\ \A k \in Finished(reg') : meta[j].finished <= meta[k].finished]_vars

\* The registry, once taken, is given back, whatever the tasks and the other
\* callers do: no critical section waits for a task, a session or a second
\* acquisition (jobs.rs:221, 345, 380), so that no request stays without
\* its answer behind another.
Served == lock # Free ~> lock = Free

\* The registry implements the life cycle promised to clients, its liveness
\* (every accepted job ends) included.
TaskOf(j) == CASE j \in reg -> TaskState(Snapshot(j))
               [] j \notin reg /\ task[j] = "done" -> "gone"
               [] OTHER -> "unknown"

Lifecycle == INSTANCE TaskLifecycle WITH
                 status <- [j \in Jobs |-> TaskOf(j)], asked <- cancel

LifecycleSpec == Lifecycle!Spec
=============================================================================
