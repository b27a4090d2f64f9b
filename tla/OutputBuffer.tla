---------------------------- MODULE OutputBuffer ----------------------------
(***************************************************************************)
(* The output of one background job (SharedBuf of src/src/tools/jobs.rs):  *)
(* the task pushes frames, readers take snapshots for tasks/get.  The      *)
(* total is an atomic counter, the tail a string behind a mutex, and the   *)
(* finish of the job a third cell; none is read together with another.     *)
(*                                                                         *)
(* The output is one stream of bytes.  The tail is the interval lo+1..hi   *)
(* of it and a character boundary is an offset: that is all that trimming  *)
(* looks at, the text itself is left out.                                  *)
(***************************************************************************)
EXTENDS Integers, FiniteSets

CONSTANTS Cap,       \* OUTPUT_CAP, 100 000 bytes
          MaxBytes,  \* bound on the stream
          Readers    \* concurrent tasks/get requests for this job

ASSUME CapAssumption == Cap \in Nat
ASSUME MaxBytesAssumption == MaxBytes \in Nat

VARIABLES boundary,  \* the offsets between two characters of the stream
          lo, hi,    \* tail
          total,     \* SharedBuf.total
          pushing,   \* bytes counted and not yet in the tail
          finished,  \* finish has run
          reader     \* reader[r]: a snapshot being taken

vars == <<boundary, lo, hi, total, pushing, finished, reader>>

\* A UTF-8 character takes one to four bytes.
Streams == {B \in SUBSET (0..MaxBytes) :
              /\ 0 \in B
              /\ \A n \in 0..MaxBytes : \E b \in B : b <= n /\ n < b + 4}

Idle == [pc |-> "idle", ended |-> FALSE, from |-> 0, to |-> 0, total |-> 0]

Init == /\ boundary \in Streams
        /\ lo = 0 /\ hi = 0 /\ total = 0 /\ pushing = 0
        /\ finished = FALSE
        /\ reader = [r \in Readers |-> Idle]
-----------------------------------------------------------------------------
\* Seeded fault: the frame is counted in characters.
CountFaulty(n) == Cardinality({b \in boundary : hi < b /\ b <= hi + n})

\* text.len().
Count(n) == n

\* push, first half: the counter moves before the tail.
PushCount(n) ==
    /\ ~finished /\ pushing = 0
    /\ n > 0 /\ hi + n \in boundary
    /\ total' = total + Count(n)
    /\ pushing' = n
    /\ UNCHANGED <<boundary, lo, hi, finished, reader>>

\* Seeded fault: the cut is moved up to the next boundary.
CutsFaulty(n) == {b \in boundary : n <= b /\ \A x \in boundary : n <= x => b <= x}

\* Seeded fault: the cut is not moved to a boundary.
CutsUnfloored(n) == {n}

\* The largest boundary at or below offset n.
Cuts(n) == {b \in boundary : b <= n /\ \A x \in boundary : x <= n => x <= b}

\* Seeded fault: trimming starts the counter again.
PushAppendFaulty ==
    /\ pushing > 0
    /\ hi' = hi + pushing
    /\ IF hi' - lo > Cap
       THEN lo' \in Cuts(hi' - Cap) /\ total' = hi' - lo'
       ELSE UNCHANGED <<lo, total>>
    /\ pushing' = 0
    /\ UNCHANGED <<boundary, finished, reader>>

\* push, second half, under the tail's mutex: append and trim.
PushAppend ==
    /\ pushing > 0
    /\ hi' = hi + pushing
    /\ IF hi' - lo > Cap THEN lo' \in Cuts(hi' - Cap) ELSE lo' = lo
    /\ pushing' = 0
    /\ UNCHANGED <<boundary, total, finished, reader>>

\* Seeded fault: the job is finished while its last frame is being pushed.
FinishFaulty == /\ ~finished
                /\ finished' = TRUE
                /\ UNCHANGED <<boundary, lo, hi, total, pushing, reader>>

\* finish, after run_job has returned and pushes no more.
Finish == /\ ~finished /\ pushing = 0
          /\ finished' = TRUE
          /\ UNCHANGED <<boundary, lo, hi, total, pushing, reader>>
-----------------------------------------------------------------------------
Step(r, from, to) == /\ reader[r].pc = from
                     /\ reader' = [reader EXCEPT ![r] = to]
                     /\ UNCHANGED <<boundary, lo, hi, total, pushing, finished>>

\* snapshot: the slot's meta, then the tail, then the total.
ReadMeta(r) ==
    Step(r, "idle", [reader[r] EXCEPT !.pc = "meta", !.ended = finished])
ReadTail(r) ==
    Step(r, "meta", [reader[r] EXCEPT !.pc = "tail", !.from = lo, !.to = hi])
ReadTotal(r) ==
    Step(r, "tail", [reader[r] EXCEPT !.pc = "done", !.total = total])

\* The next tasks/get of the same client; its last answer is kept.
Again(r) == Step(r, "done", [reader[r] EXCEPT !.pc = "idle"])

Next == \/ \E n \in 1..MaxBytes : PushCount(n)
        \/ PushAppend
        \/ Finish
        \/ \E r \in Readers : ReadMeta(r) \/ ReadTail(r) \/ ReadTotal(r) \/ Again(r)

Spec == Init /\ [][Next]_vars
-----------------------------------------------------------------------------
\* Every variable has its type; that of lo is what keeps drain from
\* panicking: a cut is never inside a character.
TypeOK == /\ boundary \in Streams
          /\ lo \in boundary /\ hi \in boundary
          /\ total \in Nat /\ pushing \in Nat
          /\ finished \in BOOLEAN
          /\ reader \in [Readers -> [pc : {"idle", "meta", "tail", "done"},
                                     ended : BOOLEAN, from : Nat, to : Nat,
                                     total : Nat]]

\* The tail is the end of the stream: trimming keeps at least the last Cap
\* bytes, and the tail outgrows Cap by less than one character.  (The comment on
\* JobInfo::output claims "up to OUTPUT_CAP bytes", jobs.rs:59.)
TailIsLatest == /\ lo <= hi
                /\ lo > 0 => hi - lo >= Cap
                /\ hi - lo <= Cap + 3

\* output_bytes of a snapshot covers the output beside it, although the two
\* are read one after the other: output_bytes - len(output) never underflows
\* and an incomplete output is never reported as complete.
SnapshotCovers == \A r \in Readers : reader[r].pc = "done" =>
                     /\ reader[r].from <= reader[r].to
                     /\ reader[r].to <= reader[r].total

\* A snapshot that says the job has ended has the whole output of the job:
\* the order meta, tail, total is what makes this true.
EndedSnapshotComplete == \A r \in Readers :
    reader[r].pc = "done" /\ reader[r].ended =>
        reader[r].to = hi /\ reader[r].total = hi

\* The numbers a polling client sees never go back.
Rising == [][\A r \in Readers : /\ reader[r].to <= reader'[r].to
                                /\ reader[r].total <= reader'[r].total
                                /\ reader[r].ended => reader'[r].ended]_vars
=============================================================================
