------------------------- MODULE OutputBufferProofs -------------------------
(***************************************************************************)
(* Theorems about OutputBuffer, for every capacity, every stream of        *)
(* characters and any number of readers.                                   *)
(***************************************************************************)
EXTENDS OutputBuffer, TLAPS

USE CapAssumption, MaxBytesAssumption

\* The counter is ahead of the tail by the frame in flight, and a snapshot
\* holds values the cells had in the order it read them.
Counted == /\ total = hi + pushing
           /\ hi + pushing \in boundary
           /\ finished => pushing = 0

Snapshots == \A r \in Readers :
    /\ reader[r].from <= reader[r].to
    /\ reader[r].to <= hi /\ reader[r].total <= total
    /\ reader[r].ended => finished
    /\ reader[r].ended /\ reader[r].pc \in {"tail", "done"} => reader[r].to = hi
    /\ reader[r].ended /\ reader[r].pc = "done" => reader[r].total = hi
    /\ reader[r].pc = "done" => reader[r].to <= reader[r].total

Inv == TypeOK /\ TailIsLatest /\ Counted /\ Snapshots

LEMMA Gap ==
    ASSUME NEW a \in Nat, NEW b \in Nat, a <= b - Cap, b - Cap - 3 <= a
    PROVE  a <= b /\ b - a <= Cap + 3 /\ b - a >= Cap
  OBVIOUS

LEMMA InitInv == Init => Inv
  <1> SUFFICES ASSUME Init PROVE Inv
    OBVIOUS
  <1>1. 0 \in boundary
    BY DEF Init, Streams
  <1>2. TypeOK
    BY <1>1 DEF Init, TypeOK, Idle
  <1>3. TailIsLatest /\ Counted /\ Snapshots
    BY <1>1 DEF Init, TailIsLatest, Counted, Snapshots, Idle
  <1>4. QED
    BY <1>2, <1>3 DEF Inv

LEMMA AppendInv == ASSUME Inv, PushAppend PROVE Inv'
  <1> USE DEF Inv
  <1>1. /\ boundary \subseteq Nat /\ boundary \subseteq 0..MaxBytes
        /\ boundary \in Streams /\ lo \in Nat /\ hi \in Nat
    BY DEF TypeOK, Streams
  <1>2. /\ hi' = hi + pushing /\ hi' \in boundary /\ pushing' = 0 /\ pushing \in Nat
        /\ UNCHANGED <<boundary, total, finished, reader>>
    BY DEF PushAppend, Counted, TypeOK
  <1>3. /\ lo' \in boundary /\ lo' <= hi' /\ hi' - lo' <= Cap + 3
        /\ lo' > 0 => hi' - lo' >= Cap
    <2>1. CASE hi' - lo > Cap
      <3> DEFINE n == hi' - Cap
      <3>1. lo' \in Cuts(n)
        BY <2>1 DEF PushAppend
      <3>2. n \in 0..MaxBytes
        BY <1>1, <1>2, <2>1
      <3>3. /\ lo' \in boundary /\ lo' <= n
            /\ \A x \in boundary : x <= n => x <= lo'
        BY <3>1 DEF Cuts
      <3>4. n - 3 <= lo'
        <4>1. PICK b \in boundary : b <= n /\ n < b + 4
          BY <1>1, <3>2 DEF Streams
        <4>2. b <= lo'
          BY <3>3, <4>1
        <4>3. b \in Int /\ lo' \in Int /\ n \in Int
          BY <1>1, <3>2, <3>3, <4>1
        <4> HIDE DEF n
        <4>4. QED
          BY <4>1, <4>2, <4>3
      <3>5. lo' \in Nat /\ hi' \in Nat
        BY <1>1, <1>2, <3>3
      <3>6. lo' <= hi' - Cap /\ hi' - Cap - 3 <= lo'
        BY <3>3, <3>4
      <3>7. lo' <= hi' /\ hi' - lo' <= Cap + 3 /\ hi' - lo' >= Cap
        BY <3>5, <3>6, Gap
      <3>8. QED
        BY <3>3, <3>7
    <2>2. CASE ~(hi' - lo > Cap)
      <3>1. lo' = lo
        BY <2>2 DEF PushAppend
      <3>2. QED
        BY <1>1, <1>2, <2>2, <3>1 DEF TailIsLatest, TypeOK
    <2>3. QED
      BY <2>1, <2>2
  <1>4. TypeOK' /\ TailIsLatest'
    BY <1>2, <1>3 DEF TypeOK, TailIsLatest
  <1>5. Counted'
    BY <1>1, <1>2 DEF Counted, TypeOK
  <1>6. Snapshots'
    <2> SUFFICES ASSUME NEW r \in Readers PROVE Snapshots!(r)'
      BY DEF Snapshots
    <2>1. ~finished
      BY DEF PushAppend, Counted
    <2>2. reader[r].to \in Nat /\ reader[r].total \in Nat /\ total \in Nat
      BY DEF TypeOK
    <2>3. QED
      BY <1>1, <1>2, <2>1, <2>2 DEF Snapshots
  <1>7. QED
    BY <1>4, <1>5, <1>6

LEMMA ReaderInv ==
    ASSUME Inv, NEW r \in Readers,
           ReadMeta(r) \/ ReadTail(r) \/ ReadTotal(r) \/ Again(r)
    PROVE  Inv'
  <1> USE DEF Inv
  <1>1. /\ UNCHANGED <<boundary, lo, hi, total, pushing, finished>>
        /\ \A q \in Readers \ {r} : reader'[q] = reader[q]
    BY DEF ReadMeta, ReadTail, ReadTotal, Again, Step, TypeOK
  <1>2. /\ lo \in Nat /\ hi \in Nat /\ total \in Nat /\ pushing \in Nat
        /\ finished \in BOOLEAN /\ lo <= hi
    BY DEF TypeOK, Streams, TailIsLatest
  <1>3. TypeOK'
    <2> DEFINE Snap == [pc : {"idle", "meta", "tail", "done"}, ended : BOOLEAN,
                        from : Nat, to : Nat, total : Nat]
               old == reader[r]
    <2>1. old \in Snap
      BY DEF TypeOK
    <2>2. /\ [old EXCEPT !.pc = "meta", !.ended = finished] \in Snap
          /\ [old EXCEPT !.pc = "tail", !.from = lo, !.to = hi] \in Snap
          /\ [old EXCEPT !.pc = "done", !.total = total] \in Snap
          /\ [old EXCEPT !.pc = "idle"] \in Snap
      BY <1>2, <2>1
    <2>3. \E s \in Snap : reader' = [reader EXCEPT ![r] = s]
      BY <2>2 DEF ReadMeta, ReadTail, ReadTotal, Again, Step
    <2>4. reader' \in [Readers -> Snap]
      BY <2>3 DEF TypeOK
    <2>5. QED
      BY <1>1, <2>4 DEF TypeOK
  <1>4. TailIsLatest' /\ Counted'
    BY <1>1 DEF TailIsLatest, Counted
  <1>5. Snapshots!(r)'
    <2>1. /\ Snapshots!(r) /\ reader[r].to \in Nat /\ reader[r].total \in Nat
      BY DEF Snapshots, TypeOK
    <2>2. CASE ReadMeta(r)
      <3>1. /\ reader'[r].pc = "meta" /\ reader'[r].ended = finished
            /\ reader'[r].from = reader[r].from /\ reader'[r].to = reader[r].to
            /\ reader'[r].total = reader[r].total
        BY <2>2 DEF ReadMeta, Step, TypeOK
      <3>2. QED
        BY <1>1, <2>1, <3>1
    <2>3. CASE ReadTail(r)
      <3>1. /\ reader'[r].pc = "tail" /\ reader'[r].ended = reader[r].ended
            /\ reader'[r].from = lo /\ reader'[r].to = hi
            /\ reader'[r].total = reader[r].total
        BY <2>3 DEF ReadTail, Step, TypeOK
      <3>2. QED
        BY <1>1, <1>2, <2>1, <3>1
    <2>4. CASE ReadTotal(r)
      <3>1. /\ reader[r].pc = "tail"
            /\ reader'[r].pc = "done" /\ reader'[r].ended = reader[r].ended
            /\ reader'[r].from = reader[r].from /\ reader'[r].to = reader[r].to
            /\ reader'[r].total = total
        BY <2>4 DEF ReadTotal, Step, TypeOK
      <3>2. reader[r].ended => total = hi
        BY <1>2, <2>1 DEF Counted
      <3>3. reader[r].to <= total
        BY <1>2, <2>1 DEF Counted
      <3>4. QED
        BY <1>1, <1>2, <2>1, <3>1, <3>2, <3>3
    <2>5. CASE Again(r)
      <3>1. /\ reader'[r].pc = "idle" /\ reader'[r].ended = reader[r].ended
            /\ reader'[r].from = reader[r].from /\ reader'[r].to = reader[r].to
            /\ reader'[r].total = reader[r].total
        BY <2>5 DEF Again, Step, TypeOK
      <3>2. QED
        BY <1>1, <2>1, <3>1
    <2>6. QED
      BY <2>2, <2>3, <2>4, <2>5
  <1>6. Snapshots'
    BY <1>1, <1>5 DEF Snapshots
  <1>7. QED
    BY <1>3, <1>4, <1>6

LEMMA PushInv == ASSUME Inv, NEW n \in 1..MaxBytes, PushCount(n) PROVE Inv'
  <1> USE DEF Inv
  <1>1. /\ total' = total + n /\ pushing' = n /\ pushing = 0 /\ ~finished
        /\ hi + n \in boundary /\ UNCHANGED <<boundary, lo, hi, finished, reader>>
    BY DEF PushCount, Count
  <1>2. hi \in Nat /\ total \in Nat /\ n \in Nat
    BY DEF TypeOK, Streams
  <1>3. TypeOK' /\ TailIsLatest' /\ Counted'
    BY <1>1, <1>2 DEF TypeOK, TailIsLatest, Counted
  <1>4. \A r \in Readers : reader[r].total \in Nat
    BY DEF TypeOK
  <1>5. Snapshots'
    BY <1>1, <1>2, <1>4 DEF Snapshots
  <1>6. QED
    BY <1>3, <1>5

LEMMA StepInv == Inv /\ [Next]_vars => Inv'
  <1> SUFFICES ASSUME Inv, [Next]_vars PROVE Inv'
    OBVIOUS
  <1>1. CASE Finish
    BY <1>1 DEF Inv, Finish, TypeOK, TailIsLatest, Counted, Snapshots
  <1>2. CASE UNCHANGED vars
    BY <1>2 DEF Inv, vars, TypeOK, TailIsLatest, Counted, Snapshots
  <1>3. QED
    BY <1>1, <1>2, PushInv, AppendInv, ReaderInv DEF Next

\* The invariant the other theorems are read off: buffer, snapshots and the
\* order in which a job ends and its output is read.
THEOREM AlwaysInv == Spec => []Inv
  BY InitInv, StepInv, PTL DEF Spec

\* Trimming is safe for every capacity: the cut is at a character, at least
\* Cap bytes are kept, and less than a character more than Cap.
THEOREM TailStaysLatest == Spec => [](TypeOK /\ TailIsLatest)
  <1>1. Inv => TypeOK /\ TailIsLatest
    BY DEF Inv
  <1>2. QED
    BY <1>1, AlwaysInv, PTL

\* Buffer, tail and every reader's snapshot keep their types, whatever the
\* capacity and however the pushes, the finish and the reads interleave.
THEOREM BufferTypeCorrect == Spec => []TypeOK
  <1>1. Inv => TypeOK
    BY DEF Inv
  <1>2. QED
    BY <1>1, AlwaysInv, PTL

\* output_bytes always covers the output beside it.
THEOREM SnapshotsCover == Spec => []SnapshotCovers
  <1>1. Inv => SnapshotCovers
    BY DEF Inv, Snapshots, SnapshotCovers
  <1>2. QED
    BY <1>1, AlwaysInv, PTL

\* Whoever is told that a job ended has all of its output.
THEOREM EndedSnapshotsComplete == Spec => []EndedSnapshotComplete
  <1>1. Inv => EndedSnapshotComplete
    BY DEF Inv, Snapshots, EndedSnapshotComplete
  <1>2. QED
    BY <1>1, AlwaysInv, PTL

\* The numbers a polling client sees never go back.
THEOREM PollingRises == Spec => Rising
  <1> DEFINE A == \A r \in Readers : /\ reader[r].to <= reader'[r].to
                                     /\ reader[r].total <= reader'[r].total
                                     /\ reader[r].ended => reader'[r].ended
  <1>1. ASSUME Inv, NEW r \in Readers,
               ReadMeta(r) \/ ReadTail(r) \/ ReadTotal(r) \/ Again(r)
        PROVE  A
    <2>1. \A q \in Readers \ {r} : reader'[q] = reader[q]
      BY <1>1 DEF ReadMeta, ReadTail, ReadTotal, Again, Step, Inv, TypeOK
    <2>2. /\ Snapshots!(r) /\ reader[r].to \in Nat /\ reader[r].total \in Nat
          /\ hi \in Nat /\ total \in Nat
          /\ \A q \in Readers : reader[q].to \in Nat /\ reader[q].total \in Nat
      BY <1>1 DEF Inv, Snapshots, TypeOK, Streams
    <2>3. /\ reader'[r].to \in {reader[r].to, hi}
          /\ reader'[r].total \in {reader[r].total, total}
          /\ reader'[r].ended = reader[r].ended \/ reader'[r].ended = finished
      BY <1>1 DEF ReadMeta, ReadTail, ReadTotal, Again, Step, Inv, TypeOK
    <2>4. QED
      BY <2>1, <2>2, <2>3
  <1>2. ASSUME Inv, reader' = reader PROVE A
    BY <1>2 DEF Inv, TypeOK
  <1>3. Inv /\ [Next]_vars => [A]_vars
    BY <1>1, <1>2 DEF Next, PushCount, PushAppend, Finish
  <1>4. QED
    BY <1>3, AlwaysInv, PTL DEF Spec, Rising
=============================================================================
