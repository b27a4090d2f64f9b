------------------------ MODULE DebugSessionsProofs -------------------------
(***************************************************************************)
(* Proofs about the debugger sessions, for any number of callers and       *)
(* connections and any bounds.                                             *)
(***************************************************************************)
EXTENDS DebugSessions, SequenceTheorems, TLAPS

(***************************************************************************)
(* The inductive invariant.                                                *)
(***************************************************************************)

\* A call that will register connection i, if the slot is still free then.
Registering(c, i) ==
    /\ call[c].id = i /\ call[c].answer = "none"
    /\ call[c].pc \in {"reap", "closing", "create"}

\* What a call has at each place of the code.
Shape ==
    \A c \in Callers :
        /\ call[c].pc = "idle" => call[c] = NoCall
        /\ call[c].pc # "closing" => call[c].closing = {}
        /\ call[c].pc \notin {"remove", "closing", "answered"} => call[c].answer = "none"
        /\ call[c].pc = "remove" => call[c].answer # "none"
        /\ call[c].answer = "none" => ~call[c].ended
        /\ call[c].pc \in {"check", "connect"} => call[c].id = NoId

\* What is in use is connected.
Connected ==
    \A i \in Ids :
        \/ i \in slot
        \/ i \in known
        \/ \E c \in Callers : call[c].id = i
        => socket[i] # "none"

\* Nobody else knows a connection that is about to be registered.
Alone ==
    \A c \in Callers, i \in Ids : Registering(c, i) =>
        /\ i \notin slot \cup known
        /\ \A d \in Callers : call[d].id = i => d = c

\* A call that has taken its session down, or never registered it.
TookDown(c) ==
    \/ call[c].pc = "closing" /\ call[c].answer # "none"
    \/ /\ call[c].pc = "answered" /\ call[c].id # NoId
       /\ call[c].ended \/ (call[c].op \in Opens /\ call[c].answer = "error")

StaysDown == \A c \in Callers : TookDown(c) => call[c].id \notin slot

\* On a connection without a time-out the agent owes at most one answer, to the
\* call that holds the connection and awaits it.
Awaited(c, i) == call[c].pc = "await" /\ call[c].id = i /\ owed[i] = <<c>>

QueueInv ==
    \A i \in Ids \ late : owed[i] = <<>> \/ \E c \in Callers : Awaited(c, i)

SlotInv == Shape /\ Connected /\ Alone /\ StaysDown /\ OneSession

IInv == TypeOK /\ SlotInv /\ NoOrphans /\ QueueInv /\ RepliesMatch
-----------------------------------------------------------------------------
(***************************************************************************)
(* What a step leaves of a call.                                           *)
(***************************************************************************)

\* The facts about one exchange that the invariants look at: how the call goes
\* on, and that it gives the connection back unless it sends again.
Goes(c, own) ==
    /\ call' = [call EXCEPT ![c] = call'[c]]
    /\ call'[c] \in Call
    /\ call'[c].id = call[c].id /\ call'[c].op = call[c].op
    /\ call'[c].closing = call[c].closing /\ call'[c].own = own
    /\ \/ /\ call'[c].pc = "send" /\ UNCHANGED lock
          /\ call'[c].answer = call[c].answer /\ call'[c].ended = call[c].ended
       \/ /\ call'[c].pc = "lock" /\ Release(c)
          /\ call'[c].answer = call[c].answer /\ call'[c].ended = call[c].ended
       \/ /\ call'[c].pc = "answered" /\ Release(c) /\ call'[c].answer \in {"ok", "error"}
          /\ ~call'[c].ended
          /\ call'[c].op \in Opens => call'[c].answer = "ok"
       \/ call'[c].pc = "remove" /\ Release(c) /\ call'[c].answer \in {"ok", "error"}

LEMMA HoldingGoes ==
    ASSUME NEW c \in Callers, NEW phase \in {"main", "stack", "vars"},
           NEW more \in 0..MaxMore, NEW own \in BOOLEAN, TypeOK, Holding(c, phase, more, own)
    PROVE  Goes(c, own)
<1> DEFINE r == [call[c] EXCEPT !.pc = "send", !.phase = phase,
                              !.more = more, !.own = own]
<1>1. call[c] \in Call /\ call \in [Callers -> Call]
  BY DEF TypeOK
<1>2. r \in Call
  BY <1>1 DEF Call, PC
<1>3. call' = [call EXCEPT ![c] = r] /\ call'[c] = r
  BY <1>1 DEF Holding
<1> QED
  BY <1>1, <1>2, <1>3 DEF Holding, Goes, Call

LEMMA RelockingGoes ==
    ASSUME NEW c \in Callers, NEW phase \in {"main", "stack", "vars"},
           NEW more \in 0..MaxMore, NEW own \in BOOLEAN, TypeOK, Relocking(c, phase, more, own)
    PROVE  Goes(c, own)
<1> DEFINE r == [call[c] EXCEPT !.pc = "lock", !.phase = phase,
                              !.more = more, !.own = own]
<1>1. call[c] \in Call /\ call \in [Callers -> Call]
  BY DEF TypeOK
<1>2. r \in Call
  BY <1>1 DEF Call, PC
<1>3. call' = [call EXCEPT ![c] = r] /\ call'[c] = r
  BY <1>1 DEF Relocking
<1> QED
  BY <1>1, <1>2, <1>3 DEF Relocking, Goes, Call

LEMMA EndsGoes ==
    ASSUME NEW c \in Callers, NEW pc \in {"answered", "remove"}, NEW a \in {"ok", "error"},
           NEW ended \in BOOLEAN, NEW own \in BOOLEAN, TypeOK, Ends(c, pc, a, ended, own),
           pc = "answered" => ~ended /\ (call[c].op \in Opens => a = "ok")
    PROVE  Goes(c, own)
<1> DEFINE r == [call[c] EXCEPT !.pc = pc, !.answer = a,
                              !.ended = ended, !.own = own]
<1>1. call[c] \in Call /\ call \in [Callers -> Call]
  BY DEF TypeOK
<1>2. r \in Call
  BY <1>1 DEF Call, PC
<1>3. call' = [call EXCEPT ![c] = r] /\ call'[c] = r
  BY <1>1 DEF Ends
<1> QED
  BY <1>1, <1>2, <1>3 DEF Ends, Goes, Call

LEMMA RepliedGoes ==
    ASSUME NEW c \in Callers, NEW own \in BOOLEAN, TypeOK,
           GoesOn(c, own) \/ Breaks(c, own) \/ Concludes(c, own) \/ Fetches(c, own)
    PROVE  Goes(c, own)
<1>1. MaxMore \in Nat /\ call[c].more \in 0..MaxMore
  BY BoundsAssumption DEF TypeOK, Call
<1>2. 0 \in 0..MaxMore /\ (call[c].more > 0 => call[c].more - 1 \in 0..MaxMore)
  BY <1>1
<1>3. CASE GoesOn(c, own)
  BY <1>2, <1>3, HoldingGoes, RelockingGoes DEF GoesOn
<1>4. CASE Breaks(c, own)
  BY <1>2, <1>4, HoldingGoes, RelockingGoes DEF Breaks
<1>5. CASE Concludes(c, own)
  BY <1>5, EndsGoes DEF Concludes, Opens
<1>6. CASE Fetches(c, own)
  BY <1>2, <1>6, HoldingGoes, EndsGoes DEF Fetches
<1> QED
  BY <1>3, <1>4, <1>5, <1>6

LEMMA FailsGoes ==
    ASSUME NEW c \in Callers, NEW own \in BOOLEAN, TypeOK, Fails(c, own)
    PROVE  Goes(c, own)
  BY EndsGoes DEF Fails, Opens
-----------------------------------------------------------------------------
(***************************************************************************)
(* Types.                                                                  *)
(***************************************************************************)
\* What the agent owes on a connection.
Debts == Seq(Callers \cup {Late})

LEMMA AbandonType ==
    ASSUME NEW q \in Debts, NEW c
    PROVE  Abandon(q, c) \in Debts
<1>1. Len(q) \in Nat /\ DOMAIN q = 1..Len(q) /\ \A k \in 1..Len(q) : q[k] \in Callers \cup {Late}
  BY DEF Debts
<1>2. Abandon(q, c) \in [1..Len(q) -> Callers \cup {Late}]
  BY <1>1 DEF Abandon
<1> QED
  BY <1>1, <1>2 DEF Debts

\* A call's record and its lock, at the places that need them.
CallOK(c) ==
    /\ call[c].pc \in {"lock", "send", "await", "remove", "create"} => call[c].id \in Ids
    /\ call[c].answer = "ok" => call[c].id \in Ids
    /\ call[c].pc \in {"send", "await"} => lock[call[c].id] = c

MapsOK == /\ slot \in SUBSET Ids
          /\ stale \in [Ids -> BOOLEAN]
          /\ known \in SUBSET Ids
          /\ socket \in [Ids -> Socket]
          /\ owed \in [Ids -> Debts]
          /\ late \in SUBSET Ids
          /\ patience \in 0..Patience

LockOK == lock \in [Ids -> Callers \cup {Free}]

LEMMA TypeParts ==
    TypeOK <=> MapsOK /\ LockOK /\ call \in [Callers -> Call] /\ \A c \in Callers : CallOK(c)
  BY DEF TypeOK, MapsOK, LockOK, CallOK, Debts

LEMMA TypePartsNext ==
    (MapsOK /\ LockOK /\ call \in [Callers -> Call] /\ \A c \in Callers : CallOK(c))' => TypeOK'
  BY DEF TypeOK, MapsOK, LockOK, CallOK, Debts

\* A call that changes its own record only, and no lock.
LEMMA OwnRecordType ==
    ASSUME TypeOK, NEW c \in Callers, NEW r \in Call, call' = [call EXCEPT ![c] = r],
           UNCHANGED lock,
           r.pc \in {"lock", "remove", "create", "send", "await"} => r.id \in Ids,
           r.pc \in {"send", "await"} => lock[r.id] = c,
           r.answer = "ok" => r.id \in Ids
    PROVE  (LockOK /\ call \in [Callers -> Call] /\ \A d \in Callers : CallOK(d))'
<1>1. LockOK /\ call \in [Callers -> Call] /\ \A d \in Callers : CallOK(d)
  BY TypeParts
<1>2. call'[c] = r /\ \A d \in Callers \ {c} : call'[d] = call[d]
  BY <1>1
<1> QED
  BY <1>1, <1>2 DEF LockOK, CallOK

\* The end of an exchange.
LEMMA GoesType ==
    ASSUME TypeOK, NEW c \in Callers, call[c].pc = "await", NEW own, Goes(c, own)
    PROVE  (LockOK /\ call \in [Callers -> Call] /\ \A d \in Callers : CallOK(d))'
<1>1. LockOK /\ call \in [Callers -> Call] /\ \A d \in Callers : CallOK(d)
  BY TypeParts
<1>2. call'[c] \in Call /\ call'[c].id = call[c].id /\ \A d \in Callers \ {c} : call'[d] = call[d]
  BY <1>1 DEF Goes
<1>3. call[c].id \in Ids /\ lock[call[c].id] = c
  BY <1>1 DEF CallOK
<1>4. call' \in [Callers -> Call]
  BY <1>1, <1>2 DEF Goes
<1>5. CASE call'[c].pc = "send" /\ UNCHANGED lock
  BY <1>1, <1>2, <1>3, <1>4, <1>5 DEF LockOK, CallOK
<1>6. CASE call'[c].pc \in {"lock", "answered", "remove"} /\ Release(c)
  <2>1. LockOK'
    BY <1>1, <1>6 DEF LockOK, Release
  <2>2. \A i \in Ids : i # call[c].id => lock'[i] = lock[i]
    BY <1>1, <1>6 DEF LockOK, Release
  <2>3. ASSUME NEW d \in Callers \ {c} PROVE CallOK(d)'
    BY <1>1, <1>2, <1>3, <2>2 DEF CallOK
  <2>4. CallOK(c)'
    BY <1>2, <1>3, <1>6 DEF CallOK
  <2> QED
    BY <1>4, <2>1, <2>3, <2>4
<1> QED
  BY <1>5, <1>6 DEF Goes

\* The replies and the waits of an exchange keep the debts' type.
LEMMA HearsType ==
    ASSUME TypeOK, NEW c \in Callers, Hears(c)
    PROVE  owed' \in [Ids -> Debts] /\ late' = late /\ patience' = patience
<1>1. call[c].id \in Ids /\ owed \in [Ids -> Debts]
  BY DEF TypeOK, Hears, Debts
<1>2. owed[call[c].id] \in Debts /\ owed[call[c].id] # <<>>
  BY <1>1 DEF Hears
<1>3. Tail(owed[call[c].id]) \in Debts
  BY <1>2 DEF Debts
<1>4. Abandon(Tail(owed[call[c].id]), c) \in Debts
  BY <1>3, AbandonType
<1> QED
  BY <1>1, <1>4 DEF Hears

LEMMA WaitType ==
    ASSUME TypeOK, NEW c \in Callers, TimesOut(c) \/ FindsDead(c)
    PROVE  owed' \in [Ids -> Debts] /\ late' \in SUBSET Ids /\ patience' \in 0..Patience
<1>1. /\ call[c].id \in Ids /\ owed \in [Ids -> Debts]
      /\ late \in SUBSET Ids /\ patience \in 0..Patience
  BY DEF TypeOK, TimesOut, FindsDead, Debts
<1>2. CASE TimesOut(c)
  <2>1. Abandon(owed[call[c].id], c) \in Debts
    BY <1>1, AbandonType
  <2>2. patience' \in 0..Patience
    BY <1>1, <1>2, BoundsAssumption DEF TimesOut
  <2> QED
    BY <1>1, <1>2, <2>1, <2>2 DEF TimesOut
<1>3. CASE FindsDead(c)
  <2>1. <<>> \in Debts
    BY DEF Debts
  <2> QED
    BY <1>1, <1>3, <2>1 DEF FindsDead
<1> QED
  BY <1>2, <1>3

\* An exchange ends with the reply or without it.
LEMMA ExchangeGoes ==
    ASSUME TypeOK, NEW c \in Callers, Replied(c) \/ Refused(c) \/ Unanswered(c)
    PROVE  /\ call[c].pc = "await"
           /\ UNCHANGED <<slot, stale, known, socket>>
           /\ \/ Hears(c) /\ Goes(c, Own(c))
              \/ (TimesOut(c) \/ FindsDead(c)) /\ Goes(c, call[c].own)
<1>1. call[c].own \in BOOLEAN
  BY DEF TypeOK, Call
<1>2. Own(c) \in BOOLEAN
  BY <1>1 DEF Own
<1>3. CASE Replied(c)
  BY <1>2, <1>3, RepliedGoes DEF Replied, Hears
<1>4. CASE Refused(c)
  BY <1>2, <1>4, FailsGoes DEF Refused, Hears
<1>5. CASE Unanswered(c)
  BY <1>1, <1>5, FailsGoes DEF Unanswered, TimesOut, FindsDead
<1> QED
  BY <1>3, <1>4, <1>5

LEMMA TypeInit == Init => TypeOK
<1> SUFFICES ASSUME Init PROVE TypeOK
  OBVIOUS
<1>1. MaxMore \in 0..MaxMore /\ Patience \in 0..Patience
  BY BoundsAssumption
<1>2. NoCall \in Call
  BY <1>1 DEF NoCall, Call, PC, Op
<1>3. <<>> \in Debts
  BY DEF Debts
<1>4. MapsOK
  BY <1>1, <1>3 DEF Init, MapsOK, Socket
<1>5. LockOK
  BY DEF Init, LockOK
<1>6. call \in [Callers -> Call] /\ \A c \in Callers : CallOK(c)
  BY <1>2 DEF Init, CallOK, NoCall
<1> QED
  BY <1>4, <1>5, <1>6, TypeParts

\* Every step keeps the types; r is the record a call goes on with.
LEMMA TypeStep == TypeOK /\ [Next]_vars => TypeOK'
<1> SUFFICES ASSUME TypeOK, [Next]_vars PROVE TypeOK'
  OBVIOUS
<1> DEFINE Rest == LockOK /\ call \in [Callers -> Call] /\ \A d \in Callers : CallOK(d)
<1>1. MapsOK /\ Rest
  BY TypeParts
<1>2. SUFFICES MapsOK' /\ Rest'
  BY <1>2, TypePartsNext
<1>3. ASSUME NEW c \in Callers
      PROVE  /\ call[c] \in Call /\ call[c].id \in Ids \cup {NoId}
             /\ call[c].closing \in SUBSET Ids
             /\ call[c].answer = "ok" => call[c].id \in Ids
  BY <1>1, <1>3 DEF Call, CallOK
<1>4. ASSUME NEW c \in Callers, NEW op \in Opens, OpenCall(c, op) PROVE MapsOK' /\ Rest'
  <2> DEFINE r == [call[c] EXCEPT !.pc = "reap", !.op = op]
  <2>1. (r.answer = "ok" => r.id \in Ids) /\ r \in Call /\ r.pc = "reap"
        /\ call' = [call EXCEPT ![c] = r]
    BY <1>1, <1>3, <1>4 DEF OpenCall, Call, PC, Op
  <2> QED
    BY <1>1, <1>4, <2>1, OwnRecordType DEF OpenCall, MapsOK
<1>5. ASSUME NEW c \in Callers, Reap(c) PROVE MapsOK' /\ Rest'
  <2> DEFINE expired == {i \in slot : stale[i]}
             r == [call[c] EXCEPT !.pc = "closing", !.closing = expired]
  <2>1. expired \in SUBSET Ids
    BY <1>1 DEF MapsOK
  <2>2. (r.answer = "ok" => r.id \in Ids) /\ r \in Call /\ r.pc = "closing"
    BY <1>1, <1>3, <2>1 DEF Call, PC
  <2>3. call' = [call EXCEPT ![c] = r]
    BY <1>1, <1>5 DEF Reap
  <2> QED
    BY <1>1, <1>5, <2>2, <2>3, OwnRecordType DEF Reap, MapsOK
<1>6. ASSUME NEW c \in Callers, NEW i \in Ids, Close(c, i) PROVE MapsOK' /\ Rest'
  <2> DEFINE r == [call[c] EXCEPT !.closing = @ \ {i}]
  <2>1. (r.answer = "ok" => r.id \in Ids) /\ r \in Call /\ r.pc = "closing"
    BY <1>1, <1>3, <1>6 DEF Call, PC, Close
  <2>2. call' = [call EXCEPT ![c] = r]
    BY <1>1, <1>6 DEF Close
  <2>3. socket' \in [Ids -> Socket]
    BY <1>1, <1>6 DEF Close, Shut, MapsOK, Socket
  <2> QED
    BY <1>1, <1>6, <2>1, <2>2, <2>3, OwnRecordType DEF Close, MapsOK
<1>7. ASSUME NEW c \in Callers, Closed(c) PROVE MapsOK' /\ Rest'
  <2> DEFINE r == [call[c] EXCEPT !.pc = Onward(call[c])]
  <2>1. (r.answer = "ok" => r.id \in Ids) /\ r \in Call
        /\ r.pc \in {"answered", "check", "create"} /\ (r.pc = "create" => r.id \in Ids)
    BY <1>1, <1>3, <1>7 DEF Call, PC, Onward
  <2>2. call' = [call EXCEPT ![c] = r]
    BY <1>1, <1>7 DEF Closed
  <2> QED
    BY <1>1, <1>7, <2>1, <2>2, OwnRecordType DEF Closed, MapsOK
<1>8. ASSUME NEW c \in Callers, Answer(c, "error"), UNCHANGED lock PROVE Rest'
  <2> DEFINE r == [call[c] EXCEPT !.pc = "answered", !.answer = "error"]
  <2>1. (r.answer = "ok" => r.id \in Ids) /\ r \in Call /\ r.pc = "answered"
    BY <1>1, <1>3 DEF Call, PC
  <2>2. call' = [call EXCEPT ![c] = r]
    BY <1>1, <1>8 DEF Answer
  <2> QED
    BY <1>1, <1>8, <2>1, <2>2, OwnRecordType
<1>9. ASSUME NEW c \in Callers, Check(c) PROVE MapsOK' /\ Rest'
  <2>1. MapsOK' /\ UNCHANGED lock
    BY <1>1, <1>9 DEF Check, MapsOK
  <2>2. CASE Answer(c, "error")
    BY <1>8, <2>1, <2>2
  <2>3. CASE call' = [call EXCEPT ![c].pc = "connect"]
    <3> DEFINE r == [call[c] EXCEPT !.pc = "connect"]
    <3>1. (r.answer = "ok" => r.id \in Ids) /\ r \in Call /\ r.pc = "connect"
      BY <1>1, <1>3 DEF Call, PC
    <3>2. call' = [call EXCEPT ![c] = r]
      BY <1>1, <2>3
    <3> QED
      BY <1>1, <2>1, <3>1, <3>2, OwnRecordType
  <2> QED
    BY <1>9, <2>2, <2>3 DEF Check
<1>10. ASSUME NEW c \in Callers, NEW i \in Ids, Connect(c, i) PROVE MapsOK' /\ Rest'
  <2> DEFINE r == [call[c] EXCEPT !.pc = "reap", !.id = i]
  <2>1. (r.answer = "ok" => r.id \in Ids) /\ r \in Call /\ r.pc = "reap"
    BY <1>1, <1>3 DEF Call, PC
  <2>2. call' = [call EXCEPT ![c] = r]
    BY <1>1, <1>10 DEF Connect
  <2>3. socket' \in [Ids -> Socket]
    BY <1>1, <1>10 DEF Connect, MapsOK, Socket
  <2> QED
    BY <1>1, <1>10, <2>1, <2>2, <2>3, OwnRecordType DEF Connect, MapsOK
<1>11. ASSUME NEW c \in Callers, ConnectFails(c) PROVE MapsOK' /\ Rest'
  BY <1>1, <1>8, <1>11 DEF ConnectFails, MapsOK
<1>12. ASSUME NEW c \in Callers, Create(c) PROVE MapsOK' /\ Rest'
  <2>1. call[c].id \in Ids /\ UNCHANGED lock
    BY <1>1, <1>12 DEF Create, CallOK
  <2>2. CASE Shut(call[c].id) /\ Answer(c, "error") /\ UNCHANGED slot
    <3>1. socket' \in [Ids -> Socket]
      BY <1>1, <2>1, <2>2 DEF Shut, MapsOK, Socket
    <3> QED
      BY <1>1, <1>8, <1>12, <2>1, <2>2, <3>1 DEF Create, MapsOK
  <2>3. CASE /\ slot' = slot \cup {call[c].id} /\ UNCHANGED socket
             /\ call' = [call EXCEPT ![c].pc = "lock"]
    <3> DEFINE r == [call[c] EXCEPT !.pc = "lock"]
    <3>1. (r.answer = "ok" => r.id \in Ids) /\ r \in Call /\ r.pc = "lock" /\ r.id \in Ids
      BY <1>1, <1>3, <2>1 DEF Call, PC
    <3>2. call' = [call EXCEPT ![c] = r]
      BY <1>1, <2>3
    <3> QED
      BY <1>1, <1>12, <2>1, <2>3, <3>1, <3>2, OwnRecordType DEF Create, MapsOK
  <2> QED
    BY <1>12, <2>2, <2>3 DEF Create
<1>13. ASSUME NEW c \in Callers, NEW op \in {"step", "query", "stop"}, NEW i \in known,
              UseCall(c, op, i)
       PROVE  MapsOK' /\ Rest'
  <2> DEFINE r == [call[c] EXCEPT !.pc = "lock", !.op = op, !.id = i]
  <2>1. i \in Ids
    BY <1>1 DEF MapsOK
  <2>2. (r.answer = "ok" => r.id \in Ids) /\ r \in Call /\ r.pc = "lock" /\ r.id \in Ids
    BY <1>1, <1>3, <2>1 DEF Call, PC, Op
  <2>3. call' = [call EXCEPT ![c] = r]
    BY <1>1, <1>13 DEF UseCall
  <2> QED
    BY <1>1, <1>13, <2>2, <2>3, OwnRecordType DEF UseCall, MapsOK
<1>14. ASSUME NEW c \in Callers, NEW op \in {"step", "query", "stop"}, NEW i \in known,
              UnknownCall(c, op, i)
       PROVE  MapsOK' /\ Rest'
  <2> DEFINE r == [call[c] EXCEPT !.pc = "answered", !.op = op, !.answer = "error"]
  <2>1. (r.answer = "ok" => r.id \in Ids) /\ r \in Call /\ r.pc = "answered"
    BY <1>1, <1>3 DEF Call, PC, Op
  <2>2. call' = [call EXCEPT ![c] = r]
    BY <1>1, <1>14 DEF UnknownCall
  <2> QED
    BY <1>1, <1>14, <2>1, <2>2, OwnRecordType DEF UnknownCall, MapsOK
<1>15. ASSUME NEW c \in Callers, Lock(c) PROVE MapsOK' /\ Rest'
  <2>1. call[c].id \in Ids /\ lock[call[c].id] = Free
    BY <1>1, <1>15 DEF Lock, CallOK, Available
  <2>2. LockOK' /\ lock'[call[c].id] = c /\ \A i \in Ids \ {call[c].id} : lock'[i] = lock[i]
    BY <1>1, <1>15, <2>1 DEF Lock, LockOK
  <2>3. call' \in [Callers -> Call] /\ call'[c].id = call[c].id
        /\ \A d \in Callers \ {c} : call'[d] = call[d]
    BY <1>1, <1>3, <1>15 DEF Lock, Call, PC
  <2>4. CallOK(c)'
    BY <2>1, <2>2, <2>3 DEF CallOK
  <2>5. ASSUME NEW d \in Callers \ {c} PROVE CallOK(d)'
    BY <1>1, <2>1, <2>2, <2>3, FreeAssumption DEF CallOK
  <2> QED
    BY <1>1, <1>15, <2>2, <2>3, <2>4, <2>5 DEF Lock, MapsOK
<1>16. ASSUME NEW c \in Callers, Send(c) PROVE MapsOK' /\ Rest'
  <2> DEFINE r == [call[c] EXCEPT !.pc = "await"]
  <2>1. call[c].id \in Ids /\ lock[call[c].id] = c
    BY <1>1, <1>16 DEF Send, CallOK
  <2>2. (r.answer = "ok" => r.id \in Ids) /\ r \in Call /\ r.pc = "await" /\ r.id = call[c].id
    BY <1>1, <1>3 DEF Call, PC
  <2>3. call' = [call EXCEPT ![c] = r]
    BY <1>1, <1>16 DEF Send
  <2>4. Append(owed[call[c].id], c) \in Debts
    BY <1>1, <2>1 DEF MapsOK, Debts
  <2>5. owed' \in [Ids -> Debts]
    BY <1>1, <1>16, <2>1, <2>4 DEF Send, MapsOK
  <2> QED
    BY <1>1, <1>16, <2>1, <2>2, <2>3, <2>5, OwnRecordType DEF Send, MapsOK
<1>17. ASSUME NEW c \in Callers, Replied(c) \/ Refused(c) \/ Unanswered(c) PROVE MapsOK' /\ Rest'
  <2>1. call[c].pc = "await" /\ UNCHANGED <<slot, stale, known, socket>>
    BY <1>17, ExchangeGoes
  <2>2. Rest'
    BY <1>17, <2>1, ExchangeGoes, GoesType
  <2>3. owed' \in [Ids -> Debts] /\ late' \in SUBSET Ids /\ patience' \in 0..Patience
    BY <1>1, <1>17, ExchangeGoes, HearsType, WaitType DEF MapsOK
  <2> QED
    BY <1>1, <2>1, <2>2, <2>3 DEF MapsOK
<1>18. ASSUME NEW c \in Callers, Remove(c) PROVE MapsOK' /\ Rest'
  <2> DEFINE r == [call[c] EXCEPT !.pc = "closing", !.closing = {call[c].id} \cap slot]
  <2>1. {call[c].id} \cap slot \in SUBSET Ids
    BY <1>1 DEF MapsOK
  <2>2. (r.answer = "ok" => r.id \in Ids) /\ r \in Call /\ r.pc = "closing"
    BY <1>1, <1>3, <2>1 DEF Call, PC
  <2>3. call' = [call EXCEPT ![c] = r]
    BY <1>1, <1>18 DEF Remove
  <2> QED
    BY <1>1, <1>18, <2>2, <2>3, OwnRecordType DEF Remove, Released, MapsOK
<1>19. ASSUME NEW c \in Callers, Return(c) PROVE MapsOK' /\ Rest'
  <2>1. NoCall \in Call /\ NoCall.pc = "idle" /\ NoCall.answer = "none"
    BY BoundsAssumption DEF NoCall, Call, PC, Op
  <2>2. known' \in SUBSET Ids
    <3>1. CASE call[c].op \in Opens /\ call[c].answer = "ok"
      BY <1>1, <1>3, <1>19, <3>1 DEF Return, MapsOK
    <3>2. CASE ~(call[c].op \in Opens /\ call[c].answer = "ok")
      BY <1>1, <1>19, <3>2 DEF Return, MapsOK
    <3> QED
      BY <3>1, <3>2
  <2> QED
    BY <1>1, <1>19, <2>1, <2>2, OwnRecordType DEF Return, MapsOK
<1>20. ASSUME NEW i \in Ids, Ages(i) \/ Dies(i) PROVE MapsOK' /\ Rest'
  BY <1>1, <1>20 DEF Ages, Dies, MapsOK, LockOK, CallOK, Socket
<1>21. ASSUME UNCHANGED vars PROVE MapsOK' /\ Rest'
  BY <1>1, <1>21 DEF vars, MapsOK, LockOK, CallOK
<1> QED
  BY <1>4, <1>5, <1>6, <1>7, <1>9, <1>10, <1>11, <1>12, <1>13, <1>14, <1>15, <1>16, <1>17,
     <1>18, <1>19, <1>20, <1>21 DEF Next, Works

\* Every variable keeps its type and every call the session and the lock that
\* its next step needs (debugger.rs and dbgp.rs).
THEOREM DebugTypeCorrect == Safe => []TypeOK
  BY TypeInit, TypeStep, PTL DEF Safe
-----------------------------------------------------------------------------
(***************************************************************************)
(* One session.                                                            *)
(***************************************************************************)

\* Only a registration makes the slot larger, and it finds it empty.
LEMMA SlotGrows ==
    ASSUME TypeOK, [Next]_vars
    PROVE  slot' \subseteq slot \/ \E i \in Ids : slot' = {i}
<1>1. CASE \E c \in Callers : Create(c)
  <2>1. PICK c \in Callers : Create(c)
    BY <1>1
  <2>2. call[c].id \in Ids
    BY <2>1 DEF Create, TypeOK
  <2>3. slot' = slot \/ (slot = {} /\ slot' = slot \cup {call[c].id})
    BY <2>1 DEF Create, Taken
  <2>4. slot = {} /\ slot' = slot \cup {call[c].id} => slot' = {call[c].id}
    OBVIOUS
  <2> QED
    BY <2>2, <2>3, <2>4
<1>2. CASE \E c \in Callers : Reap(c) \/ Remove(c)
  BY <1>2 DEF Reap, Remove
<1>3. CASE \E c \in Callers : Replied(c) \/ Refused(c) \/ Unanswered(c)
  BY <1>3 DEF Replied, Refused, Unanswered
<1>4. CASE \E c \in Callers : \/ \E i \in Ids : Close(c, i)
                              \/ Closed(c) \/ Check(c) \/ ConnectFails(c) \/ Send(c) \/ Return(c)
  BY <1>4 DEF Close, Closed, Check, ConnectFails, Send, Return
<1>5. CASE \/ \E c \in Callers : Lock(c)
           \/ \E c \in Callers, i \in Ids : Connect(c, i)
           \/ \E c \in Callers, op \in Opens : OpenCall(c, op)
           \/ \E c \in Callers, op \in {"step", "query", "stop"}, i \in known :
                 UseCall(c, op, i) \/ UnknownCall(c, op, i)
           \/ \E i \in Ids : Ages(i) \/ Dies(i)
           \/ UNCHANGED vars
  BY <1>5 DEF Lock, Connect, OpenCall, UseCall, UnknownCall, Ages, Dies, vars
<1> QED
  BY <1>1, <1>2, <1>3, <1>4, <1>5 DEF Next, Works

LEMMA OneSessionStep == TypeOK /\ OneSession /\ [Next]_vars => OneSession'
  BY SlotGrows DEF OneSession

\* However many starts run at once, at most one session is registered
\* (debugger.rs:181-205).
THEOREM OneSessionOnly == Safe => []OneSession
<1>1. Init => OneSession
  BY DEF Init, OneSession
<1> QED
  BY <1>1, OneSessionStep, DebugTypeCorrect, PTL DEF Safe
-----------------------------------------------------------------------------
(***************************************************************************)
(* Who uses a connection.                                                  *)
(***************************************************************************)

\* A step of c: where the call is afterwards, and nothing else of it changes.
Moves(c, pc, op, id, closing, answer) ==
    /\ call'[c].pc = pc /\ call'[c].op = op /\ call'[c].id = id
    /\ call'[c].closing = closing /\ call'[c].answer = answer
    /\ call'[c].ended = call[c].ended /\ call'[c].own = call[c].own
    /\ \A d \in Callers \ {c} : call'[d] = call[d]

\* A step of c that only brings it to another place of the code.
Passes(c, pc) == Moves(c, pc, call[c].op, call[c].id, call[c].closing, call[c].answer)

LEMMA OpenFacts ==
    ASSUME TypeOK, NEW c \in Callers, NEW op \in Opens, OpenCall(c, op)
    PROVE  /\ call[c].pc = "idle"
           /\ Moves(c, "reap", op, call[c].id, call[c].closing, call[c].answer)
           /\ UNCHANGED <<slot, known, socket>>
<1>1. call[c] \in Call /\ call \in [Callers -> Call]
  BY DEF TypeOK
<1> QED
  BY <1>1 DEF OpenCall, Moves, Passes, Call

LEMMA ReapFacts ==
    ASSUME TypeOK, NEW c \in Callers, Reap(c)
    PROVE  /\ call[c].pc = "reap"
           /\ Moves(c, "closing", call[c].op, call[c].id, {i \in slot : stale[i]}, call[c].answer)
           /\ slot' = slot \ {i \in slot : stale[i]}
           /\ UNCHANGED <<known, socket>>
<1>1. call[c] \in Call /\ call \in [Callers -> Call]
  BY DEF TypeOK
<1> QED
  BY <1>1 DEF Reap, Moves, Passes, Call

LEMMA CloseFacts ==
    ASSUME TypeOK, NEW c \in Callers, NEW i \in Ids, Close(c, i)
    PROVE  /\ call[c].pc = "closing" /\ i \in call[c].closing
           /\ Moves(c, "closing", call[c].op, call[c].id, call[c].closing \ {i}, call[c].answer)
           /\ Shut(i) /\ UNCHANGED <<slot, known>>
<1>1. call[c] \in Call /\ call \in [Callers -> Call]
  BY DEF TypeOK
<1> QED
  BY <1>1 DEF Close, Moves, Passes, Call

LEMMA ClosedFacts ==
    ASSUME TypeOK, NEW c \in Callers, Closed(c)
    PROVE  /\ call[c].pc = "closing" /\ call[c].closing = {}
           /\ Passes(c, Onward(call[c]))
           /\ UNCHANGED <<slot, known, socket>>
<1>1. call[c] \in Call /\ call \in [Callers -> Call]
  BY DEF TypeOK
<1> QED
  BY <1>1 DEF Closed, Moves, Passes, Call

LEMMA ConnectFacts ==
    ASSUME TypeOK, NEW c \in Callers, NEW i \in Ids, Connect(c, i)
    PROVE  /\ call[c].pc = "connect" /\ socket[i] = "none"
           /\ Moves(c, "reap", call[c].op, i, call[c].closing, call[c].answer)
           /\ UNCHANGED <<slot, known>>
           /\ socket'[i] = "open"
           /\ \A k \in Ids : socket[k] # "none" => socket'[k] # "none"
           /\ \A k \in Ids \ {i} : socket'[k] = "open" => socket[k] = "open"
<1>1. call[c] \in Call /\ call \in [Callers -> Call]
  BY DEF TypeOK
<1> QED
  BY <1>1 DEF Connect, Moves, Passes, Call

\* A refusal.
LEMMA AnswerMoves ==
    ASSUME TypeOK, NEW c \in Callers, Answer(c, "error")
    PROVE  Moves(c, "answered", call[c].op, call[c].id, call[c].closing, "error")
<1>1. call[c] \in Call /\ call \in [Callers -> Call]
  BY DEF TypeOK
<1> QED
  BY <1>1 DEF Answer, Moves, Call

LEMMA CheckFacts ==
    ASSUME TypeOK, NEW c \in Callers, Check(c) \/ ConnectFails(c)
    PROVE  /\ call[c].pc \in {"check", "connect"}
           /\ \/ Passes(c, "connect")
              \/ Moves(c, "answered", call[c].op, call[c].id, call[c].closing, "error")
           /\ UNCHANGED <<slot, known, socket>>
<1>1. call[c] \in Call /\ call \in [Callers -> Call]
  BY DEF TypeOK
<1>2. call' = [call EXCEPT ![c].pc = "connect"] => Passes(c, "connect")
  BY <1>1 DEF Passes, Moves, Call
<1> QED
  BY <1>2, AnswerMoves DEF Check, ConnectFails

LEMMA CreateFacts ==
    ASSUME TypeOK, NEW c \in Callers, Create(c)
    PROVE  /\ call[c].pc = "create" /\ call[c].id \in Ids /\ UNCHANGED known
           /\ \/ /\ Moves(c, "answered", call[c].op, call[c].id, call[c].closing, "error")
                 /\ Shut(call[c].id) /\ UNCHANGED slot
              \/ /\ Passes(c, "lock")
                 /\ slot' = slot \cup {call[c].id} /\ UNCHANGED socket
<1>1. call[c] \in Call /\ call \in [Callers -> Call]
  BY DEF TypeOK
<1>2. call' = [call EXCEPT ![c].pc = "lock"] => Passes(c, "lock")
  BY <1>1 DEF Passes, Moves, Call
<1>3. call[c].pc = "create" /\ call[c].id \in Ids /\ UNCHANGED known
  BY DEF Create, TypeOK
<1>4. \/ Answer(c, "error") /\ Shut(call[c].id) /\ UNCHANGED slot
      \/ /\ call' = [call EXCEPT ![c].pc = "lock"]
         /\ slot' = slot \cup {call[c].id} /\ UNCHANGED socket
  BY DEF Create
<1> QED
  BY <1>2, <1>3, <1>4, AnswerMoves

LEMMA UseFacts ==
    ASSUME TypeOK, NEW c \in Callers, NEW op, NEW i \in Ids, UseCall(c, op, i)
    PROVE  /\ call[c].pc = "idle" /\ i \in slot
           /\ Moves(c, "lock", op, i, call[c].closing, call[c].answer)
           /\ UNCHANGED <<slot, known, socket>>
<1>1. call[c] \in Call /\ call \in [Callers -> Call]
  BY DEF TypeOK
<1> QED
  BY <1>1 DEF UseCall, Moves, Passes, Call

LEMMA UnknownFacts ==
    ASSUME TypeOK, NEW c \in Callers, NEW op, NEW i \in Ids, UnknownCall(c, op, i)
    PROVE  /\ call[c].pc = "idle"
           /\ Moves(c, "answered", op, call[c].id, call[c].closing, "error")
           /\ UNCHANGED <<slot, known, socket>>
<1>1. call[c] \in Call /\ call \in [Callers -> Call]
  BY DEF TypeOK
<1> QED
  BY <1>1 DEF UnknownCall, Moves, Passes, Call

LEMMA LockFacts ==
    ASSUME TypeOK, NEW c \in Callers, Lock(c) \/ Send(c)
    PROVE  /\ call[c].pc \in {"lock", "send"}
           /\ Passes(c, "send") \/ Passes(c, "await")
           /\ UNCHANGED <<slot, known, socket>>
<1>1. call[c] \in Call /\ call \in [Callers -> Call]
  BY DEF TypeOK
<1> QED
  BY <1>1 DEF Lock, Send, Passes, Moves, Call

LEMMA RemoveFacts ==
    ASSUME TypeOK, NEW c \in Callers, Remove(c)
    PROVE  /\ call[c].pc = "remove"
           /\ Moves(c, "closing", call[c].op, call[c].id, {call[c].id} \cap slot, call[c].answer)
           /\ slot' = slot \ {call[c].id}
           /\ UNCHANGED <<known, socket>>
<1>1. call[c] \in Call /\ call \in [Callers -> Call]
  BY DEF TypeOK
<1> QED
  BY <1>1 DEF Remove, Moves, Passes, Call

LEMMA ReturnFacts ==
    ASSUME TypeOK, NEW c \in Callers, Return(c)
    PROVE  /\ call[c].pc = "answered"
           /\ call'[c] = NoCall /\ \A d \in Callers \ {c} : call'[d] = call[d]
           /\ known' = known \/ known' = known \cup {call[c].id}
           /\ UNCHANGED <<slot, socket>>
<1>1. call[c] \in Call /\ call \in [Callers -> Call]
  BY DEF TypeOK
<1> QED
  BY <1>1 DEF Return

\* The end of an exchange.
LEMMA GoesMoves ==
    ASSUME TypeOK, NEW c \in Callers, NEW own, Goes(c, own)
    PROVE  \A d \in Callers \ {c} : call'[d] = call[d]
<1>1. call \in [Callers -> Call]
  BY DEF TypeOK
<1> QED
  BY <1>1 DEF Goes
-----------------------------------------------------------------------------
(***************************************************************************)
(* The invariants of the slot.                                             *)
(***************************************************************************)

\* An exchange neither touches the session map nor the connections.
LEMMA ExchangeShape ==
    ASSUME TypeOK, NEW c \in Callers, Replied(c) \/ Refused(c) \/ Unanswered(c)
    PROVE  /\ call[c].pc = "await"
           /\ UNCHANGED <<slot, stale, known, socket>>
           /\ call'[c].id = call[c].id /\ call'[c].closing = call[c].closing
           /\ call'[c].op = call[c].op
           /\ \A d \in Callers \ {c} : call'[d] = call[d]
           /\ \/ /\ call'[c].pc \in {"send", "lock"}
                 /\ call'[c].answer = call[c].answer /\ call'[c].ended = call[c].ended
              \/ /\ call'[c].pc = "answered" /\ call'[c].answer # "none" /\ ~call'[c].ended
                 /\ call'[c].op \in Opens => call'[c].answer = "ok"
              \/ call'[c].pc = "remove" /\ call'[c].answer # "none"
  BY ExchangeGoes, GoesMoves DEF Goes

\* A caller can only ask for connections that exist.
LEMMA KnownIds == TypeOK => known \subseteq Ids
  BY DEF TypeOK

LEMMA NoCallFields ==
    /\ NoCall.pc = "idle" /\ NoCall.id = NoId /\ NoCall.closing = {}
    /\ NoCall.answer = "none" /\ ~NoCall.ended /\ NoCall.own
  BY DEF NoCall

LEMMA ShapeStep == TypeOK /\ Shape /\ [Next]_vars => Shape'
<1> SUFFICES ASSUME TypeOK, Shape, [Next]_vars PROVE Shape'
  OBVIOUS
<1> USE DEF Shape, Moves, Passes
<1>1. ASSUME NEW c \in Callers, NEW op \in Opens, OpenCall(c, op) PROVE Shape'
  BY NoCallFields, <1>1, OpenFacts
<1>2. ASSUME NEW c \in Callers, Reap(c) PROVE Shape'
  BY NoCallFields, <1>2, ReapFacts
<1>3. ASSUME NEW c \in Callers, NEW k \in Ids, Close(c, k) PROVE Shape'
  BY NoCallFields, <1>3, CloseFacts
<1>4. ASSUME NEW c \in Callers, Closed(c) PROVE Shape'
  BY NoCallFields, <1>4, ClosedFacts DEF Onward
<1>5. ASSUME NEW c \in Callers, Check(c) \/ ConnectFails(c) PROVE Shape'
  BY NoCallFields, <1>5, CheckFacts
<1>6. ASSUME NEW c \in Callers, NEW k \in Ids, Connect(c, k) PROVE Shape'
  BY NoCallFields, <1>6, ConnectFacts
<1>7. ASSUME NEW c \in Callers, Create(c) PROVE Shape'
  BY NoCallFields, <1>7, CreateFacts
<1>8. ASSUME NEW c \in Callers, NEW op, NEW k \in Ids, UseCall(c, op, k) PROVE Shape'
  BY NoCallFields, <1>8, UseFacts
<1>9. ASSUME NEW c \in Callers, NEW op, NEW k \in Ids, UnknownCall(c, op, k) PROVE Shape'
  BY NoCallFields, <1>9, UnknownFacts
<1>10. ASSUME NEW c \in Callers, Lock(c) \/ Send(c) PROVE Shape'
  BY NoCallFields, <1>10, LockFacts
<1>11. ASSUME NEW c \in Callers, Replied(c) \/ Refused(c) \/ Unanswered(c) PROVE Shape'
  BY NoCallFields, <1>11, ExchangeShape
<1>12. ASSUME NEW c \in Callers, Remove(c) PROVE Shape'
  BY NoCallFields, <1>12, RemoveFacts
<1>13. ASSUME NEW c \in Callers, Return(c) PROVE Shape'
  BY NoCallFields, <1>13, ReturnFacts
<1>14. ASSUME NEW k \in Ids, Ages(k) \/ Dies(k) PROVE Shape'
  BY <1>14 DEF Ages, Dies
<1>15. ASSUME UNCHANGED vars PROVE Shape'
  BY <1>15 DEF vars
<1> QED
  BY <1>1, <1>2, <1>3, <1>4, <1>5, <1>6, <1>7, <1>8, <1>9, <1>10, <1>11, <1>12, <1>13, <1>14,
     <1>15, KnownIds DEF Next, Works

\* What is in use of a connection can only become more by connecting it.
InUse(i) == i \in slot \/ i \in known \/ \E c \in Callers : call[c].id = i

LEMMA UseStep ==
    ASSUME TypeOK, Shape, [Next]_vars, NEW i \in Ids
    PROVE  /\ InUse(i)' => InUse(i) \/ \E c \in Callers : Connect(c, i)
           /\ socket[i] # "none" => socket'[i] # "none"
<1> USE DEF InUse, Moves, Passes
<1> DEFINE Kept == /\ InUse(i)' => InUse(i) \/ \E c \in Callers : Connect(c, i)
                   /\ socket[i] # "none" => socket'[i] # "none"
<1>0. socket \in [Ids -> Socket] /\ NoId # i
  BY NoIdAssumption DEF TypeOK
<1>1. ASSUME NEW c \in Callers, NEW op \in Opens, OpenCall(c, op) PROVE Kept
  BY <1>0, <1>1, OpenFacts
<1>2. ASSUME NEW c \in Callers, Reap(c) PROVE Kept
  BY <1>0, <1>2, ReapFacts
<1>3. ASSUME NEW c \in Callers, NEW k \in Ids, Close(c, k) PROVE Kept
  BY <1>0, <1>3, CloseFacts DEF Shut
<1>4. ASSUME NEW c \in Callers, Closed(c) PROVE Kept
  BY <1>0, <1>4, ClosedFacts
<1>5. ASSUME NEW c \in Callers, Check(c) \/ ConnectFails(c) PROVE Kept
  BY <1>0, <1>5, CheckFacts
<1>6. ASSUME NEW c \in Callers, NEW k \in Ids, Connect(c, k)
      PROVE  Kept
  <2>1. CASE k = i
    BY <1>0, <1>6, <2>1, ConnectFacts
  <2>2. CASE k # i
    <3>1. socket[i] # "none" => socket'[i] # "none"
      BY <1>6, <2>2, ConnectFacts
    <3>2. InUse(i)' => InUse(i)
      BY <1>6, <2>2, ConnectFacts
    <3> QED
      BY <3>1, <3>2
  <2> QED
    BY <2>1, <2>2
<1>7. ASSUME NEW c \in Callers, Create(c) PROVE Kept
  BY <1>0, <1>7, CreateFacts DEF Shut
<1>8. ASSUME NEW c \in Callers, NEW op, NEW k \in Ids, UseCall(c, op, k) PROVE Kept
  BY <1>0, <1>8, UseFacts
<1>9. ASSUME NEW c \in Callers, NEW op, NEW k \in Ids, UnknownCall(c, op, k) PROVE Kept
  BY <1>0, <1>9, UnknownFacts
<1>10. ASSUME NEW c \in Callers, Lock(c) \/ Send(c) PROVE Kept
  BY <1>0, <1>10, LockFacts
<1>11. ASSUME NEW c \in Callers, Replied(c) \/ Refused(c) \/ Unanswered(c) PROVE Kept
  BY <1>0, <1>11, ExchangeShape
<1>12. ASSUME NEW c \in Callers, Remove(c) PROVE Kept
  BY <1>0, <1>12, RemoveFacts
<1>13. ASSUME NEW c \in Callers, Return(c)
      PROVE  Kept
  BY <1>0, <1>13, ReturnFacts, NoCallFields
<1>14. ASSUME NEW k \in Ids, Ages(k) \/ Dies(k) PROVE Kept
  BY <1>0, <1>14 DEF Ages, Dies
<1>15. ASSUME UNCHANGED vars PROVE Kept
  BY <1>15 DEF vars
<1> QED
  BY <1>1, <1>2, <1>3, <1>4, <1>5, <1>6, <1>7, <1>8, <1>9, <1>10, <1>11, <1>12, <1>13, <1>14,
     <1>15, KnownIds DEF Next, Works

LEMMA ConnectedStep == TypeOK /\ Shape /\ Connected /\ [Next]_vars => Connected'
<1> SUFFICES ASSUME TypeOK, Shape, Connected, [Next]_vars, NEW i \in Ids, InUse(i)'
             PROVE  socket'[i] # "none"
  BY DEF Connected, InUse
<1>1. CASE InUse(i)
  BY <1>1, UseStep DEF Connected, InUse
<1>2. CASE \E c \in Callers : Connect(c, i)
  BY <1>2, ConnectFacts
<1> QED
  BY <1>1, <1>2, UseStep

LEMMA AloneStep == TypeOK /\ Shape /\ Connected /\ Alone /\ [Next]_vars => Alone'
<1> SUFFICES ASSUME TypeOK, Shape, Connected, Alone, [Next]_vars,
                    NEW e \in Callers, NEW i \in Ids, Registering(e, i)'
             PROVE  /\ (i \notin slot \cup known)'
                    /\ \A d \in Callers : call'[d].id = i => d = e
  BY DEF Alone
<1> USE DEF Alone, Registering, Moves, Passes
<1> DEFINE Goal == /\ (i \notin slot \cup known)'
                   /\ \A d \in Callers : call'[d].id = i => d = e
<1>0. NoId # i /\ slot \subseteq Ids /\ known \subseteq Ids
  BY NoIdAssumption DEF TypeOK
<1>1. ASSUME NEW c \in Callers, NEW op \in Opens, OpenCall(c, op) PROVE Goal
  BY <1>0, NoCallFields, <1>1, OpenFacts DEF Shape
<1>2. ASSUME NEW c \in Callers, Reap(c) PROVE Goal
  BY <1>0, NoCallFields, <1>2, ReapFacts
<1>3. ASSUME NEW c \in Callers, NEW k \in Ids, Close(c, k) PROVE Goal
  BY <1>0, NoCallFields, <1>3, CloseFacts
<1>4. ASSUME NEW c \in Callers, Closed(c) PROVE Goal
  BY <1>0, NoCallFields, <1>4, ClosedFacts DEF Onward
<1>5. ASSUME NEW c \in Callers, Check(c) \/ ConnectFails(c) PROVE Goal
  BY <1>0, NoCallFields, <1>5, CheckFacts
<1>6. ASSUME NEW c \in Callers, NEW k \in Ids, Connect(c, k)
      PROVE  Goal
  <2>1. CASE k = i
    <3>1. ~InUse(i)
      BY <1>6, <2>1, ConnectFacts DEF Connected, InUse
    <3> QED
      BY <1>6, <2>1, <3>1, ConnectFacts DEF InUse
  <2>2. CASE k # i
    BY <1>6, <2>2, ConnectFacts
  <2> QED
    BY <2>1, <2>2
<1>7. ASSUME NEW c \in Callers, Create(c) PROVE Goal
  BY <1>0, NoCallFields, <1>7, CreateFacts
<1>8. ASSUME NEW c \in Callers, NEW op, NEW k \in Ids, UseCall(c, op, k) PROVE Goal
  BY <1>0, NoCallFields, <1>8, UseFacts DEF Shape
<1>9. ASSUME NEW c \in Callers, NEW op, NEW k \in Ids, UnknownCall(c, op, k) PROVE Goal
  BY <1>0, NoCallFields, <1>9, UnknownFacts
<1>10. ASSUME NEW c \in Callers, Lock(c) \/ Send(c) PROVE Goal
  BY <1>0, NoCallFields, <1>10, LockFacts
<1>11. ASSUME NEW c \in Callers, Replied(c) \/ Refused(c) \/ Unanswered(c) PROVE Goal
  BY <1>0, NoCallFields, <1>11, ExchangeShape
<1>12. ASSUME NEW c \in Callers, Remove(c) PROVE Goal
  BY <1>0, NoCallFields, <1>12, RemoveFacts DEF Shape
<1>13. ASSUME NEW c \in Callers, Return(c)
      PROVE  Goal
  BY <1>0, <1>13, ReturnFacts, NoCallFields
<1>14. ASSUME NEW k \in Ids, Ages(k) \/ Dies(k) PROVE Goal
  BY <1>14 DEF Ages, Dies
<1>15. ASSUME UNCHANGED vars PROVE Goal
  BY <1>15 DEF vars
<1> QED
  BY <1>1, <1>2, <1>3, <1>4, <1>5, <1>6, <1>7, <1>8, <1>9, <1>10, <1>11, <1>12, <1>13, <1>14,
     <1>15, KnownIds DEF Next, Works

LEMMA StaysDownStep == TypeOK /\ Shape /\ Alone /\ StaysDown /\ [Next]_vars => StaysDown'
<1> SUFFICES ASSUME TypeOK, Shape, Alone, StaysDown, [Next]_vars,
                    NEW e \in Callers, TookDown(e)'
             PROVE  call'[e].id \notin slot'
  BY DEF StaysDown
<1> USE DEF StaysDown, TookDown, Moves, Passes
<1> DEFINE Goal == call'[e].id \notin slot'
<1>0. NoId \notin slot
  BY NoIdAssumption DEF TypeOK
<1>1. ASSUME NEW c \in Callers, NEW op \in Opens, OpenCall(c, op) PROVE Goal
  BY <1>0, NoCallFields, <1>1, OpenFacts DEF Shape
<1>2. ASSUME NEW c \in Callers, Reap(c) PROVE Goal
  BY <1>0, NoCallFields, <1>2, ReapFacts DEF Shape
<1>3. ASSUME NEW c \in Callers, NEW k \in Ids, Close(c, k) PROVE Goal
  BY <1>0, NoCallFields, <1>3, CloseFacts
<1>4. ASSUME NEW c \in Callers, Closed(c) PROVE Goal
  BY <1>0, NoCallFields, <1>4, ClosedFacts DEF Onward
<1>5. ASSUME NEW c \in Callers, Check(c) \/ ConnectFails(c) PROVE Goal
  BY <1>0, NoCallFields, <1>5, CheckFacts DEF Shape
<1>6. ASSUME NEW c \in Callers, NEW k \in Ids, Connect(c, k) PROVE Goal
  BY <1>0, NoCallFields, <1>6, ConnectFacts
<1>7. ASSUME NEW c \in Callers, Create(c)
      PROVE  Goal
  <2>1. Registering(c, call[c].id)
    BY <1>7, CreateFacts DEF Shape, Registering
  <2>2. call[c].id \notin slot /\ \A d \in Callers : call[d].id = call[c].id => d = c
    BY <1>7, <2>1, CreateFacts DEF Alone
  <2> QED
    BY <1>7, <2>2, CreateFacts
<1>8. ASSUME NEW c \in Callers, NEW op, NEW k \in Ids, UseCall(c, op, k) PROVE Goal
  BY <1>0, NoCallFields, <1>8, UseFacts DEF Shape
<1>9. ASSUME NEW c \in Callers, NEW op, NEW k \in Ids, UnknownCall(c, op, k)
      PROVE  Goal
  BY <1>0, <1>9, UnknownFacts, NoCallFields DEF Shape
<1>10. ASSUME NEW c \in Callers, Lock(c) \/ Send(c) PROVE Goal
  BY <1>0, NoCallFields, <1>10, LockFacts
<1>11. ASSUME NEW c \in Callers, Replied(c) \/ Refused(c) \/ Unanswered(c) PROVE Goal
  BY <1>0, NoCallFields, <1>11, ExchangeShape
<1>12. ASSUME NEW c \in Callers, Remove(c) PROVE Goal
  BY <1>0, NoCallFields, <1>12, RemoveFacts
<1>13. ASSUME NEW c \in Callers, Return(c)
      PROVE  Goal
  BY <1>0, <1>13, ReturnFacts, NoCallFields
<1>14. ASSUME NEW k \in Ids, Ages(k) \/ Dies(k) PROVE Goal
  BY <1>14 DEF Ages, Dies
<1>15. ASSUME UNCHANGED vars PROVE Goal
  BY <1>15 DEF vars
<1> QED
  BY <1>1, <1>2, <1>3, <1>4, <1>5, <1>6, <1>7, <1>8, <1>9, <1>10, <1>11, <1>12, <1>13, <1>14,
     <1>15, KnownIds DEF Next, Works

\* The invariants of the slot together.
LEMMA SlotInit == Init => SlotInv
<1> SUFFICES ASSUME Init PROVE SlotInv
  OBVIOUS
<1>1. \A c \in Callers : call[c] = NoCall
  BY DEF Init
<1>2. slot = {} /\ known = {}
  BY DEF Init
<1> QED
  BY <1>1, <1>2, NoCallFields, NoIdAssumption
     DEF SlotInv, Shape, Connected, Alone, Registering, StaysDown, TookDown, OneSession

LEMMA SlotStep == TypeOK /\ SlotInv /\ [Next]_vars => SlotInv'
  BY ShapeStep, ConnectedStep, AloneStep, StaysDownStep, OneSessionStep DEF SlotInv
-----------------------------------------------------------------------------
(***************************************************************************)
(* No connection is forgotten.                                             *)
(***************************************************************************)

LEMMA NoOrphansStep == TypeOK /\ Shape /\ NoOrphans /\ [Next]_vars => NoOrphans'
<1> SUFFICES ASSUME TypeOK, Shape, NoOrphans, [Next]_vars,
                    NEW i \in Ids, socket'[i] = "open"
             PROVE  (i \in slot \/ \E c \in Callers : InHand(c, i))'
  BY DEF NoOrphans
<1> USE DEF NoOrphans, InHand, Moves, Passes
<1> DEFINE Goal == (i \in slot \/ \E c \in Callers : InHand(c, i))'
<1>0. socket \in [Ids -> Socket] /\ NoId # i
  BY NoIdAssumption DEF TypeOK
<1>1. ASSUME NEW c \in Callers, NEW op \in Opens, OpenCall(c, op) PROVE Goal
  BY <1>0, NoCallFields, <1>1, OpenFacts DEF Shape
<1>2. ASSUME NEW c \in Callers, Reap(c) PROVE Goal
  BY <1>0, NoCallFields, <1>2, ReapFacts DEF Shape
<1>3. ASSUME NEW c \in Callers, NEW k \in Ids, Close(c, k) PROVE Goal
  BY <1>0, NoCallFields, <1>3, CloseFacts DEF Shut
<1>4. ASSUME NEW c \in Callers, Closed(c) PROVE Goal
  BY <1>0, NoCallFields, <1>4, ClosedFacts DEF Onward
<1>5. ASSUME NEW c \in Callers, Check(c) \/ ConnectFails(c) PROVE Goal
  BY <1>0, NoCallFields, <1>5, CheckFacts DEF Shape
<1>6. ASSUME NEW c \in Callers, NEW k \in Ids, Connect(c, k) PROVE Goal
  BY <1>0, NoCallFields, <1>6, ConnectFacts DEF Shape
<1>7. ASSUME NEW c \in Callers, Create(c) PROVE Goal
  BY <1>0, NoCallFields, <1>7, CreateFacts DEF Shape, Shut
<1>8. ASSUME NEW c \in Callers, NEW op, NEW k \in Ids, UseCall(c, op, k) PROVE Goal
  BY <1>0, NoCallFields, <1>8, UseFacts DEF Shape
<1>9. ASSUME NEW c \in Callers, NEW op, NEW k \in Ids, UnknownCall(c, op, k) PROVE Goal
  BY <1>0, NoCallFields, <1>9, UnknownFacts DEF Shape
<1>10. ASSUME NEW c \in Callers, Lock(c) \/ Send(c) PROVE Goal
  BY <1>0, NoCallFields, <1>10, LockFacts DEF Shape
<1>11. ASSUME NEW c \in Callers, Replied(c) \/ Refused(c) \/ Unanswered(c) PROVE Goal
  BY <1>0, NoCallFields, <1>11, ExchangeShape DEF Shape
<1>12. ASSUME NEW c \in Callers, Remove(c) PROVE Goal
  BY <1>0, NoCallFields, <1>12, RemoveFacts DEF Shape
<1>13. ASSUME NEW c \in Callers, Return(c)
      PROVE  Goal
  BY <1>0, <1>13, ReturnFacts, NoCallFields DEF Shape
<1>14. ASSUME NEW k \in Ids, Ages(k) \/ Dies(k) PROVE Goal
  BY <1>0, <1>14 DEF Ages, Dies
<1>15. ASSUME UNCHANGED vars PROVE Goal
  BY <1>15 DEF vars
<1> QED
  BY <1>1, <1>2, <1>3, <1>4, <1>5, <1>6, <1>7, <1>8, <1>9, <1>10, <1>11, <1>12, <1>13, <1>14,
     <1>15, KnownIds DEF Next, Works

-----------------------------------------------------------------------------
(***************************************************************************)
(* Replies and the calls they are given to.                                *)
(***************************************************************************)

\* Only a command and the exchange that ends touch what the agent owes.
LEMMA DebtsStep ==
    ASSUME TypeOK, [Next]_vars,
           \A c \in Callers : ~(Send(c) \/ Replied(c) \/ Refused(c) \/ Unanswered(c))
    PROVE  UNCHANGED <<owed, late>>
<1>1. CASE \E c \in Callers : \/ \E i \in Ids : Close(c, i)
                              \/ Reap(c) \/ Closed(c) \/ Check(c) \/ ConnectFails(c)
                              \/ Create(c) \/ Remove(c) \/ Return(c)
  BY <1>1 DEF Reap, Close, Closed, Check, ConnectFails, Create, Remove, Return
<1>2. CASE \/ \E c \in Callers : Lock(c)
           \/ \E c \in Callers, i \in Ids : Connect(c, i)
           \/ \E c \in Callers, op \in Opens : OpenCall(c, op)
           \/ \E c \in Callers, op \in {"step", "query", "stop"}, i \in known :
                 UseCall(c, op, i) \/ UnknownCall(c, op, i)
           \/ \E i \in Ids : Ages(i) \/ Dies(i)
           \/ UNCHANGED vars
  BY <1>2 DEF Lock, Connect, OpenCall, UseCall, UnknownCall, Ages, Dies, vars
<1> QED
  BY <1>1, <1>2 DEF Next, Works

\* A step outside an exchange leaves the calls that await a reply alone, and
\* whoever takes a connection up has accepted no wrong reply yet.
LEMMA CallsStep ==
    ASSUME TypeOK, Shape, RepliesMatch, [Next]_vars,
           \A c \in Callers : ~(Replied(c) \/ Refused(c) \/ Unanswered(c))
    PROVE  \A d \in Callers :
              /\ call[d].pc = "await" => call'[d] = call[d]
              /\ call'[d].own \/ call'[d].id \in late
<1> USE DEF RepliesMatch, Moves, Passes
<1> DEFINE Goal == \A d \in Callers :
                      /\ call[d].pc = "await" => call'[d] = call[d]
                      /\ call'[d].own \/ call'[d].id \in late
<1>0. NoId \notin late
  BY NoIdAssumption DEF TypeOK
<1>1. ASSUME NEW c \in Callers, NEW op \in Opens, OpenCall(c, op) PROVE Goal
  BY <1>0, NoCallFields, <1>1, OpenFacts DEF Shape
<1>2. ASSUME NEW c \in Callers, Reap(c) PROVE Goal
  BY <1>0, NoCallFields, <1>2, ReapFacts
<1>3. ASSUME NEW c \in Callers, NEW k \in Ids, Close(c, k) PROVE Goal
  BY <1>0, NoCallFields, <1>3, CloseFacts
<1>4. ASSUME NEW c \in Callers, Closed(c) PROVE Goal
  BY <1>0, NoCallFields, <1>4, ClosedFacts
<1>5. ASSUME NEW c \in Callers, Check(c) \/ ConnectFails(c) PROVE Goal
  BY <1>0, NoCallFields, <1>5, CheckFacts
<1>6. ASSUME NEW c \in Callers, NEW k \in Ids, Connect(c, k) PROVE Goal
  BY <1>0, NoCallFields, <1>6, ConnectFacts DEF Shape
<1>7. ASSUME NEW c \in Callers, Create(c) PROVE Goal
  BY <1>0, NoCallFields, <1>7, CreateFacts
<1>8. ASSUME NEW c \in Callers, NEW op, NEW k \in Ids, UseCall(c, op, k) PROVE Goal
  BY <1>0, NoCallFields, <1>8, UseFacts DEF Shape
<1>9. ASSUME NEW c \in Callers, NEW op, NEW k \in Ids, UnknownCall(c, op, k) PROVE Goal
  BY <1>0, NoCallFields, <1>9, UnknownFacts DEF Shape
<1>10. ASSUME NEW c \in Callers, Lock(c) \/ Send(c) PROVE Goal
  BY <1>0, NoCallFields, <1>10, LockFacts
<1>11. ASSUME NEW c \in Callers, Replied(c) \/ Refused(c) \/ Unanswered(c)
      PROVE  Goal
  BY <1>11
<1>12. ASSUME NEW c \in Callers, Remove(c) PROVE Goal
  BY <1>0, NoCallFields, <1>12, RemoveFacts
<1>13. ASSUME NEW c \in Callers, Return(c) PROVE Goal
  BY <1>0, NoCallFields, <1>13, ReturnFacts
<1>14. ASSUME NEW k \in Ids, Ages(k) \/ Dies(k) PROVE Goal
  BY <1>14 DEF Ages, Dies
<1>15. ASSUME UNCHANGED vars PROVE Goal
  BY <1>15 DEF vars
<1> QED
  BY <1>1, <1>2, <1>3, <1>4, <1>5, <1>6, <1>7, <1>8, <1>9, <1>10, <1>11, <1>12, <1>13, <1>14,
     <1>15, KnownIds DEF Next, Works

\* Nobody awaits a reply on a connection that c holds but does not read.
LEMMA HoldersAlone ==
    ASSUME TypeOK, NEW c \in Callers, call[c].pc \in {"send", "await"},
           NEW d \in Callers, Awaited(d, call[c].id)
    PROVE  d = c
  BY DEF TypeOK, Awaited

\* The queue of a connection other than i.
LEMMA OtherQueues ==
    ASSUME QueueInv, NEW c \in Callers, NEW i, call[c].id = i,
           \A d \in Callers \ {c} : call'[d] = call[d],
           \A k \in Ids \ {i} : owed'[k] = owed[k], late \subseteq late',
           i \in Ids \ late' => owed'[i] = <<>> \/ Awaited(c, i)'
    PROVE  QueueInv'
<1> SUFFICES ASSUME NEW k \in Ids, k \notin late'
             PROVE  (owed[k] = <<>> \/ \E d \in Callers : Awaited(d, k))'
  BY DEF QueueInv
<1>1. CASE k = i
  BY <1>1
<1>2. CASE k # i
  BY <1>2 DEF QueueInv, Awaited
<1> QED
  BY <1>1, <1>2

LEMMA SendQueue ==
    ASSUME TypeOK, QueueInv, NEW c \in Callers, Send(c)
    PROVE  QueueInv'
<1>1. /\ call[c].pc = "send" /\ call[c].id \in Ids
      /\ owed \in [Ids -> Debts]
  BY DEF Send, TypeOK, Debts
<1>2. /\ call'[c].pc = "await" /\ call'[c].id = call[c].id
      /\ \A d \in Callers \ {c} : call'[d] = call[d]
  BY LockFacts, <1>1 DEF Moves, Passes, Send, TypeOK, Call
<1>3. /\ late' = late /\ \A k \in Ids \ {call[c].id} : owed'[k] = owed[k]
      /\ owed'[call[c].id] \in {owed[call[c].id], Append(owed[call[c].id], c)}
  BY <1>1 DEF Send
<1>4. ASSUME call[c].id \notin late PROVE owed[call[c].id] = <<>>
  BY <1>1, <1>4, HoldersAlone DEF QueueInv, Awaited
<1>5. Append(<<>>, c) = <<c>>
  OBVIOUS
<1> QED
  BY <1>1, <1>2, <1>3, <1>4, <1>5, OtherQueues DEF Awaited

LEMMA AbandonEmpty == ASSUME NEW c PROVE Abandon(Tail(<<c>>), c) = <<>>
<1>1. Tail(<<c>>) = <<>>
  OBVIOUS
<1>2. Abandon(<<>>, c) = <<>>
  BY DEF Abandon
<1> QED
  BY <1>1, <1>2

\* The exchange that ends on a connection without time-outs was answered, and by
\* the reply to its own command.
LEMMA ExchangeQueue ==
    ASSUME TypeOK, QueueInv, RepliesMatch, NEW c \in Callers,
           Replied(c) \/ Refused(c) \/ Unanswered(c)
    PROVE  (QueueInv /\ RepliesMatch)'
<1>1. /\ call[c].pc = "await" /\ call[c].id \in Ids /\ call'[c].id = call[c].id
      /\ owed \in [Ids -> Debts]
      /\ \A d \in Callers \ {c} : call'[d] = call[d]
  BY ExchangeShape DEF TypeOK, Debts
<1>2. ASSUME owed[call[c].id] # <<>>, call[c].id \notin late
      PROVE  owed[call[c].id] = <<c>>
  BY <1>1, <1>2, HoldersAlone DEF QueueInv, Awaited
<1>3. CASE Hears(c) /\ Goes(c, Own(c))
  <2>1. /\ owed[call[c].id] # <<>> /\ late' = late
        /\ owed'[call[c].id] = Abandon(Tail(owed[call[c].id]), c)
        /\ \A k \in Ids \ {call[c].id} : owed'[k] = owed[k]
    BY <1>1, <1>3 DEF Hears
  <2>2. call[c].id \notin late => owed'[call[c].id] = <<>>
    BY <1>2, <2>1, AbandonEmpty
  <2>3. QueueInv'
    BY <1>1, <2>1, <2>2, OtherQueues
  <2>4. call[c].id \notin late => call'[c].own
    <3>1. Head(<<c>>) = c
      OBVIOUS
    <3> QED
      BY <1>2, <1>3, <2>1, <3>1 DEF Goes, Own, RepliesMatch
  <2> QED
    BY <1>1, <2>1, <2>3, <2>4 DEF RepliesMatch
<1>4. CASE TimesOut(c) /\ Goes(c, call[c].own)
  <2>1. /\ late' = late \cup {call[c].id}
        /\ \A k \in Ids \ {call[c].id} : owed'[k] = owed[k]
    BY <1>1, <1>4 DEF TimesOut
  <2>2. QueueInv'
    BY <1>1, <2>1, OtherQueues
  <2> QED
    BY <1>1, <1>4, <2>1, <2>2 DEF RepliesMatch
<1>5. CASE FindsDead(c) /\ Goes(c, call[c].own)
  <2>1. /\ late' = late /\ owed'[call[c].id] = <<>>
        /\ \A k \in Ids \ {call[c].id} : owed'[k] = owed[k]
    BY <1>1, <1>5 DEF FindsDead
  <2>2. QueueInv'
    BY <1>1, <2>1, OtherQueues
  <2> QED
    BY <1>1, <1>5, <2>1, <2>2 DEF RepliesMatch, Goes
<1> QED
  BY <1>3, <1>4, <1>5, ExchangeGoes

LEMMA QueueStep ==
    TypeOK /\ Shape /\ QueueInv /\ RepliesMatch /\ [Next]_vars => (QueueInv /\ RepliesMatch)'
<1> SUFFICES ASSUME TypeOK, Shape, QueueInv, RepliesMatch, [Next]_vars
             PROVE  (QueueInv /\ RepliesMatch)'
  OBVIOUS
<1>1. CASE \E c \in Callers : Replied(c) \/ Refused(c) \/ Unanswered(c)
  BY <1>1, ExchangeQueue
<1>2. CASE \A c \in Callers : ~(Replied(c) \/ Refused(c) \/ Unanswered(c))
  <2>1. \A d \in Callers : /\ call[d].pc = "await" => call'[d] = call[d]
                           /\ call'[d].own \/ call'[d].id \in late
    BY <1>2, CallsStep
  <2>2. CASE \E c \in Callers : Send(c)
    <3>1. late' = late
      BY <2>2 DEF Send
    <3> QED
      BY <2>1, <2>2, <3>1, SendQueue DEF RepliesMatch
  <2>3. CASE \A c \in Callers : ~Send(c)
    <3>1. UNCHANGED <<owed, late>>
      BY <1>2, <2>3, DebtsStep
    <3> QED
      BY <2>1, <3>1 DEF QueueInv, Awaited, RepliesMatch
  <2> QED
    BY <2>2, <2>3
<1> QED
  BY <1>1, <1>2
-----------------------------------------------------------------------------
(***************************************************************************)
(* What a call holds, and what it does by its operation.                   *)
(***************************************************************************)

\* A connection's lock is held by a call in the middle of an exchange on it.
Held ==
    \A i \in Ids : lock[i] # Free =>
        call[lock[i]].pc \in {"send", "await"} /\ call[lock[i]].id = i

\* Only a start or an attach connects and registers.
OpensOnly ==
    \A c \in Callers : call[c].op \notin Opens =>
        /\ call[c].pc \notin {"reap", "check", "connect", "create"}
        /\ call[c].pc = "closing" => call[c].answer # "none"

\* A stop fetches neither a stack nor variables.
StopsOnly == \A c \in Callers : call[c].op = "stop" => call[c].phase = "main"

Course == Held /\ OpensOnly /\ StopsOnly

LEMMA LockSteps ==
    ASSUME TypeOK, [Next]_vars
    PROVE  \/ \E c \in Callers : Lock(c)
           \/ \E c \in Callers : Replied(c) \/ Refused(c) \/ Unanswered(c)
           \/ /\ UNCHANGED lock
              /\ \A c \in Callers : call'[c] = call[c] \/ call[c].pc \notin {"send", "await"}
                                    \/ (call[c].pc = "send" /\ Passes(c, "await"))
<1> DEFINE Kept == /\ UNCHANGED lock
                   /\ \A c \in Callers : call'[c] = call[c] \/ call[c].pc \notin {"send", "await"}
                                         \/ (call[c].pc = "send" /\ Passes(c, "await"))
<1> USE DEF Moves, Passes
<1>1. ASSUME NEW c \in Callers, NEW op \in Opens, OpenCall(c, op) PROVE Kept
  BY <1>1, OpenFacts DEF OpenCall
<1>2. ASSUME NEW c \in Callers, Reap(c) PROVE Kept
  BY <1>2, ReapFacts DEF Reap
<1>3. ASSUME NEW c \in Callers, NEW k \in Ids, Close(c, k) PROVE Kept
  BY <1>3, CloseFacts DEF Close
<1>4. ASSUME NEW c \in Callers, Closed(c) PROVE Kept
  BY <1>4, ClosedFacts DEF Closed
<1>5. ASSUME NEW c \in Callers, Check(c) \/ ConnectFails(c) PROVE Kept
  BY <1>5, CheckFacts DEF Check, ConnectFails
<1>6. ASSUME NEW c \in Callers, NEW k \in Ids, Connect(c, k) PROVE Kept
  <2>1. UNCHANGED lock
    BY <1>6 DEF Connect
  <2> QED
    BY <1>6, <2>1, ConnectFacts
<1>7. ASSUME NEW c \in Callers, Create(c) PROVE Kept
  BY <1>7, CreateFacts DEF Create
<1>8. ASSUME NEW c \in Callers, NEW op, NEW k \in Ids, UseCall(c, op, k) PROVE Kept
  BY <1>8, UseFacts DEF UseCall
<1>9. ASSUME NEW c \in Callers, NEW op, NEW k \in Ids, UnknownCall(c, op, k) PROVE Kept
  BY <1>9, UnknownFacts DEF UnknownCall
<1>10. ASSUME NEW c \in Callers, Send(c) PROVE Kept
  <2>1. call[c] \in Call /\ call \in [Callers -> Call]
    BY DEF TypeOK
  <2> QED
    BY <1>10, <2>1 DEF Send, Call
<1>11. ASSUME NEW c \in Callers, Remove(c) PROVE Kept
  BY <1>11, RemoveFacts DEF Remove, Released
<1>12. ASSUME NEW c \in Callers, Return(c) PROVE Kept
  BY <1>12, ReturnFacts DEF Return
<1>13. ASSUME NEW k \in Ids, Ages(k) \/ Dies(k) PROVE Kept
  BY <1>13 DEF Ages, Dies
<1>14. ASSUME UNCHANGED vars PROVE Kept
  BY <1>14 DEF vars
<1> QED
  BY <1>1, <1>2, <1>3, <1>4, <1>5, <1>6, <1>7, <1>8, <1>9, <1>10, <1>11, <1>12, <1>13, <1>14,
     KnownIds DEF Next, Works

LEMMA HeldStep == TypeOK /\ Held /\ [Next]_vars => Held'
<1> SUFFICES ASSUME TypeOK, Held, [Next]_vars, NEW i \in Ids, lock'[i] # Free
             PROVE  call'[lock'[i]].pc \in {"send", "await"} /\ call'[lock'[i]].id = i
  BY DEF Held
<1>0. lock \in [Ids -> Callers \cup {Free}] /\ call \in [Callers -> Call]
  BY DEF TypeOK
<1>1. ASSUME NEW c \in Callers, Lock(c)
      PROVE  call'[lock'[i]].pc \in {"send", "await"} /\ call'[lock'[i]].id = i
  <2>1. /\ call[c].pc = "lock" /\ call[c].id \in Ids
        /\ call'[c].pc = "send" /\ call'[c].id = call[c].id
        /\ \A d \in Callers \ {c} : call'[d] = call[d]
    BY <1>0, <1>1 DEF Lock, TypeOK, Call
  <2>2. CASE i = call[c].id
    BY <1>0, <1>1, <2>1, <2>2 DEF Lock
  <2>3. CASE i # call[c].id
    <3>1. lock'[i] = lock[i] /\ lock[i] \in Callers
      BY <1>0, <1>1, <2>3 DEF Lock
    <3>2. lock[i] # c
      BY <2>1, <3>1 DEF Held
    <3> QED
      BY <2>1, <3>1, <3>2 DEF Held
  <2> QED
    BY <2>2, <2>3
<1>2. ASSUME NEW c \in Callers, Replied(c) \/ Refused(c) \/ Unanswered(c)
      PROVE  call'[lock'[i]].pc \in {"send", "await"} /\ call'[lock'[i]].id = i
  <2>1. /\ call[c].pc = "await" /\ call[c].id \in Ids
        /\ call'[c].id = call[c].id
        /\ \A d \in Callers \ {c} : call'[d] = call[d]
        /\ (call'[c].pc = "send" /\ lock' = lock) \/ Release(c)
    BY <1>2, ExchangeGoes, ExchangeShape DEF Goes, TypeOK
  <2>2. lock'[i] = lock[i] /\ lock[i] \in Callers
    BY <1>0, <2>1 DEF Release
  <2>3. CASE lock[i] # c
    BY <2>1, <2>2, <2>3 DEF Held
  <2>4. CASE lock[i] = c
    <3>1. call[c].id = i
      BY <2>2, <2>4 DEF Held
    <3>2. ~Release(c)
      BY <1>0, <3>1 DEF Release
    <3> QED
      BY <2>1, <2>2, <2>4, <3>1, <3>2
  <2> QED
    BY <2>3, <2>4
<1>3. ASSUME /\ UNCHANGED lock
             /\ \A c \in Callers : call'[c] = call[c] \/ call[c].pc \notin {"send", "await"}
                                   \/ (call[c].pc = "send" /\ Passes(c, "await"))
      PROVE  call'[lock'[i]].pc \in {"send", "await"} /\ call'[lock'[i]].id = i
  BY <1>0, <1>3 DEF Held, Passes, Moves
<1> QED
  BY <1>1, <1>2, <1>3, LockSteps

LEMMA OpensOnlyStep == TypeOK /\ Shape /\ OpensOnly /\ [Next]_vars => OpensOnly'
<1> SUFFICES ASSUME TypeOK, Shape, OpensOnly, [Next]_vars PROVE OpensOnly'
  OBVIOUS
<1> USE DEF OpensOnly, Moves, Passes
<1>1. ASSUME NEW c \in Callers, NEW op \in Opens, OpenCall(c, op) PROVE OpensOnly'
  BY <1>1, OpenFacts
<1>2. ASSUME NEW c \in Callers, Reap(c) PROVE OpensOnly'
  BY <1>2, ReapFacts
<1>3. ASSUME NEW c \in Callers, NEW k \in Ids, Close(c, k) PROVE OpensOnly'
  BY <1>3, CloseFacts
<1>4. ASSUME NEW c \in Callers, Closed(c) PROVE OpensOnly'
  BY <1>4, ClosedFacts DEF Onward
<1>5. ASSUME NEW c \in Callers, Check(c) \/ ConnectFails(c) PROVE OpensOnly'
  BY <1>5, CheckFacts
<1>6. ASSUME NEW c \in Callers, NEW k \in Ids, Connect(c, k) PROVE OpensOnly'
  BY <1>6, ConnectFacts
<1>7. ASSUME NEW c \in Callers, Create(c) PROVE OpensOnly'
  BY <1>7, CreateFacts
<1>8. ASSUME NEW c \in Callers, NEW op, NEW k \in Ids, UseCall(c, op, k) PROVE OpensOnly'
  BY <1>8, UseFacts
<1>9. ASSUME NEW c \in Callers, NEW op, NEW k \in Ids, UnknownCall(c, op, k) PROVE OpensOnly'
  BY <1>9, UnknownFacts
<1>10. ASSUME NEW c \in Callers, Lock(c) \/ Send(c) PROVE OpensOnly'
  BY <1>10, LockFacts
<1>11. ASSUME NEW c \in Callers, Replied(c) \/ Refused(c) \/ Unanswered(c) PROVE OpensOnly'
  BY <1>11, ExchangeShape
<1>12. ASSUME NEW c \in Callers, Remove(c) PROVE OpensOnly'
  BY <1>12, RemoveFacts DEF Shape
<1>13. ASSUME NEW c \in Callers, Return(c) PROVE OpensOnly'
  BY NoCallFields, <1>13, ReturnFacts
<1>14. ASSUME NEW k \in Ids, Ages(k) \/ Dies(k) PROVE OpensOnly'
  BY <1>14 DEF Ages, Dies
<1>15. ASSUME UNCHANGED vars PROVE OpensOnly'
  BY <1>15 DEF vars
<1> QED
  BY <1>1, <1>2, <1>3, <1>4, <1>5, <1>6, <1>7, <1>8, <1>9, <1>10, <1>11, <1>12, <1>13, <1>14,
     <1>15, KnownIds DEF Next, Works

\* The exchange of a stop is its last.
LEMMA StopEnds ==
    ASSUME TypeOK, NEW c \in Callers, call[c].op = "stop", call[c].phase = "main",
           Replied(c) \/ Refused(c) \/ Unanswered(c)
    PROVE  call'[c].pc = "remove" /\ call'[c].phase = "main"
<1>1. call[c] \in Call /\ call \in [Callers -> Call]
  BY DEF TypeOK
<1>2. \E own : Ends(c, "remove", "ok", TRUE, own)
  <2>1. ASSUME Replied(c) PROVE Ends(c, "remove", "ok", TRUE, Own(c))
    BY <2>1 DEF Replied, GoesOn, Breaks, Concludes, Fetches, Opens
  <2>2. ASSUME Refused(c) PROVE Ends(c, "remove", "ok", TRUE, Own(c))
    BY <2>2 DEF Refused, Fails, Opens
  <2>3. ASSUME Unanswered(c) PROVE Ends(c, "remove", "ok", TRUE, call[c].own)
    BY <2>3 DEF Unanswered, Fails, Opens
  <2> QED
    BY <2>1, <2>2, <2>3
<1> QED
  BY <1>1, <1>2 DEF Ends, Call

LEMMA StopsOnlyStep == TypeOK /\ Shape /\ StopsOnly /\ [Next]_vars => StopsOnly'
<1> SUFFICES ASSUME TypeOK, Shape, StopsOnly, [Next]_vars PROVE StopsOnly'
  OBVIOUS
<1>0. call \in [Callers -> Call] /\ \A c \in Callers : call[c] \in Call
  BY DEF TypeOK
<1> DEFINE Main(c) == call'[c].phase = call[c].phase
                      /\ \A d \in Callers \ {c} : call'[d] = call[d]
<1>1. ASSUME NEW c \in Callers, Main(c), call'[c].op = call[c].op \/ call[c].phase = "main"
      PROVE  StopsOnly'
  BY <1>1 DEF StopsOnly
<1>2. ASSUME NEW c \in Callers, call[c].pc = "idle"
      PROVE  call[c].phase = "main"
  BY <1>2 DEF Shape, NoCall
<1>3. ASSUME NEW c \in Callers, NEW op \in Opens, OpenCall(c, op) PROVE StopsOnly'
  <2>1. Main(c) /\ call[c].pc = "idle"
    BY <1>0, <1>3 DEF OpenCall, Call
  <2> QED
    BY <1>1, <1>2, <2>1
<1>4. ASSUME NEW c \in Callers, NEW op, NEW k \in Ids, UseCall(c, op, k) \/ UnknownCall(c, op, k)
      PROVE  StopsOnly'
  <2>1. Main(c) /\ call[c].pc = "idle"
    BY <1>0, <1>4 DEF UseCall, UnknownCall, Call
  <2> QED
    BY <1>1, <1>2, <2>1
<1>5. ASSUME NEW c \in Callers,
             \/ Reap(c) \/ (\E k \in Ids : Close(c, k)) \/ Closed(c) \/ Check(c)
             \/ ConnectFails(c) \/ Create(c) \/ Send(c) \/ Remove(c)
             \/ Lock(c) \/ \E k \in Ids : Connect(c, k)
      PROVE  StopsOnly'
  <2>1. Main(c) /\ call'[c].op = call[c].op
    BY <1>0, <1>5 DEF Reap, Close, Closed, Check, Answer, ConnectFails, Create, Send, Remove,
                      Lock, Connect, Call
  <2> QED
    BY <1>1, <2>1
<1>6. ASSUME NEW c \in Callers, Replied(c) \/ Refused(c) \/ Unanswered(c) PROVE StopsOnly'
  BY <1>6, ExchangeShape, StopEnds DEF StopsOnly
<1>7. ASSUME NEW c \in Callers, Return(c) PROVE StopsOnly'
  BY <1>7, ReturnFacts DEF StopsOnly, NoCall
<1>8. ASSUME NEW k \in Ids, Ages(k) \/ Dies(k) PROVE StopsOnly'
  BY <1>8 DEF Ages, Dies, StopsOnly
<1>9. ASSUME UNCHANGED vars PROVE StopsOnly'
  BY <1>9 DEF vars, StopsOnly
<1> QED
  BY <1>3, <1>4, <1>5, <1>6, <1>7, <1>8, <1>9, KnownIds DEF Next, Works

LEMMA CourseInit == Init => Course
<1> SUFFICES ASSUME Init PROVE Course
  OBVIOUS
<1>1. \A i \in Ids : lock[i] = Free
  BY DEF Init
<1>2. \A c \in Callers : call[c].pc = "idle" /\ call[c].phase = "main"
  BY DEF Init, NoCall
<1> QED
  BY <1>1, <1>2 DEF Course, Held, OpensOnly, StopsOnly

LEMMA CourseStep == IInv /\ Course /\ [Next]_vars => Course'
  BY HeldStep, OpensOnlyStep, StopsOnlyStep DEF Course, IInv, SlotInv
-----------------------------------------------------------------------------
(***************************************************************************)
(* The theorems.                                                           *)
(***************************************************************************)

LEMMA IInvInit == Init => IInv
<1>1. Init => NoOrphans /\ QueueInv /\ RepliesMatch
  BY NoCallFields DEF Init, NoOrphans, QueueInv, RepliesMatch
<1> QED
  BY <1>1, TypeInit, SlotInit DEF IInv

LEMMA IInvStep == IInv /\ [Next]_vars => IInv'
  BY TypeStep, SlotStep, NoOrphansStep, QueueStep DEF IInv, SlotInv

\* What the model checker finds to hold of small instances is inductive.
THEOREM DebugInvariant == Safe => []IInv
  BY IInvInit, IInvStep, PTL DEF Safe

\* An open connection belongs to the registered session or to a call that is
\* about to register or to close it, whatever starts, stops, failures and expiries
\* come together (debugger.rs).
THEOREM NothingOrphaned == Safe => []NoOrphans
<1>1. IInv => NoOrphans
  BY DEF IInv
<1> QED
  BY <1>1, DebugInvariant, PTL

\* An answered stop, a failed start and a step that saw the end have freed the
\* slot, and the connection is closed or about to be (debugger.rs:663, 761, 914, 1115).
THEOREM EndedStaysFreed == Safe => []EndedIsFreed
<1>1. IInv => EndedIsFreed
  <2> SUFFICES ASSUME TypeOK, StaysDown, NoOrphans, NEW c \in Callers,
                      call[c].pc = "answered", call[c].id # NoId,
                      call[c].ended \/ (call[c].op \in Opens /\ call[c].answer = "error")
               PROVE  /\ call[c].id \notin slot
                      /\ socket[call[c].id] = "open" =>
                            \E d \in Callers : InHand(d, call[c].id)
    BY DEF IInv, SlotInv, EndedIsFreed
  <2>1. call[c].id \in Ids
    BY DEF TypeOK, Call
  <2>2. call[c].id \notin slot
    BY DEF StaysDown, TookDown
  <2> QED
    BY <2>1, <2>2 DEF NoOrphans
<1> QED
  BY <1>1, DebugInvariant, PTL

\* A call takes another command's reply for its own only on a connection where a
\* command has timed out (dbgp.rs:97-120).
THEOREM ExchangesApart == Safe => []RepliesMatch
<1>1. IInv => RepliesMatch
  BY DEF IInv
<1> QED
  BY <1>1, DebugInvariant, PTL

\* Nobody keeps a connection beyond an exchange: its lock is held exactly by a call
\* that sends on it or awaits its answer (debugger.rs, dbgp.rs:97-120).
THEOREM LocksAreHeld ==
    Safe => [](\A i \in Ids, c \in Callers :
                  lock[i] = c <=> call[c].pc \in {"send", "await"} /\ call[c].id = i)
<1>1. IInv /\ Course => \A i \in Ids, c \in Callers :
         lock[i] = c <=> call[c].pc \in {"send", "await"} /\ call[c].id = i
  BY FreeAssumption DEF IInv, TypeOK, Course, Held
<1>2. IInv /\ Course /\ [Next]_vars => Course'
  BY CourseStep
<1> QED
  BY DebugInvariant, CourseInit, <1>1, <1>2, PTL DEF Safe
=============================================================================
