--------------------------- MODULE DebugSessions ----------------------------
(***************************************************************************)
(* The debugger tools (src/src/tools/debugger.rs) on their DBGP            *)
(* connections (src/src/iris/dbgp.rs).  Concurrent tool calls share the    *)
(* session map, which is to hold one session, and each session has one     *)
(* connection behind an async mutex that a call holds for an exchange or   *)
(* for several.  Whatever a call does is a sequence of exchanges: send a   *)
(* command, read the next reply.  The agent is IRIS's; it answers in       *)
(* order, perhaps after the 30 s a call waits, and it serves one socket:   *)
(* a second connection may reset the first (debugger.rs:168-172).          *)
(*                                                                         *)
(* A session and its connection have one identity, Ids.  What is sent and  *)
(* replied is left out, except the status a run or step command reports.   *)
(***************************************************************************)
EXTENDS Naturals, Sequences, FiniteSets

CONSTANTS Callers,   \* concurrent debug_* requests
          Ids,       \* connections that can ever be made
          MaxMore,   \* bound: further commands of one call's main sequence
          Patience,  \* bound: commands that time out, in all
          Free,      \* nobody holds a connection
          NoId       \* a call that has no session yet

ASSUME FreeAssumption == Free \notin Callers
ASSUME NoIdAssumption == NoId \notin Ids
ASSUME BoundsAssumption == MaxMore \in Nat /\ Patience \in Nat

VARIABLES slot,      \* the keys of the session map
          stale,     \* stale[i]: not touched for IDLE_TIMEOUT_SECS
          known,     \* the ids returned to clients
          socket,    \* socket[i]: state of the connection
          owed,      \* owed[i]: whose commands the agent has still to answer
          late,      \* ghost: the connections on which a command timed out
          lock,      \* lock[i]: who holds the connection
          call,      \* call[c]: the tool call c is serving
          patience   \* commands that may still time out

vars == <<slot, stale, known, socket, owed, late, lock, call, patience>>

Opens    == {"start", "attach"}
Op       == {"none", "step", "query", "stop"} \cup Opens
PC       == {"idle", "reap", "closing", "check", "connect", "create", "lock",
             "send", "await", "remove", "answered"}

\* "late": the command of a call that no longer waits for the answer.
Late == "late"

Socket == {"none", "open", "closed", "dead", "reset"}

\* `phase`: the main commands, then stack_get and context_get after a break.
\* `closing`: sessions the call has taken out of the map and has to close.
\* `own`: ghost, every reply the call accepted was the one to its command.
Call == [pc : PC, op : Op, id : Ids \cup {NoId}, phase : {"main", "stack", "vars"},
         more : 0..MaxMore, closing : SUBSET Ids,
         answer : {"none", "ok", "error"}, ended : BOOLEAN, own : BOOLEAN]

NoCall == [pc |-> "idle", op |-> "none", id |-> NoId, phase |-> "main",
           more |-> MaxMore, closing |-> {}, answer |-> "none",
           ended |-> FALSE, own |-> TRUE]

Init == /\ slot = {}
        /\ stale = [i \in Ids |-> FALSE]
        /\ known = {}
        /\ socket = [i \in Ids |-> "none"]
        /\ owed = [i \in Ids |-> <<>>]
        /\ late = {}
        /\ lock = [i \in Ids |-> Free]
        /\ call = [c \in Callers |-> NoCall]
        /\ patience = Patience
-----------------------------------------------------------------------------
(***************************************************************************)
(* debug_start and debug_attach: reap, check the slot, connect, reap and   *)
(* check again, register.                                                  *)
(***************************************************************************)
OpenCall(c, op) ==
    /\ call[c].pc = "idle"
    /\ call' = [call EXCEPT ![c].pc = "reap", ![c].op = op]
    /\ UNCHANGED <<slot, stale, known, socket, owed, late, lock, patience>>

\* reap_expired, under the map's mutex: take the expired sessions out.
Reap(c) ==
    /\ call[c].pc = "reap"
    /\ LET expired == {i \in slot : stale[i]}
       IN  /\ slot' = slot \ expired
           /\ call' = [call EXCEPT ![c].pc = "closing", ![c].closing = expired]
    /\ UNCHANGED <<stale, known, socket, owed, late, lock, patience>>

\* Seeded fault: dropping a session leaves its socket open.
ShutFaulty(i) == UNCHANGED socket

Shut(i) == socket' = [socket EXCEPT ![i] = IF @ = "open" THEN "closed" ELSE @]

\* Close a session that is out of the map, when its connection is free.
Close(c, i) ==
    /\ call[c].pc = "closing"
    /\ i \in call[c].closing
    /\ lock[i] = Free
    /\ Shut(i)
    /\ call' = [call EXCEPT ![c].closing = @ \ {i}]
    /\ UNCHANGED <<slot, stale, known, owed, late, lock, patience>>

\* Where a call goes on when nothing is left to close.
Onward(r) == IF r.answer # "none" THEN "answered"
            ELSE IF r.id = NoId THEN "check" ELSE "create"

Closed(c) ==
    /\ call[c].pc = "closing"
    /\ call[c].closing = {}
    /\ call' = [call EXCEPT ![c].pc = Onward(call[c])]
    /\ UNCHANGED <<slot, stale, known, socket, owed, late, lock, patience>>

Answer(c, a) == call' = [call EXCEPT ![c].pc = "answered", ![c].answer = a]

\* slot_free, after its reap.
Check(c) ==
    /\ call[c].pc = "check"
    /\ \/ slot = {} /\ call' = [call EXCEPT ![c].pc = "connect"]
       \/ slot # {} /\ Answer(c, "error")
    /\ UNCHANGED <<slot, stale, known, socket, owed, late, lock, patience>>

\* The agent may reset any socket it was serving.
Connect(c, i) ==
    /\ call[c].pc = "connect"
    /\ socket[i] = "none"
    /\ \E R \in SUBSET {k \in Ids : socket[k] = "open"} :
          socket' = [k \in Ids |-> IF k = i THEN "open"
                                   ELSE IF k \in R THEN "reset" ELSE socket[k]]
    /\ call' = [call EXCEPT ![c].pc = "reap", ![c].id = i]
    /\ UNCHANGED <<slot, stale, known, owed, late, lock, patience>>

\* Four attempts failed; a socket of theirs is dropped with them. (What they did
\* to other sockets, Dies can do.)
ConnectFails(c) ==
    /\ call[c].pc = "connect"
    /\ Answer(c, "error")
    /\ UNCHANGED <<slot, stale, known, socket, owed, late, lock, patience>>

\* Seeded fault: the map is not looked at again after connecting.
TakenFaulty == FALSE

Taken == slot # {}

\* create_session: a refused connection is dropped.
Create(c) ==
    /\ call[c].pc = "create"
    /\ LET i == call[c].id
       IN  \/ /\ Taken
              /\ Shut(i)
              /\ Answer(c, "error")
              /\ UNCHANGED slot
           \/ /\ ~Taken
              /\ slot' = slot \cup {i}
              /\ call' = [call EXCEPT ![c].pc = "lock"]
              /\ UNCHANGED socket
    /\ UNCHANGED <<stale, known, owed, late, lock, patience>>
-----------------------------------------------------------------------------
(***************************************************************************)
(* debug_step, debug_stop and the four tools that only ask: get_session    *)
(* looks the session up and touches it.                                    *)
(***************************************************************************)
UseCall(c, op, i) ==
    /\ call[c].pc = "idle"
    /\ i \in slot /\ ~stale[i]
    /\ call' = [call EXCEPT ![c].pc = "lock", ![c].op = op, ![c].id = i]
    /\ UNCHANGED <<slot, stale, known, socket, owed, late, lock, patience>>

UnknownCall(c, op, i) ==
    /\ call[c].pc = "idle"
    /\ i \notin slot \/ stale[i]
    /\ call' = [call EXCEPT ![c].pc = "answered", ![c].op = op, ![c].answer = "error"]
    /\ UNCHANGED <<slot, stale, known, socket, owed, late, lock, patience>>
-----------------------------------------------------------------------------
(***************************************************************************)
(* One exchange: DbgpConnection::command under the connection's mutex.     *)
(***************************************************************************)
\* Seeded fault: the exchange does not own the connection.
AvailableFaulty(i) == TRUE

Available(i) == lock[i] = Free

Lock(c) ==
    /\ call[c].pc = "lock"
    /\ Available(call[c].id)
    /\ lock' = [lock EXCEPT ![call[c].id] = c]
    /\ call' = [call EXCEPT ![c].pc = "send"]
    /\ UNCHANGED <<slot, stale, known, socket, owed, late, patience>>

Send(c) ==
    /\ call[c].pc = "send"
    /\ LET i == call[c].id
       IN  owed' = IF socket[i] = "open" THEN [owed EXCEPT ![i] = Append(@, c)] ELSE owed
    /\ call' = [call EXCEPT ![c].pc = "await"]
    /\ UNCHANGED <<slot, stale, known, socket, late, lock, patience>>

\* What of the agent's queue is no longer awaited once c has stopped waiting.
Abandon(q, c) == [k \in DOMAIN q |-> IF q[k] = c THEN Late ELSE q[k]]

\* recv_frame takes the next reply, whoever's it is: tx_id is never compared.
\* What arrived before the socket died can still be read.
Hears(c) ==
    /\ call[c].pc = "await"
    /\ LET i == call[c].id
       IN  /\ socket[i] # "closed"
           /\ owed[i] # <<>>
           /\ owed' = [owed EXCEPT ![i] = Abandon(Tail(@), c)]
    /\ UNCHANGED <<late, patience>>

TimesOut(c) ==
    /\ call[c].pc = "await"
    /\ patience > 0
    /\ patience' = patience - 1
    /\ LET i == call[c].id
       IN  /\ socket[i] = "open"
           /\ owed' = [owed EXCEPT ![i] = Abandon(@, c)]
           /\ late' = late \cup {i}

\* The end of the stream: nothing can be read after it.
FindsDead(c) ==
    /\ call[c].pc = "await"
    /\ socket[call[c].id] # "open"
    /\ owed' = [owed EXCEPT ![call[c].id] = <<>>]
    /\ UNCHANGED <<late, patience>>

\* The reply just read answers c's own command.
Own(c) == call[c].own /\ Head(owed[call[c].id]) = c

Release(c) == lock' = [lock EXCEPT ![call[c].id] = Free]

\* Go on to the next command of the call, holding the connection or not.
Holding(c, phase, more, own) ==
    /\ call' = [call EXCEPT ![c].pc = "send", ![c].phase = phase,
                            ![c].more = more, ![c].own = own]
    /\ UNCHANGED lock

Relocking(c, phase, more, own) ==
    /\ call' = [call EXCEPT ![c].pc = "lock", ![c].phase = phase,
                            ![c].more = more, ![c].own = own]
    /\ Release(c)

\* The call is over: with an answer, or after taking its session down.
Ends(c, pc, a, ended, own) ==
    /\ call' = [call EXCEPT ![c].pc = pc, ![c].answer = a, ![c].ended = ended,
                            ![c].own = own]
    /\ Release(c)

\* A main command was answered, and was not the last one: configuration,
\* breakpoints, polls (attach sleeps between two with the lock released).
GoesOn(c, own) ==
    /\ call[c].phase = "main"
    /\ call[c].more > 0
    /\ \/ call[c].op \in Opens \cup {"query"} /\ Holding(c, "main", call[c].more - 1, own)
       \/ call[c].op = "attach" /\ Relocking(c, "main", call[c].more - 1, own)

\* A main command reported a break: fetch the stack, then the variables.
Breaks(c, own) ==
    /\ call[c].phase = "main"
    /\ \/ call[c].op \in {"start", "step"} /\ Relocking(c, "stack", 0, own)
       \/ call[c].op = "attach" /\ Holding(c, "stack", 0, own)

\* The last main command was answered without a break.
Concludes(c, own) ==
    /\ call[c].phase = "main"
    /\ \/ call[c].op \in {"start", "step", "query"} /\ Ends(c, "answered", "ok", FALSE, own)
       \/ call[c].op = "step" /\ Ends(c, "remove", "ok", TRUE, own)
       \/ call[c].op = "stop" /\ Ends(c, "remove", "ok", TRUE, own)
       \/ call[c].op = "attach" /\ Ends(c, "remove", "error", FALSE, own)

Fetches(c, own) ==
    \/ call[c].phase = "stack" /\ Holding(c, "vars", 0, own)
    \/ call[c].phase = "vars" /\ Ends(c, "answered", "ok", FALSE, own)

\* Seeded fault: a start that fails leaves its session in the slot.
FailsFaulty(c, own) ==
    \/ call[c].phase # "vars" /\ call[c].op # "stop" /\ Ends(c, "answered", "error", FALSE, own)
    \/ call[c].phase # "vars" /\ call[c].op = "stop" /\ Ends(c, "remove", "ok", TRUE, own)
    \/ call[c].phase = "vars" /\ Ends(c, "answered", "ok", FALSE, own)

\* An exchange failed: a start or attach takes its session down, a step or a
\* question leaves it, a stop does not care, and missing variables are no
\* failure (break_context).
Fails(c, own) ==
    \/ call[c].phase # "vars" /\ call[c].op \in Opens /\ Ends(c, "remove", "error", FALSE, own)
    \/ call[c].phase # "vars" /\ call[c].op \in {"step", "query"}
          /\ Ends(c, "answered", "error", FALSE, own)
    \/ call[c].phase # "vars" /\ call[c].op = "stop" /\ Ends(c, "remove", "ok", TRUE, own)
    \/ call[c].phase = "vars" /\ Ends(c, "answered", "ok", FALSE, own)

Replied(c) ==
    /\ Hears(c)
    /\ \/ GoesOn(c, Own(c)) \/ Breaks(c, Own(c)) \/ Concludes(c, Own(c))
       \/ Fetches(c, Own(c))
    /\ UNCHANGED <<slot, stale, known, socket>>

\* An <error> or <exit> reply: what it fails is the caller's own command only
\* if nothing was late.
Refused(c) ==
    /\ Hears(c)
    /\ Fails(c, Own(c))
    /\ UNCHANGED <<slot, stale, known, socket>>

Unanswered(c) ==
    /\ TimesOut(c) \/ FindsDead(c)
    /\ Fails(c, call[c].own)
    /\ UNCHANGED <<slot, stale, known, socket>>

\* Seeded fault: the session is taken out and closed with its lock held.
ReleasedFaulty(c) == lock' = [lock EXCEPT ![call[c].id] = c]

\* remove_session_now, then close: the session is closed by whoever took it
\* out of the map.
Released(c) == UNCHANGED lock

Remove(c) ==
    /\ call[c].pc = "remove"
    /\ LET i == call[c].id
       IN  /\ slot' = slot \ {i}
           /\ call' = [call EXCEPT ![c].pc = "closing", ![c].closing = {i} \cap slot]
    /\ Released(c)
    /\ UNCHANGED <<stale, known, socket, owed, late, patience>>

\* The client has read the answer; a start tells it the id.
Return(c) ==
    /\ call[c].pc = "answered"
    /\ known' = IF call[c].op \in Opens /\ call[c].answer = "ok"
                THEN known \cup {call[c].id} ELSE known
    /\ call' = [call EXCEPT ![c] = NoCall]
    /\ UNCHANGED <<slot, stale, socket, owed, late, lock, patience>>
-----------------------------------------------------------------------------
\* IDLE_TIMEOUT_SECS pass since the last get_session.
Ages(i) ==
    /\ i \in slot /\ ~stale[i]
    /\ stale' = [stale EXCEPT ![i] = TRUE]
    /\ UNCHANGED <<slot, known, socket, owed, late, lock, call, patience>>

\* The agent or the network ends the connection.
Dies(i) ==
    /\ socket[i] = "open"
    /\ socket' = [socket EXCEPT ![i] = "dead"]
    /\ UNCHANGED <<slot, stale, known, owed, late, lock, call, patience>>

Works(c) ==
    \/ Reap(c) \/ (\E i \in Ids : Close(c, i)) \/ Closed(c) \/ Check(c)
    \/ ConnectFails(c) \/ Create(c) \/ Send(c) \/ Replied(c) \/ Refused(c)
    \/ Unanswered(c) \/ Remove(c) \/ Return(c)

Next ==
    \/ \E c \in Callers : Works(c) \/ Lock(c)
    \/ \E c \in Callers, i \in Ids : Connect(c, i)
    \/ \E c \in Callers, op \in Opens : OpenCall(c, op)
    \/ \E c \in Callers, op \in {"step", "query", "stop"}, i \in known :
          UseCall(c, op, i) \/ UnknownCall(c, op, i)
    \/ \E i \in Ids : Ages(i) \/ Dies(i)

\* The runtime polls every ready call, a command is answered or times out, and
\* tokio's mutex is fair; nobody has to call.
Fairness == \A c \in Callers : WF_vars(Works(c)) /\ SF_vars(Lock(c))

Safe == Init /\ [][Next]_vars

Spec == Safe /\ Fairness
-----------------------------------------------------------------------------
(***************************************************************************)
(* Properties.                                                             *)
(***************************************************************************)

\* Every variable has its type, and a call is in possession of what its next
\* step needs: of a session from its registration until it has answered, of the
\* connection's lock during an exchange.
TypeOK ==
    /\ slot \in SUBSET Ids
    /\ stale \in [Ids -> BOOLEAN]
    /\ known \in SUBSET Ids
    /\ socket \in [Ids -> Socket]
    /\ owed \in [Ids -> Seq(Callers \cup {Late})]
    /\ late \in SUBSET Ids
    /\ lock \in [Ids -> Callers \cup {Free}]
    /\ call \in [Callers -> Call]
    /\ patience \in 0..Patience
    /\ \A c \in Callers :
          /\ call[c].pc \in {"lock", "send", "await", "remove", "create"} => call[c].id \in Ids
          /\ call[c].answer = "ok" => call[c].id \in Ids
          /\ call[c].pc \in {"send", "await"} => lock[call[c].id] = c

\* At most one session is registered, however many starts run at once: the map
\* is looked at again when the connection is there (debugger.rs:181-205).
OneSession == \A i, k \in slot : i = k

\* A call that is going to close or to register connection i.
InHand(c, i) ==
    \/ i \in call[c].closing
    \/ call[c].id = i /\ call[c].answer = "none" /\ call[c].pc \in {"reap", "closing", "create"}

\* No connection is forgotten: an open one belongs to the registered session or
\* is in the hands of a call, also when starts fail, stops race and sessions
\* expire. An orphan would hold the only debug agent of the server.
NoOrphans ==
    \A i \in Ids : socket[i] = "open" =>
        i \in slot \/ \E c \in Callers : InHand(c, i)

\* Once a start has failed, a stop has been answered or a step has seen the end,
\* the session is out of the slot, and its connection is closed but for a call
\* that is just closing it.
EndedIsFreed ==
    \A c \in Callers :
        /\ call[c].pc = "answered" /\ call[c].id # NoId
        /\ \/ call[c].ended
           \/ call[c].op \in Opens /\ call[c].answer = "error"
        => /\ call[c].id \notin slot
           /\ socket[call[c].id] = "open" =>
                 \E d \in Callers : InHand(d, call[c].id)

\* The mutex keeps exchanges apart: a call takes another command's reply for its
\* own only on a connection where a command has timed out.
RepliesMatch == \A c \in Callers : call[c].own \/ call[c].id \in late

\* "Send one command and parse the XML reply" (dbgp.rs:97): of that command.
OwnReplies == \A c \in Callers : call[c].pc = "answered" => call[c].own

\* The slot is checked before connecting because a second connection makes the
\* server "reset the live session's socket" (debugger.rs:168-172, 646-647).
LiveSessionKept == \A i \in slot : socket[i] # "reset"

\* Every call is answered: no lock is waited for by its own holder, and no close
\* waits for a call that waits for it.
CallsReturn == \A c \in Callers : call[c].pc # "idle" ~> call[c].pc = "idle"
=============================================================================
