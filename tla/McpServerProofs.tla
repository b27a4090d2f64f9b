-------------------------- MODULE McpServerProofs ---------------------------
(***************************************************************************)
(* Proofs about the MCP server and the document tools, for any number of   *)
(* requests that are served at once.                                       *)
(*                                                                         *)
(* The invariant follows one request through its life: `Kept` says what    *)
(* its writes and its compilation may be at each step, `Told` and `Says`   *)
(* that IRIS's reply and the tool's answer agree with them, `Routed` that  *)
(* a 404 is explained by the document or by the API version, and `Mine`    *)
(* relates what was compiled to what is stored.                            *)
(***************************************************************************)
EXTENDS McpServer, TLAPS

\* What a request has done, by where it stands.
Kept(r) ==
    /\ r.pc \in {"idle", "queued"} => r.writes = 0 /\ r.built = Absent /\ r.sent = 0
    /\ r.pc \in {"send", "iris"} => r.built = Absent /\ (r.step = "put" => r.writes = 0)
    /\ r.writes \in {0, 1}
    /\ r.writes = 1 => r.op \in {"put", "putCompile"}
    /\ r.op = "putCompile" /\ r.step = "compile" => r.writes = 1
    /\ r.step # "compile" => r.built = Absent

\* A reply of IRIS tells what has been done.
Told(r) ==
    r.pc = "replied" =>
        IF Outcome(r) = "ok"
        THEN /\ r.step = "put" => r.writes = 1
             /\ r.step = "compile" => r.built # Absent
        ELSE /\ r.step = "put" => r.writes = 0
             /\ r.built = Absent

\* So does the answer of the tool.
Says(r) ==
    r.pc = "done" =>
        /\ r.answer = "ok" =>
              /\ r.op \in {"put", "putCompile"} => r.writes = 1
              /\ r.op \in {"compile", "putCompile"} => r.built # Absent
        /\ r.answer \notin {"ok"} \cup Unclear =>
              /\ r.writes > 0 => r.op = "putCompile" /\ r.step = "compile"
              /\ r.built = Absent

Misses(r, v, s) == r.missed \/ Prefix(v) > s

\* A request went to the route of version v, and what it did not find at an IRIS of
\* version s was no document or no route.
Routed(r, v, s) ==
    /\ r.sent \in {0, Prefix(v)}
    /\ r.pc \in {"iris", "replied"} => r.sent = Prefix(v)
    /\ r.pc = "replied" /\ r.step \in {"get", "delete"} /\ Outcome(r) = "notFound"
          => Misses(r, v, s)
    /\ r.pc = "done" /\ r.op \in {"get", "delete"} /\ r.answer = "notFound"
          => Misses(r, v, s)

\* If c's text is stored and c has compiled, then c has compiled its own text.
Mine(r, c, text) == r.built # Absent /\ text = c => r.built = c

Fits(r) == r.step = r.op \/ (r.op = "putCompile" /\ r.step \in {"put", "compile"})

\* All there is to say of c's request.
Sound(r, c, text, v, s) ==
    /\ r \in Req /\ Fits(r)
    /\ Kept(r) /\ Told(r) /\ Says(r)
    /\ Routed(r, v, s)
    /\ Mine(r, c, text)

\* Nobody is served before the door serves, nor after it ended.
InOrder ==
    /\ door \in Door
    /\ door.pc \in {"start", "refused"} => ~door.asked /\ \A c \in Clients : req[c].pc = "idle"
    /\ door.pc \in {"bound", "probing"} => \A c \in Clients : req[c].pc \in {"idle", "queued"}
    /\ door.pc = "exited" => \A c \in Clients : req[c].pc \in {"idle", "queued", "done"}

Data ==
    /\ version \in 0..9 /\ speaks \in 1..9 /\ stored \in Texts
    /\ late \subseteq [step : {"put", "delete"}, ignore : BOOLEAN]

AllSound ==
    /\ req = [c \in Clients |-> req[c]]
    /\ \A c \in Clients : Sound(req[c], c, stored, version, speaks)

IInv == Data /\ AllSound /\ InOrder
-----------------------------------------------------------------------------
\* Every outcome of an exchange is an answer a tool may give.
LEMMA OutcomeType ==
  ASSUME NEW r \in Req
  PROVE  Outcome(r) \in Outcomes \cup {None}
<1>1. r.reply \in Reply
  BY DEF Req
<1>2. r.reply.http \in {"ok", "notFound", "conflict", "other", "none"}
  BY <1>1 DEF Reply
<1> QED
  BY <1>2 DEF Outcome, CompileOutcome, Absorb, Outcomes, None

LEMMA NoReplyType == NoReply \in Reply /\ Fine \in Reply
BY DEF NoReply, Status, Fine, Reply

LEMMA NoReqType == NoReq \in Req
BY NoReplyType DEF NoReq, Req, Ops, Steps, Texts, None

\* A client without a call.
LEMMA IdleSound ==
  ASSUME NEW c \in Clients, NEW text \in Texts, NEW v \in 0..9, NEW s
  PROVE  Sound(NoReq, c, text, v, s)
<1>1. NoReq \in Req /\ Fits(NoReq)
  BY NoReqType DEF NoReq, Fits
<1>2. Kept(NoReq) /\ Told(NoReq) /\ Says(NoReq)
  BY DEF NoReq, Kept, Told, Says
<1>3. Routed(NoReq, v, s) /\ Mine(NoReq, c, text)
  BY DEF NoReq, Routed, Mine
<1> QED
  BY <1>1, <1>2, <1>3 DEF Sound

\* A call that has arrived.
LEMMA CallSound ==
  ASSUME NEW c \in Clients, NEW text \in Texts, NEW v \in 0..9, NEW s,
         NEW op \in Ops, NEW ignore \in BOOLEAN, NEW step \in Steps,
         op = "putCompile" => step = "put", op # "putCompile" => step = op
  PROVE  Sound([NoReq EXCEPT !.pc = "queued", !.op = op, !.ignore = ignore, !.step = step],
               c, text, v, s)
<1> DEFINE r == [NoReq EXCEPT !.pc = "queued", !.op = op, !.ignore = ignore, !.step = step]
<1>0. /\ NoReq \in Req
      /\ NoReq.sent = 0 /\ NoReq.writes = 0 /\ NoReq.built = Absent
  BY NoReqType DEF NoReq
<1>1. /\ r \in Req
      /\ r.pc = "queued" /\ r.op = op /\ r.step = step
      /\ r.sent = 0 /\ r.writes = 0 /\ r.built = Absent
  BY <1>0 DEF Req
<1> HIDE DEF r
<1>2. r \in Req /\ Fits(r)
  BY <1>1 DEF Fits
<1>3. Kept(r) /\ Told(r) /\ Says(r)
  BY <1>1 DEF Kept, Told, Says
<1>4. Routed(r, v, s) /\ Mine(r, c, text)
  BY <1>1 DEF Routed, Mine
<1> QED
  BY <1>2, <1>3, <1>4 DEF Sound, r

LEMMA HandleSound ==
  ASSUME NEW r, NEW c, NEW text, NEW v, NEW s,
         Sound(r, c, text, v, s), r.pc = "queued"
  PROVE  Sound([r EXCEPT !.pc = "send"], c, text, v, s)
<1> DEFINE q == [r EXCEPT !.pc = "send"]
<1>1. q \in Req /\ Fits(q)
  BY DEF Sound, Req, Fits
<1>2. Kept(q) /\ Told(q) /\ Says(q)
  BY DEF Sound, Req, Kept, Told, Says
<1>3. Routed(q, v, s) /\ Mine(q, c, text)
  BY DEF Sound, Req, Routed, Misses, Mine
<1> QED
  BY <1>1, <1>2, <1>3 DEF Sound

LEMMA SendSound ==
  ASSUME NEW r, NEW c, NEW text, NEW v \in 0..9, NEW s,
         Sound(r, c, text, v, s), r.pc = "send"
  PROVE  Sound([r EXCEPT !.pc = "iris", !.sent = Prefix(v)], c, text, v, s)
<1> DEFINE q == [r EXCEPT !.pc = "iris", !.sent = Prefix(v)]
<1>1. Prefix(v) \in 0..9
  BY DEF Prefix
<1>2. q \in Req /\ Fits(q)
  BY <1>1 DEF Sound, Req, Fits
<1>3. Kept(q) /\ Told(q) /\ Says(q)
  BY DEF Sound, Req, Kept, Told, Says
<1>4. Routed(q, v, s) /\ Mine(q, c, text)
  BY DEF Sound, Req, Routed, Misses, Mine
<1> QED
  BY <1>2, <1>3, <1>4 DEF Sound

\* put_and_compile goes on with its compilation.
LEMMA MovesOnSound ==
  ASSUME NEW r, NEW c, NEW text, NEW v, NEW s,
         Sound(r, c, text, v, s), r.pc = "replied", MovesOn(r)
  PROVE  Sound([r EXCEPT !.pc = "send", !.step = "compile", !.reply = NoReply],
               c, text, v, s)
<1> DEFINE q == [r EXCEPT !.pc = "send", !.step = "compile", !.reply = NoReply]
<1>1. q \in Req /\ Fits(q)
  BY NoReplyType DEF Sound, Req, Fits, MovesOn, Steps
<1>2. r.writes = 1 /\ r.built = Absent
  BY DEF MovesOn, Sound, Told, Kept
<1>3. Kept(q) /\ Told(q) /\ Says(q)
  BY <1>2 DEF Sound, Req, Kept, Told, Says, MovesOn
<1>4. Routed(q, v, s) /\ Mine(q, c, text)
  BY <1>2 DEF Sound, Req, Routed, Misses, Mine
<1> QED
  BY <1>1, <1>3, <1>4 DEF Sound

\* The tool answers what its last exchange came to.
LEMMA AnswerSound ==
  ASSUME NEW r, NEW c, NEW text, NEW v, NEW s,
         Sound(r, c, text, v, s), r.pc = "replied", ~MovesOn(r)
  PROVE  Sound([r EXCEPT !.pc = "done", !.answer = Outcome(r), !.reply = NoReply],
               c, text, v, s)
<1> DEFINE q == [r EXCEPT !.pc = "done", !.answer = Outcome(r), !.reply = NoReply]
<1>1. r \in Req /\ Fits(r) /\ Kept(r) /\ Told(r)
  BY DEF Sound
<1>2. Outcome(r) \in Outcomes \cup {None}
  BY <1>1, OutcomeType
<1>3. q \in Req /\ Fits(q)
  BY <1>1, <1>2, NoReplyType DEF Req, Fits
<1>4. Kept(q) /\ Told(q)
  BY <1>1 DEF Req, Kept, Told
<1>5. /\ q.pc = "done" /\ q.answer = Outcome(r) /\ q.op = r.op /\ q.step = r.step
      /\ q.writes = r.writes /\ q.built = r.built /\ q.missed = r.missed /\ q.sent = r.sent
  BY <1>1 DEF Req
<1>6. Says(q)
  <2>0. r.op = "putCompile" => r.step \in {"put", "compile"}
    BY <1>1 DEF Fits, Req, Steps
  <2>1. CASE Outcome(r) = "ok"
    <3>1. r.op = "putCompile" => r.step = "compile"
      BY <2>0, <2>1 DEF MovesOn
    <3> QED
      BY <1>1, <1>5, <2>1, <3>1 DEF Told, Kept, Fits, Says
  <2>2. CASE Outcome(r) # "ok"
    BY <1>1, <1>5, <2>0, <2>2 DEF Told, Kept, Fits, Says
  <2> QED
    BY <2>1, <2>2
<1>7. Routed(q, v, s) /\ Mine(q, c, text)
  BY <1>1, <1>5 DEF Sound, Routed, Mine, Misses, Fits
<1> QED
  BY <1>3, <1>4, <1>6, <1>7 DEF Sound

\* A call ends without a reply, or with a part of one.
LEMMA LostSound ==
  ASSUME NEW r, NEW c, NEW text, NEW v, NEW s, NEW a \in Unclear,
         Sound(r, c, text, v, s)
  PROVE  Sound([r EXCEPT !.pc = "done", !.answer = a, !.reply = NoReply],
               c, text, v, s)
<1> DEFINE q == [r EXCEPT !.pc = "done", !.answer = a, !.reply = NoReply]
<1>1. q \in Req /\ Fits(q)
  BY NoReplyType DEF Sound, Req, Fits, Outcomes, Unclear
<1>2. Kept(q) /\ Told(q) /\ Says(q)
  BY DEF Sound, Req, Kept, Told, Says, Unclear
<1>3. Routed(q, v, s) /\ Mine(q, c, text)
  BY DEF Sound, Req, Routed, Misses, Mine, Unclear
<1> QED
  BY <1>1, <1>2, <1>3 DEF Sound

\* What IRIS's reply leaves of r.
Carries(q, r) ==
    /\ q \in Req /\ q.pc = "replied"
    /\ q.op = r.op /\ q.step = r.step /\ q.sent = r.sent

\* IRIS replies, and q's ghosts tell what it has done: the put was written if the
\* reply is a success and only then, and so for the compilation; what was not found
\* is missing.
LEMMA ReplySound ==
  ASSUME NEW r, NEW c, NEW text, NEW v, NEW s, NEW q,
         Sound(r, c, text, v, s), r.pc = "iris",
         Carries(q, r),
         q.writes \in {0, 1},
         r.step = "put" => (q.writes = 1 <=> Absorb(q.reply) = "ok"),
         r.step # "put" => q.writes = r.writes,
         r.step # "compile" => q.built = Absent,
         r.step = "compile" => (q.built # Absent <=> CompileOutcome(q.reply) = "ok"),
         r.step \in {"get", "delete"} /\ Absorb(q.reply) = "notFound" => Misses(q, v, s)
  PROVE  \A other : Mine(q, c, other) => Sound(q, c, other, v, s)
<1>1. r \in Req /\ Fits(r) /\ Kept(r) /\ Routed(r, v, s)
  BY DEF Sound
<1>2. Outcome(q) = IF q.step = "compile" THEN CompileOutcome(q.reply) ELSE Absorb(q.reply)
  BY DEF Outcome
<1>3. Fits(q)
  BY <1>1 DEF Fits, Carries
<1>4. r.step = "put" => r.op \in {"put", "putCompile"}
  BY <1>1 DEF Fits
<1>5. Kept(q)
  BY <1>1, <1>4 DEF Kept, Carries
<1>6. Told(q)
  <2>1. CASE q.step = "compile"
    BY <1>2, <2>1 DEF Told, Carries
  <2>2. CASE q.step = "put"
    BY <1>2, <2>2 DEF Told, Carries
  <2>3. CASE q.step \notin {"put", "compile"}
    BY <2>3 DEF Told, Carries
  <2> QED
    BY <2>1, <2>2, <2>3
<1>7. Says(q)
  BY DEF Says, Carries
<1>8. Routed(q, v, s)
  BY <1>1, <1>2 DEF Routed, Carries
<1> QED
  BY <1>3, <1>5, <1>6, <1>7, <1>8 DEF Sound, Carries
-----------------------------------------------------------------------------
\* One request changes, and the text that is stored is not put into anybody else's
\* name.
Moves(c, r) ==
    /\ req' = [req EXCEPT ![c] = r]
    /\ Sound(r, c, stored', version, speaks)
    /\ stored' \in {stored, c, Stale, Absent}
    /\ UNCHANGED <<version, speaks>>

LEMMA OneMoves ==
  ASSUME Data, AllSound, NEW c \in Clients, NEW r, Moves(c, r)
  PROVE  AllSound' /\ req'[c] = r /\ \A d \in Clients \ {c} : req'[d] = req[d]
<1>1. req = [d \in Clients |-> req[d]]
  BY DEF AllSound
<1>2. /\ req'[c] = r
      /\ \A d \in Clients \ {c} : req'[d] = req[d]
      /\ req' = [d \in Clients |-> req'[d]]
  BY <1>1 DEF Moves
<1>3. ASSUME NEW d \in Clients
      PROVE  Sound(req'[d], d, stored', version, speaks)
  <2>1. CASE d = c
    BY <1>2, <2>1 DEF Moves
  <2>2. CASE d # c
    <3>1. Sound(req[d], d, stored, version, speaks)
      BY DEF AllSound
    <3>2. stored' = d => stored = d
      BY <2>2, TextAssumption DEF Moves
    <3> QED
      BY <1>2, <2>2, <3>1, <3>2 DEF Sound, Mine
  <2> QED
    BY <2>1, <2>2
<1> QED
  BY <1>2, <1>3 DEF AllSound, Moves

LEMMA CallMoves ==
  ASSUME Data, AllSound, NEW c \in Clients, NEW op \in Ops, NEW ignore \in BOOLEAN,
         Call(c, op, ignore)
  PROVE  Data' /\ AllSound' /\ \A d \in Clients : req'[d].pc \in {req[d].pc, "queued"}
<1> DEFINE step == IF op = "putCompile" THEN "put" ELSE op
           r == [NoReq EXCEPT !.pc = "queued", !.op = op, !.ignore = ignore, !.step = step]
<1>1. /\ step \in Steps
      /\ op = "putCompile" => step = "put"
      /\ op # "putCompile" => step = op
  BY DEF Ops, Steps
<1>2. req' = [req EXCEPT ![c] = r] /\ UNCHANGED <<version, speaks, stored, late>>
  BY DEF Call
<1>3. r.pc = "queued"
  BY DEF NoReq
<1> HIDE DEF step
<1>4. Sound(r, c, stored, version, speaks)
  BY <1>1, CallSound DEF Data
<1> HIDE DEF r
<1>5. Moves(c, r)
  BY <1>2, <1>4 DEF Moves
<1> QED
  BY <1>2, <1>3, <1>5, OneMoves DEF Data

\* A step of the server that serves c.
LEMMA ServeMoves ==
  ASSUME Data, AllSound, NEW c \in Clients, Handle(c) \/ Send(c) \/ Absorbs(c)
  PROVE  Data' /\ AllSound'
<1> DEFINE r == req[c]
<1>1. /\ Sound(r, c, stored, version, speaks)
      /\ stored \in Texts /\ version \in 0..9
  BY DEF AllSound, Data
<1>2. UNCHANGED <<version, speaks, stored, late>>
  BY DEF Handle, Send, Absorbs
<1>3. Data'
  BY <1>2 DEF Data
<1>4. CASE Handle(c)
  <2>1. Moves(c, [r EXCEPT !.pc = "send"])
    BY <1>1, <1>2, <1>4, HandleSound DEF Moves, Handle
  <2> QED
    BY <1>3, <2>1, OneMoves
<1>5. CASE Send(c)
  <2>1. Moves(c, [r EXCEPT !.pc = "iris", !.sent = Prefix(version)])
    BY <1>1, <1>2, <1>5, SendSound DEF Moves, Send
  <2> QED
    BY <1>3, <2>1, OneMoves
<1>6. CASE Absorbs(c) /\ MovesOn(r)
  <2>1. Moves(c, [r EXCEPT !.pc = "send", !.step = "compile", !.reply = NoReply])
    BY <1>1, <1>2, <1>6, MovesOnSound DEF Moves, Absorbs
  <2> QED
    BY <1>3, <2>1, OneMoves
<1>7. CASE Absorbs(c) /\ ~MovesOn(r)
  <2>1. Moves(c, [r EXCEPT !.pc = "done", !.answer = Outcome(r), !.reply = NoReply])
    BY <1>1, <1>2, <1>7, AnswerSound DEF Moves, Absorbs
  <2> QED
    BY <1>3, <2>1, OneMoves
<1> QED
  BY <1>4, <1>5, <1>6, <1>7

LEMMA LateType ==
  ASSUME Data, AllSound, NEW C \in SUBSET Clients, Abandon(C)
  PROVE  late' \subseteq [step : {"put", "delete"}, ignore : BOOLEAN]
<1>1. \A c \in Clients : req[c] \in Req
  BY DEF AllSound, Sound
<1>2. ASSUME NEW c \in C, req[c].step \in {"put", "delete"}
      PROVE  Write(c) \in [step : {"put", "delete"}, ignore : BOOLEAN]
  <2>1. req[c].ignore \in BOOLEAN
    BY <1>1 DEF Req
  <2> QED
    BY <1>2, <2>1 DEF Write
<1> QED
  BY <1>2 DEF Abandon, Data

LEMMA TimeOutMoves ==
  ASSUME Data, AllSound, NEW c \in Clients, TimesOut(c)
  PROVE  Data' /\ AllSound'
<1>0. PICK a \in Lost(req[c]) :
         req' = [req EXCEPT ![c].pc = "done", ![c].answer = a, ![c].reply = NoReply]
  BY DEF TimesOut
<1> DEFINE r == [req[c] EXCEPT !.pc = "done", !.answer = a, !.reply = NoReply]
<1>1. Sound(r, c, stored, version, speaks)
  <2>1. a \in Unclear
    BY <1>0 DEF Lost, Unclear
  <2> QED
    BY <2>1, LostSound DEF AllSound
<1>2. req' = [req EXCEPT ![c] = r] /\ UNCHANGED <<version, speaks, stored>>
  BY <1>0 DEF TimesOut
<1> HIDE DEF r
<1>3. Moves(c, r)
  BY <1>1, <1>2 DEF Moves
<1>4. late' \subseteq [step : {"put", "delete"}, ignore : BOOLEAN]
  BY LateType DEF TimesOut
<1> QED
  BY <1>2, <1>3, <1>4, OneMoves DEF Data

LEMMA ReturnMoves ==
  ASSUME Data, AllSound, NEW c \in Clients, Return(c)
  PROVE  /\ Data' /\ AllSound'
         /\ req'[c].pc = "idle" /\ req[c].pc = "done"
         /\ \A d \in Clients \ {c} : req'[d] = req[d]
<1>1. Sound(NoReq, c, stored, version, speaks)
  BY IdleSound DEF Data
<1>2. Moves(c, NoReq)
  BY <1>1 DEF Return, Moves
<1>3. NoReq.pc = "idle"
  BY DEF NoReq
<1> QED
  BY <1>2, <1>3, OneMoves DEF Return, Data
-----------------------------------------------------------------------------
\* IRIS replies to c: what is to be shown of its next state q.
LEMMA ReplyMoves ==
  ASSUME Data, AllSound, NEW c \in Clients, NEW rep \in Reply, NEW g,
         Answers(c, rep, g), req[c].pc = "iris",
         g \in Req, g.op = req[c].op, g.step = req[c].step, g.sent = req[c].sent,
         g.writes \in {0, 1},
         g.step = "put" => (g.writes = 1 <=> Absorb(rep) = "ok"),
         g.step # "put" => g.writes = req[c].writes,
         g.step # "compile" => g.built = Absent,
         g.step = "compile" => (g.built # Absent <=> CompileOutcome(rep) = "ok"),
         g.step \in {"get", "delete"} /\ Absorb(rep) = "notFound"
            => Misses(g, version, speaks),
         stored' \in {stored, c, Stale, Absent},
         Mine(g, c, stored')
  PROVE  Data' /\ AllSound'
<1> DEFINE q == [g EXCEPT !.pc = "replied", !.reply = rep]
<1>1. /\ q \in Req /\ q.pc = "replied" /\ q.reply = rep
      /\ q.op = g.op /\ q.step = g.step /\ q.sent = g.sent
      /\ q.writes = g.writes /\ q.built = g.built /\ q.missed = g.missed
  BY DEF Req
<1>2. req' = [req EXCEPT ![c] = q] /\ UNCHANGED <<version, speaks, late>>
  BY DEF Answers
<1> HIDE DEF q
<1>3. Carries(q, req[c])
  BY <1>1 DEF Carries
<1>4. Sound(req[c], c, stored, version, speaks)
  BY DEF AllSound
<1>5. \A other : Mine(q, c, other) => Sound(q, c, other, version, speaks)
  BY <1>1, <1>3, <1>4, ReplySound DEF Misses
<1>6. Mine(q, c, stored')
  BY <1>1 DEF Mine
<1>7. Moves(c, q)
  BY <1>2, <1>5, <1>6 DEF Moves
<1>8. stored' \in Texts
  BY DEF Data, Texts
<1> QED
  BY <1>2, <1>7, <1>8, OneMoves DEF Data

\* The replies that IRIS gives, and what the client makes of them.
LEMMA ReplyKinds ==
  /\ Fine \in Reply /\ Absorb(Fine) = "ok" /\ CompileOutcome(Fine) = "ok"
  /\ \A s \in {"notFound", "conflict", "other"} :
        Status(s) \in Reply /\ Absorb(Status(s)) = s /\ CompileOutcome(Status(s)) = s
  /\ [Fine EXCEPT !.errors = TRUE] \in Reply
  /\ [Fine EXCEPT !.json = FALSE] \in Reply
  /\ [Fine EXCEPT !.failed = TRUE] \in Reply
  /\ Absorb([Fine EXCEPT !.errors = TRUE]) = "iris"
  /\ CompileOutcome([Fine EXCEPT !.errors = TRUE]) = "iris"
  /\ Absorb([Fine EXCEPT !.json = FALSE]) = "envelope"
  /\ CompileOutcome([Fine EXCEPT !.json = FALSE]) = "envelope"
  /\ CompileOutcome([Fine EXCEPT !.failed = TRUE]) = "compile"
BY DEF Fine, Status, Reply, Absorb, CompileOutcome

LEMMA IrisRequest ==
  ASSUME AllSound, NEW c \in Clients, req[c].pc = "iris"
  PROVE  /\ req[c] \in Req
         /\ req[c].built = Absent /\ req[c].writes \in {0, 1}
         /\ req[c].step = "put" => req[c].writes = 0
         /\ req[c].sent = Prefix(version)
BY DEF AllSound, Sound, Kept, Routed

\* A reply that changes nothing at IRIS, to a request it keeps as it is.
LEMMA PlainReply ==
  ASSUME Data, AllSound, NEW c \in Clients, NEW rep \in Reply,
         Answers(c, rep, req[c]), req[c].pc = "iris",
         req[c].step = "put" => Absorb(rep) # "ok",
         req[c].step = "compile" => CompileOutcome(rep) # "ok",
         req[c].step \in {"get", "delete"} /\ Absorb(rep) = "notFound"
            => Misses(req[c], version, speaks),
         stored' \in {stored, Absent}
  PROVE  Data' /\ AllSound'
<1>1. Mine(req[c], c, stored')
  BY IrisRequest DEF Mine
<1> QED
  BY <1>1, IrisRequest, ReplyMoves

\* A get or delete that meets no document.
LEMMA MissingReply ==
  ASSUME Data, AllSound, NEW c \in Clients,
         Answers(c, Status("notFound"), [req[c] EXCEPT !.missed = TRUE]),
         req[c].pc = "iris", req[c].step \in {"get", "delete"},
         stored' \in {stored, Absent}
  PROVE  Data' /\ AllSound'
<1> DEFINE g == [req[c] EXCEPT !.missed = TRUE]
<1>1. /\ g \in Req /\ g.missed
      /\ g.op = req[c].op /\ g.step = req[c].step /\ g.sent = req[c].sent
      /\ g.writes = req[c].writes /\ g.built = Absent
  BY IrisRequest DEF Req
<1> HIDE DEF g
<1>2. Answers(c, Status("notFound"), g)
  BY DEF g
<1>3. Mine(g, c, stored') /\ Misses(g, version, speaks)
  BY <1>1 DEF Mine, Misses
<1>4. Status("notFound") \in Reply
  BY ReplyKinds
<1> QED
  BY <1>1, <1>2, <1>3, <1>4, IrisRequest, ReplyMoves

LEMMA WriteMoves ==
  ASSUME Data, AllSound, NEW c \in Clients, Writes(c)
  PROVE  Data' /\ AllSound'
<1> DEFINE g == [req[c] EXCEPT !.writes = @ + 1]
<1>1. req[c].pc = "iris" /\ req[c].step = "put" /\ stored' = c /\ Answers(c, Fine, g)
  BY DEF Writes, Asked
<1>2. /\ g \in Req /\ g.writes = 1
      /\ g.op = req[c].op /\ g.step = "put" /\ g.sent = req[c].sent
      /\ g.built = Absent
  BY <1>1, IrisRequest DEF Req
<1> HIDE DEF g
<1>3. Mine(g, c, stored')
  BY <1>2 DEF Mine
<1> QED
  BY <1>1, <1>2, <1>3, ReplyKinds, IrisRequest, ReplyMoves

LEMMA CompileMoves ==
  ASSUME Data, AllSound, NEW c \in Clients, Compiles(c)
  PROVE  Data' /\ AllSound'
<1> DEFINE g == [req[c] EXCEPT !.built = stored]
<1>1. /\ req[c].pc = "iris" /\ req[c].step = "compile"
      /\ stored # Absent /\ stored' = stored /\ Answers(c, Fine, g)
  BY DEF Compiles, Asked
<1>2. /\ g \in Req /\ g.writes = req[c].writes
      /\ g.op = req[c].op /\ g.step = "compile" /\ g.sent = req[c].sent
      /\ g.built = stored
  BY <1>1, IrisRequest DEF Req, Data
<1> HIDE DEF g
<1>3. Mine(g, c, stored')
  BY <1>1, <1>2 DEF Mine
<1> QED
  BY <1>1, <1>2, <1>3, ReplyKinds, IrisRequest, ReplyMoves

LEMMA RejectMoves ==
  ASSUME Data, AllSound, NEW c \in Clients, Rejects(c)
  PROVE  Data' /\ AllSound'
<1>1. req[c].pc = "iris" /\ stored' = stored
  BY DEF Rejects
<1>2. CASE req[c].sent > speaks /\ Answers(c, Status("notFound"), req[c])
  <2>1. Misses(req[c], version, speaks)
    BY <1>1, <1>2, IrisRequest DEF Misses
  <2> QED
    BY <1>1, <1>2, <2>1, ReplyKinds, PlainReply
<1>3. CASE Answers(c, Status("other"), req[c])
  BY <1>1, <1>3, ReplyKinds, PlainReply
<1>4. CASE Answers(c, [Fine EXCEPT !.errors = TRUE], req[c])
  BY <1>1, <1>4, ReplyKinds, PlainReply
<1>5. CASE Answers(c, [Fine EXCEPT !.json = FALSE], req[c])
  BY <1>1, <1>5, ReplyKinds, PlainReply
<1> QED
  BY <1>2, <1>3, <1>4, <1>5 DEF Rejects

LEMMA LateWrite ==
  ASSUME Data, AllSound, NEW w \in late, ServesLate(w)
  PROVE  Data' /\ AllSound' /\ UNCHANGED req
<1>1. /\ UNCHANGED <<version, speaks, req>> /\ late' \subseteq late
      /\ stored' \in {stored, Stale, Absent}
  BY DEF ServesLate
<1>2. Data'
  BY <1>1 DEF Data, Texts
<1>3. ASSUME NEW c \in Clients
      PROVE  Sound(req[c], c, stored', version, speaks)
  <2>1. Sound(req[c], c, stored, version, speaks)
    BY DEF AllSound
  <2>2. stored' = c => stored = c
    BY <1>1, TextAssumption
  <2> QED
    BY <2>1, <2>2 DEF Sound, Mine
<1> QED
  BY <1>1, <1>2, <1>3 DEF AllSound

LEMMA IrisMoves ==
  ASSUME Data, AllSound, Iris
  PROVE  /\ Data' /\ AllSound'
         /\ UNCHANGED req \/ \E c \in Clients : req[c].pc = "iris"
<1>1. ASSUME NEW c \in Clients, Finds(c) PROVE Data' /\ AllSound'
  <2>1. req[c].pc = "iris" /\ req[c].step = "get" /\ stored' = stored
    BY <1>1 DEF Finds, Asked
  <2>2. CASE stored = Absent
    BY <1>1, <2>1, <2>2, MissingReply DEF Finds
  <2>3. CASE stored # Absent
    BY <1>1, <2>1, <2>3, ReplyKinds, PlainReply DEF Finds
  <2> QED
    BY <2>2, <2>3
<1>2. ASSUME NEW c \in Clients, Deletes(c) PROVE Data' /\ AllSound'
  <2>1. req[c].pc = "iris" /\ req[c].step = "delete" /\ stored' = Absent
    BY <1>2 DEF Deletes, Asked
  <2>2. CASE stored = Absent
    BY <1>2, <2>1, <2>2, MissingReply DEF Deletes
  <2>3. CASE stored # Absent
    BY <1>2, <2>1, <2>3, ReplyKinds, PlainReply DEF Deletes
  <2> QED
    BY <2>2, <2>3
<1>3. ASSUME NEW c \in Clients, Conflicts(c) PROVE Data' /\ AllSound'
  BY <1>3, ReplyKinds, PlainReply DEF Conflicts, Asked
<1>4. ASSUME NEW c \in Clients, FailsToCompile(c) PROVE Data' /\ AllSound'
  BY <1>4, ReplyKinds, PlainReply DEF FailsToCompile, Asked
<1>5. CASE \E w \in late : ServesLate(w)
  BY <1>5, LateWrite
<1>6. CASE \E c \in Clients : \/ Finds(c) \/ Writes(c) \/ Conflicts(c) \/ Deletes(c)
                              \/ Compiles(c) \/ FailsToCompile(c) \/ Rejects(c)
  <2>1. PICK c \in Clients : \/ Finds(c) \/ Writes(c) \/ Conflicts(c) \/ Deletes(c)
                             \/ Compiles(c) \/ FailsToCompile(c) \/ Rejects(c)
    BY <1>6
  <2>2. req[c].pc = "iris"
    BY <2>1 DEF Finds, Writes, Conflicts, Deletes, Compiles, FailsToCompile, Rejects, Asked
  <2> QED
    BY <2>1, <2>2, <1>1, <1>2, <1>3, <1>4, WriteMoves, CompileMoves, RejectMoves
<1> QED
  BY <1>5, <1>6 DEF Iris
-----------------------------------------------------------------------------
\* Each step of the server keeps the invariant.
LEMMA InvInit == Init => IInv
<1> SUFFICES ASSUME Init PROVE IInv
  OBVIOUS
<1>1. version = 0 /\ speaks = 7 /\ stored \in Texts /\ late = {}
  BY DEF Init, DInit, Texts
<1>2. Data
  BY <1>1 DEF Data
<1>3. req = [c \in Clients |-> NoReq]
  BY DEF Init, DInit
<1>4. AllSound
  BY <1>1, <1>3, IdleSound DEF AllSound
<1>5. \A c \in Clients : req[c].pc = "idle"
  BY <1>3 DEF NoReq
<1>6. door \in Door /\ ~door.asked /\ door.pc \in {"start", "bound"}
  <2>1. CASE door = [kind |-> "server", pc |-> "start", asked |-> FALSE]
    BY <2>1 DEF Door
  <2>2. CASE door = [kind |-> "server", pc |-> "bound", asked |-> FALSE]
    BY <2>2 DEF Door
  <2>3. CASE door = [kind |-> "command", pc |-> "bound", asked |-> FALSE]
    BY <2>3 DEF Door
  <2> QED
    BY <2>1, <2>2, <2>3 DEF Init
<1>7. InOrder
  BY <1>5, <1>6 DEF InOrder
<1> QED
  BY <1>2, <1>4, <1>7 DEF IInv

\* The door's own steps, which leave the documents alone.
LEMMA DoorSteps ==
  ASSUME IInv, Refuse \/ Bind \/ Probe \/ Finish \/ UNCHANGED vars
  PROVE  IInv'
<1>1. UNCHANGED dvars
  BY DEF Refuse, Bind, Probe, Finish, vars, dvars
<1>2. Data' /\ AllSound'
  BY <1>1 DEF IInv, Data, AllSound, dvars
<1>3. InOrder'
  <2>1. UNCHANGED req /\ InOrder
    BY <1>1 DEF dvars, IInv
  <2>2. CASE Refuse
    BY <2>1, <2>2 DEF Refuse, InOrder, Door
  <2>3. CASE Bind
    BY <2>1, <2>3 DEF Bind, InOrder, Door
  <2>4. CASE Probe
    BY <2>1, <2>4 DEF Probe, InOrder, Door
  <2>5. CASE Finish
    BY <2>1, <2>5 DEF Finish, InOrder, Door
  <2>6. CASE UNCHANGED vars
    BY <2>1, <2>6 DEF vars, InOrder
  <2> QED
    BY <2>2, <2>3, <2>4, <2>5, <2>6
<1> QED
  BY <1>2, <1>3 DEF IInv

\* The version may change because nobody has been served under the old one.
LEMMA ProbedStep ==
  ASSUME IInv, Probed
  PROVE  IInv'
<1>1. \A c \in Clients : req[c].pc \in {"idle", "queued"}
  BY DEF IInv, InOrder, Probed
<1>2. version' \in 0..9 /\ UNCHANGED <<speaks, stored, late, req>>
  <2>1. version' \in {version, speaks}
    BY DEF Probed, Negotiated
  <2> QED
    BY <2>1 DEF IInv, Data, Probed
<1>3. Data'
  BY <1>2 DEF IInv, Data
<1>4. ASSUME NEW c \in Clients
      PROVE  Sound(req[c], c, stored, version', speaks)
  <2>1. Sound(req[c], c, stored, version, speaks)
    BY DEF IInv, AllSound
  <2>2. Routed(req[c], version', speaks)
    BY <1>1, <2>1 DEF Sound, Kept, Routed
  <2> QED
    BY <2>1, <2>2 DEF Sound
<1>5. AllSound'
  BY <1>2, <1>4 DEF IInv, AllSound
<1>6. InOrder'
  BY <1>2 DEF IInv, InOrder, Probed, Door
<1> QED
  BY <1>3, <1>5, <1>6 DEF IInv

LEMMA StopStep ==
  ASSUME IInv, Stop
  PROVE  IInv'
<1>1. UNCHANGED <<version, speaks, stored>>
  BY DEF Stop
<1>2. Data'
  BY <1>1, LateType DEF Stop, IInv, Data, Pending
<1>3. ASSUME NEW c \in Clients
      PROVE  /\ Sound(req'[c], c, stored, version, speaks)
             /\ req'[c].pc \in {"idle", "done"}
  <2>1. Sound(req[c], c, stored, version, speaks)
    BY DEF IInv, AllSound
  <2>2. CASE c \in Pending
    <3> DEFINE r == [req[c] EXCEPT !.pc = "done", !.answer = "dropped", !.reply = NoReply]
    <3>1. req'[c] = r
      BY <2>2 DEF Stop
    <3>2. Sound(r, c, stored, version, speaks)
      BY <2>1, LostSound DEF Unclear
    <3>3. r.pc = "done"
      BY <2>1 DEF Sound, Req
    <3> QED
      BY <3>1, <3>2, <3>3
  <2>3. CASE c \notin Pending
    <3>1. req'[c] = req[c]
      BY <2>3 DEF Stop
    <3>2. req[c].pc \in {"idle", "done"}
      BY <2>1, <2>3 DEF Pending, Sound, Req
    <3> QED
      BY <2>1, <3>1, <3>2
  <2> QED
    BY <2>2, <2>3
<1>4. AllSound'
  BY <1>1, <1>3 DEF Stop, AllSound
<1>5. InOrder'
  BY <1>3 DEF Stop, IInv, InOrder, Door
<1> QED
  BY <1>2, <1>4, <1>5 DEF IInv

\* Steps of the server while it serves, and of IRIS.
LEMMA OpenStep ==
  ASSUME IInv, door.pc \in {"serving", "calling"}, door' = door, Data', AllSound'
  PROVE  IInv'
BY DEF IInv, InOrder

LEMMA IrisStep ==
  ASSUME IInv, Iris, UNCHANGED door
  PROVE  IInv'
<1>1. Data' /\ AllSound'
  BY IrisMoves DEF IInv
<1>2. CASE UNCHANGED req
  BY <1>1, <1>2 DEF IInv, InOrder
<1>3. CASE \E c \in Clients : req[c].pc = "iris"
  <2>1. door.pc \in {"serving", "calling"}
    BY <1>3 DEF IInv, InOrder, Door
  <2> QED
    BY <1>1, <2>1, OpenStep
<1> QED
  BY <1>2, <1>3, IrisMoves DEF IInv

LEMMA ServeStep ==
  ASSUME IInv, NEW c \in Clients, Serve(c) \/ GiveUp(c)
  PROVE  IInv'
<1>1. CASE Serve(c)
  <2>1. Data' /\ AllSound'
    BY <1>1, ServeMoves DEF Serve, IInv
  <2> QED
    BY <1>1, <2>1, OpenStep DEF Serve, Open
<1>2. CASE GiveUp(c)
  <2>1. Data' /\ AllSound'
    BY <1>2, TimeOutMoves DEF GiveUp, IInv
  <2>2. req[c].pc \in {"send", "iris", "replied"}
    BY <1>2 DEF GiveUp, TimesOut
  <2>3. door.pc \in {"serving", "calling"}
    BY <2>2 DEF IInv, InOrder, Door
  <2> QED
    BY <1>2, <2>1, <2>3, OpenStep DEF GiveUp
<1> QED
  BY <1>1, <1>2

LEMMA ReadStep ==
  ASSUME IInv, NEW c \in Clients, Read(c)
  PROVE  IInv'
<1>1. /\ Data' /\ AllSound'
      /\ req'[c].pc = "idle" /\ req[c].pc = "done"
      /\ \A d \in Clients \ {c} : req'[d] = req[d]
  BY ReturnMoves DEF Read, IInv
<1>2. InOrder'
  BY <1>1 DEF Read, IInv, InOrder
<1> QED
  BY <1>1, <1>2 DEF IInv

LEMMA CallStep ==
  ASSUME IInv, NEW c \in Clients, NEW in \in Inputs,
         Request(c, in[1], in[2]) \/ Command(c, in[1], in[2])
  PROVE  IInv'
<1>1. in[1] \in Ops /\ in[2] \in BOOLEAN
  BY DEF Inputs
<1>2. Call(c, in[1], in[2])
  BY DEF Request, Command
<1>3. Data' /\ AllSound' /\ \A d \in Clients : req'[d].pc \in {req[d].pc, "queued"}
  BY <1>1, <1>2, CallMoves DEF IInv
<1>4. InOrder'
  <2>1. CASE Request(c, in[1], in[2])
    BY <1>3, <2>1 DEF Request, IInv, InOrder
  <2>2. CASE Command(c, in[1], in[2])
    <3>1. door' \in Door /\ door'.pc = "calling"
      BY <2>2 DEF Command, IInv, InOrder, Door
    <3> QED
      BY <3>1 DEF InOrder
  <2> QED
    BY <2>1, <2>2
<1> QED
  BY <1>3, <1>4 DEF IInv

LEMMA InvNext == IInv /\ [Next]_vars => IInv'
<1> SUFFICES ASSUME IInv, [Next]_vars PROVE IInv'
  OBVIOUS
<1>1. CASE Refuse \/ Bind \/ Probe \/ Finish \/ UNCHANGED vars
  BY <1>1, DoorSteps
<1>2. CASE Probed \/ Stop
  BY <1>2, ProbedStep, StopStep
<1>3. CASE \E c \in Clients : Serve(c) \/ GiveUp(c) \/ Read(c)
  BY <1>3, ServeStep, ReadStep
<1>4. CASE \E c \in Clients, in \in Inputs :
              Request(c, in[1], in[2]) \/ Command(c, in[1], in[2])
  BY <1>4, CallStep
<1>5. CASE Iris /\ UNCHANGED door
  BY <1>5, IrisStep
<1> QED
  BY <1>1, <1>2, <1>3, <1>4, <1>5 DEF Next

LEMMA InvHolds == Safe => []IInv
BY InvInit, InvNext, PTL DEF Safe
-----------------------------------------------------------------------------
\* Types, and nobody is served before the door serves or after it ended.
THEOREM ServerTypeCorrect == Safe => []ServerTypeOK
<1>1. IInv => ServerTypeOK
  <2> SUFFICES ASSUME IInv PROVE ServerTypeOK
    OBVIOUS
  <2>1. \A c \in Clients : req[c] \in Req /\ Fits(req[c])
    BY DEF IInv, AllSound, Sound
  <2>2. req \in [Clients -> Req]
    BY <2>1 DEF IInv, AllSound
  <2>3. DocumentsTypeOK
    BY <2>1, <2>2 DEF DocumentsTypeOK, IInv, Data, Fits
  <2>4. door.pc \notin {"serving", "calling"} =>
            \A c \in Clients : req[c].pc \in {"idle", "queued", "done"}
    BY DEF IInv, InOrder, Door
  <2> QED
    BY <2>3, <2>4 DEF ServerTypeOK, IInv, InOrder
<1> QED
  BY InvHolds, <1>1, PTL

\* A document tool that reports success has done what it was asked for.
THEOREM SuccessIsDone == Safe => []SuccessMeansDone
<1>1. IInv => SuccessMeansDone
  BY DEF IInv, AllSound, Sound, Says, Mine, SuccessMeansDone, Answered
<1> QED
  BY InvHolds, <1>1, PTL

\* A document tool that reports an error of IRIS's own has left nothing behind, but
\* for the put of a put_and_compile; after a network error, an invalid envelope or a
\* connection that ended, it has written at most once; and what was not found was
\* not there.
THEOREM FailureIsUndone == Safe => []FailureMeansUndone
<1>1. IInv => NotFoundMeansAbsent
  BY DEF IInv, AllSound, Sound, Routed, Misses, NotFoundMeansAbsent, Answered
<1>2. IInv => FailureMeansUndone
  <2> SUFFICES ASSUME IInv, NEW c \in Clients
               PROVE  /\ req[c].writes <= 1
                      /\ req[c].pc = "done" /\ req[c].answer \notin {"ok"} \cup Unclear =>
                            /\ req[c].writes > 0 => req[c].op = "putCompile" /\ req[c].step = "compile"
                            /\ req[c].built = Absent
    BY <1>1 DEF FailureMeansUndone
  <2>1. Kept(req[c]) /\ Says(req[c])
    BY DEF IInv, AllSound, Sound
  <2> QED
    BY <2>1 DEF Kept, Says
<1> QED
  BY InvHolds, <1>2, PTL

\* A door that fails has asked nothing of IRIS and keeps nobody waiting, and all
\* requests of a process carry the version it negotiated.
THEOREM StartsStayOrdered == Safe => []StartsInOrder
<1>1. IInv => StartsInOrder
  BY DEF IInv, AllSound, Sound, Routed, InOrder, StartsInOrder
<1> QED
  BY InvHolds, <1>1, PTL
=============================================================================
