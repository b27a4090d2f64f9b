----------------------------- MODULE McpServer ------------------------------
(***************************************************************************)
(* The process around the document tools: the MCP server behind its stdio  *)
(* or HTTP door (src/src/mcp/mod.rs, mcp/http.rs), or one command of the   *)
(* command line (src/src/main.rs).  A door binds, says that it is ready,   *)
(* asks IRIS for its API version, serves, and ends whatever is under way;  *)
(* what IRIS has been sent by then it may still do.                        *)
(*                                                                         *)
(* The HTTP listener accepts connections from the moment it is bound, and  *)
(* stdin holds requests from the start; both are served after the version  *)
(* was asked for.  Until then a signal ends the process at once, since the *)
(* handlers are not installed.                                             *)
(***************************************************************************)
EXTENDS Documents

VARIABLE door

vars == <<version, speaks, stored, late, req, door>>

\* `pc`: an HTTP door starts with the bind, the stdio door with its pipes open;
\* `asked`: IRIS has been contacted.
Door == [kind : {"server", "command"},
         pc : {"start", "refused", "bound", "probing", "serving", "calling", "exited"},
         asked : BOOLEAN]

\* serve_mcp has chosen transport, host and port. This IRIS does not serve the
\* version that the client takes before it has negotiated one.
Init ==
    /\ DInit(0, 7)
    /\ door \in {[kind |-> "server", pc |-> "start", asked |-> FALSE],
                 [kind |-> "server", pc |-> "bound", asked |-> FALSE],
                 [kind |-> "command", pc |-> "bound", asked |-> FALSE]}

Running == door.pc \notin {"refused", "exited"}
-----------------------------------------------------------------------------
\* check_bind_policy refuses the host, or the port is not free.
Refuse ==
    /\ door.pc = "start"
    /\ door' = [door EXCEPT !.pc = "refused"]
    /\ UNCHANGED dvars

Bind ==
    /\ door.pc = "start"
    /\ door' = [door EXCEPT !.pc = "bound"]
    /\ UNCHANGED dvars

\* Seeded fault: the handler is built, with its negotiation, before the bind.
ProbeFaulty ==
    /\ door.pc \in {"start", "bound"} /\ ~door.asked
    /\ door' = [door EXCEPT !.asked = TRUE, !.pc = IF @ = "start" THEN "start" ELSE "probing"]
    /\ UNCHANGED dvars

\* RismMcp::new, or the client of a command, asks for the API version.
Probe ==
    /\ door.pc = "bound"
    /\ door' = [door EXCEPT !.pc = "probing", !.asked = TRUE]
    /\ UNCHANGED dvars

\* Whatever comes of it, the process goes on.
Probed ==
    /\ door.pc = "probing"
    /\ \E r \in {Fine, Status("other"), [Fine EXCEPT !.json = FALSE]} :
          version' = Negotiated(version, r, speaks)
    /\ door' = [door EXCEPT !.pc = "serving"]
    /\ UNCHANGED <<speaks, stored, late, req>>

\* A client sends a call to the server.
Request(c, op, ignore) ==
    /\ door.kind = "server" /\ door.pc \in {"bound", "probing", "serving"}
    /\ Call(c, op, ignore)
    /\ UNCHANGED door

\* The command line makes its one call, and exits when it has the answer.
Command(c, op, ignore) ==
    /\ door.kind = "command" /\ door.pc = "serving"
    /\ Call(c, op, ignore)
    /\ door' = [door EXCEPT !.pc = "calling"]

Finish ==
    /\ door.pc = "calling"
    /\ \A c \in Clients : req[c].pc = "idle"
    /\ door' = [door EXCEPT !.pc = "exited"]
    /\ UNCHANGED dvars

\* Seeded fault: requests are served while the version is asked for.
OpenFaulty == Running

Open == door.pc \in {"serving", "calling"}

Serve(c) ==
    /\ Open
    /\ Handle(c) \/ Send(c) \/ Absorbs(c)
    /\ UNCHANGED door

GiveUp(c) == Running /\ TimesOut(c) /\ UNCHANGED door

Read(c) == Return(c) /\ UNCHANGED door

\* Seeded fault: requests that were never handled stay unanswered.
PendingFaulty == {c \in Clients : req[c].pc \in {"send", "iris", "replied"}}

\* The callers that see their connection end.
Pending == {c \in Clients : req[c].pc \in {"queued", "send", "iris", "replied"}}

\* A signal, or the end of stdin. The select of serve_http_on ends with the
\* cancelled token and does not wait for open requests; what they have sent is
\* lost or served later.
Stop ==
    /\ Running
    /\ door' = [door EXCEPT !.pc = "exited"]
    /\ req' = [c \in Clients |->
                 IF c \in Pending
                 THEN [req[c] EXCEPT !.pc = "done", !.answer = "dropped", !.reply = NoReply]
                 ELSE req[c]]
    /\ Abandon(Pending)
    /\ UNCHANGED <<version, speaks, stored>>

Inputs == {in \in Ops \X BOOLEAN : in[2] => in[1] \in {"put", "putCompile"}}

Next ==
    \/ Refuse \/ Bind \/ Probe \/ Probed \/ Finish \/ Stop
    \/ \E c \in Clients : Serve(c) \/ GiveUp(c) \/ Read(c)
    \/ \E c \in Clients, in \in Inputs : Request(c, in[1], in[2]) \/ Command(c, in[1], in[2])
    \/ Iris /\ UNCHANGED door

\* The process's own steps; a wait for IRIS ends with its time-out. Nothing is
\* assumed of IRIS or of clients, but that they read what they are sent.
Fairness ==
    /\ WF_vars(Refuse \/ Bind \/ Probe \/ Probed \/ Finish)
    /\ WF_vars(\E c \in Clients, in \in Inputs : Command(c, in[1], in[2]))
    /\ \A c \in Clients : WF_vars(Serve(c) \/ GiveUp(c)) /\ WF_vars(Read(c))

Safe == Init /\ [][Next]_vars
Spec == Safe /\ Fairness
-----------------------------------------------------------------------------
(***************************************************************************)
(* Properties.                                                             *)
(***************************************************************************)

\* Every variable has its type, and nobody is served before the door serves or
\* after it ended.
ServerTypeOK ==
    /\ DocumentsTypeOK
    /\ door \in Door
    /\ door.pc \notin {"serving", "calling"} =>
          \A c \in Clients : req[c].pc \in {"idle", "queued", "done"}

\* "A refused/in-use port fails fast without ever contacting IRIS"
\* (mcp/http.rs:117-118), and leaves no client waiting behind it; and every request
\* of a process carries the same API version: no request is under way when
\* negotiate_version writes it (iris/http.rs:154-161).
StartsInOrder ==
    /\ door.pc = "refused" => ~door.asked /\ \A c \in Clients : req[c].pc = "idle"
    /\ \A c \in Clients : req[c].sent \in {0, Prefix(version)}

\* Every call a client made is answered or sees its connection end, also when IRIS
\* does not answer, when the door is still negotiating, and when it shuts down; and
\* a command of the command line ends.
CallsAnswered ==
    /\ \A c \in Clients : req[c].pc = "queued" ~> req[c].pc = "idle"
    /\ door.kind = "command" ~> door.pc = "exited"
=============================================================================
