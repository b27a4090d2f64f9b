---- MODULE TerminalAgent ----
\* The IRIS end of a terminal WebSocket: one child process that executes one
\* command at a time, and the two FIFO directions of the socket. The agent is
\* not part of this repository; it is modelled from what iris/terminal.rs sends
\* to it, reads from it and says of it (terminal.rs:260-280 and 409-418: an
\* interrupt of a running child is answered by <INTERRUPT> and a prompt; one
\* that hits an exited child by an error frame and a prompt, or a close).
EXTENDS Naturals, Sequences

CONSTANTS MaxCommands,  \* commands one session runs
          MaxFrames     \* output, read and error frames of one command

ASSUME AgentAssumption == MaxCommands \in Nat /\ MaxFrames \in Nat

VARIABLES toServer,  \* messages the client sent and the agent has not taken
          toClient,  \* frames the agent sent and the client has not read
          child,     \* "idle" | "executing" | "reading" | "closed"
          childOf,   \* the command the child last executed
          frames,    \* frames that command may still send
          ended      \* ghost: the commands that came to their own end

childVars == <<child, childOf, frames, ended>>
agentVars == <<toServer, toClient, childVars>>

Commands == 1..MaxCommands

\* What the client says: a command line, an interrupt, the answer to a read.
Message == [kind : {"prompt", "interrupt", "read"}, of : Commands]

\* What the agent says. `of` is a ghost: the command that caused the frame.
Frame == [kind : {"output", "prompt", "read", "error"}, of : Commands]

AgentInit ==
  /\ toServer = <<>>
  /\ toClient = <<>>
  /\ child = "idle"
  /\ childOf = 0
  /\ frames = 0
  /\ ended = {}

Tagged(kind, c) == [kind |-> kind, of |-> c]

Took(kind) ==
  /\ child # "closed"
  /\ toServer # <<>>
  /\ Head(toServer).kind = kind
  /\ toServer' = Tail(toServer)

TakesCommand ==
  /\ child = "idle"
  /\ Took("prompt")
  /\ child' = "executing"
  /\ childOf' = Head(toServer).of
  /\ frames' = MaxFrames
  /\ UNCHANGED <<toClient, ended>>

\* The answer unblocks the child; one that nobody waits for is dropped.
TakesAnswer ==
  /\ Took("read")
  /\ child' = IF child = "reading" THEN "executing" ELSE child
  /\ UNCHANGED <<toClient, childOf, frames, ended>>

BreaksChild ==
  /\ child \in {"executing", "reading"}
  /\ Took("interrupt")
  /\ child' = "idle"
  /\ toClient' = toClient \o <<Tagged("output", childOf), Tagged("prompt", childOf)>>
  /\ UNCHANGED <<childOf, frames, ended>>

\* The interrupt found the child gone: ERROR #6704 and a prompt (the agent may
\* also just close the socket, which is Drops).
BreaksNothing ==
  /\ child = "idle"
  /\ Took("interrupt")
  /\ LET c == Head(toServer).of
     IN  toClient' = toClient \o <<Tagged("error", c), Tagged("prompt", c)>>
  /\ UNCHANGED childVars

Emits ==
  /\ child = "executing"
  /\ frames > 0
  /\ \E kind \in {"output", "read", "error"} :
       /\ toClient' = Append(toClient, Tagged(kind, childOf))
       /\ child' = IF kind = "read" THEN "reading" ELSE "executing"
  /\ frames' = frames - 1
  /\ UNCHANGED <<toServer, childOf, ended>>

Finishes ==
  /\ child = "executing"
  /\ child' = "idle"
  /\ toClient' = Append(toClient, Tagged("prompt", childOf))
  /\ ended' = ended \cup {childOf}
  /\ UNCHANGED <<toServer, childOf, frames>>

\* The connection drops: what the client said is lost, frames already
\* delivered can still be read.
Drops ==
  /\ child # "closed"
  /\ child' = "closed"
  /\ toServer' = <<>>
  /\ UNCHANGED <<toClient, childOf, frames, ended>>

Answers == TakesCommand \/ TakesAnswer \/ BreaksChild \/ BreaksNothing

AgentStep == Answers \/ Emits \/ Finishes \/ Drops

\* One of the two sides has still something to take: a message, or a frame.
Owed == toServer # <<>> \/ toClient # <<>>

\* What an ended connection had delivered is read.
Gone == toClient = <<>> /\ child = "closed"

\* The socket's type; a child that runs, runs a command of this session.
AgentTypeOK ==
  /\ toServer \in Seq(Message)
  /\ toClient \in Seq(Frame)
  /\ child \in {"idle", "executing", "reading", "closed"}
  /\ childOf \in 0..MaxCommands
  /\ child \in {"executing", "reading"} => childOf \in Commands
  /\ frames \in 0..MaxFrames
  /\ ended \in SUBSET Commands
====
