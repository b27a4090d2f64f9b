---- MODULE ReplSession ----
\* `rism exec` without a command: the REPL loop (tools/repl.rs) driving one
\* persistent terminal session (iris/terminal.rs) against the IRIS agent, with
\* the Ctrl+C watcher of the line editor as a third process. The session is
\* reused from command to command, so whatever one command leaves in the socket
\* or in the cancel flag is found by the next.
EXTENDS TerminalAgent

CONSTANT MaxPresses  \* bound: Ctrl+C presses in the whole session

ASSUME PressAssumption == MaxPresses \in Nat

VARIABLES pc,       \* where the client is
          n,        \* number of the current command, 0 before the first
          outcome,  \* what run_line returned for each command
          seen,     \* ghost: the commands whose frames each run_with_inner consumed
          late,     \* ghost: the commands in whose settle or drain a timer ran out
                    \* with something still owed
          flag,     \* the cancel flag shared by the watcher and the frame wait
          watcher,  \* the SIGINT watcher is armed
          storing,  \* a watcher has a signal and has not stored the flag yet
          presses,  \* Ctrl+C presses left
          pressed   \* ghost: commands during whose run Ctrl+C was pressed

clientVars == <<pc, n, outcome, seen, late>>
cancelVars == <<flag, watcher, storing>>
vars == <<agentVars, clientVars, cancelVars, presses, pressed>>

----
\* "run" is about to load the flag and "wait" has loaded it as false: a Ctrl+C
\* between the two is noticed one frame later (terminal.rs:371-393). At "answer"
\* the line editor waits for the user's answer to a read.
PC == {"prompt", "run", "wait", "answer", "settle", "drain", "drainLate", "over"}

Outcome == {"none", "ok", "interrupted", "failed"}

Init ==
  /\ AgentInit
  /\ pc = "prompt"
  /\ n = 0
  /\ outcome = [c \in Commands |-> "none"]
  /\ seen = [c \in Commands |-> {}]
  /\ late = {}
  /\ flag = FALSE
  /\ watcher = FALSE
  /\ storing = FALSE
  /\ presses = MaxPresses
  /\ pressed = {}

\* On a dead socket a send fails, or is lost and the next wait fails.
Delivered(kind, c) ==
  toServer' = IF child = "closed" THEN toServer
              ELSE Append(toServer, Tagged(kind, c))

Send(kind) == Delivered(kind, n)

DisarmFaulty ==
  /\ UNCHANGED watcher
  /\ storing' \in {storing, FALSE}

\* Abort stops an idle watcher; one that already holds the signal may still
\* store it.
Disarm ==
  /\ watcher' = FALSE
  /\ storing' \in {storing, FALSE}

----
\* The Ctrl+C watcher.

\* While an answer is typed the editor owns the terminal: Ctrl+C is a key then,
\* and gives an empty answer (repl.rs:328-335).
Press ==
  /\ watcher
  /\ pc # "answer"
  /\ presses > 0
  /\ presses' = presses - 1
  /\ storing' = TRUE
  /\ pressed' = IF pc \in {"run", "wait"} THEN pressed \cup {n} ELSE pressed
  /\ UNCHANGED <<agentVars, clientVars, flag, watcher>>

Store ==
  /\ storing
  /\ flag' = TRUE
  /\ storing' = FALSE
  /\ UNCHANGED <<agentVars, clientVars, watcher, presses, pressed>>

----
\* The REPL loop: read a line, reset and arm the cancel, send the command.

ResetCancelFaulty == UNCHANGED flag

ResetCancel == flag' = FALSE

\* An aborted watcher that still holds a signal stores it while the user types.
Enter ==
  /\ pc = "prompt"
  /\ n < MaxCommands
  /\ ~storing
  /\ pc' = "run"
  /\ n' = n + 1
  /\ ResetCancel
  /\ watcher' = TRUE
  /\ Delivered("prompt", n + 1)
  /\ UNCHANGED <<toClient, childVars, outcome, seen, late, storing, presses, pressed>>

Quit ==
  /\ pc = "prompt"
  /\ pc' = "over"
  /\ UNCHANGED <<agentVars, n, outcome, seen, late, cancelVars, presses, pressed>>

\* run_line returned: disarm, always clear the flag.
Returned(result) ==
  /\ pc' = "prompt"
  /\ outcome' = [outcome EXCEPT ![n] = result]
  /\ Disarm
  /\ flag' = FALSE
  /\ UNCHANGED <<n, presses, pressed>>

----
\* run_with_inner: one command up to its prompt.

\* next_or_cancel loads the flag, then waits for a frame up to a tick of 50 ms.
Polls ==
  /\ pc = "run"
  /\ ~flag
  /\ pc' = "wait"
  /\ UNCHANGED <<agentVars, n, outcome, seen, late, cancelVars, presses, pressed>>

\* The flag is up: interrupt the child, then settle on a prompt.
Cancels ==
  /\ pc = "run"
  /\ flag
  /\ pc' = "settle"
  /\ Send("interrupt")
  /\ UNCHANGED <<toClient, childVars, n, outcome, seen, late, cancelVars, presses, pressed>>

Ticks ==
  /\ pc = "wait"
  /\ pc' = "run"
  /\ UNCHANGED <<agentVars, n, outcome, seen, late, cancelVars, presses, pressed>>

Reads(kind) ==
  /\ toClient # <<>>
  /\ Head(toClient).kind = kind
  /\ toClient' = Tail(toClient)

ReadsAs(kind) ==
  /\ Reads(kind)
  /\ seen' = [seen EXCEPT ![n] = @ \cup {Head(toClient).of}]

ReadsOutput ==
  /\ pc = "wait"
  /\ ReadsAs("output")
  /\ pc' = "run"
  /\ UNCHANGED <<toServer, childVars, n, outcome, late, cancelVars, presses, pressed>>

\* A program hit `read`: the frame wait is left for the editor's blocking
\* readline, where neither the flag nor the deadline is looked at.
ReadsRead ==
  /\ pc = "wait"
  /\ ReadsAs("read")
  /\ pc' = "answer"
  /\ UNCHANGED <<toServer, childVars, n, outcome, late, cancelVars, presses, pressed>>

\* The user types a line, or nothing with Ctrl+C or Ctrl+D.
AnswersRead ==
  /\ pc = "answer"
  /\ Send("read")
  /\ pc' = "run"
  /\ UNCHANGED <<toClient, childVars, n, outcome, seen, late, cancelVars, presses, pressed>>

ReadsPrompt ==
  /\ pc = "wait"
  /\ ReadsAs("prompt")
  /\ Returned("ok")
  /\ UNCHANGED <<toServer, childVars, late>>

BreakFaulty == UNCHANGED toServer

\* The interrupt that run_with sends after an error.
Break == Send("interrupt")

\* run_with: whatever the error, break the child and drain to a prompt.
GivesUp ==
  /\ pc' = "drain"
  /\ Break
  /\ outcome' = [outcome EXCEPT ![n] = "failed"]
  /\ UNCHANGED <<childVars, n, late, cancelVars, presses, pressed>>

\* An error frame, or an emit that fails.
ReadsError ==
  /\ pc = "wait"
  /\ \E kind \in {"error", "output"} : ReadsAs(kind)
  /\ GivesUp

\* readline fails, or the answer cannot be sent.
AnswerFails ==
  /\ pc = "answer"
  /\ GivesUp
  /\ UNCHANGED <<toClient, seen>>

\* The deadline is tested after the flag and before the frame.
Expires ==
  /\ pc = "run"
  /\ ~flag
  /\ GivesUp
  /\ UNCHANGED <<toClient, seen>>

\* The flag is up and the interrupt cannot be sent.
CancelFails ==
  /\ pc = "run"
  /\ flag
  /\ child = "closed"
  /\ GivesUp
  /\ UNCHANGED <<toClient, seen>>

LosesSocket ==
  /\ pc = "wait"
  /\ Gone
  /\ GivesUp
  /\ UNCHANGED <<toClient, seen>>

----
\* await_prompt after a cancel: any frame but a prompt is skipped, a read is
\* answered, and a failure to settle is not an error.

\* The 5 s of the settle and the 2 s of a drain run out whatever the agent still
\* owes: it may not have taken the interrupt yet, or its frames be on their way.
TimesOut ==
  /\ late' = IF Owed THEN late \cup {n} ELSE late
  /\ UNCHANGED toClient

TakesPrompt == Reads("prompt") /\ UNCHANGED late

FindsGone == Gone /\ UNCHANGED <<toClient, late>>

Skips(at) ==
  /\ pc = at
  /\ \E kind \in {"output", "error"} : Reads(kind)
  /\ UNCHANGED <<toServer, childVars, clientVars, cancelVars, presses, pressed>>

Replies(at) ==
  /\ pc = at
  /\ Reads("read")
  /\ Send("read")
  /\ UNCHANGED <<childVars, clientVars, cancelVars, presses, pressed>>

Settles ==
  /\ pc = "settle"
  /\ TakesPrompt \/ TimesOut \/ FindsGone
  /\ Returned("interrupted")
  /\ UNCHANGED <<toServer, childVars, seen>>

----
\* drain, first by run_with and then by run_repl: up to a prompt or 2 s of quiet.

DrainsFaulty(at) ==
  /\ pc = at
  /\ TakesPrompt

Drains(at) ==
  /\ pc = at
  /\ TakesPrompt \/ TimesOut

ThenDrainsFaulty == pc' = "prompt"

\* drain_late: run_repl drains again after run_with did.
ThenDrains == pc' = "drainLate"

\* run_with ignores how its drain ended. Back in run_repl the watcher is
\* disarmed, the flag cleared, and a new watcher armed for the second drain.
Drained ==
  /\ \/ Drains("drain")
     \/ pc = "drain" /\ FindsGone
  /\ ThenDrains
  /\ watcher' = TRUE
  /\ storing' \in {storing, FALSE}
  /\ flag' = FALSE
  /\ UNCHANGED <<toServer, childVars, n, outcome, seen, presses, pressed>>

DrainedLate ==
  /\ Drains("drainLate")
  /\ pc' = "prompt"
  /\ Disarm
  /\ UNCHANGED <<toServer, childVars, n, outcome, seen, flag, presses, pressed>>

\* "session lost": the only way the loop ends other than by the user.
Lost ==
  /\ pc = "drainLate"
  /\ Gone
  /\ pc' = "over"
  /\ Disarm
  /\ UNCHANGED <<agentVars, n, outcome, seen, late, flag, presses, pressed>>

----
Waits == Polls \/ Cancels \/ Ticks \/ ReadsOutput \/ ReadsRead \/ ReadsPrompt \/ ReadsError \/ CancelFails

Recovers ==
  \/ \E at \in {"settle", "drain", "drainLate"} : Skips(at) \/ Replies(at)
  \/ Settles \/ Drained \/ DrainedLate \/ Lost

Types == AnswersRead \/ AnswerFails

Agent == AgentStep /\ UNCHANGED <<clientVars, cancelVars, presses, pressed>>

Next ==
  \/ Press \/ Store \/ Enter \/ Quit \/ Types
  \/ Waits \/ Expires \/ LosesSocket \/ Recovers \/ Agent

\* The client's own steps are taken, and its deadline and timers pass. The user,
\* at the prompt or asked for an answer, and the agent owe nothing.
Fairness ==
  /\ WF_vars(Waits)
  /\ SF_vars(Expires)
  /\ WF_vars(LosesSocket)
  /\ WF_vars(Recovers)
  /\ WF_vars(Store)

Safe == Init /\ [][Next]_vars

Spec == Safe /\ Fairness

----
\* Properties.

ClientTypeOK ==
  /\ pc \in PC
  /\ n \in 0..MaxCommands
  /\ pc \notin {"prompt", "over"} => n \in Commands
  /\ watcher <=> pc \notin {"prompt", "over"}
  /\ outcome \in [Commands -> Outcome]
  /\ seen \in [Commands -> SUBSET Commands]
  /\ late \in SUBSET Commands
  /\ flag \in BOOLEAN
  /\ watcher \in BOOLEAN
  /\ storing \in BOOLEAN
  /\ presses \in 0..MaxPresses
  /\ pressed \in SUBSET Commands

\* Types; and the watcher is armed exactly while a command or its drain is under
\* way, at the prompt the line editor owns Ctrl+C (repl.rs:210-214, 339-360).
TypeOK == AgentTypeOK /\ ClientTypeOK

\* A Ctrl+C breaks the command it was pressed in and no other: a command that
\* ends as interrupted had one pressed during its own run, never during an
\* earlier command, its drain, or the prompt between two (repl.rs:162-185).
CancelStaysInCommand ==
  \A c \in Commands : outcome[c] = "interrupted" => c \in pressed

\* The two ways in which a command leaves something for the next: its recovery
\* ran out of time with something still owed, or its interrupt came after its
\* own end, so that the settle took the command's prompt for the interrupt's.
Strayed(c) == c \in late \/ (outcome[c] = "interrupted" /\ c \in ended)

InSync ==
  /\ toServer = <<>>
  /\ toClient = <<>>
  /\ child \in {"idle", "closed"}

\* No command consumes a frame that an earlier one caused, whatever deadlines,
\* error frames, broken output and cancels came before, unless one of those
\* commands strayed: in time, an interrupt and two drains, or an interrupt that
\* stopped the child and one settle, are enough to resynchronise
\* (terminal.rs:260-283, repl.rs:201-204).
NoLeftovers ==
  \A c \in Commands :
     (\A d \in Commands : d < c => ~Strayed(d)) => seen[c] \subseteq {c}

\* Back at the prompt after a command that failed, nothing of it is in the
\* socket or running on the server: "nothing mutates the namespace after we gave
\* up" (terminal.rs:183-185, repl.rs:201-204), unless its drain ran out of time
\* or an earlier command strayed.
CleanAfterFailure ==
  pc = "prompt" /\ n > 0 /\ outcome[n] = "failed" /\ (\A d \in Commands : d <= n => ~Strayed(d))
     => InSync

\* Every command gives the prompt back, asks the user for an answer, or ends the
\* session because the socket is gone: a silent child runs into the deadline, an
\* interrupt nobody answers into the 5 s of the settle or the 2 s of a drain.
PromptReturns ==
  pc \notin {"prompt", "answer", "over"} ~> pc \in {"prompt", "answer", "over"}
====
