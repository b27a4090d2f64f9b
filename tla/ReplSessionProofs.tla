---- MODULE ReplSessionProofs ----
\* Proofs about the REPL session, for any number of commands, frames and
\* presses of Ctrl+C.
EXTENDS ReplSession, SequenceTheorems, TLAPS

USE DEF childVars

----
\* What moves through the socket keeps its type.

LEMMA DeliveredType ==
  ASSUME NEW kind \in {"prompt", "interrupt", "read"}, NEW c \in Commands,
         AgentTypeOK, Delivered(kind, c)
  PROVE  toServer' \in Seq(Message)
<1>1. Tagged(kind, c) \in Message
  BY DEF Tagged, Message
<1>2. toServer \in Seq(Message)
  BY DEF AgentTypeOK
<1>3. Append(toServer, Tagged(kind, c)) \in Seq(Message)
  BY <1>1, <1>2
<1> QED
  BY <1>2, <1>3 DEF Delivered

LEMMA ReadType ==
  ASSUME NEW kind, AgentTypeOK, Reads(kind)
  PROVE  toClient' \in Seq(Frame) /\ Head(toClient).of \in Commands
<1>1. toClient \in Seq(Frame) /\ toClient # <<>>
  BY DEF AgentTypeOK, Reads
<1>2. Head(toClient) \in Frame /\ Tail(toClient) \in Seq(Frame)
  BY <1>1
<1> QED
  BY <1>2 DEF Reads, Frame

LEMMA TakenType ==
  ASSUME NEW kind, AgentTypeOK, Took(kind)
  PROVE  toServer' \in Seq(Message) /\ Head(toServer).of \in Commands
<1>1. toServer \in Seq(Message) /\ toServer # <<>>
  BY DEF AgentTypeOK, Took
<1>2. Head(toServer) \in Message /\ Tail(toServer) \in Seq(Message)
  BY <1>1
<1> QED
  BY <1>2 DEF Took, Message

LEMMA SaidType ==
  ASSUME NEW kind \in {"output", "prompt", "read", "error"}, NEW c \in Commands
  PROVE  Tagged(kind, c) \in Frame
BY DEF Tagged, Frame

LEMMA SaidTwiceType ==
  ASSUME NEW a \in Frame, NEW b \in Frame, AgentTypeOK
  PROVE  toClient \o <<a, b>> \in Seq(Frame)
<1>1. <<a, b>> \in Seq(Frame)
  OBVIOUS
<1>2. toClient \in Seq(Frame)
  BY DEF AgentTypeOK
<1> QED
  BY <1>1, <1>2

LEMMA AgentKeepsType ==
  ASSUME AgentTypeOK, AgentStep
  PROVE  AgentTypeOK'
<1> USE AgentAssumption
<1>1. CASE TakesCommand
  <2>1. toServer' \in Seq(Message) /\ Head(toServer).of \in Commands
    BY <1>1, TakenType DEF TakesCommand
  <2> QED
    BY <1>1, <2>1 DEF TakesCommand, AgentTypeOK, Commands
<1>2. CASE TakesAnswer
  <2>1. toServer' \in Seq(Message)
    BY <1>2, TakenType DEF TakesAnswer
  <2> QED
    BY <1>2, <2>1 DEF TakesAnswer, AgentTypeOK
<1>3. CASE BreaksChild
  <2>1. toServer' \in Seq(Message)
    BY <1>3, TakenType DEF BreaksChild
  <2>2. childOf \in Commands
    BY <1>3 DEF BreaksChild, AgentTypeOK
  <2>3. toClient' \in Seq(Frame)
    BY <1>3, <2>2, SaidType, SaidTwiceType DEF BreaksChild
  <2> QED
    BY <1>3, <2>1, <2>2, <2>3 DEF BreaksChild, AgentTypeOK
<1>4. CASE BreaksNothing
  <2>1. toServer' \in Seq(Message) /\ Head(toServer).of \in Commands
    BY <1>4, TakenType DEF BreaksNothing
  <2>2. toClient' \in Seq(Frame)
    BY <1>4, <2>1, SaidType, SaidTwiceType DEF BreaksNothing
  <2> QED
    BY <1>4, <2>1, <2>2 DEF BreaksNothing, AgentTypeOK
<1>5. CASE Emits
  <2>1. childOf \in Commands
    BY <1>5 DEF Emits, AgentTypeOK
  <2>2. PICK kind \in {"output", "read", "error"} :
          /\ toClient' = Append(toClient, Tagged(kind, childOf))
          /\ child' = IF kind = "read" THEN "reading" ELSE "executing"
    BY <1>5 DEF Emits
  <2>3. Tagged(kind, childOf) \in Frame
    BY <2>1, SaidType
  <2>4. toClient' \in Seq(Frame)
    BY <2>2, <2>3 DEF AgentTypeOK
  <2>5. frames' \in 0..MaxFrames
    BY <1>5 DEF Emits, AgentTypeOK
  <2> QED
    BY <1>5, <2>1, <2>2, <2>4, <2>5 DEF Emits, AgentTypeOK
<1>6. CASE Finishes
  <2>1. childOf \in Commands
    BY <1>6 DEF Finishes, AgentTypeOK
  <2>2. Tagged("prompt", childOf) \in Frame
    BY <2>1, SaidType
  <2>3. toClient' \in Seq(Frame)
    BY <1>6, <2>2 DEF Finishes, AgentTypeOK
  <2>4. ended' \in SUBSET Commands
    BY <1>6, <2>1 DEF Finishes, AgentTypeOK
  <2> QED
    BY <1>6, <2>1, <2>3, <2>4 DEF Finishes, AgentTypeOK
<1>7. CASE Drops
  <2>1. toServer' \in Seq(Message)
    BY <1>7 DEF Drops
  <2> QED
    BY <1>7, <2>1 DEF Drops, AgentTypeOK
<1> QED
  BY <1>1, <1>2, <1>3, <1>4, <1>5, <1>6, <1>7 DEF AgentStep, Answers

----
\* The client's half of the type invariant.

\* A client step that only delivers to the agent, or only reads from it, keeps
\* the socket's type.
LEMMA SocketKeepsType ==
  ASSUME AgentTypeOK, UNCHANGED childVars,
         toServer' \in Seq(Message), toClient' \in Seq(Frame)
  PROVE  AgentTypeOK'
BY DEF AgentTypeOK

LEMMA SendType ==
  ASSUME NEW kind \in {"prompt", "interrupt", "read"}, TypeOK,
         pc \notin {"prompt", "over"}, Send(kind)
  PROVE  toServer' \in Seq(Message)
BY DeliveredType DEF TypeOK, Send, ClientTypeOK

LEMMA ReadAsType ==
  ASSUME NEW kind, TypeOK, pc = "wait", ReadsAs(kind)
  PROVE  toClient' \in Seq(Frame) /\ seen' \in [Commands -> SUBSET Commands]
<1>1. toClient' \in Seq(Frame) /\ Head(toClient).of \in Commands
  BY ReadType DEF TypeOK, ReadsAs
<1>2. n \in Commands /\ seen \in [Commands -> SUBSET Commands]
  BY DEF TypeOK, ClientTypeOK
<1> QED
  BY <1>1, <1>2 DEF ReadsAs

LEMMA ReturnedType ==
  ASSUME NEW result \in Outcome, ClientTypeOK, pc \notin {"prompt", "over"},
         Returned(result), seen' \in [Commands -> SUBSET Commands],
         late' \in SUBSET Commands
  PROVE  ClientTypeOK'
BY DEF Returned, Disarm, ClientTypeOK, PC

LEMMA GivesUpType ==
  ASSUME TypeOK, pc \in {"run", "wait", "answer"}, GivesUp,
         toClient' \in Seq(Frame), seen' \in [Commands -> SUBSET Commands]
  PROVE  TypeOK'
<1>1. AgentTypeOK /\ ClientTypeOK
  BY DEF TypeOK
<1>2. toServer' \in Seq(Message)
  BY SendType DEF GivesUp, Break
<1>3. AgentTypeOK'
  BY <1>1, <1>2, SocketKeepsType DEF GivesUp
<1>4. ClientTypeOK'
  BY <1>1 DEF GivesUp, cancelVars, ClientTypeOK, PC, Outcome
<1> QED
  BY <1>3, <1>4 DEF TypeOK

LEMMA RecoveryType ==
  ASSUME AgentTypeOK, ClientTypeOK, pc \in {"settle", "drain", "drainLate"},
         TakesPrompt \/ TimesOut \/ FindsGone
  PROVE  toClient' \in Seq(Frame) /\ late' \in SUBSET Commands
<1>1. toClient \in Seq(Frame) /\ late \in SUBSET Commands /\ n \in Commands
  BY DEF AgentTypeOK, ClientTypeOK
<1>2. CASE TakesPrompt
  BY <1>1, <1>2, ReadType DEF TakesPrompt
<1>3. CASE TimesOut \/ FindsGone
  BY <1>1, <1>3 DEF TimesOut, FindsGone
<1> QED
  BY <1>2, <1>3

LEMMA TypeInit == Init => TypeOK
<1> SUFFICES ASSUME Init PROVE TypeOK
  OBVIOUS
<1>1. AgentTypeOK
  BY AgentAssumption DEF Init, AgentInit, AgentTypeOK
<1>2. n \in 0..MaxCommands /\ presses \in 0..MaxPresses
  BY AgentAssumption, PressAssumption DEF Init
<1>3. outcome \in [Commands -> Outcome] /\ seen \in [Commands -> SUBSET Commands]
  BY DEF Init, Outcome
<1>4. /\ flag \in BOOLEAN /\ watcher \in BOOLEAN /\ storing \in BOOLEAN
      /\ pressed \in SUBSET Commands /\ late \in SUBSET Commands
  BY DEF Init
<1>5. pc \in PC /\ pc = "prompt" /\ ~watcher
  BY DEF Init, PC
<1>6. ClientTypeOK
  BY <1>2, <1>3, <1>4, <1>5 DEF ClientTypeOK
<1> QED
  BY <1>1, <1>6 DEF TypeOK

\* One step per action of Next.
LEMMA TypeStep ==
  ASSUME TypeOK, [Next]_vars
  PROVE  TypeOK'
<1> USE AgentAssumption, PressAssumption
<1>1. AgentTypeOK /\ ClientTypeOK
  BY DEF TypeOK
<1>2. /\ toServer \in Seq(Message) /\ toClient \in Seq(Frame)
      /\ seen \in [Commands -> SUBSET Commands] /\ late \in SUBSET Commands
  BY <1>1 DEF AgentTypeOK, ClientTypeOK
<1>3. CASE Press
  BY <1>3, <1>1 DEF TypeOK, Press, agentVars, clientVars, AgentTypeOK, ClientTypeOK, PC
<1>4. CASE Store
  BY <1>4, <1>1 DEF TypeOK, Store, agentVars, clientVars, AgentTypeOK, ClientTypeOK
<1>5. CASE Enter
  <2>1. n + 1 \in Commands
    BY <1>5, <1>1 DEF Enter, ClientTypeOK, Commands
  <2>2. toServer' \in Seq(Message)
    BY <1>5, <1>1, <2>1, DeliveredType DEF Enter
  <2>3. AgentTypeOK'
    BY <1>5, <1>1, <1>2, <2>2, SocketKeepsType DEF Enter
  <2>4. n' \in 0..MaxCommands /\ n' \in Commands
    BY <1>5, <2>1 DEF Enter, Commands
  <2>5. ClientTypeOK'
    BY <1>5, <1>1, <2>4 DEF Enter, ResetCancel, ClientTypeOK, PC
  <2> QED
    BY <2>3, <2>5 DEF TypeOK
<1>6. CASE Quit
  BY <1>6, <1>1
     DEF TypeOK, Quit, agentVars, cancelVars, AgentTypeOK, ClientTypeOK, PC
<1>7. CASE Polls
  BY <1>7, <1>1
     DEF TypeOK, Polls, agentVars, cancelVars, AgentTypeOK, ClientTypeOK, PC
<1>8. CASE Cancels
  <2>1. toServer' \in Seq(Message)
    BY <1>8, SendType DEF Cancels
  <2>2. AgentTypeOK'
    BY <1>8, <1>1, <1>2, <2>1, SocketKeepsType DEF Cancels
  <2>3. ClientTypeOK'
    BY <1>8, <1>1 DEF Cancels, cancelVars, ClientTypeOK, PC
  <2> QED
    BY <2>2, <2>3 DEF TypeOK
<1>9. CASE Ticks
  BY <1>9, <1>1
     DEF TypeOK, Ticks, agentVars, cancelVars, AgentTypeOK, ClientTypeOK, PC
<1>10. CASE ReadsOutput
  <2>1. toClient' \in Seq(Frame) /\ seen' \in [Commands -> SUBSET Commands]
    BY <1>10, ReadAsType DEF ReadsOutput
  <2>2. AgentTypeOK'
    BY <1>10, <1>1, <1>2, <2>1, SocketKeepsType DEF ReadsOutput
  <2>3. ClientTypeOK'
    BY <1>10, <1>1, <2>1 DEF ReadsOutput, cancelVars, ClientTypeOK, PC
  <2> QED
    BY <2>2, <2>3 DEF TypeOK
<1>11. CASE ReadsRead
  <2>1. toClient' \in Seq(Frame) /\ seen' \in [Commands -> SUBSET Commands]
    BY <1>11, ReadAsType DEF ReadsRead
  <2>2. AgentTypeOK'
    BY <1>11, <1>1, <1>2, <2>1, SocketKeepsType DEF ReadsRead
  <2>3. ClientTypeOK'
    BY <1>11, <1>1, <2>1 DEF ReadsRead, cancelVars, ClientTypeOK, PC
  <2> QED
    BY <2>2, <2>3 DEF TypeOK
<1>25. CASE AnswersRead
  <2>1. toServer' \in Seq(Message)
    BY <1>25, SendType DEF AnswersRead
  <2>2. AgentTypeOK'
    BY <1>25, <1>1, <1>2, <2>1, SocketKeepsType DEF AnswersRead
  <2>3. ClientTypeOK'
    BY <1>25, <1>1 DEF AnswersRead, cancelVars, ClientTypeOK, PC
  <2> QED
    BY <2>2, <2>3 DEF TypeOK
<1>26. CASE AnswerFails
  BY <1>26, <1>2, GivesUpType DEF AnswerFails
<1>12. CASE ReadsPrompt
  <2>1. toClient' \in Seq(Frame) /\ seen' \in [Commands -> SUBSET Commands]
    BY <1>12, ReadAsType DEF ReadsPrompt
  <2>2. AgentTypeOK'
    BY <1>12, <1>1, <1>2, <2>1, SocketKeepsType DEF ReadsPrompt
  <2>3. ClientTypeOK'
    BY <1>12, <1>1, <1>2, <2>1, ReturnedType DEF ReadsPrompt, Outcome
  <2> QED
    BY <2>2, <2>3 DEF TypeOK
<1>13. CASE ReadsError
  <2>1. toClient' \in Seq(Frame) /\ seen' \in [Commands -> SUBSET Commands]
    BY <1>13, ReadAsType DEF ReadsError
  <2> QED
    BY <1>13, <2>1, GivesUpType DEF ReadsError
<1>14. CASE Expires
  BY <1>14, <1>2, GivesUpType DEF Expires
<1>15. CASE LosesSocket
  BY <1>15, <1>2, GivesUpType DEF LosesSocket
<1>24. CASE CancelFails
  BY <1>24, <1>2, GivesUpType DEF CancelFails
<1>16. ASSUME NEW at \in {"settle", "drain", "drainLate"}, Skips(at)
       PROVE  TypeOK'
  <2>1. toClient' \in Seq(Frame)
    BY <1>16, <1>1, ReadType DEF Skips
  <2>2. AgentTypeOK'
    BY <1>16, <1>1, <1>2, <2>1, SocketKeepsType DEF Skips
  <2>3. ClientTypeOK'
    BY <1>16, <1>1 DEF Skips, clientVars, cancelVars, ClientTypeOK
  <2> QED
    BY <2>2, <2>3 DEF TypeOK
<1>17. ASSUME NEW at \in {"settle", "drain", "drainLate"}, Replies(at)
       PROVE  TypeOK'
  <2>1. toClient' \in Seq(Frame)
    BY <1>17, <1>1, ReadType DEF Replies
  <2>2. toServer' \in Seq(Message)
    BY <1>17, SendType DEF Replies
  <2>3. AgentTypeOK'
    BY <1>17, <1>1, <2>1, <2>2, SocketKeepsType DEF Replies
  <2>4. ClientTypeOK'
    BY <1>17, <1>1 DEF Replies, clientVars, cancelVars, ClientTypeOK
  <2> QED
    BY <2>3, <2>4 DEF TypeOK
<1>18. CASE Settles
  <2>1. toClient' \in Seq(Frame) /\ late' \in SUBSET Commands
    BY <1>18, <1>1, <1>2, RecoveryType DEF Settles
  <2>2. AgentTypeOK'
    BY <1>18, <1>1, <1>2, <2>1, SocketKeepsType DEF Settles
  <2>3. ClientTypeOK'
    BY <1>18, <1>1, <1>2, <2>1, ReturnedType DEF Settles, Outcome
  <2> QED
    BY <2>2, <2>3 DEF TypeOK
<1>19. CASE Drained
  <2>1. toClient' \in Seq(Frame) /\ late' \in SUBSET Commands
    BY <1>19, <1>1, <1>2, RecoveryType DEF Drained, Drains
  <2>2. AgentTypeOK'
    BY <1>19, <1>1, <1>2, <2>1, SocketKeepsType DEF Drained
  <2>3. pc = "drain"
    BY <1>19 DEF Drained, Drains
  <2>4. ClientTypeOK'
    BY <1>19, <1>1, <2>1, <2>3 DEF Drained, ThenDrains, ClientTypeOK, PC
  <2> QED
    BY <2>2, <2>4 DEF TypeOK
<1>20. CASE DrainedLate
  <2>1. toClient' \in Seq(Frame) /\ late' \in SUBSET Commands
    BY <1>20, <1>1, <1>2, RecoveryType DEF DrainedLate, Drains
  <2>2. AgentTypeOK'
    BY <1>20, <1>1, <1>2, <2>1, SocketKeepsType DEF DrainedLate
  <2>3. ClientTypeOK'
    BY <1>20, <1>1, <2>1 DEF DrainedLate, Disarm, ClientTypeOK, PC
  <2> QED
    BY <2>2, <2>3 DEF TypeOK
<1>21. CASE Lost
  BY <1>21, <1>1
     DEF TypeOK, Lost, Disarm, agentVars, AgentTypeOK, ClientTypeOK, PC
<1>22. CASE Agent
  <2>1. AgentTypeOK'
    BY <1>22, <1>1, AgentKeepsType DEF Agent
  <2>2. ClientTypeOK'
    BY <1>22, <1>1 DEF Agent, clientVars, cancelVars, ClientTypeOK
  <2> QED
    BY <2>1, <2>2 DEF TypeOK
<1>23. CASE UNCHANGED vars
  BY <1>23, <1>1
     DEF TypeOK, vars, agentVars, clientVars, cancelVars, AgentTypeOK, ClientTypeOK
<1> QED
  BY <1>3, <1>4, <1>5, <1>6, <1>7, <1>8, <1>9, <1>10, <1>11, <1>12, <1>13,
     <1>14, <1>15, <1>16, <1>17, <1>18, <1>19, <1>20, <1>21, <1>22, <1>23, <1>24,
     <1>25, <1>26 DEF Next, Waits, Types, Recovers

\* The REPL keeps its types, and the watcher is armed exactly while a command or
\* its drain is under way.
THEOREM ReplTypeCorrect == Safe => []TypeOK
<1>1. TypeOK /\ [Next]_vars => TypeOK'
  BY TypeStep
<1> QED
  BY TypeInit, <1>1, PTL DEF Safe

----
\* Ctrl+C. While a command runs, a raised flag or a signal in a watcher's hands
\* is of that command: the loop resets the flag after the last watcher has
\* stored, and only then arms the next.

CancelInv ==
  /\ pc \in {"run", "wait", "answer"} /\ (flag \/ storing) => n \in pressed
  /\ pc = "settle" => n \in pressed
  /\ CancelStaysInCommand

LEMMA CancelInit == Init => CancelInv
BY DEF Init, CancelInv, CancelStaysInCommand

LEMMA CancelStep ==
  ASSUME TypeOK, CancelInv, [Next]_vars
  PROVE  CancelInv'
<1>1. ClientTypeOK
  BY DEF TypeOK
<1>2. CASE Press
  BY <1>2, <1>1 DEF Press, clientVars, CancelInv, CancelStaysInCommand, ClientTypeOK
<1>3. CASE Store
  BY <1>3, <1>1 DEF Store, clientVars, CancelInv, CancelStaysInCommand, ClientTypeOK
<1>4. CASE Enter
  BY <1>4 DEF Enter, ResetCancel, CancelInv, CancelStaysInCommand
<1>5. CASE Quit \/ Polls \/ Cancels \/ Ticks \/ ReadsOutput \/ ReadsRead \/ AnswersRead
  BY <1>5 DEF Quit, Polls, Cancels, Ticks, ReadsOutput, ReadsRead, AnswersRead, cancelVars,
              CancelInv, CancelStaysInCommand
<1>6. CASE ReadsPrompt
  BY <1>6, <1>1 DEF ReadsPrompt, Returned, CancelInv, CancelStaysInCommand, ClientTypeOK
<1>7. CASE GivesUp
  BY <1>7, <1>1 DEF GivesUp, CancelInv, CancelStaysInCommand, ClientTypeOK
<1>8. ASSUME NEW at \in {"settle", "drain", "drainLate"}, Skips(at) \/ Replies(at)
      PROVE  CancelInv'
  BY <1>8 DEF Skips, Replies, clientVars, cancelVars, CancelInv, CancelStaysInCommand
<1>9. CASE Settles
  BY <1>9, <1>1 DEF Settles, Returned, CancelInv, CancelStaysInCommand, ClientTypeOK
<1>10. CASE Drained \/ DrainedLate \/ Lost
  BY <1>10 DEF Drained, ThenDrains, DrainedLate, Lost, CancelInv, CancelStaysInCommand
<1>11. CASE Agent \/ UNCHANGED vars
  BY <1>11 DEF Agent, vars, clientVars, cancelVars, CancelInv, CancelStaysInCommand
<1> QED
  BY <1>2, <1>3, <1>4, <1>5, <1>6, <1>7, <1>8, <1>9, <1>10, <1>11
     DEF Next, Waits, Types, Recovers, ReadsError, AnswerFails, Expires, LosesSocket,
         CancelFails

\* A Ctrl+C breaks the command it was pressed in and no other.
THEOREM CancelsStay == Safe => []CancelStaysInCommand
<1>1. TypeOK /\ CancelInv /\ [Next]_vars => CancelInv'
  BY CancelStep
<1>2. CancelInv => CancelStaysInCommand
  BY DEF CancelInv
<1> QED
  BY ReplTypeCorrect, CancelInit, <1>1, <1>2, PTL DEF Safe

----
\* Until a command strays. What is in the socket is then always in step with
\* where the client is: ahead of the client lie one command, or one command and
\* one interrupt behind it, or what is left of them, and the client leaves a
\* command only with everything it caused consumed; an answer that the child no
\* longer waits for may be left to the agent, which drops it.

Kinds(q, K) == \A k \in 1..Len(q) : q[k].kind \in K

EndsIn(q, kind, K) ==
  /\ q # <<>>
  /\ q[Len(q)].kind = kind
  /\ \A k \in 1..(Len(q) - 1) : q[k].kind \in K

\* Frames that ask for nothing and end nothing; frames that end nothing.
Still == {"output", "error"}
Unprompted == {"output", "error", "read"}

\* The command's own prompt, and the one an interrupt causes after it.
TwoPrompts(q) ==
  \E m \in 1..(Len(q) - 1) :
     /\ q[m].kind = "prompt" /\ q[Len(q)].kind = "prompt"
     /\ \A k \in 1..(Len(q) - 1) : k # m => q[k].kind \in Still

\* What the client said, behind answers that nobody waits for.
Behind(q, said) == \E old \in Seq(Message) : Kinds(old, {"read"}) /\ q = old \o said

\* A command is on its way, runs, waits for an answer, is given one, or has come
\* to its end; behind it the client has said `rest`.
Served(sent, answered, rest) ==
  \/ child = "idle" /\ Behind(toServer, sent) /\ toClient = <<>>
  \/ child = "executing" /\ toServer = rest /\ Kinds(toClient, Still)
  \/ child = "reading" /\ toServer = rest /\ EndsIn(toClient, "read", Still)
  \/ child = "reading" /\ toServer = answered /\ Kinds(toClient, Still)
  \/ child = "idle" /\ toServer = rest /\ EndsIn(toClient, "prompt", Still) /\ n \in ended

Cmd == Tagged("prompt", n)
Ans == Tagged("read", n)
Brk == Tagged("interrupt", n)

Running == Served(<<Cmd>>, <<Ans>>, <<>>)

Unbroken == Served(<<Cmd, Brk>>, <<Ans, Brk>>, <<Brk>>)

\* The user is asked for the answer.
AtRead == child = "reading" /\ toServer = <<>> /\ toClient = <<>>

\* The interrupt of a read whose answer comes too late, if at all.
BreaksRead ==
  /\ child = "reading" /\ Kinds(toClient, Unprompted)
  /\ toServer # <<>> /\ Head(toServer) = Brk /\ Kinds(Tail(toServer), {"read"})

\* The interrupt ended the command; it came after the command's end.
BrokenOff ==
  child = "idle" /\ Kinds(toServer, {"read"}) /\ EndsIn(toClient, "prompt", Unprompted)
BrokenAfter ==
  child = "idle" /\ toServer = <<>> /\ TwoPrompts(toClient) /\ n \in ended

Breaking == Unbroken \/ BreaksRead \/ BrokenOff \/ BrokenAfter

\* One prompt was drained: the interrupt is under way, or its prompt is, or that
\* was its prompt.
Broken ==
  /\ child = "idle"
  /\ \/ toServer = <<Brk>> /\ toClient = <<>>
     \/ toServer = <<>> /\ EndsIn(toClient, "prompt", Still)
     \/ Kinds(toServer, {"read"}) /\ toClient = <<>>

\* The connection dropped: only what had been delivered can still be read.
Cut == child = "closed" /\ toServer = <<>>

CutRunning == Cut /\ (Kinds(toClient, Unprompted) \/ EndsIn(toClient, "prompt", Still))

CutBreaking ==
  Cut /\ (\/ Kinds(toClient, Unprompted)
          \/ TwoPrompts(toClient) /\ n \in ended
          \/ EndsIn(toClient, "prompt", Unprompted))

CutBroken == Cut /\ (toClient = <<>> \/ EndsIn(toClient, "prompt", Still))

\* Nothing runs and no frame is left.
AtRest == toClient = <<>> /\ (Cut \/ (child = "idle" /\ Kinds(toServer, {"read"})))

Failed == n > 0 /\ outcome[n] = "failed"

InStep ==
  /\ pc = "prompt" => AtRest /\ (Failed => toServer = <<>>)
  /\ pc \in {"run", "wait"} => Running \/ CutRunning
  /\ pc = "answer" => AtRead \/ CutRunning
  /\ pc \in {"settle", "drain"} => Breaking \/ CutBreaking
  /\ pc = "drainLate" => Broken \/ CutBroken

OwnFrames ==
  /\ pc \in {"run", "wait", "answer"} => \A k \in 1..Len(toClient) : toClient[k].of = n
  /\ pc \in {"run", "wait", "answer", "settle", "drain"} /\ child \in {"executing", "reading"} =>
        childOf = n

Trusted == \A c \in Commands : c <= n => ~Strayed(c)

\* A command to come has no outcome, nor has one under way.
Unborn ==
  /\ \A c \in Commands : c > n => seen[c] = {} /\ outcome[c] = "none" /\ c \notin late
  /\ pc \in {"run", "wait", "answer", "settle"} => outcome[n] = "none" /\ n \notin late

SyncInv == Unborn /\ NoLeftovers /\ (Trusted => InStep /\ OwnFrames)

----
\* Sequences of frames and messages, read from the front and written at the end.

LEMMA TailFacts ==
  ASSUME NEW F, NEW q \in Seq(F), q # <<>>
  PROVE  /\ Len(q) \in Nat \ {0} /\ Len(Tail(q)) = Len(q) - 1
         /\ \A k \in 1..(Len(q) - 1) : Tail(q)[k] = q[k + 1]
         /\ Len(q) = 1 => Tail(q) = <<>>
         /\ Len(q) > 1 => Tail(q) # <<>>
         /\ Tail(q) \in Seq(F)
<1>1. /\ Len(Tail(q)) = Len(q) - 1 /\ Tail(q) \in Seq(F)
      /\ \A k \in 1..Len(Tail(q)) : Tail(q)[k] = q[k + 1]
  BY HeadTailProperties
<1>2. Len(q) \in Nat \ {0} /\ Len(<<>>) = 0 /\ (Tail(q) # <<>> => Len(Tail(q)) \in Nat \ {0})
  BY <1>1, EmptySeq
<1>3. Len(q) - 1 = 0 => Tail(q) = <<>>
  BY <1>1, <1>2
<1>4. Tail(q) = <<>> => Len(q) - 1 = 0
  BY <1>1, <1>2
<1>5. Len(q) \in Nat /\ (Len(q) - 1 = 0 <=> Len(q) = 1)
  BY <1>2
<1>6. \A k \in 1..(Len(q) - 1) : Tail(q)[k] = q[k + 1]
  BY <1>1
<1> QED
  BY <1>1, <1>2, <1>3, <1>4, <1>5, <1>6

LEMMA KindsTail ==
  ASSUME NEW F, NEW q \in Seq(F), q # <<>>, NEW K, Kinds(q, K)
  PROVE  Kinds(Tail(q), K) /\ Head(q).kind \in K
BY DEF Kinds

LEMMA KindsAppend ==
  ASSUME NEW F, NEW q \in Seq(F), NEW f \in F, NEW K, Kinds(q, K)
  PROVE  /\ f.kind \in K => Kinds(Append(q, f), K)
         /\ EndsIn(Append(q, f), f.kind, K)
<1>1. /\ Len(Append(q, f)) = Len(q) + 1 /\ Append(q, f)[Len(q) + 1] = f
      /\ \A k \in 1..Len(q) : Append(q, f)[k] = q[k]
      /\ Len(q) \in Nat /\ Append(q, f) # <<>>
  OBVIOUS
<1> QED
  BY <1>1 DEF Kinds, EndsIn

LEMMA EndsTail ==
  ASSUME NEW F, NEW q \in Seq(F), NEW kind, NEW K, EndsIn(q, kind, K), kind \notin K
  PROVE  /\ q # <<>>
         /\ Head(q).kind = kind => Tail(q) = <<>>
         /\ Head(q).kind # kind => Head(q).kind \in K /\ EndsIn(Tail(q), kind, K)
<1>1. q # <<>>
  BY DEF EndsIn
<1>4. /\ Head(q) = q[1] /\ Len(q) \in Nat \ {0} /\ Len(Tail(q)) = Len(q) - 1
      /\ \A k \in 1..(Len(q) - 1) : Tail(q)[k] = q[k + 1]
  BY <1>1, TailFacts
<1>2. CASE Len(q) = 1
  <2>1. Tail(q) = <<>>
    BY <1>1, <1>2, TailFacts
  <2> QED
    BY <1>1, <1>2, <2>1 DEF EndsIn
<1>3. CASE Len(q) > 1
  <2>1. Head(q).kind \in K
    BY <1>4, <1>3 DEF EndsIn
  <2>2. Tail(q)[Len(Tail(q))] = q[Len(q)]
    BY <1>4, <1>3
  <2>3. \A k \in 1..(Len(Tail(q)) - 1) : Tail(q)[k].kind \in K
    BY <1>4, <1>3 DEF EndsIn
  <2>4. Tail(q) # <<>>
    BY <1>1, <1>3, <1>4, TailFacts
  <2> QED
    BY <1>1, <1>3, <2>1, <2>2, <2>3, <2>4 DEF EndsIn
<1> QED
  BY <1>4, <1>2, <1>3

LEMMA TwoTail ==
  ASSUME NEW F, NEW q \in Seq(F), TwoPrompts(q)
  PROVE  /\ q # <<>>
         /\ Head(q).kind = "prompt" => EndsIn(Tail(q), "prompt", Still)
         /\ Head(q).kind # "prompt" => Head(q).kind \in Still /\ TwoPrompts(Tail(q))
<1>1. PICK m \in 1..(Len(q) - 1) :
         /\ q[m].kind = "prompt" /\ q[Len(q)].kind = "prompt"
         /\ \A k \in 1..(Len(q) - 1) : k # m => q[k].kind \in Still
  BY DEF TwoPrompts
<1>5. Len(q) \in Nat /\ Len(q) > 1
  BY <1>1
<1>6. q # <<>>
  BY <1>5, EmptySeq
<1>2. /\ q # <<>> /\ Head(q) = q[1] /\ Len(q) \in Nat /\ Len(q) > 1 /\ Len(Tail(q)) = Len(q) - 1
      /\ \A k \in 1..(Len(q) - 1) : Tail(q)[k] = q[k + 1]
      /\ Tail(q) # <<>>
  BY <1>5, <1>6, TailFacts
<1>3. CASE m = 1
  <2>1. \A k \in 1..(Len(Tail(q)) - 1) : Tail(q)[k].kind \in Still
    BY <1>1, <1>2, <1>3
  <2> QED
    BY <1>1, <1>2, <1>3, <2>1 DEF EndsIn
<1>4. CASE m > 1
  <2>1. Head(q).kind \in Still
    BY <1>1, <1>2, <1>4
  <2>2. /\ m - 1 \in 1..(Len(Tail(q)) - 1)
        /\ Tail(q)[m - 1].kind = "prompt" /\ Tail(q)[Len(Tail(q))].kind = "prompt"
    BY <1>1, <1>2, <1>4
  <2>3. \A k \in 1..(Len(Tail(q)) - 1) : k # m - 1 => Tail(q)[k].kind \in Still
    BY <1>1, <1>2, <1>4
  <2>4. TwoPrompts(Tail(q))
    BY <2>2, <2>3 DEF TwoPrompts
  <2>5. Head(q).kind # "prompt"
    BY <2>1 DEF Still
  <2> QED
    BY <1>2, <2>1, <2>4, <2>5
<1> QED
  BY <1>1, <1>3, <1>4

\* The two frames that an interrupt causes.
LEMMA BreakFrames ==
  ASSUME NEW F, NEW q \in Seq(F), NEW a \in F, NEW b \in F, b.kind = "prompt"
  PROVE  /\ \A K : Kinds(q, K) /\ a.kind \in K => EndsIn(q \o <<a, b>>, "prompt", K)
         /\ EndsIn(q, "prompt", Still) /\ a.kind \in Still => TwoPrompts(q \o <<a, b>>)
<1> DEFINE r == q \o <<a, b>>
<1>1. /\ Len(q) \in Nat /\ Len(r) = Len(q) + 2 /\ r # <<>>
      /\ r[Len(q) + 1] = a /\ r[Len(q) + 2] = b
      /\ \A k \in 1..Len(q) : r[k] = q[k]
  OBVIOUS
<1> HIDE DEF r
<1>2. ASSUME NEW K, Kinds(q, K), a.kind \in K PROVE EndsIn(r, "prompt", K)
  BY <1>1, <1>2 DEF EndsIn, Kinds
<1>3. ASSUME EndsIn(q, "prompt", Still), a.kind \in Still PROVE TwoPrompts(r)
  <2>1. Len(q) \in 1..(Len(r) - 1) /\ q # <<>> /\ Len(q) > 0
    BY <1>1, <1>3 DEF EndsIn
  <2>2. \A k \in 1..(Len(r) - 1) : k # Len(q) => r[k].kind \in Still
    BY <1>1, <1>3, <2>1 DEF EndsIn
  <2> QED
    BY <1>1, <1>3, <2>1, <2>2 DEF EndsIn, TwoPrompts
<1> QED
  BY <1>2, <1>3 DEF r

LEMMA Widen ==
  ASSUME NEW F, NEW q \in Seq(F)
  PROVE  /\ Kinds(q, Still) => Kinds(q, Unprompted)
         /\ EndsIn(q, "read", Still) => Kinds(q, Unprompted)
         /\ EndsIn(q, "prompt", Still) => EndsIn(q, "prompt", Unprompted)
         /\ Kinds(<<>>, Still) /\ Kinds(<<>>, Unprompted) /\ Kinds(<<>>, {"read"})
<1>1. Len(q) \in Nat
  OBVIOUS
<1> QED
  BY <1>1 DEF Kinds, EndsIn, Still, Unprompted

LEMMA Messages ==
  /\ \A kind, c : Tagged(kind, c).kind = kind /\ Tagged(kind, c).of = c
  /\ \A x : <<x>> # <<>> /\ Head(<<x>>) = x /\ Tail(<<x>>) = <<>> /\ Append(<<>>, x) = <<x>>
  /\ \A x, y : /\ <<x, y>> # <<>> /\ Head(<<x, y>>) = x /\ Tail(<<x, y>>) = <<y>>
               /\ Append(<<x>>, y) = <<x, y>>
<1>1. \A kind, c : Tagged(kind, c).kind = kind /\ Tagged(kind, c).of = c
  BY DEF Tagged
<1>2. ASSUME NEW x
      PROVE  <<x>> # <<>> /\ Head(<<x>>) = x /\ Tail(<<x>>) = <<>> /\ Append(<<>>, x) = <<x>>
  OBVIOUS
<1>3. ASSUME NEW x, NEW y
      PROVE  <<x, y>> # <<>> /\ Head(<<x, y>>) = x /\ Tail(<<x, y>>) = <<y>>
  OBVIOUS
<1>4. ASSUME NEW x, NEW y
      PROVE  Append(<<x>>, y) = <<x, y>>
  <2>1. /\ Append(<<x>>, y) \in Seq({x, y}) /\ <<x, y>> \in Seq({x, y})
        /\ Len(Append(<<x>>, y)) = 2 /\ Len(<<x, y>>) = 2
        /\ Append(<<x>>, y)[1] = x /\ Append(<<x>>, y)[2] = y
    OBVIOUS
  <2>2. \A k \in 1..2 : Append(<<x>>, y)[k] = <<x, y>>[k]
    BY <2>1
  <2> QED
    BY <2>1, <2>2, SeqEqual
<1> QED
  BY <1>1, <1>2, <1>3, <1>4

LEMMA HeadTailConcat ==
  ASSUME NEW F, NEW s \in Seq(F), NEW t \in Seq(F), s # <<>>
  PROVE  Head(s \o t) = Head(s) /\ Tail(s \o t) = Tail(s) \o t
<1>1. /\ Len(s) \in Nat \ {0} /\ Len(t) \in Nat /\ Len(Tail(s)) = Len(s) - 1
      /\ \A k \in 1..(Len(s) - 1) : Tail(s)[k] = s[k + 1]
      /\ Tail(s) \in Seq(F)
  BY TailFacts
<1>2. /\ s \o t \in Seq(F) /\ Len(s \o t) = Len(s) + Len(t) /\ s \o t # <<>>
      /\ \A k \in 1..Len(s) : (s \o t)[k] = s[k]
      /\ \A k \in 1..Len(t) : (s \o t)[Len(s) + k] = t[k]
  <2>1. Len(s \o t) # 0
    BY <1>1
  <2> QED
    BY <1>1, <2>1
<1>3. /\ Tail(s \o t) \in Seq(F) /\ Len(Tail(s \o t)) = Len(s) + Len(t) - 1
      /\ \A k \in 1..(Len(s) + Len(t) - 1) : Tail(s \o t)[k] = (s \o t)[k + 1]
      /\ Head(s \o t) = (s \o t)[1] /\ Head(s) = s[1]
  BY <1>1, <1>2, TailFacts
<1>4. /\ Tail(s) \o t \in Seq(F) /\ Len(Tail(s) \o t) = Len(s) + Len(t) - 1
      /\ \A k \in 1..(Len(s) - 1) : (Tail(s) \o t)[k] = Tail(s)[k]
      /\ \A k \in 1..Len(t) : (Tail(s) \o t)[Len(s) - 1 + k] = t[k]
  BY <1>1
<1>5. ASSUME NEW k \in 1..(Len(s) + Len(t) - 1)
      PROVE  Tail(s \o t)[k] = (Tail(s) \o t)[k]
  <2>1. CASE k <= Len(s) - 1
    <3>1. k \in 1..(Len(s) - 1) /\ k + 1 \in 1..Len(s)
      BY <1>1, <2>1
    <3> QED
      BY <1>1, <1>2, <1>3, <1>4, <3>1
  <2>2. CASE k > Len(s) - 1
    <3> DEFINE m == k - (Len(s) - 1)
    <3>1. m \in 1..Len(t) /\ k = Len(s) - 1 + m /\ k + 1 = Len(s) + m
      BY <1>1, <2>2
    <3> HIDE DEF m
    <3> QED
      BY <1>2, <1>3, <1>4, <3>1
  <2> QED
    BY <1>1, <2>1, <2>2
<1>6. Tail(s \o t) = Tail(s) \o t
  BY <1>3, <1>4, <1>5, SeqEqual
<1>7. 1 \in 1..Len(s)
  BY <1>1
<1> QED
  BY <1>2, <1>3, <1>6, <1>7

LEMMA AppendConcat ==
  ASSUME NEW F, NEW s \in Seq(F), NEW t \in Seq(F), NEW x \in F
  PROVE  Append(s \o t, x) = s \o Append(t, x)
<1>1. s \o t \in Seq(F) /\ <<x>> \in Seq(F)
  OBVIOUS
<1>2. Append(s \o t, x) = (s \o t) \o <<x>>
  BY <1>1, AppendIsConcat
<1>3. Append(t, x) = t \o <<x>>
  BY AppendIsConcat
<1> QED
  BY <1>1, <1>2, <1>3, ConcatAssociative

\* What lies behind old answers is found when they are taken, and stays there when
\* the client says more.
LEMMA BehindTakes ==
  ASSUME NEW q, NEW said \in Seq(Message), said # <<>>, Behind(q, said)
  PROVE  /\ q \in Seq(Message) /\ q # <<>>
         /\ q = said \/ (Head(q).kind = "read" /\ Behind(Tail(q), said))
<1>1. PICK old \in Seq(Message) : Kinds(old, {"read"}) /\ q = old \o said
  BY DEF Behind
<1>2. q \in Seq(Message) /\ Len(q) = Len(old) + Len(said) /\ Len(said) > 0
  BY <1>1, EmptySeq
<1>3. q # <<>>
  BY <1>2, EmptySeq
<1>4. CASE old = <<>>
  BY <1>1, <1>2, <1>3, <1>4
<1>5. CASE old # <<>>
  <2>1. Head(q) = Head(old) /\ Tail(q) = Tail(old) \o said
    BY <1>1, <1>5, HeadTailConcat
  <2>2. Kinds(Tail(old), {"read"}) /\ Head(old).kind = "read" /\ Tail(old) \in Seq(Message)
    BY <1>1, <1>5, KindsTail, TailFacts
  <2> QED
    BY <1>2, <1>3, <2>1, <2>2 DEF Behind
<1> QED
  BY <1>4, <1>5

LEMMA BehindSays ==
  ASSUME NEW q, NEW said \in Seq(Message), NEW x \in Message, Behind(q, said)
  PROVE  Behind(Append(q, x), Append(said, x))
<1>1. PICK old \in Seq(Message) : Kinds(old, {"read"}) /\ q = old \o said
  BY DEF Behind
<1>2. Append(old \o said, x) = old \o Append(said, x)
  BY AppendConcat
<1>3. Append(q, x) = old \o Append(said, x)
  BY <1>1, <1>2
<1> QED
  BY <1>1, <1>3 DEF Behind

LEMMA BehindAnswers ==
  ASSUME NEW q \in Seq(Message), NEW x \in Message, Kinds(q, {"read"})
  PROVE  Behind(Append(q, x), <<x>>)
<1>1. Behind(q, <<>>)
  BY ConcatEmptySeq DEF Behind
<1>2. Append(<<>>, x) = <<x>> /\ <<>> \in Seq(Message)
  BY Messages
<1> QED
  BY <1>1, <1>2, BehindSays

----
\* The agent's steps.

\* As long as no interrupt reaches it, the agent serves the command.
LEMMA ServedAgent ==
  ASSUME AgentTypeOK, n' = n, child \in {"executing", "reading"} => childOf = n,
         NEW sent \in Seq(Message), NEW answered, NEW rest,
         sent # <<>>, Head(sent).kind = "prompt", Tail(sent) = rest,
         answered # <<>>, Head(answered).kind = "read", Tail(answered) = rest,
         rest = <<>> \/ Head(rest).kind = "interrupt",
         Served(sent, answered, rest),
         TakesCommand \/ TakesAnswer \/ Emits \/ Finishes
  PROVE  Served(sent, answered, rest)'
<1>1. toClient \in Seq(Frame) /\ Kinds(<<>>, Still)
  BY Widen DEF AgentTypeOK
<1>2. CASE TakesCommand
  <2>1. child = "idle" /\ Behind(toServer, sent) /\ toClient = <<>>
    BY <1>2 DEF TakesCommand, Took, Served
  <2>2. toServer = sent
    BY <1>2, <2>1, BehindTakes DEF TakesCommand, Took
  <2> QED
    BY <1>1, <1>2, <2>1, <2>2 DEF TakesCommand, Took, Served
<1>3. CASE TakesAnswer
  <2>1. CASE child = "idle" /\ Behind(toServer, sent) /\ toClient = <<>>
    <3>1. Behind(Tail(toServer), sent)
      BY <1>3, <2>1, BehindTakes DEF TakesAnswer, Took
    <3> QED
      BY <1>3, <2>1, <3>1 DEF TakesAnswer, Took, Served
  <2>2. CASE child = "reading" /\ toServer = answered /\ Kinds(toClient, Still)
    BY <1>3, <2>2 DEF TakesAnswer, Took, Served
  <2> QED
    BY <1>3, <2>1, <2>2 DEF TakesAnswer, Took, Served
<1>4. CASE Emits
  <2>1. childOf \in Commands /\ child = "executing" /\ toServer = rest /\ Kinds(toClient, Still)
    BY <1>4 DEF Emits, AgentTypeOK, Served
  <2>2. PICK kind \in {"output", "read", "error"} :
          /\ toClient' = Append(toClient, Tagged(kind, childOf))
          /\ child' = IF kind = "read" THEN "reading" ELSE "executing"
    BY <1>4 DEF Emits
  <2>3. Tagged(kind, childOf) \in Frame /\ Tagged(kind, childOf).kind = kind
    BY <2>1, SaidType, Messages
  <2>4. /\ kind \in Still => Kinds(toClient', Still)
        /\ EndsIn(toClient', kind, Still)
    BY <1>1, <2>1, <2>2, <2>3, KindsAppend
  <2>5. toServer' = toServer
    BY <1>4 DEF Emits
  <2> QED
    BY <2>1, <2>2, <2>4, <2>5 DEF Served, Still
<1>5. CASE Finishes
  <2>1. childOf \in Commands /\ child = "executing" /\ toServer = rest /\ Kinds(toClient, Still)
    BY <1>5 DEF Finishes, AgentTypeOK, Served
  <2>2. Tagged("prompt", childOf) \in Frame /\ Tagged("prompt", childOf).kind = "prompt"
    BY <2>1, SaidType, Messages
  <2>3. EndsIn(toClient', "prompt", Still)
    BY <1>1, <1>5, <2>1, <2>2, KindsAppend DEF Finishes
  <2>4. n' \in ended'
    BY <1>5, <2>1 DEF Finishes
  <2> QED
    BY <1>5, <2>1, <2>3, <2>4 DEF Served, Finishes
<1> QED
  BY <1>2, <1>3, <1>4, <1>5

LEMMA DropsCuts ==
  ASSUME Drops
  PROVE  Cut' /\ toClient' = toClient
BY DEF Drops, Cut

LEMMA CutStays ==
  ASSUME Cut, AgentStep
  PROVE  FALSE
BY DEF Cut, AgentStep, Answers, TakesCommand, TakesAnswer, BreaksChild, BreaksNothing,
       Emits, Finishes, Drops, Took

\* What an interrupt adds to the frames on their way.
LEMMA BreakAdds ==
  ASSUME AgentTypeOK, BreaksChild \/ BreaksNothing
  PROVE  /\ Kinds(toClient, Unprompted) => EndsIn(toClient', "prompt", Unprompted)
         /\ Kinds(toClient, Still) => EndsIn(toClient', "prompt", Still)
         /\ EndsIn(toClient, "prompt", Still) => TwoPrompts(toClient')
         /\ child' = "idle" /\ toServer' = Tail(toServer)
         /\ toServer # <<>> /\ Head(toServer).kind = "interrupt"
<1>1. PICK kind \in {"output", "error"}, c \in Commands :
         toClient' = toClient \o <<Tagged(kind, c), Tagged("prompt", c)>>
  <2>1. CASE BreaksChild
    BY <2>1 DEF BreaksChild, AgentTypeOK
  <2>2. CASE BreaksNothing
    BY <2>2, TakenType DEF BreaksNothing
  <2> QED
    BY <2>1, <2>2
<1>2. /\ Tagged(kind, c) \in Frame /\ Tagged("prompt", c) \in Frame
      /\ Tagged(kind, c).kind = kind /\ Tagged("prompt", c).kind = "prompt"
      /\ toClient \in Seq(Frame) /\ kind \in Still /\ kind \in Unprompted
  BY SaidType, Messages DEF AgentTypeOK, Still, Unprompted
<1>3. /\ \A K : Kinds(toClient, K) /\ kind \in K => EndsIn(toClient', "prompt", K)
      /\ EndsIn(toClient, "prompt", Still) => TwoPrompts(toClient')
  BY <1>1, <1>2, BreakFrames
<1> QED
  BY <1>2, <1>3 DEF BreaksChild, BreaksNothing, Took

\* What the client says is made of messages.
LEMMA SaidMessages ==
  ASSUME NEW c \in Commands
  PROVE  /\ <<Tagged("prompt", c)>> \in Seq(Message)
         /\ <<Tagged("prompt", c), Tagged("interrupt", c)>> \in Seq(Message)
<1>1. Tagged("prompt", c) \in Message /\ Tagged("interrupt", c) \in Message
  BY DEF Tagged, Message
<1> QED
  BY <1>1

LEMMA AgentRunning ==
  ASSUME AgentTypeOK, Running, AgentStep, n' = n, n \in Commands,
         child \in {"executing", "reading"} => childOf = n
  PROVE  Running' \/ CutRunning'
<1>1. toClient \in Seq(Frame)
  BY DEF AgentTypeOK
<1>2. CASE Drops
  <2>1. Kinds(toClient, Unprompted) \/ EndsIn(toClient, "prompt", Still)
    BY <1>1, Widen DEF Running, Served
  <2> QED
    BY <1>2, <2>1, DropsCuts DEF CutRunning
<1>3. PICK c \in Commands : c = n
  OBVIOUS
<1> DEFINE sent == <<Tagged("prompt", c)>>
           answered == <<Tagged("read", c)>>
<1>4. /\ sent # <<>> /\ Head(sent).kind = "prompt" /\ Tail(sent) = <<>>
      /\ answered # <<>> /\ Head(answered).kind = "read" /\ Tail(answered) = <<>>
  BY Messages
<1>5. sent \in Seq(Message)
  BY SaidMessages
<1>6. Served(sent, answered, <<>>)
  BY <1>3 DEF Running, Cmd, Ans
<1>7. Running' <=> Served(sent, answered, <<>>)'
  BY <1>3 DEF Running, Served, Cmd, Ans
<1> HIDE DEF sent, answered
<1>8. CASE BreaksChild \/ BreaksNothing
  <2>1. toServer # <<>> /\ Head(toServer).kind = "interrupt"
    BY <1>8, BreakAdds
  <2> QED
    BY <1>4, <1>5, <1>6, <2>1, BehindTakes DEF Served
<1>9. CASE TakesCommand \/ TakesAnswer \/ Emits \/ Finishes
  <2>1. Served(sent, answered, <<>>)'
    BY <1>4, <1>5, <1>6, <1>9, ServedAgent
  <2> QED
    BY <1>7, <2>1
<1> QED
  BY <1>2, <1>8, <1>9 DEF AgentStep, Answers

LEMMA AgentBreaking ==
  ASSUME AgentTypeOK, Breaking, AgentStep, n' = n, n \in Commands,
         child \in {"executing", "reading"} => childOf = n
  PROVE  Breaking' \/ CutBreaking'
<1>1. toClient \in Seq(Frame) /\ toServer \in Seq(Message)
  BY DEF AgentTypeOK
<1>2. CASE Drops
  <2>1. \/ Kinds(toClient, Unprompted) \/ (TwoPrompts(toClient) /\ n \in ended)
        \/ EndsIn(toClient, "prompt", Unprompted)
    BY <1>1, Widen DEF Breaking, Unbroken, Served, BreaksRead, BrokenOff, BrokenAfter
  <2>2. ended' = ended
    BY <1>2 DEF Drops
  <2> QED
    BY <1>2, <2>1, <2>2, DropsCuts DEF CutBreaking
<1>9. PICK c \in Commands : c = n
  OBVIOUS
<1> DEFINE brk == Tagged("interrupt", c)
           sent == <<Tagged("prompt", c), brk>>
           answered == <<Tagged("read", c), brk>>
           rest == <<brk>>
<1>10. /\ sent # <<>> /\ Head(sent).kind = "prompt" /\ Tail(sent) = rest
       /\ answered # <<>> /\ Head(answered).kind = "read" /\ Tail(answered) = rest
       /\ rest # <<>> /\ Head(rest).kind = "interrupt" /\ Tail(rest) = <<>>
  BY Messages
<1>11. sent \in Seq(Message)
  BY SaidMessages
<1>12. /\ Unbroken <=> Served(sent, answered, rest)
       /\ Unbroken' <=> Served(sent, answered, rest)'
  BY <1>9 DEF Unbroken, Served, Cmd, Ans, Brk
<1> HIDE DEF brk, sent, answered, rest
<1>3. CASE Unbroken /\ (BreaksChild \/ BreaksNothing)
  <2>1. toServer # <<>> /\ Head(toServer).kind = "interrupt"
    BY <1>3, BreakAdds
  <2>2. toServer = rest /\ Tail(toServer) = <<>>
    BY <1>3, <1>10, <1>11, <1>12, <2>1, BehindTakes DEF Served
  <2>3. ~(child = "idle" /\ Behind(toServer, sent) /\ toClient = <<>>)
    BY <1>10, <1>11, <2>1, BehindTakes
  <2>4. CASE BreaksChild
    <3>1. Kinds(toClient, Unprompted)
      BY <1>1, <1>3, <1>12, <2>3, <2>4, Widen DEF BreaksChild, Served
    <3> QED
      BY <1>1, <2>2, <2>4, <3>1, BreakAdds, Widen DEF Breaking, BrokenOff
  <2>5. CASE BreaksNothing
    <3>1. EndsIn(toClient, "prompt", Still) /\ n \in ended
      BY <1>3, <1>12, <2>3, <2>5 DEF BreaksNothing, Served
    <3>2. ended' = ended
      BY <2>5 DEF BreaksNothing
    <3> QED
      BY <2>2, <2>5, <3>1, <3>2, BreakAdds DEF Breaking, BrokenAfter
  <2> QED
    BY <1>3, <2>4, <2>5
<1>4. CASE Unbroken /\ (TakesCommand \/ TakesAnswer \/ Emits \/ Finishes)
  <2>1. Served(sent, answered, rest)'
    BY <1>4, <1>10, <1>11, <1>12, ServedAgent
  <2> QED
    BY <1>12, <2>1 DEF Breaking
<1>5. CASE BreaksRead /\ ~Drops
  <2>1. BreaksChild
    BY <1>5, Messages DEF BreaksRead, AgentStep, Answers, TakesCommand, TakesAnswer,
                          BreaksNothing, Emits, Finishes, Took, Brk
  <2> QED
    BY <1>5, <2>1, BreakAdds DEF BreaksRead, Breaking, BrokenOff
<1>6. CASE BrokenOff /\ ~Drops
  <2>1. toServer # <<>> /\ Head(toServer).kind = "read" /\ Kinds(Tail(toServer), {"read"})
    <3>1. toServer # <<>>
      BY <1>6 DEF BrokenOff, AgentStep, Answers, TakesCommand, TakesAnswer, BreaksChild,
                  BreaksNothing, Emits, Finishes, Took
    <3> QED
      BY <1>1, <1>6, <3>1, KindsTail DEF BrokenOff
  <2>2. TakesAnswer
    BY <1>6, <2>1 DEF BrokenOff, AgentStep, Answers, TakesCommand, BreaksChild,
                      BreaksNothing, Emits, Finishes, Took
  <2> QED
    BY <1>6, <2>1, <2>2 DEF BrokenOff, TakesAnswer, Took, Breaking
<1>7. CASE BrokenAfter /\ ~Drops
  BY <1>7 DEF BrokenAfter, AgentStep, Answers, TakesCommand, TakesAnswer, BreaksChild,
              BreaksNothing, Emits, Finishes, Took
<1> QED
  BY <1>2, <1>3, <1>4, <1>5, <1>6, <1>7 DEF AgentStep, Answers, Breaking

LEMMA AgentBroken ==
  ASSUME AgentTypeOK, Broken, AgentStep, n' = n
  PROVE  Broken' \/ CutBroken'
<1>1. toClient \in Seq(Frame) /\ toServer \in Seq(Message) /\ child = "idle"
  BY DEF AgentTypeOK, Broken
<1>2. CASE Drops
  BY <1>2, DropsCuts DEF Broken, CutBroken
<1>3. CASE BreaksNothing
  <2>1. toServer = <<Brk>> /\ toClient = <<>>
    BY <1>1, <1>3, BreakAdds, KindsTail DEF Broken
  <2> QED
    BY <1>1, <1>3, <2>1, BreakAdds, Messages, Widen DEF Broken
<1>4. CASE TakesAnswer
  <2>1. Kinds(toServer, {"read"}) /\ toClient = <<>>
    BY <1>4, Messages DEF Broken, TakesAnswer, Took, Brk
  <2>2. Kinds(Tail(toServer), {"read"})
    BY <1>1, <1>4, <2>1, KindsTail DEF TakesAnswer, Took
  <2> QED
    BY <1>1, <1>4, <2>1, <2>2 DEF Broken, TakesAnswer, Took
<1>5. CASE TakesCommand
  BY <1>1, <1>5, KindsTail, Messages DEF Broken, TakesCommand, Took, Brk
<1> QED
  BY <1>1, <1>2, <1>3, <1>4, <1>5 DEF AgentStep, Answers, BreaksChild, Emits, Finishes

\* While a command runs, what the agent says is of that command.
Own(q, c) == \A k \in 1..Len(q) : q[k].of = c

LEMMA OwnReads ==
  ASSUME NEW F, NEW q \in Seq(F), NEW c, Own(q, c), q # <<>>
  PROVE  Head(q).of = c /\ Own(Tail(q), c)
<1>1. Len(q) \in Nat \ {0} /\ Head(q) = q[1]
  BY TailFacts
<1>2. Len(Tail(q)) = Len(q) - 1 /\ \A k \in 1..(Len(q) - 1) : Tail(q)[k] = q[k + 1]
  BY TailFacts
<1> QED
  BY <1>1, <1>2 DEF Own

LEMMA OwnAppends ==
  ASSUME NEW F, NEW q \in Seq(F), NEW f \in F, NEW c, Own(q, c), f.of = c
  PROVE  Own(Append(q, f), c)
<1>1. /\ Len(Append(q, f)) = Len(q) + 1 /\ Append(q, f)[Len(q) + 1] = f
      /\ \A k \in 1..Len(q) : Append(q, f)[k] = q[k]
      /\ Len(q) \in Nat
  OBVIOUS
<1> QED
  BY <1>1 DEF Own

\* The child that runs is the one of the command: the only command the agent can
\* take is the client's own.
LEMMA AgentChild ==
  ASSUME AgentTypeOK, Running \/ Breaking, AgentStep, n \in Commands,
         child \in {"executing", "reading"} => childOf = n
  PROVE  child' \in {"executing", "reading"} => childOf' = n
<1>1. CASE TakesCommand
  <2>1. child = "idle" /\ toServer # <<>> /\ Head(toServer).kind = "prompt"
    BY <1>1 DEF TakesCommand, Took
  <2>2. Behind(toServer, <<Cmd>>) \/ Behind(toServer, <<Cmd, Brk>>)
    <3>1. ~Kinds(toServer, {"read"})
      BY <2>1, KindsTail DEF AgentTypeOK
    <3>2. toServer # <<Brk>>
      BY <2>1, Messages DEF Brk
    <3> QED
      BY <2>1, <3>1, <3>2 DEF Running, Breaking, Unbroken, Served, BreaksRead, BrokenOff,
                              BrokenAfter
  <2>3. /\ <<Cmd>> \in Seq(Message) /\ <<Cmd>> # <<>> /\ Head(<<Cmd>>) = Cmd
        /\ <<Cmd, Brk>> \in Seq(Message) /\ <<Cmd, Brk>> # <<>> /\ Head(<<Cmd, Brk>>) = Cmd
    BY SaidMessages, Messages DEF Cmd, Brk
  <2>4. Head(toServer) = Cmd
    BY <2>1, <2>2, <2>3, BehindTakes
  <2>5. Head(toServer).of = n
    BY <2>4, Messages DEF Cmd
  <2> QED
    BY <1>1, <2>5 DEF TakesCommand
<1>2. CASE TakesAnswer \/ Drops \/ BreaksChild \/ BreaksNothing \/ Emits \/ Finishes
  BY <1>2 DEF TakesAnswer, Drops, BreaksChild, BreaksNothing, Emits, Finishes
<1> QED
  BY <1>1, <1>2 DEF AgentStep, Answers

LEMMA AgentOwn ==
  ASSUME AgentTypeOK, Running, AgentStep, Own(toClient, n), n \in Commands,
         child \in {"executing", "reading"} => childOf = n
  PROVE  Own(toClient', n)
<1>1. toClient \in Seq(Frame)
  BY DEF AgentTypeOK
<1>2. CASE TakesCommand \/ TakesAnswer \/ Drops
  BY <1>2 DEF TakesCommand, TakesAnswer, Drops
<1>3. CASE BreaksChild \/ BreaksNothing
  <2>1. toServer # <<>> /\ Head(toServer).kind = "interrupt"
    BY <1>3, BreakAdds
  <2>2. <<Cmd>> \in Seq(Message) /\ <<Cmd>> # <<>> /\ Head(<<Cmd>>).kind = "prompt"
    BY SaidMessages, Messages DEF Cmd
  <2>3. ~Behind(toServer, <<Cmd>>)
    BY <2>1, <2>2, BehindTakes
  <2> QED
    BY <2>1, <2>3, Messages DEF Running, Served, Ans
<1>4. CASE Emits \/ Finishes
  <2>1. childOf = n /\ childOf \in Commands
    BY <1>4 DEF Emits, Finishes, AgentTypeOK
  <2>2. PICK kind \in {"output", "read", "error", "prompt"} :
           toClient' = Append(toClient, Tagged(kind, childOf))
    BY <1>4 DEF Emits, Finishes
  <2>3. Tagged(kind, childOf) \in Frame /\ Tagged(kind, childOf).of = n
    BY <2>1, SaidType, Messages
  <2> QED
    BY <1>1, <2>1, <2>2, <2>3, OwnAppends
<1> QED
  BY <1>2, <1>3, <1>4 DEF AgentStep, Answers

LEMMA AgentInStep ==
  ASSUME TypeOK, InStep, OwnFrames, AgentStep, UNCHANGED clientVars
  PROVE  InStep' /\ OwnFrames'
<1>1. AgentTypeOK /\ pc' = pc /\ n' = n /\ outcome' = outcome
  BY DEF TypeOK, clientVars
<1>2. pc \notin {"prompt", "over"} => n \in Commands
  BY DEF TypeOK, ClientTypeOK
<1>3. CASE pc = "prompt"
  <2>1. toClient = <<>> /\ child = "idle" /\ Kinds(toServer, {"read"}) /\ toServer \in Seq(Message)
    BY <1>1, <1>3, CutStays DEF InStep, AtRest, AgentTypeOK
  <2>2. CASE Drops
    BY <1>1, <1>3, <2>1, <2>2 DEF Drops, InStep, AtRest, Cut, OwnFrames
  <2>3. CASE ~Drops
    <3>1. toServer # <<>>
      BY <2>1, <2>3 DEF AgentStep, Answers, TakesCommand, TakesAnswer, BreaksChild,
                        BreaksNothing, Emits, Finishes, Took
    <3>2. Head(toServer).kind = "read" /\ Kinds(Tail(toServer), {"read"})
      BY <2>1, <3>1, KindsTail
    <3>3. TakesAnswer
      BY <2>1, <2>3, <3>2 DEF AgentStep, Answers, TakesCommand, BreaksChild,
                              BreaksNothing, Emits, Finishes, Took
    <3>4. toServer' = Tail(toServer) /\ child' = "idle" /\ toClient' = <<>>
      BY <2>1, <3>3 DEF TakesAnswer, Took
    <3>5. ~Failed
      BY <1>3, <3>1 DEF InStep
    <3> QED
      BY <1>1, <1>3, <3>2, <3>4, <3>5 DEF InStep, AtRest, Failed, OwnFrames
  <2> QED
    BY <2>2, <2>3
<1>4. CASE pc \in {"run", "wait"}
  <2>1. Running /\ Own(toClient, n) /\ (child \in {"executing", "reading"} => childOf = n)
    BY <1>4, CutStays DEF InStep, OwnFrames, CutRunning, Own
  <2>2. Running' \/ CutRunning'
    BY <1>1, <1>2, <1>4, <2>1, AgentRunning
  <2>3. Own(toClient', n) /\ (child' \in {"executing", "reading"} => childOf' = n)
    BY <1>1, <1>2, <1>4, <2>1, AgentOwn, AgentChild
  <2> QED
    BY <1>1, <1>4, <2>2, <2>3 DEF InStep, OwnFrames, Own
<1>5. CASE pc = "answer"
  <2>1. AtRead
    BY <1>5, CutStays DEF InStep, CutRunning
  <2>2. Drops
    BY <2>1 DEF AtRead, AgentStep, Answers, TakesCommand, TakesAnswer, BreaksChild,
                BreaksNothing, Emits, Finishes, Took
  <2>3. CutRunning' /\ toClient' = <<>> /\ child' = "closed"
    BY <2>1, <2>2, DropsCuts DEF AtRead, CutRunning, Cut, Kinds
  <2>4. Len(<<>>) = 0
    OBVIOUS
  <2> QED
    BY <1>1, <1>5, <2>3, <2>4 DEF InStep, OwnFrames
<1>6. CASE pc \in {"settle", "drain"}
  <2>1. Breaking /\ (child \in {"executing", "reading"} => childOf = n)
    BY <1>6, CutStays DEF InStep, CutBreaking, OwnFrames
  <2>2. Breaking' \/ CutBreaking'
    BY <1>1, <1>2, <1>6, <2>1, AgentBreaking
  <2>3. child' \in {"executing", "reading"} => childOf' = n
    BY <1>1, <1>2, <1>6, <2>1, AgentChild
  <2> QED
    BY <1>1, <1>6, <2>2, <2>3 DEF InStep, OwnFrames
<1>7. CASE pc = "drainLate"
  <2>1. Broken
    BY <1>7, CutStays DEF InStep, CutBroken
  <2> QED
    BY <1>1, <1>7, <2>1, AgentBroken DEF InStep, OwnFrames
<1>8. CASE pc = "over"
  BY <1>1, <1>8 DEF InStep, OwnFrames
<1> QED
  BY <1>3, <1>4, <1>5, <1>6, <1>7, <1>8 DEF TypeOK, ClientTypeOK, PC

----
\* The client's steps.

\* What is left of the frames when the first one, of that kind, is read.
LEMMA FrameRead ==
  ASSUME AgentTypeOK, NEW kind, Reads(kind)
  PROVE  /\ Kinds(toClient, Still) => kind \in Still /\ Kinds(toClient', Still)
         /\ Kinds(toClient, Unprompted) => kind \in Unprompted /\ Kinds(toClient', Unprompted)
         /\ \A e \in {"read", "prompt"} : EndsIn(toClient, e, Still) =>
               /\ kind = e => toClient' = <<>>
               /\ kind # e => kind \in Still /\ EndsIn(toClient', e, Still)
         /\ EndsIn(toClient, "prompt", Unprompted) =>
               /\ kind = "prompt" => toClient' = <<>>
               /\ kind # "prompt" =>
                     kind \in Unprompted /\ EndsIn(toClient', "prompt", Unprompted)
         /\ TwoPrompts(toClient) =>
               /\ kind = "prompt" => EndsIn(toClient', "prompt", Still)
               /\ kind # "prompt" => kind \in Still /\ TwoPrompts(toClient')
         /\ toClient # <<>> /\ toClient \in Seq(Frame)
<1>1. /\ toClient \in Seq(Frame) /\ toClient # <<>> /\ Head(toClient).kind = kind
      /\ toClient' = Tail(toClient)
  BY DEF AgentTypeOK, Reads
<1>2. /\ "prompt" \notin Still /\ "read" \notin Still /\ "prompt" \notin Unprompted
  BY DEF Still, Unprompted
<1>3. /\ Kinds(toClient, Still) => kind \in Still /\ Kinds(toClient', Still)
      /\ Kinds(toClient, Unprompted) => kind \in Unprompted /\ Kinds(toClient', Unprompted)
  BY <1>1, KindsTail
<1>4. \A e \in {"read", "prompt"} : EndsIn(toClient, e, Still) =>
         /\ kind = e => toClient' = <<>>
         /\ kind # e => kind \in Still /\ EndsIn(toClient', e, Still)
  BY <1>1, <1>2, EndsTail
<1>5. EndsIn(toClient, "prompt", Unprompted) =>
         /\ kind = "prompt" => toClient' = <<>>
         /\ kind # "prompt" => kind \in Unprompted /\ EndsIn(toClient', "prompt", Unprompted)
  BY <1>1, <1>2, EndsTail
<1>6. TwoPrompts(toClient) =>
         /\ kind = "prompt" => EndsIn(toClient', "prompt", Still)
         /\ kind # "prompt" => kind \in Still /\ TwoPrompts(toClient')
  BY <1>1, TwoTail
<1> QED
  BY <1>1, <1>3, <1>4, <1>5, <1>6

\* A frame of a running command is read.
LEMMA RunningReads ==
  ASSUME AgentTypeOK, NEW kind, Reads(kind)
  PROVE  /\ Running /\ kind \in Still =>
               \/ child = "executing" /\ toServer = <<>> /\ Kinds(toClient', Still)
               \/ child = "reading" /\ toServer = <<>> /\ EndsIn(toClient', "read", Still)
               \/ child = "reading" /\ toServer = <<Ans>> /\ Kinds(toClient', Still)
               \/ /\ child = "idle" /\ toServer = <<>> /\ EndsIn(toClient', "prompt", Still)
                  /\ n \in ended
         /\ Running /\ kind = "read" => child = "reading" /\ toServer = <<>> /\ toClient' = <<>>
         /\ Running /\ kind = "prompt" => child = "idle" /\ toServer = <<>> /\ toClient' = <<>>
         /\ CutRunning /\ kind # "prompt" =>
               Cut /\ (Kinds(toClient', Unprompted) \/ EndsIn(toClient', "prompt", Still))
         /\ CutRunning /\ kind = "prompt" => Cut /\ toClient' = <<>>
<1>1. /\ "prompt" \notin Still /\ "read" \notin Still /\ "prompt" \notin Unprompted
  BY DEF Still, Unprompted
<1>2. Running => \/ child = "executing" /\ toServer = <<>> /\ Kinds(toClient, Still)
                 \/ child = "reading" /\ toServer = <<>> /\ EndsIn(toClient, "read", Still)
                 \/ child = "reading" /\ toServer = <<Ans>> /\ Kinds(toClient, Still)
                 \/ /\ child = "idle" /\ toServer = <<>> /\ EndsIn(toClient, "prompt", Still)
                    /\ n \in ended
  BY FrameRead DEF Running, Served
<1>3. CASE Running /\ kind \in Still
  BY <1>1, <1>2, <1>3, FrameRead DEF CutRunning, Cut
<1>4. CASE Running /\ kind = "read"
  BY <1>1, <1>2, <1>4, FrameRead DEF CutRunning, Cut
<1>5. CASE Running /\ kind = "prompt"
  BY <1>1, <1>2, <1>5, FrameRead DEF CutRunning, Cut
<1>6. CASE CutRunning
  BY <1>1, <1>2, <1>6, FrameRead DEF CutRunning, Cut
<1> QED
  BY <1>1, <1>3, <1>4, <1>5, <1>6

LEMMA ReadsOwn ==
  ASSUME AgentTypeOK, NEW kind, Reads(kind), Own(toClient, n)
  PROVE  Own(toClient', n) /\ Head(toClient).of = n
<1>1. toClient \in Seq(Frame) /\ toClient # <<>> /\ toClient' = Tail(toClient)
  BY DEF AgentTypeOK, Reads
<1> QED
  BY <1>1, OwnReads

LEMMA StepEnter ==
  ASSUME TypeOK, InStep, Enter
  PROVE  InStep' /\ OwnFrames'
<1>1. /\ pc = "prompt" /\ pc' = "run" /\ n' = n + 1 /\ child' = child /\ toClient' = toClient
      /\ toServer' = IF child = "closed" THEN toServer
                     ELSE Append(toServer, Tagged("prompt", n + 1))
      /\ toServer \in Seq(Message)
  BY DEF Enter, Delivered, TypeOK, AgentTypeOK
<1>2. toClient = <<>> /\ (Cut \/ (child = "idle" /\ Kinds(toServer, {"read"})))
  BY <1>1 DEF InStep, AtRest
<1>3. Kinds(<<>>, Unprompted) /\ Len(<<>>) = 0
  BY DEF Kinds
<1>4. CASE child = "idle" /\ Kinds(toServer, {"read"})
  <2>1. n + 1 \in Commands
    BY AgentAssumption DEF Enter, TypeOK, ClientTypeOK, Commands
  <2>2. Tagged("prompt", n + 1) \in Message
    BY <2>1 DEF Tagged, Message
  <2>3. Behind(toServer', <<Tagged("prompt", n + 1)>>)
    BY <1>1, <1>4, <2>2, BehindAnswers
  <2>4. Behind(toServer', <<Tagged("prompt", n')>>)
    BY <1>1, <2>3
  <2>5. Running'
    BY <1>1, <1>2, <1>4, <2>4 DEF Running, Served, Cmd
  <2> QED
    BY <1>1, <1>2, <1>3, <1>4, <2>5 DEF InStep, OwnFrames
<1>5. CASE Cut
  BY <1>1, <1>2, <1>3, <1>5 DEF InStep, CutRunning, Cut, OwnFrames
<1> QED
  BY <1>2, <1>4, <1>5

LEMMA StepWait ==
  ASSUME TypeOK, InStep, OwnFrames, Polls \/ Ticks
  PROVE  InStep' /\ OwnFrames'
<1>1. /\ pc \in {"run", "wait"} /\ pc' \in {"run", "wait"} /\ n' = n
      /\ UNCHANGED <<toServer, toClient, child, childOf, ended>>
  BY DEF Polls, Ticks, agentVars
<1>2. Running \/ CutRunning
  BY <1>1 DEF InStep
<1>3. Running' \/ CutRunning'
  BY <1>1, <1>2 DEF Running, CutRunning, Served, Cut, Cmd, Ans
<1> QED
  BY <1>1, <1>3 DEF InStep, OwnFrames

LEMMA StepOutput ==
  ASSUME TypeOK, InStep, OwnFrames, ReadsOutput
  PROVE  InStep' /\ OwnFrames'
<1>1. /\ AgentTypeOK /\ pc = "wait" /\ pc' = "run" /\ n' = n
      /\ UNCHANGED <<toServer, child, childOf, ended>>
      /\ Reads("output") /\ "output" \in Still
  BY DEF ReadsOutput, ReadsAs, TypeOK, Still
<1>2. OwnFrames'
  BY <1>1, ReadsOwn DEF OwnFrames, Own
<1>3. Running \/ CutRunning
  BY <1>1 DEF InStep
<1>4. Running' \/ CutRunning'
  BY <1>1, <1>3, RunningReads DEF Running, CutRunning, Served, Cut, Ans
<1> QED
  BY <1>1, <1>2, <1>4 DEF InStep

\* A read frame leaves the child waiting for the answer, and the socket empty.
LEMMA StepRead ==
  ASSUME TypeOK, InStep, OwnFrames, ReadsRead
  PROVE  InStep' /\ OwnFrames'
<1>1. /\ AgentTypeOK /\ pc = "wait" /\ pc' = "answer" /\ n' = n
      /\ UNCHANGED <<toServer, child, childOf, ended>> /\ Reads("read")
      /\ "read" # "prompt"
  BY DEF ReadsRead, ReadsAs, TypeOK
<1>2. OwnFrames'
  BY <1>1, ReadsOwn DEF OwnFrames, Own
<1>3. CASE Running
  <2>1. child = "reading" /\ toServer = <<>> /\ toClient' = <<>>
    BY <1>1, <1>3, RunningReads
  <2> QED
    BY <1>1, <1>2, <2>1 DEF InStep, AtRead
<1>4. CASE CutRunning
  <2>1. CutRunning'
    BY <1>1, <1>4, RunningReads DEF CutRunning, Cut
  <2> QED
    BY <1>1, <1>2, <2>1 DEF InStep
<1> QED
  BY <1>1, <1>3, <1>4 DEF InStep

LEMMA StepAnswer ==
  ASSUME TypeOK, InStep, OwnFrames, AnswersRead
  PROVE  InStep' /\ OwnFrames'
<1>1. /\ pc = "answer" /\ pc' = "run" /\ n' = n
      /\ UNCHANGED <<toClient, child, childOf, ended>>
      /\ toServer' = IF child = "closed" THEN toServer ELSE Append(toServer, Ans)
  BY DEF AnswersRead, Send, Delivered, Ans
<1>2. OwnFrames'
  BY <1>1 DEF OwnFrames
<1>3. CASE AtRead
  <2>1. child = "reading" /\ toServer' = <<Ans>> /\ toClient' = <<>> /\ Kinds(<<>>, Still)
    BY <1>1, <1>3, Messages DEF AtRead, Kinds
  <2>2. Running'
    BY <1>1, <2>1 DEF Running, Served, Ans
  <2> QED
    BY <1>1, <1>2, <2>2 DEF InStep
<1>4. CASE CutRunning
  <2>1. CutRunning'
    BY <1>1, <1>4 DEF CutRunning, Cut
  <2> QED
    BY <1>1, <1>2, <2>1 DEF InStep
<1> QED
  BY <1>1, <1>3, <1>4 DEF InStep

LEMMA StepPrompt ==
  ASSUME TypeOK, InStep, ReadsPrompt
  PROVE  InStep' /\ OwnFrames'
<1>1. /\ AgentTypeOK /\ pc = "wait" /\ pc' = "prompt" /\ Reads("prompt")
      /\ UNCHANGED <<toServer, child>>
  BY DEF ReadsPrompt, ReadsAs, Returned, TypeOK
<1>2. /\ toServer = <<>> /\ toClient' = <<>> /\ child \in {"idle", "closed"}
      /\ Kinds(<<>>, {"read"})
  BY <1>1, RunningReads DEF InStep, Cut, Kinds
<1> QED
  BY <1>1, <1>2 DEF InStep, AtRest, Cut, OwnFrames

\* Whatever run_with gives up on, and whatever it cancels, it sends an interrupt
\* behind the command.
LEMMA StepBreaks ==
  ASSUME TypeOK, InStep, OwnFrames, pc \in {"run", "wait", "answer"}, pc' \in {"settle", "drain"},
         n' = n, UNCHANGED childVars, Send("interrupt"),
         \/ UNCHANGED toClient
         \/ pc = "wait" /\ \E kind \in {"error", "output"} : Reads(kind)
  PROVE  InStep' /\ OwnFrames'
<1>1. /\ AgentTypeOK /\ UNCHANGED <<child, childOf, ended>>
      /\ toServer' = IF child = "closed" THEN toServer ELSE Append(toServer, Brk)
      /\ toClient \in Seq(Frame) /\ n \in Commands
  BY DEF Send, Delivered, TypeOK, AgentTypeOK, ClientTypeOK, Brk
<1>2. Brk' = Brk /\ Cmd' = Cmd /\ Ans' = Ans
  BY DEF Brk, Cmd, Ans
<1>8. OwnFrames'
  BY <1>1 DEF OwnFrames
<1>3. CASE CutRunning
  <2>1. Cut' /\ (Kinds(toClient', Unprompted) \/ EndsIn(toClient', "prompt", Still))
    BY <1>1, <1>3, RunningReads DEF CutRunning, Cut
  <2>2. toClient' \in Seq(Frame)
    BY <1>1, ReadType
  <2>3. CutBreaking'
    BY <2>1, <2>2, Widen DEF CutBreaking
  <2> QED
    BY <1>8, <2>3 DEF InStep
<1>4. CASE Running /\ UNCHANGED toClient
  <2>1. CASE child = "idle" /\ Behind(toServer, <<Cmd>>) /\ toClient = <<>>
    <3>1. Brk \in Message /\ <<Cmd>> \in Seq(Message) /\ Append(<<Cmd>>, Brk) = <<Cmd, Brk>>
      BY <1>1, SaidMessages, Messages DEF Brk, Cmd, Tagged, Message
    <3>2. Behind(Append(toServer, Brk), Append(<<Cmd>>, Brk))
      BY <2>1, <3>1, BehindSays
    <3>3. Behind(toServer', <<Cmd, Brk>>)
      BY <1>1, <2>1, <3>1, <3>2
    <3>4. Unbroken'
      BY <1>1, <1>2, <1>4, <2>1, <3>3 DEF Unbroken, Served
    <3> QED
      BY <1>8, <3>4 DEF InStep, Breaking
  <2>2. CASE ~(child = "idle" /\ Behind(toServer, <<Cmd>>) /\ toClient = <<>>)
    <3>1. Unbroken'
      BY <1>1, <1>2, <1>4, <2>2, Messages DEF Running, Unbroken, Served
    <3> QED
      BY <1>8, <3>1 DEF InStep, Breaking
  <2> QED
    BY <2>1, <2>2
<1>5. CASE Running /\ \E kind \in {"error", "output"} : Reads(kind)
  <2>1. \/ child = "executing" /\ toServer = <<>> /\ Kinds(toClient', Still)
        \/ child = "reading" /\ toServer = <<>> /\ EndsIn(toClient', "read", Still)
        \/ child = "reading" /\ toServer = <<Ans>> /\ Kinds(toClient', Still)
        \/ /\ child = "idle" /\ toServer = <<>> /\ EndsIn(toClient', "prompt", Still)
           /\ n \in ended
    BY <1>1, <1>5, RunningReads DEF Still
  <2>2. Unbroken'
    BY <1>1, <1>2, <2>1, Messages DEF Unbroken, Served
  <2> QED
    BY <1>8, <2>2 DEF InStep, Breaking
<1>6. CASE AtRead /\ UNCHANGED toClient
  <2>1. child = "reading" /\ toServer' = <<Brk>> /\ toClient' = <<>>
    BY <1>1, <1>6, Messages DEF AtRead
  <2>2. /\ toServer' # <<>> /\ Head(toServer') = Brk' /\ Tail(toServer') = <<>>
        /\ Kinds(<<>>, {"read"}) /\ Kinds(<<>>, Unprompted)
    BY <1>2, <2>1, Messages DEF Kinds
  <2>3. BreaksRead'
    BY <1>1, <2>1, <2>2 DEF BreaksRead
  <2> QED
    BY <1>8, <2>3 DEF InStep, Breaking
<1> QED
  BY <1>3, <1>4, <1>5, <1>6 DEF InStep

LEMMA StepSkips ==
  ASSUME TypeOK, InStep, OwnFrames, NEW at \in {"settle", "drain", "drainLate"}, Skips(at)
  PROVE  InStep' /\ OwnFrames'
<1>1. /\ AgentTypeOK /\ pc = at /\ pc' = pc /\ n' = n /\ UNCHANGED <<toServer, child, childOf, ended>>
  BY DEF Skips, clientVars, TypeOK
<1>2. PICK kind \in Still : Reads(kind) /\ kind # "prompt" /\ kind # "read"
  BY DEF Skips, Still
<1>3. Brk' = Brk /\ Cmd' = Cmd /\ Ans' = Ans
  BY <1>1 DEF Brk, Cmd, Ans
<1>4. CASE pc \in {"settle", "drain"} /\ Breaking
  <2> SUFFICES Breaking'
    BY <1>1, <1>4 DEF InStep, OwnFrames
  <2>1. CASE Unbroken
    <3>1. Unbroken'
      BY <1>1, <1>2, <1>3, <2>1, FrameRead DEF Unbroken, Served
    <3> QED
      BY <3>1 DEF Breaking
  <2>2. CASE BreaksRead
    <3>1. BreaksRead'
      BY <1>1, <1>2, <1>3, <2>2, FrameRead DEF BreaksRead
    <3> QED
      BY <3>1 DEF Breaking
  <2>3. CASE BrokenOff \/ BrokenAfter
    <3>1. (BrokenOff \/ BrokenAfter)'
      BY <1>1, <1>2, <2>3, FrameRead DEF BrokenOff, BrokenAfter
    <3> QED
      BY <3>1 DEF Breaking
  <2> QED
    BY <1>4, <2>1, <2>2, <2>3 DEF Breaking
<1>5. CASE pc \in {"settle", "drain"} /\ CutBreaking
  <2>1. CutBreaking'
    BY <1>1, <1>2, <1>5, FrameRead DEF CutBreaking, Cut
  <2> QED
    BY <1>1, <1>5, <2>1 DEF InStep, OwnFrames
<1>6. CASE pc = "drainLate"
  <2>1. Broken \/ CutBroken
    BY <1>6 DEF InStep
  <2>2. Broken' \/ CutBroken'
    BY <1>1, <1>2, <2>1, FrameRead DEF Broken, CutBroken, Cut
  <2> QED
    BY <1>1, <1>6, <2>2 DEF InStep, OwnFrames
<1> QED
  BY <1>1, <1>4, <1>5, <1>6 DEF InStep

\* A read that comes up in the drain is answered behind the interrupt.
LEMMA StepReplies ==
  ASSUME TypeOK, InStep, OwnFrames, NEW at \in {"settle", "drain", "drainLate"}, Replies(at)
  PROVE  InStep' /\ OwnFrames'
<1>1. /\ AgentTypeOK /\ pc = at /\ pc' = pc /\ n' = n /\ UNCHANGED <<child, childOf, ended>> /\ Reads("read")
      /\ toServer' = IF child = "closed" THEN toServer ELSE Append(toServer, Ans)
      /\ toServer \in Seq(Message) /\ n \in Commands
  BY DEF Replies, Send, Delivered, clientVars, TypeOK, AgentTypeOK, ClientTypeOK, Ans
<1>2. Brk' = Brk /\ "read" \notin Still /\ Ans.kind = "read" /\ Ans \in Message
  BY <1>1 DEF Brk, Still, Ans, Tagged, Message
<1>3. CASE pc \in {"settle", "drain"} /\ Breaking
  <2> SUFFICES Breaking'
    BY <1>1, <1>3 DEF InStep, OwnFrames
  <2>1. CASE Unbroken
    <3>1. child = "reading" /\ toServer = <<Brk>> /\ toClient' = <<>>
      BY <1>1, <1>2, <2>1, FrameRead DEF Unbroken, Served
    <3>2. toServer' = <<Brk, Ans>>
      BY <1>1, <3>1, Messages
    <3>3. Kinds(<<Ans>>, {"read"}) /\ Kinds(<<>>, Unprompted)
      <4>1. Len(<<Ans>>) = 1 /\ <<Ans>>[1] = Ans /\ Len(<<>>) = 0
        OBVIOUS
      <4> QED
        BY <1>2, <4>1 DEF Kinds
    <3>4. toServer' # <<>> /\ Head(toServer') = Brk' /\ Tail(toServer') = <<Ans>>
      BY <1>2, <3>2, Messages
    <3>5. BreaksRead'
      BY <1>1, <3>1, <3>3, <3>4 DEF BreaksRead
    <3> QED
      BY <3>5 DEF Breaking
  <2>2. CASE BreaksRead
    <3>1. Kinds(toClient', Unprompted) /\ toServer' = Append(toServer, Ans)
      BY <1>1, <2>2, FrameRead DEF BreaksRead
    <3>2. /\ toServer' # <<>> /\ Head(toServer') = Head(toServer)
          /\ Tail(toServer') = Append(Tail(toServer), Ans)
      <4>1. toServer # <<>> /\ Tail(toServer) \in Seq(Message)
        BY <1>1, <2>2, TailFacts DEF BreaksRead
      <4> QED
        BY <1>1, <1>2, <3>1, <4>1, HeadTailAppend
    <3>3. Kinds(Tail(toServer'), {"read"})
      <4>1. Tail(toServer) \in Seq(Message) /\ Kinds(Tail(toServer), {"read"})
        BY <1>1, <2>2, TailFacts DEF BreaksRead
      <4> QED
        BY <1>2, <3>2, <4>1, KindsAppend
    <3>4. BreaksRead'
      BY <1>1, <1>2, <2>2, <3>1, <3>2, <3>3 DEF BreaksRead
    <3> QED
      BY <3>4 DEF Breaking
  <2>3. CASE BrokenOff
    <3>1. EndsIn(toClient', "prompt", Unprompted) /\ toServer' = Append(toServer, Ans)
      BY <1>1, <2>3, FrameRead DEF BrokenOff
    <3>2. Kinds(toServer', {"read"})
      BY <1>1, <1>2, <2>3, <3>1, KindsAppend DEF BrokenOff
    <3> QED
      BY <1>1, <2>3, <3>1, <3>2 DEF Breaking, BrokenOff
  <2>4. CASE BrokenAfter
    BY <1>1, <1>2, <2>4, FrameRead DEF BrokenAfter
  <2> QED
    BY <1>3, <2>1, <2>2, <2>3, <2>4 DEF Breaking
<1>4. CASE pc \in {"settle", "drain"} /\ CutBreaking
  <2>1. CutBreaking'
    BY <1>1, <1>2, <1>4, FrameRead DEF CutBreaking, Cut
  <2> QED
    BY <1>1, <1>4, <2>1 DEF InStep, OwnFrames
<1>5. CASE pc = "drainLate"
  BY <1>1, <1>2, <1>5, FrameRead DEF InStep, Broken, CutBroken
<1> QED
  BY <1>1, <1>3, <1>4, <1>5 DEF InStep

LEMMA NothingEnds ==
  /\ ~EndsIn(<<>>, "prompt", Still) /\ ~EndsIn(<<>>, "read", Still)
  /\ ~EndsIn(<<>>, "prompt", Unprompted) /\ ~TwoPrompts(<<>>)
<1>1. <<>> \in Seq(Frame)
  OBVIOUS
<1> QED
  BY <1>1, TwoTail DEF EndsIn

\* The interrupt of a running command owes a prompt at least.
LEMMA BreakingOwes ==
  ASSUME AgentTypeOK, n \in Commands, Breaking
  PROVE  Owed
<1>1. <<Cmd, Brk>> \in Seq(Message) /\ <<Cmd, Brk>> # <<>> /\ <<Brk>> # <<>> /\ <<Ans, Brk>> # <<>>
  BY SaidMessages, Messages DEF Cmd, Brk
<1>2. Behind(toServer, <<Cmd, Brk>>) => toServer # <<>>
  BY <1>1, BehindTakes
<1> QED
  BY <1>1, <1>2, NothingEnds
     DEF Owed, Breaking, Unbroken, Served, BreaksRead, BrokenOff, BrokenAfter

\* The prompt of an interrupt that stopped the child is the last frame.
LEMMA BreakingPrompt ==
  ASSUME AgentTypeOK, Reads("prompt")
  PROVE  /\ Breaking => child = "idle"
         /\ Breaking /\ n \notin ended => Kinds(toServer, {"read"}) /\ toClient' = <<>>
         /\ Breaking => \/ toServer = <<Brk>> /\ toClient' = <<>>
                        \/ toServer = <<>> /\ EndsIn(toClient', "prompt", Still)
                        \/ Kinds(toServer, {"read"}) /\ toClient' = <<>>
         /\ CutBreaking /\ n \notin ended => Cut /\ toClient' = <<>>
         /\ CutBreaking => Cut /\ (toClient' = <<>> \/ EndsIn(toClient', "prompt", Still))
<1>1. "prompt" \notin Still /\ "prompt" \notin Unprompted
  BY DEF Still, Unprompted
<1>2. CASE Unbroken
  BY <1>1, <1>2, FrameRead DEF Unbroken, Served, CutBreaking, Cut
<1>3. CASE BreaksRead
  BY <1>1, <1>3, FrameRead DEF BreaksRead, CutBreaking, Cut
<1>4. CASE BrokenOff \/ BrokenAfter
  BY <1>1, <1>4, FrameRead DEF BrokenOff, BrokenAfter, CutBreaking, Cut
<1>5. CASE CutBreaking
  BY <1>1, <1>5, FrameRead DEF CutBreaking, Cut, Breaking, Unbroken, Served, BreaksRead,
                               BrokenOff, BrokenAfter
<1> QED
  BY <1>2, <1>3, <1>4, <1>5 DEF Breaking

\* A settle in time leaves nothing but an answer nobody waits for, if the
\* interrupt stopped the child.
LEMMA StepSettles ==
  ASSUME TypeOK, InStep, Settles, ~Strayed(n)'
  PROVE  InStep' /\ OwnFrames'
<1>1. /\ AgentTypeOK /\ pc = "settle" /\ pc' = "prompt" /\ n' = n /\ n \in Commands
      /\ UNCHANGED <<toServer, child, ended>>
      /\ outcome' = [outcome EXCEPT ![n] = "interrupted"]
      /\ outcome \in [Commands -> Outcome]
      /\ TakesPrompt \/ TimesOut \/ FindsGone
  BY DEF Settles, Returned, TypeOK, ClientTypeOK
<1>2. outcome'[n] = "interrupted" /\ ~Failed'
  BY <1>1 DEF Failed
<1>3. n \notin ended /\ n \notin late'
  BY <1>1, <1>2 DEF Strayed
<1>4. Breaking \/ CutBreaking
  BY <1>1 DEF InStep
<1>5. AtRest'
  <2>1. CASE TakesPrompt
    BY <1>1, <1>3, <1>4, <2>1, BreakingPrompt DEF TakesPrompt, AtRest, Cut
  <2>2. CASE TimesOut
    <3>1. ~Owed /\ toClient' = toClient
      BY <1>3, <1>1, <2>2 DEF TimesOut, ClientTypeOK
    <3>2. CutBreaking
      BY <1>1, <1>4, <3>1, BreakingOwes
    <3> QED
      BY <1>1, <3>1, <3>2 DEF Owed, CutBreaking, AtRest, Cut
  <2>3. CASE FindsGone
    BY <1>1, <1>4, <2>3 DEF FindsGone, Gone, CutBreaking, Breaking, Unbroken, Served,
                            BreaksRead, BrokenOff, BrokenAfter, AtRest, Cut
  <2> QED
    BY <1>1, <2>1, <2>2, <2>3
<1> QED
  BY <1>1, <1>2, <1>5 DEF InStep, OwnFrames

\* The first drain leaves at most the interrupt and what it still causes.
LEMMA StepDrained ==
  ASSUME TypeOK, InStep, Drained, n \notin late'
  PROVE  InStep' /\ OwnFrames'
<1>1. /\ AgentTypeOK /\ pc = "drain" /\ pc' = "drainLate" /\ n' = n /\ n \in Commands
      /\ UNCHANGED <<toServer, child>> /\ Brk' = Brk
      /\ TakesPrompt \/ TimesOut \/ FindsGone
  BY DEF Drained, Drains, ThenDrains, TypeOK, ClientTypeOK, Brk
<1>2. Breaking \/ CutBreaking
  BY <1>1 DEF InStep
<1>3. CASE TakesPrompt
  <2>1. Broken' \/ CutBroken'
    BY <1>1, <1>2, <1>3, BreakingPrompt DEF TakesPrompt, Broken, CutBroken, Cut
  <2> QED
    BY <1>1, <2>1 DEF InStep, OwnFrames
<1>4. CASE TimesOut
  <2>1. ~Owed /\ toClient' = toClient
    BY <1>1, <1>4 DEF TimesOut
  <2>2. CutBreaking
    BY <1>1, <1>2, <2>1, BreakingOwes
  <2>3. CutBroken'
    BY <1>1, <2>1, <2>2 DEF Owed, CutBreaking, CutBroken, Cut
  <2> QED
    BY <1>1, <2>3 DEF InStep, OwnFrames
<1>5. CASE FindsGone
  <2>1. CutBroken'
    BY <1>1, <1>2, <1>5 DEF FindsGone, Gone, CutBreaking, Breaking, Unbroken, Served,
                            BreaksRead, BrokenOff, BrokenAfter, CutBroken, Cut
  <2> QED
    BY <1>1, <2>1 DEF InStep, OwnFrames
<1> QED
  BY <1>1, <1>3, <1>4, <1>5

\* The second one leaves nothing.
LEMMA StepDrainedLate ==
  ASSUME TypeOK, InStep, DrainedLate, n \notin late'
  PROVE  InStep' /\ OwnFrames'
<1>1. /\ AgentTypeOK /\ pc = "drainLate" /\ pc' = "prompt" /\ n' = n
      /\ UNCHANGED <<toServer, child>>
      /\ TakesPrompt \/ TimesOut
  BY DEF DrainedLate, Drains, TypeOK
<1>2. Broken \/ CutBroken
  BY <1>1 DEF InStep
<1>3. toServer = <<>> /\ toClient' = <<>> /\ child \in {"idle", "closed"} /\ Kinds(<<>>, {"read"})
  <2>1. CASE TakesPrompt
    BY <1>1, <1>2, <2>1, FrameRead DEF TakesPrompt, Broken, CutBroken, Cut, Kinds
  <2>2. CASE TimesOut
    <3>1. ~Owed /\ toClient' = toClient
      BY <1>1, <2>2 DEF TimesOut
    <3> QED
      BY <1>2, <3>1 DEF Owed, Broken, CutBroken, Cut, Kinds
  <2> QED
    BY <1>1, <2>1, <2>2
<1> QED
  BY <1>1, <1>3 DEF InStep, AtRest, Cut, OwnFrames

LEMMA InStepStep ==
  ASSUME TypeOK, InStep, OwnFrames, [Next]_vars, n \in Commands => ~Strayed(n)'
  PROVE  InStep' /\ OwnFrames'
<1>1. CASE Press \/ Store \/ UNCHANGED vars
  <2>1. pc' = pc /\ n' = n /\ UNCHANGED <<toServer, toClient, child, childOf, ended, outcome>>
    BY <1>1 DEF Press, Store, vars, agentVars, clientVars
  <2>2. /\ Running' <=> Running
        /\ CutRunning' <=> CutRunning
        /\ AtRead' <=> AtRead
        /\ Breaking' <=> Breaking
        /\ CutBreaking' <=> CutBreaking
        /\ Broken' <=> Broken
        /\ CutBroken' <=> CutBroken
        /\ AtRest' <=> AtRest
        /\ Failed' <=> Failed
    BY <2>1 DEF Running, CutRunning, AtRead, Breaking, Unbroken, BreaksRead, BrokenOff, BrokenAfter,
                CutBreaking, Broken, CutBroken, Cut, Served, AtRest, Failed, Cmd, Ans, Brk
  <2> QED
    BY <2>1, <2>2 DEF InStep, OwnFrames
<1>2. CASE Enter
  BY <1>2, StepEnter
<1>3. CASE Quit \/ Lost
  BY <1>3 DEF Quit, Lost, InStep, OwnFrames
<1>4. CASE Cancels
  BY <1>4, StepBreaks DEF Cancels
<1>5. CASE Polls \/ Ticks
  BY <1>5, StepWait
<1>6. CASE ReadsOutput
  BY <1>6, StepOutput
<1>14. CASE ReadsRead \/ AnswersRead
  BY <1>14, StepRead, StepAnswer
<1>7. CASE ReadsPrompt
  BY <1>7, StepPrompt
<1>8. CASE ReadsError \/ AnswerFails \/ CancelFails \/ Expires \/ LosesSocket
  <2>1. /\ GivesUp /\ pc \in {"run", "wait", "answer"}
        /\ \/ UNCHANGED toClient
           \/ pc = "wait" /\ \E kind \in {"error", "output"} : Reads(kind)
    BY <1>8 DEF ReadsError, AnswerFails, CancelFails, Expires, LosesSocket, ReadsAs
  <2>2. pc' = "drain" /\ n' = n /\ UNCHANGED childVars /\ Send("interrupt")
    BY <2>1 DEF GivesUp, Break
  <2> QED
    BY <2>1, <2>2, StepBreaks
<1>9. ASSUME NEW at \in {"settle", "drain", "drainLate"}, Skips(at) \/ Replies(at)
      PROVE  InStep' /\ OwnFrames'
  BY <1>9, StepSkips, StepReplies
<1>15. pc \in {"settle", "drain", "drainLate"} => n \in Commands
  BY DEF TypeOK, ClientTypeOK
<1>10. CASE Settles
  <2>1. ~Strayed(n)'
    BY <1>10, <1>15 DEF Settles
  <2> QED
    BY <1>10, <2>1, StepSettles
<1>11. CASE Drained
  <2>1. ~Strayed(n)' /\ n' = n
    BY <1>11, <1>15 DEF Drained, Drains
  <2>2. n \notin late'
    BY <2>1 DEF Strayed
  <2> QED
    BY <1>11, <2>2, StepDrained
<1>12. CASE DrainedLate
  <2>1. ~Strayed(n)' /\ n' = n
    BY <1>12, <1>15 DEF DrainedLate, Drains
  <2>2. n \notin late'
    BY <2>1 DEF Strayed
  <2> QED
    BY <1>12, <2>2, StepDrainedLate
<1>13. CASE Agent
  BY <1>13, AgentInStep DEF Agent
<1> QED
  BY <1>1, <1>2, <1>3, <1>4, <1>5, <1>6, <1>7, <1>8, <1>9, <1>10, <1>11, <1>12, <1>13, <1>14
     DEF Next, Waits, Types, Recovers

----
\* Outcomes and what the commands consumed.

Underway == {"run", "wait", "answer", "settle"}

OutcomeStep ==
  \/ n' = n /\ outcome' = outcome /\ (pc' \in Underway => pc \in Underway)
  \/ n' = n + 1 /\ outcome' = outcome /\ pc = "prompt" /\ n + 1 \in Commands
  \/ /\ n' = n /\ pc \in Underway /\ pc' \notin Underway
     /\ \E result \in Outcome : outcome' = [outcome EXCEPT ![n] = result]

SeenStep ==
  \/ seen' = seen
  \/ /\ pc = "wait" /\ toClient # <<>> /\ n' = n
     /\ seen' = [seen EXCEPT ![n] = @ \cup {Head(toClient).of}]

LateStep ==
  \/ late' = late
  \/ late' = late \cup {n} /\ n' = n /\ n \in Commands /\ pc' \notin Underway

Step == OutcomeStep /\ SeenStep /\ LateStep /\ ended \subseteq ended'

LEMMA StepOutcome ==
  ASSUME TypeOK, [Next]_vars
  PROVE  Step
<1>1. ClientTypeOK
  BY DEF TypeOK
<1>2. CASE Press \/ Store \/ UNCHANGED vars
  BY <1>2 DEF Press, Store, vars, agentVars, clientVars, Step, OutcomeStep, SeenStep, LateStep
<1>10. CASE Agent
  <2>1. ended \subseteq ended'
    BY <1>10 DEF Agent, AgentStep, Answers, TakesCommand, TakesAnswer, BreaksChild,
                 BreaksNothing, Emits, Finishes, Drops
  <2> QED
    BY <1>10, <2>1 DEF Agent, clientVars, Step, OutcomeStep, SeenStep, LateStep
<1>3. CASE Enter
  BY <1>3, <1>1, AgentAssumption
     DEF Enter, Step, OutcomeStep, SeenStep, LateStep, ClientTypeOK, Commands
<1>4. CASE Quit \/ Lost \/ Cancels \/ Polls \/ Ticks
  BY <1>4 DEF Quit, Lost, Cancels, Polls, Ticks, agentVars,
              Step, OutcomeStep, SeenStep, LateStep, Underway
<1>5. CASE ReadsOutput \/ ReadsRead \/ AnswersRead
  BY <1>5 DEF ReadsOutput, ReadsRead, AnswersRead, ReadsAs, Reads,
              Step, OutcomeStep, SeenStep, LateStep, Underway
<1>6. CASE ReadsPrompt
  BY <1>6 DEF ReadsPrompt, ReadsAs, Reads, Returned,
              Step, OutcomeStep, SeenStep, LateStep, Underway, Outcome
<1>7. CASE ReadsError \/ AnswerFails \/ CancelFails \/ Expires \/ LosesSocket
  BY <1>7 DEF ReadsError, AnswerFails, CancelFails, Expires, LosesSocket, ReadsAs, Reads, GivesUp,
              Step, OutcomeStep, SeenStep, LateStep, Underway, Outcome
<1>8. ASSUME NEW at \in {"settle", "drain", "drainLate"}, Skips(at) \/ Replies(at)
      PROVE  Step
  BY <1>8 DEF Skips, Replies, clientVars, Step, OutcomeStep, SeenStep, LateStep
<1>9. CASE Settles \/ Drained \/ DrainedLate
  <2>1. LateStep
    <3>1. late' = late \/ late' = late \cup {n}
      BY <1>9 DEF Settles, Drained, DrainedLate, Drains, TakesPrompt, TimesOut, FindsGone
    <3>2. n' = n /\ n \in Commands /\ pc' \notin Underway
      BY <1>9, <1>1 DEF Settles, Returned, Drained, ThenDrains, DrainedLate, Drains,
                        ClientTypeOK, Underway
    <3> QED
      BY <3>1, <3>2 DEF LateStep
  <2>2. OutcomeStep /\ SeenStep /\ ended' = ended
    BY <1>9 DEF Settles, Returned, Drained, ThenDrains, DrainedLate, Drains,
                OutcomeStep, SeenStep, Underway, Outcome
  <2> QED
    BY <2>1, <2>2 DEF Step
<1> QED
  BY <1>2, <1>3, <1>4, <1>5, <1>6, <1>7, <1>8, <1>9, <1>10 DEF Next, Waits, Types, Recovers

\* What strayed stays so on record.
LEMMA StrayedStays ==
  ASSUME TypeOK, Unborn, Step, NEW c \in Commands, Strayed(c)
  PROVE  c \in late' \/ (outcome'[c] = "interrupted" /\ c \in ended')
<1>1. outcome \in [Commands -> Outcome]
  BY DEF TypeOK, ClientTypeOK
<1>2. CASE c \in late
  BY <1>2 DEF Step, LateStep
<1>3. CASE outcome[c] = "interrupted" /\ c \in ended
  <2>1. pc \in Underway => c # n
    BY <1>3 DEF Unborn, Underway
  <2>2. outcome'[c] = "interrupted"
    BY <1>1, <1>3, <2>1 DEF Step, OutcomeStep
  <2> QED
    BY <1>3, <2>2 DEF Step
<1> QED
  BY <1>2, <1>3 DEF Strayed

LEMMA UnbornStep ==
  ASSUME TypeOK, Unborn, Step
  PROVE  Unborn'
<1>1. /\ outcome \in [Commands -> Outcome] /\ seen \in [Commands -> SUBSET Commands]
      /\ n \in 0..MaxCommands
  BY DEF TypeOK, ClientTypeOK
<1>2. n \in Nat /\ n' \in {n, n + 1} /\ n' \in Nat
  BY <1>1, AgentAssumption DEF Step, OutcomeStep
<1>3. \A c \in Commands : c > n' => seen'[c] = {} /\ outcome'[c] = "none" /\ c \notin late'
  <2> SUFFICES ASSUME NEW c \in Commands, c > n'
               PROVE  seen'[c] = {} /\ outcome'[c] = "none" /\ c \notin late'
    OBVIOUS
  <2>1. c > n /\ c # n
    BY <1>2, AgentAssumption DEF Commands
  <2>2. outcome'[c] = outcome[c]
    BY <1>1, <2>1 DEF Step, OutcomeStep
  <2>3. seen'[c] = seen[c]
    BY <1>1, <2>1 DEF Step, SeenStep
  <2>4. c \in late' => c \in late
    BY <2>1 DEF Step, LateStep
  <2> QED
    BY <2>1, <2>2, <2>3, <2>4 DEF Unborn
<1>4. pc' \in Underway => outcome'[n'] = "none" /\ n' \notin late'
  <2> SUFFICES ASSUME pc' \in Underway PROVE outcome'[n'] = "none" /\ n' \notin late'
    OBVIOUS
  <2>1. late' = late
    BY DEF Step, LateStep
  <2>2. CASE n' = n + 1 /\ outcome' = outcome /\ n + 1 \in Commands
    <3>1. n + 1 > n
      BY <1>2
    <3> QED
      BY <2>1, <2>2, <3>1 DEF Unborn
  <2>3. CASE n' = n /\ outcome' = outcome /\ pc \in Underway
    BY <2>1, <2>3 DEF Unborn, Underway
  <2> QED
    BY <2>2, <2>3 DEF Step, OutcomeStep
<1> QED
  BY <1>3, <1>4 DEF Unborn, Underway

LEMMA TrustedBefore ==
  ASSUME TypeOK, Unborn, Step, Trusted'
  PROVE  Trusted
<1> SUFFICES ASSUME NEW c \in Commands, c <= n, Strayed(c) PROVE FALSE
  BY DEF Trusted
<1>1. n \in Nat /\ n' \in {n, n + 1}
  BY AgentAssumption DEF Step, OutcomeStep, TypeOK, ClientTypeOK
<1>2. c <= n'
  BY <1>1, AgentAssumption DEF Commands
<1> QED
  BY <1>2, StrayedStays DEF Trusted, Strayed

\* A command that no stray one came before runs in step.
LEMMA TrustedRun ==
  ASSUME TypeOK, Unborn, pc = "wait", \A d \in Commands : d < n => ~Strayed(d)
  PROVE  Trusted
<1> SUFFICES ASSUME NEW c \in Commands, c <= n, Strayed(c) PROVE FALSE
  BY DEF Trusted
<1>1. c # n
  BY DEF Unborn, Strayed
<1>2. c < n
  BY <1>1, AgentAssumption DEF Commands, TypeOK, ClientTypeOK
<1> QED
  BY <1>2

LEMMA LeftoversStep ==
  ASSUME TypeOK, SyncInv, Step
  PROVE  NoLeftovers'
<1> SUFFICES ASSUME NEW c \in Commands, \A d \in Commands : d < c => ~Strayed(d)'
             PROVE  seen'[c] \subseteq {c}
  BY DEF NoLeftovers
<1>1. \A d \in Commands : d < c => ~Strayed(d)
  BY StrayedStays DEF SyncInv, Strayed
<1>2. seen[c] \subseteq {c}
  BY <1>1 DEF SyncInv, NoLeftovers
<1>3. CASE seen' = seen
  BY <1>2, <1>3
<1>4. CASE /\ pc = "wait" /\ toClient # <<>> /\ n' = n
           /\ seen' = [seen EXCEPT ![n] = @ \cup {Head(toClient).of}]
  <2>1. n \in Commands /\ seen \in [Commands -> SUBSET Commands] /\ toClient \in Seq(Frame)
    BY <1>4 DEF TypeOK, ClientTypeOK, AgentTypeOK
  <2>2. CASE c # n
    BY <1>2, <1>4, <2>1, <2>2
  <2>3. CASE c = n
    <3>1. Trusted
      BY <1>1, <1>4, <2>3, TrustedRun DEF SyncInv
    <3>2. Own(toClient, n)
      BY <1>4, <3>1 DEF SyncInv, OwnFrames, Own
    <3>3. Head(toClient).of = n
      BY <1>4, <2>1, <3>2, OwnReads
    <3> QED
      BY <1>2, <1>4, <2>1, <2>3, <3>3
  <2> QED
    BY <2>2, <2>3
<1> QED
  BY <1>3, <1>4 DEF Step, SeenStep

LEMMA SyncInit == Init => SyncInv
<1> SUFFICES ASSUME Init PROVE SyncInv
  OBVIOUS
<1>1. Unborn /\ NoLeftovers
  BY DEF Init, Unborn, NoLeftovers
<1>2. InStep /\ OwnFrames
  BY DEF Init, AgentInit, InStep, AtRest, Failed, Kinds, OwnFrames
<1> QED
  BY <1>1, <1>2 DEF SyncInv

LEMMA SyncStep ==
  ASSUME TypeOK, SyncInv, [Next]_vars
  PROVE  SyncInv'
<1>1. Step
  BY StepOutcome
<1>2. Unborn' /\ NoLeftovers'
  BY <1>1, UnbornStep, LeftoversStep DEF SyncInv
<1>3. ASSUME Trusted' PROVE InStep' /\ OwnFrames'
  <2>1. Trusted
    BY <1>1, <1>3, TrustedBefore DEF SyncInv
  <2>2. n \in Commands => ~Strayed(n)'
    <3> SUFFICES ASSUME n \in Commands PROVE ~Strayed(n)'
      OBVIOUS
    <3>1. n' \in Commands /\ n' <= n'
      BY <1>1, AgentAssumption DEF Step, OutcomeStep, Commands
    <3> QED
      BY <1>3, <3>1 DEF Trusted
  <2> QED
    BY <2>1, <2>2, InStepStep DEF SyncInv
<1> QED
  BY <1>2, <1>3 DEF SyncInv

\* As long as no command has strayed, the socket is in step with the client at
\* every place of the loop, whatever failed and was cancelled (terminal.rs,
\* repl.rs); its timers may run out at any time, and one that does with something
\* owed makes the command a stray.
THEOREM SocketInStep == Safe => []SyncInv
<1>1. TypeOK /\ SyncInv /\ [Next]_vars => SyncInv'
  BY SyncStep
<1> QED
  BY ReplTypeCorrect, SyncInit, <1>1, PTL DEF Safe

\* No command consumes a frame that an earlier one caused, unless one of those
\* ran out of time in its recovery or was cancelled behind its own end
\* (terminal.rs:260-283, repl.rs:201-204).
THEOREM NothingLeftOver == Safe => []NoLeftovers
<1>1. SyncInv => NoLeftovers
  BY DEF SyncInv
<1> QED
  BY SocketInStep, <1>1, PTL

\* Back at the prompt after a command that failed, nothing of it is in the socket
\* or running on the server, unless its drain ran out of time or an earlier
\* command strayed (terminal.rs:183-185).
THEOREM FailureLeavesClean == Safe => []CleanAfterFailure
<1>1. TypeOK /\ SyncInv => CleanAfterFailure
  <2> SUFFICES ASSUME TypeOK, SyncInv, pc = "prompt", n > 0, outcome[n] = "failed",
                      \A d \in Commands : d <= n => ~Strayed(d)
               PROVE  InSync
    BY DEF CleanAfterFailure
  <2>1. AtRest /\ toServer = <<>>
    BY DEF SyncInv, Trusted, InStep, Failed
  <2> QED
    BY <2>1 DEF AtRest, Cut, InSync
<1> QED
  BY ReplTypeCorrect, SocketInStep, <1>1, PTL
====
