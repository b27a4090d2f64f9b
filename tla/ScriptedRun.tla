---------------------------- MODULE ScriptedRun -----------------------------
(***************************************************************************)
(* The processes in which DebugSessions runs (src/src/main.rs).  The MCP   *)
(* server lets concurrent clients call the debugger tools in any order.    *)
(* The command line makes one scripted sequence of calls and exits:        *)
(* `rism debug run` starts a target, steps from stop to stop and then      *)
(* always stops the session; `rism debug attach` attaches, shows the place *)
(* and stops.  An exit that leaves the session behind leaves an IRIS job   *)
(* waiting on the debug agent.                                             *)
(*                                                                         *)
(* A scripted session never expires: between two uses of it lie at most    *)
(* ten exchanges that were answered, each within 30 s, and IDLE_TIMEOUT is *)
(* 300 s.                                                                  *)
(***************************************************************************)
EXTENDS DebugSessions

CONSTANTS Runner,    \* the one caller of a command line process
          MaxStops   \* max_stops, at least 1 (debugger.rs:1175)

ASSUME RunnerAssumption == Runner \in Callers
ASSUME MaxStopsAssumption == MaxStops \in Nat \ {0}

VARIABLE script      \* how far the command line process is

svars == <<slot, stale, known, socket, owed, late, lock, call, patience, script>>

Process == {"server", "run", "attach"}

\* `left`: turns of the loop over max_stops; `state`: what debug_run reports.
Script == [process : Process, id : Ids \cup {NoId},
           pc : {"start", "opening", "stepping", "stopping", "over"},
           stops : 0..MaxStops + 1, left : 0..MaxStops,
           state : {"break", "other", "ended"}, capped : BOOLEAN]

ScriptInit ==
    /\ Init
    /\ \E p \in Process :
          script = [process |-> p, id |-> NoId, pc |-> "start", stops |-> 0,
                    left |-> MaxStops, state |-> "other", capped |-> FALSE]

Serving == script.process = "server"
-----------------------------------------------------------------------------
\* The call the script makes next.
Begins ==
    /\ script.pc = "start"
    /\ OpenCall(Runner, IF script.process = "run" THEN "start" ELSE "attach")
    /\ script' = [script EXCEPT !.pc = "opening"]

Uses ==
    /\ script.pc \in {"stepping", "stopping"}
    /\ LET op == IF script.pc = "stepping" THEN "step" ELSE "stop"
       IN  UseCall(Runner, op, script.id) \/ UnknownCall(Runner, op, script.id)
    /\ UNCHANGED script

\* The call in progress takes a step of its own.
Proceeds ==
    /\ call[Runner].pc # "answered"
    /\ Works(Runner) \/ Lock(Runner) \/ \E i \in Ids : Connect(Runner, i)
    /\ UNCHANGED script

\* The answer to the Runner's call says that the target is at a break.
Broke == call[Runner].answer = "ok" /\ call[Runner].phase = "vars"

OpenFailed ==
    /\ script.pc = "opening"
    /\ call[Runner].answer = "error"
    /\ script' = [script EXCEPT !.pc = "over"]

\* Seeded fault: the id of a target that never broke is not kept.
OpenedOnlyFaulty ==
    /\ script.pc = "opening" /\ call[Runner].answer = "ok"
    /\ script.process = "attach" \/ ~Broke
    /\ script' = [script EXCEPT !.pc = "stopping"]

\* Attached, or started and run to its end without a break.
OpenedOnly ==
    /\ script.pc = "opening"
    /\ call[Runner].answer = "ok"
    /\ script.process = "attach" \/ ~Broke
    /\ script' = [script EXCEPT !.pc = "stopping", !.id = call[Runner].id]

FirstStop ==
    /\ script.pc = "opening"
    /\ script.process = "run" /\ Broke
    /\ script' = [script EXCEPT !.pc = "stepping", !.id = call[Runner].id,
                                !.stops = 1, !.state = "break"]

\* Seeded faults: the bound is tested a turn late; a stop is not counted.
NextStopLate ==
    /\ script.pc = "stepping" /\ Broke
    /\ script' = [script EXCEPT !.stops = @ + 1,
                                !.left = IF @ = 0 THEN 0 ELSE @ - 1,
                                !.pc = IF script.left = 0 THEN "stopping" ELSE @,
                                !.capped = script.left = 0]

NextStopUncounted == script.pc = "stepping" /\ Broke /\ UNCHANGED script

\* A step reached a stop: record it, and go on unless the turns are used up.
NextStop ==
    /\ script.pc = "stepping" /\ Broke
    /\ script' = [script EXCEPT !.stops = @ + 1, !.left = @ - 1,
                                !.pc = IF script.left = 1 THEN "stopping" ELSE @,
                                !.capped = script.left = 1]

RanOn ==
    /\ script.pc = "stepping" /\ ~Broke /\ call[Runner].answer = "ok"
    /\ script' = [script EXCEPT !.pc = "stopping", !.state = "other"]

\* Seeded fault: a failed step ends the command, as `?` would.
StepFailedFaulty ==
    /\ script.pc = "stepping" /\ call[Runner].answer = "error"
    /\ script' = [script EXCEPT !.pc = "over", !.state = "ended"]

StepFailed ==
    /\ script.pc = "stepping" /\ call[Runner].answer = "error"
    /\ script' = [script EXCEPT !.pc = "stopping", !.state = "ended"]

Stopped ==
    /\ script.pc = "stopping"
    /\ script' = [script EXCEPT !.pc = "over"]

Reads ==
    /\ Return(Runner)
    /\ \/ OpenFailed \/ OpenedOnly \/ FirstStop
       \/ NextStop \/ RanOn \/ StepFailed \/ Stopped

CommandLine == ~Serving /\ (Begins \/ Uses \/ Proceeds \/ Reads)

ScriptNext ==
    \/ Serving /\ Next /\ UNCHANGED script
    \/ CommandLine
    \/ ~Serving /\ (\E i \in Ids : Dies(i)) /\ UNCHANGED script

\* The server's fairness is that of DebugSessions; the command line waits for
\* each of its calls and always makes the next one.
ScriptFairness ==
    /\ WF_svars(CommandLine)
    /\ \A c \in Callers : /\ WF_svars(Serving /\ Works(c) /\ UNCHANGED script)
                          /\ SF_svars(Serving /\ Lock(c) /\ UNCHANGED script)

ScriptSafe == ScriptInit /\ [][ScriptNext]_svars

ScriptSpec == ScriptSafe /\ ScriptFairness
-----------------------------------------------------------------------------
(***************************************************************************)
(* Properties.                                                             *)
(***************************************************************************)

\* The script has its type; whatever it steps or stops it has opened.
ScriptTypeOK ==
    /\ script \in Script
    /\ script.pc \in {"stepping", "stopping"} => script.id \in known

\* A run records at most max_stops + 1 stops, the first one and one for each turn
\* of the loop, and it reports itself capped exactly when the last turn still
\* ended at a break (debugger.rs:1190-1223).
StopsBounded ==
    /\ script.pc = "stepping" => script.stops + script.left = MaxStops + 1
    /\ script.capped <=> script.stops = MaxStops + 1
    /\ script.capped => script.state = "break"

\* "Always stop the session so the IRIS job resumes" (debugger.rs:1158-1159): when
\* the command exits, whatever failed, no session and no connection is left.
ExitFrees ==
    script.pc = "over" => /\ slot = {}
                          /\ \A i \in Ids : socket[i] # "open" /\ lock[i] = Free

\* The command line always exits.
ScriptEnds == ~Serving ~> script.pc = "over"
=============================================================================
