# Rism in TLA+

Rism is a command line tool and MCP server for InterSystems IRIS. Four parts of
it keep state that several actors share: the registry of background jobs, the
persistent terminal session of the REPL, the debugger sessions, and the server
process around them. The rest translates requests: it truncates, counts, parses
and decides, without state between two calls. This directory specifies both,
checks them on small instances with TLC, and proves the safety properties of the
stateful parts and most of those of the stateless tools for all instances with
TLAPS.

`PROJECT.json` lists components, runs, the source lines of every definition,
hazards, findings and theorems. This file explains them.

## 1. The system and its parts

| Part (under `src/src/`) | State | Operations | Interacts with |
|---|---|---|---|
| Job registry, `tools/jobs.rs` | map id -> slot behind one mutex; per slot: meta behind its own mutex, atomic cancel flag, output buffer | `start`, `status`, `cancel`, `gc`, and the spawned `run_job`/`finish`/`FinishOnDrop` | MCP handlers call it from any runtime thread; a job owns one terminal session |
| Task projection, `mcp/tasks.rs` | none | `create_task`, `detailed_task`, `task_state`, `status_message` | reads registry snapshots |
| Output buffer, `SharedBuf` in `tools/jobs.rs` | atomic byte total, tail string behind a mutex | `push`, `snapshot` | written by the job, read by `tasks/get` |
| Terminal session, `iris/terminal.rs` | WebSocket, last prompt | `open`, `run_with`, `drain`, `close` | the IRIS agent over two FIFO directions; a cancel flag polled every 50 ms |
| REPL, `tools/repl.rs` | cancel flag, SIGINT watcher | read line, run, recover | user, watcher task, terminal session |
| Debugger tools, `tools/debugger.rs` | map with at most one session, idle timers | start, attach, step, inspect, stack, variables, breakpoints, stop, run | concurrent MCP calls; one DBGP connection per session behind an async mutex |
| DBGP connection, `iris/dbgp.rs` | WebSocket, transaction counter | `connect`, `command`, `close` | the XDebug agent, which serves one socket |
| MCP server, `mcp/mod.rs` | none of its own | `call_tool` with its gates, `get_task`, `cancel_task`, `update_task` | registry, tools |
| MCP doors, `mcp/http.rs`, `main.rs` | shutdown signal | bind policy, serve, shut down | MCP server |
| IRIS client, `iris/http.rs` | negotiated API version, cookie jar | requests, version negotiation, error classification | every tool |
| Document, compile, test, host, SQL, monitor tools | none | one or a few requests each | IRIS client, local files |
| Settings, CLI, rendering, logging | read once | pure | everything |

What is hard, by part:

* **Registry.** Handlers and tasks interleave between any two locks. `start`
  counts, inserts, spawns and snapshots in four steps; `cancel` stores a flag
  outside the lock under which it looked; `gc` runs inside every operation; a
  panic must finish a job exactly once. What makes it correct: bounded sessions
  and entries, one outcome per job, answers that never change once terminal,
  unknown ids only for ended jobs, and every accepted job ends.
* **Output buffer.** Three cells are read without a common lock. Correct means:
  what a poll returns is consistent in itself and never goes back, and the trim
  never cuts inside a character.
* **Terminal and REPL.** One socket is reused from command to command. Timeouts,
  error frames, cancels and reads leave frames in it; the next command must not
  see them. Ctrl+C arrives from a third actor at any time and must hit the
  command it was meant for.
* **Debugger.** Concurrent calls look up, use, expire, remove and close the same
  session, and a failing start must undo what it did. One session only, no
  forgotten connection, every reply given to the call that asked. A scripted run
  exits after its last call and must leave nothing behind.
* **Documents and the process around them.** Requests are concurrent, two-step
  (`put_and_compile`), given up while IRIS still serves them, and may arrive before
  the API version is known or while the door shuts down. Errors come in four
  shapes. An answer must tell what became of the document, and every call ends.
* **Stateless tools.** Limits in bytes and notices in characters, markers that IRIS
  gives or not, hand-written scanners, gates in a fixed order, layered settings.
  What is left out must be said, and what is refused must be refused first.

## 2. Modules

| Module | Models |
|---|---|
| `TaskProjection` | the pure projection of a job snapshot to a task |
| `TaskLifecycle` | abstract: what a client may rely on about a task |
| `JobRegistry` | registry, handlers and job tasks; implements `TaskLifecycle` |
| `MCJobRegistry` | its small instances |
| `JobRegistryProofs` | its proofs |
| `OutputBuffer`, `OutputBufferProofs` | `SharedBuf` against `finish` and readers |
| `TerminalAgent` | the IRIS end of the terminal socket (external) |
| `ReplSession`, `ReplSessionProofs` | REPL loop, terminal session and watcher; extends `TerminalAgent` |
| `DebugSessions`, `MCDebugSessions`, `DebugSessionsProofs` | debugger tools on their connections |
| `ScriptedRun`, `MCScriptedRun`, `ScriptedRunProofs` | the processes those run in: the server, `rism debug run`, `rism debug attach`; extends `DebugSessions` |
| `ApiClient` | API version and error classes of the HTTP client |
| `Documents` | document and compile tools as concurrent exchanges; extends `ApiClient` |
| `McpServer`, `MCMcpServer`, `McpServerProofs` | a door, or one command, around the document tools; extends `Documents` |
| `Texts`, `TextsProofs` | text measured in bytes, cut at characters; lemmas about folds and texts |
| `TerminalOutput` | the bound on a command's output; extends `Texts` |
| `HostTools` | `read_file`, `run_shell`, `list_files`; extends `Texts` |
| `TestRuns` | SQL results, test runs, their lists and history |
| `Metrics`, `Scoring` | the metrics parser, the busiest processes, the load score |
| `DebugReplies` | file URIs, the frame of a break, the breakpoints of a start |
| `ToolGate` | door, settings, task and debugger gates, time-outs |
| `ToolAnswers`, `MCToolAnswers` | one call of a stateless tool with any argument; extends the seven above |
| `ToolAnswersProofs` | the proofs about all of them; extends `ToolAnswers` and `TextsProofs` |

The first group are state machines with concurrent actors. The modules under
`ToolAnswers` are pure: operators that say what the code computes and, behind them,
operators that say what its answer promises, written without the code's algorithm
(a scanner is checked against the writer of the format, a truncation against the
whole text). `ToolAnswers` turns them into runs: an initial state is a call, its
one step is the answer.

Every module of the system has its properties at the end. Definitions called
`...Faulty` (and `PanicsTwice`, `PanicsUnfinished`, `CutsUnfloored`,
`NextStopLate`, `NextStopUncounted`) are seeded
faults: they stand beside the definition they distort and no specification uses
them; with one put in the place of the original, the property it belongs to is
violated.

### JobRegistry

`reg` is the key set of the map, `meta`, `cancel` the slots, `task` the program
counter of a job's spawned task, `caller` the request a handler is serving,
`lock` the registry mutex (`OPLOCK` and the map's mutex are always taken
together and are one lock here), `now` the clock. An action is one critical
section or one step between two:

* `StartCall`, `LockAndGc`, then `Refuse` or `Insert`, `Spawn`, `Seed`: `start`
  and the seed answer of `call_tool`. The slot is built, with its start time,
  before the lock is taken.
* `GetCall`/`CancelCall`, `LockAndGc`, then `Unknown`, or `FindForGet`/
  `FindForCancel`, `TripCancel`, `Reply`: `status` and `cancel` with the
  handlers. The slot's own mutex is not a variable: each use of it is one step.
* `Opened` ... `Panics`: `run_job`, `finish`, `FinishOnDrop`, and the terminal
  session abstracted to what it can return (`Fails` goes through `draining`,
  since `run_with` breaks the child before it returns an error).
* `Tick`: a second passes.

Decisions: `gc` reads the metas of all slots in one step although tasks can
finish during the scan (a job that finishes meanwhile is treated as finishing
before or after it); the clock never runs backwards; a task that is spawned and
not yet polled is already `opening`; ids are never drawn twice and clients ask
only for ids they were given; nothing is persisted, so a restart forgets
everything and there is no recovery to model.

### OutputBuffer

The output is one stream of bytes with its character boundaries; the tail is the
interval `lo+1..hi`. `PushCount` and `PushAppend` are the two halves of `push`,
`ReadMeta`, `ReadTail`, `ReadTotal` the three reads of a snapshot in the code's
order. The stream with its boundaries is chosen in the initial state.

### TerminalAgent and ReplSession

`toServer` and `toClient` are the two directions of the socket, `child` the
process on the server. Frames carry, as a ghost, the command that caused them.
The agent is not in this repository: its actions come from what `terminal.rs`
sends, expects and says about it, in particular that an interrupt of a child that
has already exited is answered by an error frame and a prompt, or by closing.

The client's `pc` follows the code: `prompt` (reading a line), `run` and `wait`
(the two halves of `next_or_cancel`: the flag and the deadline are tested, then
a frame is awaited for a tick), `answer` (the line editor waits for the user's answer
to a read, and neither flag nor deadline is looked at), `settle` (`await_prompt`
after a cancel), `drain` (in `run_with`), `drainLate` (in `run_repl`), `over`.
`Press` and `Store` are the watcher; `Disarm` aborts it, but a signal it already
holds may still be stored. `TimesOut` is the end of the 2 s of a drain or the 5 s of
a settle: it comes at any time, whatever the agent still owes. The ghost `late`
records the commands it came too early for, and `ended` those that came to their own
end; from the two `Strayed` says which commands left something for the next.

Decisions: an aborted watcher that still holds a signal stores it before the user
has typed the next line; a dead socket is noticed at the next send or read; output
frames of a command are finitely many (`MaxFrames`); while an answer is typed the
line editor owns Ctrl+C, so a press is an empty answer then. What `emit` prints is
left out, except that it may fail (`ReadsError`). With piped input there is no
watcher, which is the case of no presses.

### DebugSessions

`slot` is the session map, `stale` the idle timers, `socket` the connections,
`owed` whose commands the agent has still to answer on each, `lock` the
connection mutexes, `call` the tool calls, `known` the ids clients have.
A call is a sequence of exchanges (`Lock`, `Send`, then `Replied`, `Refused` or
`Unanswered`): its main commands, at most `MaxMore` + 1 of them, and
`stack_get` and `context_get` after a break. `Holding` and `Relocking` say whether
the call keeps the connection between two, as `start_inner`, `attach_inner` and
`debug_step` do. `Reap`, `Close`, `Closed` are `reap_expired`; the same two last
steps close what `Remove` took out of the map. Error replies that the code
ignores (an unmappable entry breakpoint, a handshake `run` of an attach) are
answers like others.

Decisions: a session and its connection have one identity; a session can expire
at any time; the `DebugSession.state` string is never read and left out;
`debug_list_processes` keeps no state.

### ScriptedRun

`script` is the command line process over `DebugSessions`: which command, which
session, `left` turns of the loop over `max_stops`, the stops recorded. `Begins` and
`Uses` make the script's next call, `Proceeds` is a step inside the call, `Reads`
takes its answer and decides as `debug_run` does. In the server process
(`Serving`) clients call in any order instead. A scripted session never expires:
its exchanges follow each other within 30 s each, and the limit is 300 s.

### Documents and McpServer

`req[c]` is the call of client `c`: queued at the door, with its handler, at IRIS, and
back. `Send` reads the shared `version`; `Absorbs` classifies the reply and moves
`put_and_compile` on to its second exchange; `TimesOut` gives the exchange up, and
what was sent may then still be in `late`, to be served with nobody waiting. IRIS is
external: what it refuses and how it reports errors comes from what the code sends
(`ignoreConflict`, no timestamp) and expects. An exchange that is given up or cut off
before the reply answers `network`; one whose reply breaks off in the body answers
`envelope` (`Lost`), as a page that is no envelope does, although IRIS may have written
(`http.rs:298-301`). `door` is the process: `Bind` or
`Refuse`, `Probe`, `Probed`, then calls, then `Stop`, which does not wait for open
requests. A connection is accepted from the bind on and waits for the handler.

Decisions: one document stands for all, since calls for different documents do not
touch; at most one write is late at a time; a stop ends the process at any point (the
handlers for signals are installed only when serving starts, before that a signal
kills it, with the same effect here).

### The modules under ToolAnswers

Texts are sequences of character classes with a width in bytes, one of them the bytes
that are no UTF-8, which `FromUtf8Lossy` replaces by a character of three; a slice
inside of a character is the answer `Panic`, which no client receives. Paths are
sequences of names. What IRIS prints or returns is an argument: all of it up to a
small length. Numbers in scores are integers with `NaN`, thresholds are one constant,
and the division keeps sum and count apart.

A listing starts from the walks of a glob: paths below the directory, paths that leave
it by `..`, and paths from the top of the file system, each to something that is there
and may be gone before its metadata are read. `GlobMatches` is what the glob does with
the path that `list_files` has put together, `Found` what it hands to the loop. The
properties do not judge by it: `Means` says what a pattern names for a reader, and
`Wanted` which of the paths in the directory that are. `Followed` are the patterns for
which the two agree.

Decisions: the workspace has no symbolic links, so canonicalizing is collapsing;
patterns are well-formed and have at most one `**`, not at the end, and `..` only at the
beginning, and directories can be read; a host name resolves to the same addresses at
the check and at the bind; of the settings, the four that decide about doors, gates and
time-outs are merged, and the others are merged alike.

## 3. Runs

| Run | Instance | Question |
|---|---|---|
| `registry_races` | 4 jobs, 2 callers, limits 2/2, no time | sessions and entries stay in bounds (`SessionsBounded`, `EntriesBounded`), an answer stays true (`AnswersHold`), an id reported unknown is over (`UnknownMeansOver`), `TypeOK` |
| `registry_refinement` | 2 jobs, 2 callers, limits 1/1, retention 2 s, 3 seconds, fairness | implements `TaskLifecycle` (`LifecycleSpec`); the registry's lock, once taken, is given back (`Served`); eviction takes the oldest (`EvictsOldest`) |
| `output_buffer` | cap 3, 9 bytes, every layout of characters | the tail is the end of the stream (`TailIsLatest`); a snapshot counts what it holds and, of an ended job, holds all (`SnapshotCovers`, `EndedSnapshotComplete`); polling never goes back (`Rising`), `TypeOK` |
| `repl_session` | 2 commands, 2 frames each, 2 presses | a cancel stays in its command (`CancelStaysInCommand`), no frame is left for the next one (`NoLeftovers`, `CleanAfterFailure`) unless a command strayed, the prompt returns or the user is asked (`PromptReturns`), `TypeOK` |
| `debug_sessions` | 2 callers, 2 connections, 1 further command, 1 time-out | one session (`OneSession`), no connection without an owner (`NoOrphans`), what ended is freed (`EndedIsFreed`), replies match commands up to a time-out (`RepliesMatch`), `TypeOK` |
| `debug_processes` | 2 callers, 1 connection, 1 time-out, `max_stops` 2 | every call returns (`CallsReturn`); a script keeps its bound (`StopsBounded`), ends (`ScriptEnds`) and leaves nothing (`ExitFrees`), `ScriptTypeOK` |
| `mcp_server` | 2 clients, one document, IRIS serves version 7 | answers tell what became of the document (`SuccessMeansDone`, `FailureMeansUndone`); nobody is served too early (`StartsInOrder`, `ServerTypeOK`); every call ends (`CallsAnswered`) |
| `tool_answers` | texts to 6 characters, 4 rows, 3 frames | output is kept up to its bound (`OutputKept`); files, shells and lists say what is left out, and lists have what their pattern names (`HostIsHonest`); rows and test runs are kept as far as the page goes (`RowsAreKept`); metrics and scores are those of the input (`MonitorIsHonest`); breaks and breakpoints are those of the target (`BreaksAreShown`); gates and doors refuse first (`GateKept`, `DoorIsKept`) |
| `debug_own_replies`, `debug_live_session`, `host_truncation`, `test_exit_code` | as above | `OwnReplies`, `LiveSessionKept`, `EveryCallAnswers`, `ExitCodeTells`: refuted, see below |

Why the bounds are enough. Registry: the limits bite with one job more than
MaxRunning or MaxEntries, and each kind of race is between two callers, or a
caller and a task; with the clock at 0, 1 or 2 two jobs finish in different seconds,
so that the order of an eviction matters (a sort by the newest violates
`EvictsOldest`), and a job that finished at 0 comes to the end of its retention of 2.
`registry_races` has no time, and so no retention. Buffer: nine bytes hold characters of one to four bytes on both sides of
a cap that can be trimmed repeatedly. REPL: a frame that one command leaves
is read by the next; two presses can hit the same or different commands, or one of
them the drain between; every timer can run out before anything is answered, and two
frames are what an interrupt is answered with. Debugger: two calls race, two connections are what a second
start needs; one time-out shifts the replies. Calls and connections are
interchangeable, so the safety runs use symmetry; liveness runs do not.

Scripts: with `max_stops` 2 there are a first, a middle and a last turn of the loop, and
one time-out can hit any exchange. Documents: the races of a put are between two
writers, or a writer and a late write; version 7 is below the default of 8, so that a
client that did not negotiate meets an IRIS that does not know its URLs. Tools: the
limits (4 bytes of file, 2 of output, pages of 3 rows, lists of 3, the 2 busiest) lie
inside the lengths of the arguments, so that each is undercut, met and exceeded, with
a character of two bytes, or of three for what is no UTF-8, on it; files lie in the
workspace up to three names deep and beside it, where `..` and absolute patterns get; lines of metrics hold every character that delimits.

`CHECK_DEADLOCK FALSE` is set for the REPL, the debugger and the server, where the
session or the process may be over and connections, which are never reused, used up,
and for the stateless tools, which answer once.

### Disagreements

Four runs state what a comment or a document says and TLC refutes it:

* `debug_own_replies`: after one time-out every later command of the session gets
  the reply to the command before it, since transaction ids are not compared.
* `debug_live_session`: two concurrent starts pass the slot check and the second
  connection resets the first session.
* `host_truncation`: `read_file` and `run_shell` slice texts at limits in bytes; a
  character across the limit makes the call panic and never answer.
* `test_exit_code`: `rism test run` exits with 0 when no test ran: a missing class
  gives no index, and without an index the status is `unknown`.

Others were met on the way. Where a property touches one, it states what the code
keeps, and its comment says so:

* `jobs.rs:245`: a job that has ended before `start` takes its snapshot is seeded as
  `working` with the status message of an ended job ("the pair must never diverge",
  `tasks.rs:163-164`).
* `jobs.rs:405`: eviction above the cap breaks "never discards a task earlier than
  createdAt + ttlMs" (`docs/mcp-tools.md:97`).
* `jobs.rs`: the registry may hold MAX_ENTRIES + 1 entries, because `gc` runs before
  the insert (`EntriesBounded`), and the tail may be up to three bytes longer than
  OUTPUT_CAP, because it is cut at a character boundary (`TailIsLatest`).
* `terminal.rs:280`: a cancel racing natural completion takes the command's own prompt
  as the answer to its interrupt; the real answer meets the next command, which
  fails ("wait for it so the session is clean for the next command", lines 262-264).
  `NoLeftovers` and `CleanAfterFailure` are stated for commands before which none
  strayed that way (a cancel that stopped the child is not excepted).
* `terminal.rs:270-283`, `338-339`: the 5 s of a settle and the 2 s of a drain run out
  whatever the agent still owes, and the session goes on. A late answer then meets the
  next command, and a child that has not taken the interrupt yet is still running behind
  a prompt ("so nothing mutates the namespace after we gave up", lines 183-185). That is
  the other way to stray (`late`).
* `repl.rs:332`: the answer to a read is awaited without a deadline, so the time-out of
  the command does not end a program that waits for input (`PromptReturns`).
* `iris/http.rs:298`: a time-out or a cut connection in the body of a reply is reported as
  a reply that is no envelope, be it of a write that took effect; `FailureMeansUndone`
  promises that nothing was done only of errors that are IRIS's own.
* `debugger.rs:1152`: a scripted run records up to `max_stops` + 1 stops, the doc says
  "capped at `max_stops`" (`StopsBounded`).
* `debugger.rs:490`: a breakpoint without an offset is sent with 0, of which line 465
  says "0 fails on 2025.3"; and a target that is no class method does not stop at its
  entry, although line 609 says "Break at entry line (default true)".
* `debugger.rs:411`: `percent_decode` panics on a plain file name with a percent sign,
  one character and one of several bytes. IRIS is not known to report such a name.
* `iris/documents.rs:132`: without `ignore_conflict` no put ever overwrites a document, not
  even an unchanged one, since the client sends no timestamp to compare.
* `http.rs:154`: negotiation overwrites an API version that was configured
  (`docs/configuration.md:24`); and where it fails, a 404 of an IRIS that does not serve
  the default version reads as a missing document (`FailureMeansUndone`).
* `host.rs:262`: a pattern without `**` is searched for below a directory of its own
  name, because `format!` is given the pattern twice; of what `*.cls` names (an example
  of the argument's comment, `host.rs:185`) it finds nothing, and the answer looks
  complete. `HostIsHonest` says both: patterns with `**` that stay in the directory are
  followed, those without list none of the paths they name.
* `host.rs:264`: a pattern that begins with `..` or is absolute is joined and followed to
  where it leads; only its text is compared with the root (`host.rs:310`).
  `docs/mcp-tools.md:183-186` speaks of the workspace alone.
* `host.rs:43`: "exit_code -1 when killed by timeout", but a time-out is an error.
* `testing.rs:375`: `max_runs` counts rows, not runs, and is 10 when not given, where
  the argument's comment says 1 (`testing.rs:333`).
* `testing.rs:166`, `303`: a run is judged by its first 1000 methods and discovery lists
  the first 10 000, with no sign that there are more; `RowsAreKept` promises no more
  than the page. A query says that it lacks rows if IRIS marks the page
  (`sql.rs:48-55`), and not otherwise.
* `debugger.rs:294`: a break is shown with the place of the frame listed first and the
  variables of the lowest level; they are of one frame if IRIS lists the innermost
  first (`BreaksAreShown`).
* `monitor.rs:136`: `parse_labels` never gets over a character outside of its classes, so
  a malformed line keeps it busy for ever (the model's answer has `ends` false);
  `MonitorIsHonest` promises an end for well-formed ones only.
* `scoring.rs:52`: a summed metric whose samples are all NaN enters the average as 0,
  where a plain one is left out.
* `mcp/http.rs:199`: the shutdown does not wait for open requests (`CallsAnswered` lets
  them see their connection end).

## 4. Fairness

* Registry: weak fairness of a caller's own steps and of a job's task. The
  runtime polls what is ready; the open and run time-outs and the settle window
  end every wait of a task. `std::sync::Mutex` is not fair, so nothing is assumed
  of `LockAndGc`; nobody is obliged to call.
* REPL: the client's own steps, its timers and the watcher's store are weakly fair.
  `Expires` is strongly fair: the deadline is tested again on each pass of a 50 ms
  loop, and between two tests it is disabled. The agent, the child and the user owe
  nothing: the agent may never take an interrupt, the child be silent for ever, and the
  user leave a read unanswered, which is why `PromptReturns` ends there, too.
* Scripts: the command line process makes its steps (`CommandLine`); in the server
  process the fairness is that of the debugger.
* Server: the process's own steps are weakly fair, as is a client's reading of what it
  is sent. Nothing is assumed of IRIS: a wait for it ends with the client's time-out.
* Debugger: a call's own steps are weakly fair (a command is answered or its wait
  of 30 s ends) and taking the connection lock is strongly fair (tokio's mutex
  queues its waiters).

## 5. Proofs

For all values of the constants, from the assumptions named in the modules:

* `JobRegistryProofs`. `TypeCorrect`, then one inductive invariant relating each
  caller's place in the code, the lock, the task and the meta of its job: a
  running meta belongs to a job that is not done; a job that a caller has only
  created is in nobody else's hands; the jobs on a session are all in the
  registry and running. It is needed because the properties themselves are not
  inductive: the session limit, for example, follows from the count that `start`
  takes under the lock only if every session's job is among those counted.
  From it follow `OutcomesCohere`, `SessionsStayBounded`, `EntriesStayBounded`,
  `AnswersStayTrue`, `UnknownIsOver`, the action property `EvictionIsOldestFirst`
  and the step simulation `RegistryImplementsLifecycle`. `EntriesStayBounded` uses
  `MaxRunning <= MaxEntries` (16 and 256 in the code), named `EntriesAssumption`.
* `OutputBufferProofs`. `Inv` ties the counter to the tail (`total = hi + pushing`)
  and each reader's partial snapshot to both; `BufferTypeCorrect` and the four
  theorems about the tail, the snapshots and polling follow.
* `ReplSessionProofs`. `ReplTypeCorrect`, with the watcher armed exactly while a
  command or its drain is under way, and `CancelsStay` from `CancelInv`: while a
  command runs, a raised flag or a signal in a watcher's hands is of that command.
  `SocketInStep` follows every frame in both directions: until a command strays, what
  is on the socket and what the child still owes fit the client's place (a command
  running or answered, a read not yet answered, an interrupt sent before or after the
  child ended), and every frame is of the command under way. From it follow
  `NothingLeftOver` and `FailureLeavesClean`. Neither is inductive: that the drain ends
  with an empty socket needs to know which of the two answers to the interrupt is still
  to come, and that a cancel has stopped the child, that the interrupt overtook the
  command's own end.
* `DebugSessionsProofs`. `DebugTypeCorrect` and, from one inductive invariant,
  `OneSessionOnly`, `NothingOrphaned`, `EndedStaysFreed` and `ExchangesApart`. The
  invariant says what a call has at each place of the code (`Shape`), that a
  connection about to be registered is known to nobody else (`Alone`), so that a
  session that was taken down cannot come back (`StaysDown`), and that on a
  connection without a time-out the agent owes at most one answer, to the call
  that awaits it (`QueueInv`). `ExchangesApart` alone is not inductive: a reply is
  the caller's own because nothing else is in the queue. `LocksAreHeld` is the part
  of it about the connection mutexes.
* `ScriptedRunProofs`. `StopsStayBounded`, for every `max_stops`: turns and stops are
  counted together, and a run that still steps has a turn left. `ScriptInvariant`
  says which call of the debugger the script is in at each of its places and that
  nobody else calls, on top of the debugger's own invariant, which every process
  keeps because its steps are the debugger's (`ScriptImplementsDebug`). `ScriptTyped`
  and `ExitLeavesNothing` follow: only from what the last call left in the slot and
  on the connections can one tell that nothing is left at the exit.
* `McpServerProofs`. `ServerTypeCorrect`, `SuccessIsDone`, `FailureIsUndone` and
  `StartsStayOrdered` from one invariant that follows a single request: what it has
  written and compiled at each place (`Kept`), that the reply and then the answer
  agree with that (`Told`, `Says`), that a 404 has a reason (`Routed`), and that a
  client whose text is stored has compiled no other (`Mine`). `InOrder` adds that
  nobody is under way while the version may still change, without which `Routed`
  would not survive the negotiation. One lemma (`OneMoves`) says that a change of one
  request leaves the others sound; it needs that a late write is never a client's own
  text (`TextAssumption`).

* `TextsProofs` and `ToolAnswersProofs`. The loops of the stateless tools are folds, and
  a fold of the community modules is a choice of a recursive function on the sets of
  places of a sequence. That the choice exists, is unique and obeys its equation is
  proved once (`FoldValue`), by induction over natural numbers, which here is that a
  set of them that is not empty has a least element: no operator is a parameter of
  it. Each fold then gets two facts, what it gives for the empty sequence and behind
  `Append` (`BytesSteps`, `CollectSteps`, `ByClassSteps`, ...), and induction over
  sequences (`SeqInductive`) does the rest. What the tools promise is proved for all
  arguments, not only for those that `Init` asks: texts, rows, stacks, labels and
  directories of any length (`OutcomeKeeps`, `FileReadHonestly`, `OutputCutHonestly`,
  `FilesListedHonestly`, `ListsAreWanted`, `SqlKeepsRows`, `VerdictIsHonest`, `TestsAreListed`,
  `NewestFirst`, `GateHolds`, `DoorHolds`, `LocationsReadBack`, `BreakAtFrame`,
  `BreakpointsAreSet`, `LineReadBack`, `LineNamed`, `TopIsHonest`, `ScoreIsHonest`).
  An invariant per property (`RunAsked`, `HostAsked`, `RowsAsked`, `GateAsked`,
  `BreaksAsked`, `MonitorAsked`) says which arguments the tool is asked for and that the
  answer, once there, is the tool's; with it `CommandOutput`, `HostHonest`,
  `RowsComplete`, `GateHeld`, `DoorHeld`, `BreaksShown` and `MonitorHonest` follow.
  Three need most. That a listing has what its pattern names (`ListsAreWanted`) compares
  two ways to match, the glob's place of the `**` and the reader's beginning and end, by
  stretches of names (`SameStretch`); a pattern given twice matches only paths longer
  than itself (`MatchesDeeper`). That a document's URI is read back (`LocationsReadBack`) is an
  induction over the encoded text, whose invariant (`Encoded`, `Decoded`) says that each
  percent sign so far is in front of a whole code. That a metrics line is
  (`LineReadBack`) goes by the pieces of the line: `Goes` and `Reads` say in which
  state either scanner is behind a text when it came in another, they compose along
  `\o`, and the pieces of a label, of a list of labels and of a line lead from the
  state outside of all braces back to it; `LineNamed` needs only that the labels so far
  have keys. `TopIsHonest` is an induction over the insertions of the sort (`Ranks`).
  `ScoreIsHonest` compares components one by one (`Below`): a sample that grows raises
  its own component or none, and a sample that is not finite is a component of 0 or none.
  They assume that the bounds are natural numbers (`SizesAssumption`, `HostAssumption`,
  `TimeoutAssumption`, `TopAssumption`), that no threshold is 0 and a missing sample no
  number (`ThresholdAssumption`), and that the root of the workspace is a path that canonicalizing leaves alone
  (`RootAssumption`, which `resolve_safe` relies on by canonicalizing it first), that
  the walks of a glob are sequences of names (`WalksAssumption`), and that no answer is no
  text (`UnreadAssumption`).

Only model-checked:

* everything under fairness (`LifecycleSpec`'s liveness, `Served`, `PromptReturns`,
  `CallsReturn`, `ScriptEnds`, `CallsAnswered`): temporal proofs with ENABLED are
  outside the prover;
* the four disagreements, which are refuted.

Every invariant and every action property that a passing run checks is stated by a
theorem.

## 6. Plan

The order is that of importance. Done: 1 to 9, and of 10 the
first part.

1. `TaskProjection`, `TaskLifecycle`, `JobRegistry` with proofs.
2. `OutputBuffer` with proofs.
3. `TerminalAgent`, `ReplSession` with proofs.
4. `DebugSessions` with proofs.
5. `ScriptedRun`.
6. `ApiClient`, `Documents`, `McpServer`.
7. `Texts`, `TerminalOutput`, `HostTools`, `TestRuns`, `Metrics`, `Scoring`,
   `ToolGate`, `DebugReplies`, `ToolAnswers`.
8. Proofs of `McpServer` and of the scripted run's stop bound.
9. Proofs: `NoLeftovers` and `CleanAfterFailure`; `ScriptTypeOK` and `ExitFrees`; the
   answers of the stateless tools.
10. Proofs: `MonitorIsHonest`; then retention under an entry cap that covers the jobs.

## 7. Not modelled

* Rendering, logging, argument parsing and schemas (`cli`, `logfmt.rs`): layout.
* The opening handshake of a terminal session and the stripping of control
  sequences from its output; TLS and WebSocket framing; XML parsing of DBGP
  replies and the tree of a property: data that no property tells apart.
* Durations: a job may live for up to its time-out twice and a drain
  (`jobs.rs:273`); a drain restarts its 2 s with every frame (`terminal.rs:338`); a wall
  clock that is set changes retention (`jobs.rs:397`).
* The HTTP session layer and origin check of the rmcp library, and the cookies a
  terminal logs in with.
* `list_documents`, `get_server_info`, `debug_list_processes`: one request whose
  reply is passed on.
