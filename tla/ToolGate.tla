------------------------------ MODULE ToolGate ------------------------------
(***************************************************************************)
(* What stands between a client and the tools: how the process chooses its *)
(* door (src/src/main.rs, settings.rs, mcp/http.rs), which sessions may    *)
(* use background tasks, and what call_tool, list_tools and the tasks      *)
(* handlers answer (src/src/mcp/mod.rs) with which time-out (tools/mod.rs).*)
(***************************************************************************)
EXTENDS Naturals

CONSTANTS MaxTimeout, \* MAX_TIMEOUT_SECS, 7 days
          NotSet      \* an argument, flag or setting that is left out

ASSUME TimeoutAssumption == MaxTimeout \in Nat /\ MaxTimeout >= 3600

Given(value, otherwise) == IF value = NotSet THEN otherwise ELSE value
-----------------------------------------------------------------------------
(***************************************************************************)
(* Time-outs.                                                              *)
(***************************************************************************)

ClampTimeoutSecs(secs) == IF secs > MaxTimeout THEN MaxTimeout ELSE secs

AtLeastSecs(secs, least) == IF secs < least THEN least ELSE secs

\* A background command: 0 means the default, as if nothing was given.
TaskTimeout(secs, configured) ==
    ClampTimeoutSecs(Given(IF secs = 0 THEN NotSet ELSE secs, AtLeastSecs(configured, 3600)))

\* A command that is waited for: 0 is an immediate time-out.
CommandTimeout(secs, configured) == ClampTimeoutSecs(Given(secs, configured))

TestTimeout(secs, configured) == ClampTimeoutSecs(Given(secs, AtLeastSecs(configured, 120)))
-----------------------------------------------------------------------------
(***************************************************************************)
(* Sessions and calls. Protocol versions are numbers in the order of their *)
(* dates, 0 for none; 2 stands for TASKS_MIN_PROTOCOL, 2026-06-30.         *)
(***************************************************************************)
TasksSupported(session) == session.tasks /\ session.version >= 2

Tools == {"debug_start", "execute_command", "execute_sql"}

IsDebug(tool) == tool = "debug_start"

ListTools(debug) == IF debug THEN Tools ELSE {t \in Tools : ~IsDebug(t)}

Refusal(why) == [kind |-> "error", why |-> why, timeout |-> 0]

\* Seeded fault: a session without tasks gets its command run at once.
CallToolFaulty(session, call, debug, configured) ==
    IF IsDebug(call.tool) /\ ~debug THEN Refusal("disabled")
    ELSE IF call.tool = "execute_command" /\ call.background /\ TasksSupported(session)
    THEN IF ~call.valid THEN Refusal("params")
         ELSE [kind |-> "task", why |-> "", timeout |-> TaskTimeout(call.timeout, configured)]
    ELSE IF ~call.valid THEN Refusal("params")
    ELSE [kind |-> "run", why |-> "", timeout |-> CommandTimeout(call.timeout, configured)]

\* call_tool up to the tool itself: the debugger switch, then task mode, whose
\* refusal comes before the arguments are parsed. (A full registry refuses, too:
\* JobRegistry.) Only execute_command has a `background`; of the others, the
\* debugger tools ignore an argument they do not know and the rest refuse it.
CallTool(session, call, debug, configured) ==
    IF IsDebug(call.tool) /\ ~debug THEN Refusal("disabled")
    ELSE IF call.tool = "execute_command" /\ call.background
    THEN IF ~TasksSupported(session) THEN Refusal("tasks")
         ELSE IF ~call.valid THEN Refusal("params")
         ELSE [kind |-> "task", why |-> "", timeout |-> TaskTimeout(call.timeout, configured)]
    ELSE IF ~call.valid \/ (call.background /\ ~IsDebug(call.tool)) THEN Refusal("params")
    ELSE [kind |-> "run", why |-> "",
          timeout |-> IF call.tool = "execute_command"
                      THEN CommandTimeout(call.timeout, configured) ELSE 0]

\* tasks/get and tasks/cancel reach the registry; rmcp itself asks for the
\* capability. tasks/update never does anything.
TaskRequest(session, method) ==
    IF ~TasksSupported(session) THEN "capability"
    ELSE IF method = "update" THEN "unused" ELSE "registry"
-----------------------------------------------------------------------------
(***************************************************************************)
(* The door of `rism mcp`.                                                 *)
(***************************************************************************)
\* Seeded fault: an unknown transport is served as the default one.
TransportFaulty(flag, config) == IF Given(flag, config) = "http" THEN "http" ELSE "stdio"

\* McpTransport::resolve: the flag (or its environment variable) is parsed by clap,
\* which rejects what it does not know; the file's value only counts without one.
Transport(flag, config) ==
    IF Given(flag, config) \in {"stdio", "http"} THEN Given(flag, config) ELSE "error"

\* Settings::load and apply_env: the file, or nothing of it if it cannot be parsed;
\* over it the environment, of which a value that is no number is passed over, and
\* any word but 0, false, off and no turns the debugger on.
LoadSettings(env, file) ==
    [file EXCEPT !.url   = Given(env.url, @),
                 !.api   = IF env.api \in 0..255 THEN env.api ELSE @,
                 !.debug = IF env.debug = NotSet THEN @ ELSE env.debug # "off"]

\* The host of the HTTP door; a blank mcp_host counts as not set.
Host(flag, config) == Given(flag, IF config = "blank" THEN "loopback" ELSE config)

\* is_loopback_host: a name counts only if all of its addresses are loopback, and it
\* has one. ("name" has loopback addresses only, "mixed" others, too.)
IsLoopbackHost(host) == host \in {"loopback", "name"}

\* The door that opens: its transport, and for HTTP where and for which origins.
\* (Given that the name resolves to the same addresses when it is bound.) The
\* settings are validated when the handler is built.
Door(flags, env, file) ==
    LET config == LoadSettings(env, file)
        chosen == Transport(flags.transport, config.transport)
        host   == Host(flags.host, config.host)
        ready  == Given(flags.url, config.url) = "http"
    IN  IF ~file.parses \/ chosen = "error" THEN [opens |-> "error"]
        ELSE IF chosen = "http" /\ ~(flags.all \/ IsLoopbackHost(host))
        THEN [opens |-> "refused"]
        ELSE IF ~ready THEN [opens |-> "error"]
        ELSE IF chosen = "stdio" THEN [opens |-> "stdio"]
        ELSE [opens |-> "http", host |-> host, port |-> Given(flags.port, config.port),
              origins |-> ~flags.all /\ IsLoopbackHost(host)]
-----------------------------------------------------------------------------
(***************************************************************************)
(* What the answers promise.                                               *)
(***************************************************************************)

\* A client gets a task only if it can poll and cancel it, and one that asks for a
\* task is never left waiting for the command instead: it is refused, and first
\* with the honest reason, whatever its arguments are (mcp/mod.rs:444-448).
TasksKept(session, call, a) ==
    /\ a.kind = "task" => \A m \in {"get", "cancel"} : TaskRequest(session, m) = "registry"
    /\ call.background /\ ~IsDebug(call.tool) => a.kind # "run"
    /\ call.tool = "execute_command" /\ call.background /\ ~TasksSupported(session) =>
          a.why = "tasks"

\* A tool is listed exactly if calling it is not refused as disabled.
ListedAreCallable(call, debug, a) ==
    call.tool \in ListTools(debug) <=> a.why # "disabled"

\* No time-out, given or configured, exceeds seven days, so that no deadline
\* overflows; a background command has at least a second, and without one of its
\* own at least the hour it is detached for.
TimeoutsKept(call, configured, a) ==
    /\ a.timeout <= MaxTimeout
    /\ TestTimeout(call.timeout, configured) <= MaxTimeout
    /\ a.kind = "task" => IF call.timeout \in {NotSet, 0} THEN a.timeout >= 3600
                          ELSE a.timeout >= 1

\* "A typo must not open stdio" (mcp/http.rs:93): the door that opens is the one named
\* at the highest tier that names any. The HTTP door, which has no authentication,
\* is bound to other interfaces only on the flag, which neither the environment nor
\* the file can stand for, and then no browser origin is allowed.
DoorKept(flags, env, file, a) ==
    /\ a.opens \in {"stdio", "http"} =>
          /\ a.opens = Given(flags.transport, file.transport)
          /\ Given(flags.url, Given(env.url, file.url)) = "http"
    /\ a.opens = "http" => /\ a.host \in {"loopback", "name"} \/ flags.all
                           /\ a.origins => ~flags.all
=============================================================================
