---------------------------- MODULE ToolAnswers -----------------------------
(***************************************************************************)
(* The tools that keep no state between two calls: a call with its         *)
(* arguments, and what the program makes of it.  The modules below say     *)
(* how; here each is asked for every argument up to a small size.          *)
(***************************************************************************)
EXTENDS TerminalOutput, HostTools, TestRuns, ToolGate, Scoring, Metrics, DebugReplies

CONSTANTS MaxFrames, \* bound on the frames of a command
          MaxText,   \* bound on the length of a text
          MaxRows,   \* bound on rows and samples
          MaxLine,   \* bound on a line of metrics that is not well-formed
          Walks,     \* the paths a glob can walk from the root, in sorted order
          NoAnswer

ASSUME SizesAssumption ==
    /\ MaxFrames \in Nat /\ MaxText \in Nat /\ MaxRows \in Nat /\ MaxLine \in Nat

Names == {"..", "cls", "src", "sub"} \cup ToSet(Root)

ASSUME WalksAssumption == Walks \in Seq([top : BOOLEAN, names : Seq(Names)])

VARIABLES tool,      \* what is called
          args,      \* its arguments, and what the world outside does meanwhile
          answer

vars == <<tool, args, answer>>

Chars  == {"a", "e", "n", "c", "x"}
Frames == BoundedSeq({"a", "e", "c"}, 2) \ {<<>>}

Here == [absolute |-> FALSE, names |-> <<"x">>]
Paths == {[absolute |-> FALSE, names |-> <<"x", "..">>],
          [absolute |-> FALSE, names |-> <<"..", "x">>],
          [absolute |-> FALSE, names |-> <<"..", ".">> \o Root],
          [absolute |-> TRUE, names |-> <<"x">>],
          [absolute |-> TRUE, names |-> Root \o <<".", "x">>]}

\* Where a walk ends.
WalkEnd(walk) == Collapse(IF walk.top THEN walk.names ELSE Root \o walk.names)

WalkEnds == {WalkEnd(walk) : walk \in ToSet(Walks)}

\* What can be there: nothing without the directory it is in.
FileSystems == {there \in SUBSET WalkEnds : \A p \in there : Front(p) \in WalkEnds => Front(p) \in there}

\* What a glob can walk to, of which `gone` is removed before its metadata are read.
Walked(there, gone) ==
    LET walks == Only(Walks, {walk \in ToSet(Walks) : WalkEnd(walk) \in there})
    IN  [k \in 1..Len(walks) |-> [top |-> walks[k].top, names |-> walks[k].names,
                                  readable |-> WalkEnd(walks[k]) \notin gone]]

Relative(parts) == [absolute |-> FALSE, parts |-> parts]
Absolute(parts) == [absolute |-> TRUE, parts |-> parts]

Patterns == {NotGiven, Relative(<<"cls">>), Relative(<<"src", "cls">>), Relative(<<"**", "cls">>),
             Relative(<<"src", "**", "cls">>), Relative(<<"..", "**", "cls">>),
             Absolute(<<"**", "cls">>), Absolute(<<"cls">>)}

\* Files of any text, and short ones under any path.
ReadRequests ==
    [rooted : {TRUE}, path : {Here}, file : {<<t>> : t \in BoundedSeq(Chars, MaxText)}]
    \cup [rooted : BOOLEAN, path : Paths \cup {Here},
          file : {<<>>} \cup {<<t>> : t \in BoundedSeq({"a", "z"}, 2)}]

\* A directory listed with any pattern, and any place with none.
ListRequests(paths) ==
    [rooted : {TRUE}, path : {NotGiven}, there : {"directory"}, paths : {paths},
     pattern : Patterns, max : {NotGiven, 0, 1, 2, 9}]

AnyPlace ==
    [rooted : BOOLEAN, path : Paths \cup {Here, NotGiven}, there : {"directory", "file", "nothing"},
     paths : {<<>>}, pattern : {NotGiven}, max : {NotGiven}]

Secs == {NotSet, 0, 5, 8 * MaxTimeout, 20 * MaxTimeout}

\* What is said about the door on the command line, in the environment and in the file.
DoorFlags == [transport : {NotSet, "stdio", "http"}, host : {NotSet, "loopback", "name", "mixed", "other"},
              port : {NotSet, 0}, all : BOOLEAN, url : {NotSet, "http"}]
DoorEnv == [url : {NotSet, "http", "ftp"}, api : {NotSet, 300}, debug : {NotSet}]
DoorFile == [parses : BOOLEAN, url : {"http", "ftp"}, transport : {"stdio", "http", "typo"},
             host : {"blank", "loopback", "other"}, port : {3000}, api : {0}, debug : {TRUE}]

LineChars == {"k", "1", "q", "b", "o", "c", "s", "=", ",", "x"}

\* Lines of any characters, as they are after trimming.
OtherLines == {line \in BoundedSeq(LineChars, MaxLine) : IsTrimmed(line)}

\* Up to two labels with different keys.
Values == BoundedSeq((LineChars \cup {"n", "nl"}), 2)
FewValues == {<<>>, <<"q">>, <<"b">>, <<",">>}
OneLabelSets == {<< <<(<<"k">>), v>> >> : v \in Values}
TwoLabelSets == {<< <<(<<"n", "k">>), v>>, <<(<<"1">>), w>> >> : v \in Values, w \in FewValues}
LabelSets == {<<>>} \cup OneLabelSets \cup TwoLabelSets

\* Names of documents and namespaces, which have no separator.
Docs == BoundedSeq({"x", "7", "C", "%", "|"}, 3) \cup {<<"%", "7", "e1", "e2">>, <<"e1", "e2">>}
Namespaces == {<<"x">>, <<"%", "C", "3">>, <<"x", "%">>}

Asks(t, A) == /\ tool = t /\ args \in A /\ answer = NoAnswer

Init ==
    \/ Asks("run_with", BoundedSeq(Frames, MaxFrames) \X (0..4))
    \/ Asks("read_file", ReadRequests)
    \/ Asks("run_shell", {NotGiven, 0, 40, 4000} \X {0, 1, 2, 35, 3700}
                         \X {"exits", "killed"} \X BoundedSeq({"a", "e", "x"}, 4))
    \/ \E there \in FileSystems : \E gone \in {{}} \cup {{q \in there : IsPrefix(p, q)} : p \in there} :
         Asks("list_files", ListRequests(Walked(there, gone)))
    \/ Asks("list_files", AnyPlace)
    \/ Asks("execute_sql", BoundedSeq({[a |-> 1], [b |-> 2], [a |-> 3, b |-> 4]}, MaxRows)
                           \X (0..MaxRows) \X {"hasMore", "id", "none"})
    \/ Asks("run_tests", BoundedSeq({"url", "echo", "other", "text"}, 2)
                         \X BoundedSeq({0, 1, 2, 3}, MaxRows) \X {<<>>, <<0>>, <<1>>})
    \/ Asks("list_tests", BoundedSeq({"A", "B"} \X {"m", "n"}, MaxRows))
    \/ Asks("get_test_results",
            {rows \in BoundedSeq((1..2) \X {"A", "B"} \X {0, 1}, 3) :
                \A k \in 2..Len(rows) : rows[k - 1][1] >= rows[k][1]} \X {Null, 0, 1, 2})
    \/ Asks("call_tool", [tasks : BOOLEAN, version : 0..3]
                         \X [tool : Tools, background : BOOLEAN, valid : BOOLEAN, timeout : Secs]
                         \X BOOLEAN \X (Secs \ {NotSet}))
    \/ Asks("serve_mcp", DoorFlags \X DoorEnv \X DoorFile)
    \/ Asks("metrics", {<< <<>>, <<>>, line>> : line \in OtherLines})
    \/ \E name \in {<<"k">>, <<"n", "1">>} : \E labels \in LabelSets :
         Asks("metrics", {<<name, labels, Line(name, labels)>>})
    \/ Asks("monitor_system",
            {procs \in BoundedSeq([id : 1..3, commands : 0..2], 3) :
                \A j, k \in 1..Len(procs) : procs[j].id = procs[k].id => j = k}
            \X BoundedSeq([id : 1..2, routine : {"r", "t"}], 2))
    \/ Asks("score", BoundedSeq({-1, 0, 2, 5, NaN}, 2) \X BoundedSeq(BoundedSeq({0, 3, NaN}, 2), 2))
    \/ Asks("debug_location", Namespaces \X (Docs \ {<<>>}) \X {"uri", "encoded", "plain"})
    \/ Asks("break_context", BoundedSeq({0, 1, 2, 3, Unnamed}, 3))
    \/ Asks("debug_start", BoundedSeq({"b", "c"}, 2) \X BOOLEAN \X BOOLEAN
                           \X [1..3 -> {"set", "unmapped", "error"}])
-----------------------------------------------------------------------------
Answers(t, a) == /\ tool = t /\ answer = NoAnswer
                 /\ answer' = a
                 /\ UNCHANGED <<tool, args>>

Next ==
    \/ Answers("run_with", Outcome(args[1], args[2]))
    \/ Answers("read_file", ReadFile(args.rooted, args.path, args.file))
    \/ Answers("run_shell", RunShell(args[1], args[2], args[3], args[4]))
    \/ Answers("list_files", ListFiles(args.rooted, args.path, args.there, args.paths,
                                       args.pattern, args.max))
    \/ Answers("execute_sql", ExecuteSql(args[1], args[2], args[3]))
    \/ Answers("run_tests", RunTests(args[1], args[2], args[3]))
    \/ Answers("list_tests", ListTests(args))
    \/ Answers("get_test_results", GetTestResults(args[1], args[2]))
    \/ Answers("call_tool", CallTool(args[1], args[2], args[3], args[4]))
    \/ Answers("serve_mcp", Door(args[1], args[2], args[3]))
    \/ Answers("metrics", ParseLine(args[3]))
    \/ Answers("monitor_system", TopProcesses(args[1], args[2]))
    \/ Answers("score", ScoreCategory(args[1], args[2]))
    \/ Answers("debug_location", ParseFilename(Reported(args[1], args[2], args[3])))
    \/ Answers("break_context", BreakContext(args))
    \/ Answers("debug_start", StartInner(args[1], args[2], args[3], args[4]))

Spec == Init /\ [][Next]_vars

Answered(t) == tool = t /\ answer # NoAnswer
-----------------------------------------------------------------------------
(***************************************************************************)
(* Properties: what the modules promise, of every answer.                  *)
(***************************************************************************)

\* A command's output fits its bound, is the beginning of what the command printed,
\* whole unless it says otherwise, was all shown while it was printed, and what is
\* missing of it is counted, to the character.
OutputKept == Answered("run_with") =>
    /\ Bounded(args[1], args[2], answer)
    /\ Watched(args[1], args[2], answer)
    /\ Accounted(args[1], args[2], answer)

\* What read_file and run_shell return is the beginning of the decoded text with an
\* exact notice of the rest, cut at a line where a line is near, from inside a
\* configured workspace, and of a command only if it ended in time. A listing has
\* all that a reader of the pattern would expect in the directory, or says that it
\* is cut: promised without a pattern and of patterns with "**" that stay in the
\* directory, and denied of those without "**", which list nothing of what they name
\* (host.rs:262, against the `*.cls` of host.rs:185).
HostIsHonest ==
    /\ Answered("read_file") => ReadHonestly(args.rooted, args.path, args.file, answer)
    /\ Answered("run_shell") /\ "stdout" \in DOMAIN answer =>
          CutHonestly(FromUtf8Lossy(args[4]), answer.stdout) /\ args[2] <= 3600
    /\ Answered("list_files") =>
          ListsWhatIsWanted(args.rooted, args.path, args.paths, args.pattern, args.max, answer)

\* A query says when it lacks rows, unless IRIS does not tell, and loses no value of
\* those it has. The verdict of a run is that of its methods, and discovery has every
\* test once, if they fit the page that is asked for (1000 and 10 000 rows,
\* testing.rs:166, 303); of more, the page is what they answer for, and do not say
\* that it is not all. History lacks only what is older than all it has.
RowsAreKept ==
    /\ Answered("execute_sql") => RowsKept(args[1], args[2], args[3], answer)
    /\ Answered("run_tests") => VerdictHonest(args[1], args[2], answer)
    /\ Answered("list_tests") => TestsListed(args, answer)
    /\ Answered("get_test_results") => HistoryComplete(args[1], answer)

\* `rism test run` ends with "0 when every test passes, 1 on failures"
\* (docs/cli-reference.md:106): with 0, the class was run and no method failed.
ExitCodeTells == Answered("run_tests") /\ ExitCode(answer) = 0 =>
    "url" \in ToSet(args[1]) /\ 0 \notin ToSet(args[2])

\* A metrics line is read back as the sample it was written for, and one that is not
\* a sample makes none without a name; the busiest processes are the ones reported;
\* the load score is monotone and does not punish missing samples.
MonitorIsHonest ==
    /\ Answered("metrics") => /\ Named(answer)
                              /\ IsName(args[1]) => ReadBack(args[1], args[2], answer)
    /\ Answered("monitor_system") => TopHonest(args[1], args[2], answer)
    /\ Answered("score") => ScoreHonest(args[1], args[2], answer)

\* A break is shown at the document it is in, with the variables of the innermost
\* frame, which is the one shown if IRIS lists it first. A start that succeeds has set
\* the breakpoints it was asked for by place; the stop at the entry of a target that
\* is no class method, or that IRIS cannot map, it leaves unset.
BreaksAreShown ==
    /\ Answered("debug_location") => ReadBackAs(args[1], args[2], args[3], answer)
    /\ Answered("break_context") => SameFrame(args, answer)
    /\ Answered("debug_start") => AllSet(args[1], args[2], args[3], args[4], answer)

\* Background tasks only for those who can follow them, what is listed can be called,
\* and every time-out is one that deadline arithmetic survives.
GateKept == Answered("call_tool") =>
    /\ TasksKept(args[1], args[2], answer)
    /\ ListedAreCallable(args[2], args[3], answer)
    /\ TimeoutsKept(args[2], args[4], answer)

\* The door that opens is the one that was asked for, and no wider.
DoorIsKept == Answered("serve_mcp") => DoorKept(args[1], args[2], args[3], answer)

\* "Every request must ANSWER" (tools/mod.rs:23-24): the host tools answer, whatever
\* text they meet.
EveryCallAnswers == tool \in {"read_file", "run_shell"} => answer # Panic
=============================================================================
