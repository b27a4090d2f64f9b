------------------------------ MODULE TestRuns ------------------------------
(***************************************************************************)
(* Rows from IRIS and what two tools make of them: SQL results with their  *)
(* paging marker (src/src/iris/sql.rs, tools/sql.rs) and the unit test     *)
(* runner (src/src/tools/testing.rs), which finds the run it has started   *)
(* by the index the runner prints, reads its rows and gives a verdict.     *)
(*                                                                         *)
(* A row is a function from its column names to values. IRIS is external:  *)
(* it returns the first max_rows rows of a result and marks a partial one  *)
(* with hasMore, with the id of a cursor, or not at all.                   *)
(***************************************************************************)
EXTENDS Texts

CONSTANTS PageSize,  \* rows asked for by run_tests, 1000, and list_tests, 10 000
          Bound,     \* words of output within terminal_max_output_chars
          Null       \* a value that is missing in a row

ASSUME PageAssumption == PageSize \in Nat /\ Bound \in Nat

\* What IRIS answers to a query for at most `max` of these rows.
Page(rows, max, marks) ==
    LET n == IF Len(rows) <= max THEN Len(rows) ELSE max
    IN  [rows |-> SubSeq(rows, 1, n),
         more |-> IF marks = "hasMore" THEN (IF n < Len(rows) THEN "yes" ELSE "no") ELSE "absent",
         id   |-> marks = "id"]

\* Seeded fault: a page with a cursor is full only beyond max_rows.
HasMoreFaulty(page, max) ==
    IF page.more # "absent" THEN page.more = "yes" ELSE page.id /\ Len(page.rows) > max

\* query: hasMore if IRIS says so, else a cursor under a full page.
HasMore(page, max) ==
    IF page.more # "absent" THEN page.more = "yes" ELSE page.id /\ Len(page.rows) >= max

\* rows_to_table: the union of the columns (their order is left out).
Columns(rows) == UNION {DOMAIN rows[k] : k \in 1..Len(rows)}

Table(rows) ==
    [k \in 1..Len(rows) |->
        [c \in Columns(rows) |-> IF c \in DOMAIN rows[k] THEN rows[k][c] ELSE Null]]

ExecuteSql(rows, max, marks) ==
    LET page == Page(rows, max, marks)
    IN  [columns |-> Columns(page.rows), rows |-> Table(page.rows),
         truncated |-> HasMore(page, max)]
-----------------------------------------------------------------------------
(***************************************************************************)
(* run_tests. What the terminal prints is a sequence of words: "url" is    *)
(* the runner's line with the Index of this run, which it prints at its    *)
(* end, "echo" an "Index=" with no digits that a test prints, "other" one  *)
(* with the number of another run, and everything else is "text".          *)
(***************************************************************************)
\* The terminal's output is cut at its bound before it is looked at.
Shown(printed) == SubSeq(printed, 1, IF Len(printed) <= Bound THEN Len(printed) ELSE Bound)

\* The digits behind the first "Index=".
RunIndex(printed) ==
    LET at == SelectInSeq(Shown(printed), LAMBDA word : word \in {"url", "echo", "other"})
    IN  IF at = 0 \/ printed[at] = "echo" THEN "none" ELSE printed[at]

MethodStatus(code) == CASE code = 1 -> "passed" [] code = 0 -> "failed"
                        [] code = 2 -> "skipped" [] OTHER -> "unknown"

\* collect_methods, in row order; the assertions of a failed method are a query of
\* their own, whose failure leaves them out.
CollectMethod(got, code) ==
    LET Is(status) == IF MethodStatus(code) = status THEN 1 ELSE 0
    IN  [methods |-> Append(got.methods, MethodStatus(code)),
         passed |-> got.passed + Is("passed"), failed |-> got.failed + Is("failed"),
         skipped |-> got.skipped + Is("skipped")]

Collected(codes) ==
    FoldLeft(CollectMethod, [methods |-> <<>>, passed |-> 0, failed |-> 0, skipped |-> 0], codes)

Verdict(got) == IF got.failed > 0 THEN "failed"
                ELSE IF got.passed > 0 THEN "passed" ELSE "unknown"

\* The marker of the page is not looked at. `codes` are the rows of this run,
\* `others` those that the class has in the other run that was printed.
RunTests(printed, codes, others) ==
    LET index == RunIndex(printed)
        rows  == CASE index = "url" -> codes [] index = "other" -> others [] OTHER -> <<>>
        got   == Collected(Page(rows, PageSize, "none").rows)
    IN  [verdict |-> IF index = "none" THEN "unknown" ELSE Verdict(got),
         methods |-> got.methods, passed |-> got.passed,
         failed |-> got.failed, skipped |-> got.skipped]

\* `rism test run` ends with 1 when the verdict is "failed" (main.rs:88-91).
ExitCode(result) == IF result.verdict = "failed" THEN 1 ELSE 0
-----------------------------------------------------------------------------
(***************************************************************************)
(* list_tests, whose rows are <<class, method>>, and get_test_results,     *)
(* whose rows are <<run, class, code>>, newest run first.                  *)
(***************************************************************************)

\* The place of a class among those listed so far, 0 if it is new.
ClassAt(classes, name) == SelectInSeq(classes, LAMBDA entry : entry.name = name)

AddMethod(classes, row) ==
    LET at == ClassAt(classes, row[1])
    IN  IF at > 0 THEN [classes EXCEPT ![at] = [name |-> row[1], methods |-> Append(@.methods, row[2])]]
        ELSE Append(classes, [name |-> row[1], methods |-> <<row[2]>>])

ByClass(rows) == FoldLeft(AddMethod, <<>>, rows)

ListTests(rows) == ByClass(Page(rows, PageSize, "none").rows)

\* max_runs is 10 when it is not given, and limits rows, not runs.
HistoryLimit(max) == IF max = Null THEN 10 ELSE IF max <= 1000 THEN max ELSE 1000

GetTestResults(rows, max) ==
    LET found == Page(rows, HistoryLimit(max), "none").rows
    IN  [k \in 1..Len(found) |-> [run |-> found[k][1], class |-> found[k][2],
                                  status |-> MethodStatus(found[k][3])]]
-----------------------------------------------------------------------------
(***************************************************************************)
(* What the answers promise.                                               *)
(***************************************************************************)

\* A query has all rows up to max_rows, and no value of them is lost or moved when
\* they have different columns. If there are more it says so, unless IRIS marks no
\* partial page: then they are lost without notice (sql.rs:48-55).
RowsKept(rows, max, marks, a) ==
    /\ Len(a.rows) = AtMost(Len(rows), max)
    /\ Len(a.rows) < Len(rows) => (a.truncated <=> marks # "none")
    /\ \A k \in 1..Len(a.rows) : \A c \in a.columns \cup DOMAIN rows[k] :
          a.rows[k][c] = IF c \in DOMAIN rows[k] THEN rows[k][c] ELSE Null

\* A run whose methods fit the page has failed exactly if one of them failed, and has
\* passed exactly if one of them passed and none failed. Of a longer run that is so of
\* the methods on the page, and nothing says that there are others (testing.rs:166).
\* Without an index there is no verdict. (The index of another run that a test
\* prints, and an output without an index, are what ExitCodeTells is about.)
VerdictHonest(printed, codes, a) ==
    LET seen == IF Len(codes) <= PageSize THEN ToSet(codes) ELSE {codes[k] : k \in 1..PageSize}
    IN  /\ RunIndex(printed) = "none" => a.verdict = "unknown"
        /\ RunIndex(printed) = "url" =>
              /\ Len(a.methods) = AtMost(Len(codes), PageSize)
              /\ a.verdict = "passed" <=> 1 \in seen /\ 0 \notin seen
              /\ a.verdict = "failed" <=> 0 \in seen
        /\ a.passed + a.failed + a.skipped + Len(Only(a.methods, {"unknown"}))
              = Len(a.methods)

\* If the tests fit the page, every class is listed once, with all its tests in their
\* order. If they do not, that is so of those on the page; the others are missing, and
\* the answer has no field that would say so (testing.rs:303).
TestsListed(rows, a) ==
    LET listed == IF Len(rows) <= PageSize THEN rows ELSE SubSeq(rows, 1, PageSize)
    IN  /\ \A j, k \in 1..Len(a) : a[j].name = a[k].name => j = k
        /\ {a[k].name : k \in 1..Len(a)} = {listed[k][1] : k \in 1..Len(listed)}
        /\ \A k \in 1..Len(a) :
              LET own == Only(listed, {row \in ToSet(listed) : row[1] = a[k].name})
              IN  a[k].methods = [i \in 1..Len(own) |-> own[i][2]]

\* Of the stored runs that are reported, only the oldest may lack some of its
\* classes, and no newer run is left out. (max_runs limits the classes, of which 10
\* are reported by default: testing.rs:333 speaks of runs, and of one.)
HistoryComplete(rows, a) ==
    \A k \in 1..Len(rows) : k > Len(a) =>
        \A j \in 1..Len(a) : a[j].run >= rows[k][1]
=============================================================================
