------------------------------ MODULE Metrics -------------------------------
(***************************************************************************)
(* The metrics text of IRIS (src/src/iris/monitor.rs): a line is a name,   *)
(* optional labels in braces, white space and a value, and becomes a       *)
(* sample; a line that is not is passed over.  Then what monitor_system    *)
(* (src/src/tools/monitor.rs) takes from the samples beside the score.     *)
(*                                                                         *)
(* A line is a sequence of character classes: "k" and "n" are characters   *)
(* of names (an escaped n is a newline, "nl"), "1" is a digit, "q" is      *)
(* a quote, "b" a backslash, "o" and "c" the braces, "s" white space, "="  *)
(* and "," are themselves and "x" is any other character.                  *)
(***************************************************************************)
EXTENDS Texts

CONSTANT TopSize     \* processes reported, 5

ASSUME TopAssumption == TopSize \in Nat

NameChars == {"k", "n", "1"}

IsName(text) == text # <<>> /\ ToSet(text) \subseteq NameChars
-----------------------------------------------------------------------------
\* Seeded fault: an escaped quote ends the quotes.
ScanFaulty(st, char) ==
    [depth  |-> IF st.quoted THEN st.depth
                ELSE IF char = "o" THEN st.depth + 1
                ELSE IF char = "c" /\ st.depth > 0 THEN st.depth - 1 ELSE st.depth,
     quoted |-> st.quoted # (char = "q"), escaped |-> FALSE]

\* One turn of split_head_value over the characters in front of the value.
Scan(st, char) ==
    IF st.escaped THEN [st EXCEPT !.escaped = FALSE]
    ELSE [depth   |-> IF st.quoted THEN st.depth
                      ELSE IF char = "o" THEN st.depth + 1
                      ELSE IF char = "c" /\ st.depth > 0 THEN st.depth - 1 ELSE st.depth,
          quoted  |-> st.quoted # (char = "q"),
          escaped |-> char = "b" /\ st.quoted]

Scanned(text) ==
    FoldLeft(Scan, [depth |-> 0, quoted |-> FALSE, escaped |-> FALSE], text)

\* The ends of the line's heads: white space outside of braces and quotes.
HeadEnds(line) ==
    {k \in 1..Len(line) : /\ line[k] = "s"
                          /\ Scanned(SubSeq(line, 1, k - 1)) =
                                [depth |-> 0, quoted |-> FALSE, escaped |-> FALSE]}

\* The labels so far, and where in them the loops of parse_labels are.
NoLabels == [mode |-> "after", key |-> <<>>, value |-> <<>>, out |-> <<>>]

\* A turn of the outer loop: it consumes a separator, or a key and what follows it.
\* A character that none of its inner loops takes is never passed: the loop is stuck.
Turn(st, char) ==
    IF char \in {"s", ","} THEN [st EXCEPT !.mode = "after"]
    ELSE IF char \in NameChars THEN [st EXCEPT !.mode = "key", !.key = <<char>>]
    ELSE IF char = "=" THEN [st EXCEPT !.mode = "equals", !.key = <<>>]
    ELSE IF char = "q" THEN [st EXCEPT !.mode = "value", !.key = <<>>, !.value = <<>>]
    ELSE [st EXCEPT !.mode = "stuck"]

With(labels, key, value) ==
    [k \in DOMAIN labels \cup {key} |-> IF k = key THEN value ELSE labels[k]]

\* A label with an empty key is dropped, and a later one replaces an earlier.
Insert(st) == [st EXCEPT !.mode = "after",
                         !.out = IF st.key = <<>> THEN @ ELSE With(@, st.key, st.value)]

Label(st, char) ==
    CASE st.mode = "escape" ->
           [st EXCEPT !.mode = "value", !.value = Append(@, IF char = "n" THEN "nl" ELSE char)]
      [] st.mode = "value" ->
           IF char = "b" THEN [st EXCEPT !.mode = "escape"]
           ELSE IF char = "q" THEN Insert(st) ELSE [st EXCEPT !.value = Append(@, char)]
      [] st.mode \in {"key", "equals"} /\ char = "q" ->
           [st EXCEPT !.mode = "value", !.value = <<>>]
      [] st.mode = "key" /\ char \in NameChars -> [st EXCEPT !.key = Append(@, char)]
      [] st.mode \in {"key", "equals"} /\ char \in {"s", "="} -> [st EXCEPT !.mode = "equals"]
      [] st.mode = "stuck" -> st
      [] OTHER -> Turn(st, char)

Labelled(block) == FoldLeft(Label, NoLabels, block)

\* parse_labels: a value without its closing quote counts, too.
ParseLabels(block) ==
    LET st == Labelled(block)
    IN  CASE st.mode = "value"  -> Insert(st).out
          [] st.mode = "escape" -> Insert([st EXCEPT !.value = Append(@, "b")]).out
          [] OTHER -> st.out

\* What a line adds to the samples, if the parser gets over it.
Nothing == [ends |-> TRUE, samples |-> <<>>]

\* Behind the end of a head, parse_value takes the first token, here of digits; a time
\* stamp behind it is ignored.
HasValue(line, end) ==
    \E first \in end + 1..Len(line) : \E last \in first..Len(line) :
        /\ \A k \in end..first - 1 : line[k] = "s"
        /\ \A k \in first..last : line[k] = "1"
        /\ last < Len(line) => line[last + 1] = "s"

\* A line as parse_prometheus has trimmed it.
IsTrimmed(line) == line = <<>> \/ (Head(line) # "s" /\ Last(line) # "s")

\* parse_prometheus, for one trimmed line.
ParseLine(line) ==
    IF HeadEnds(line) = {} THEN Nothing
    ELSE LET end   == CHOOSE k \in HeadEnds(line) : \A j \in HeadEnds(line) : k <= j
             head  == SubSeq(line, 1, end - 1)
             open  == SelectInSeq(head, LAMBDA char : char = "o")
             name  == IF open = 0 THEN head ELSE SubSeq(head, 1, open - 1)
             rest  == SubSeq(head, open + 1, Len(head))
             block == IF rest # <<>> /\ Last(rest) = "c" THEN Front(rest) ELSE rest
         IN  IF ~HasValue(line, end) THEN Nothing
             ELSE IF open > 0 /\ Labelled(block).mode = "stuck" THEN [Nothing EXCEPT !.ends = FALSE]
             ELSE IF ~IsName(name) \/ name[1] = "1" THEN Nothing
             ELSE [Nothing EXCEPT !.samples =
                      <<[name |-> name, labels |-> IF open = 0 THEN <<>> ELSE ParseLabels(block)]>>]
-----------------------------------------------------------------------------
(***************************************************************************)
(* The snapshot. A process is its id and its number of commands; `routine` *)
(* is looked up under its id in the label sets of iris_process.            *)
(***************************************************************************)

\* sort_by_key is stable: a process goes behind those that have executed as many.
Ranked(sorted, p) ==
    LET busier == {k \in 1..Len(sorted) : sorted[k].commands >= p.commands}
    IN  InsertAt(sorted, Greatest({0} \cup busier) + 1, p)

Sorted(procs) == FoldLeft(Ranked, <<>>, procs)

Top(procs) == SubSeq(Sorted(procs), 1, AtMost(Len(procs), TopSize))

\* The last sample with an id wins, and no sample gives "?".
Routine(labels, id) ==
    LET own == {k \in 1..Len(labels) : labels[k].id = id}
    IN  IF own = {} THEN "?" ELSE labels[Greatest(own)].routine

TopProcesses(procs, labels) ==
    LET top == Top(procs)
    IN  [k \in 1..Len(top) |-> [id |-> top[k].id, commands |-> top[k].commands,
                                routine |-> Routine(labels, top[k].id)]]
-----------------------------------------------------------------------------
(***************************************************************************)
(* What the answers promise.                                               *)
(***************************************************************************)

\* The text of a sample, as Prometheus defines it: backslash, quote and newline are
\* escaped in label values, and everything else stands for itself.
Escaped(value) ==
    FlattenSeq([k \in 1..Len(value) |->
        IF value[k] = "nl" THEN <<"b", "n">>
        ELSE IF value[k] \in {"b", "q"} THEN <<"b", value[k]>> ELSE <<value[k]>>])

Written(labels) ==
    FlattenSeq([k \in 1..Len(labels) |->
        (IF k = 1 THEN <<>> ELSE <<",">>) \o labels[k][1] \o <<"=", "q">>
        \o Escaped(labels[k][2]) \o <<"q">>])

Line(name, labels) ==
    name \o (IF labels = <<>> THEN <<>> ELSE <<"o">> \o Written(labels) \o <<"c">>) \o <<"s", "1">>

\* Whatever characters its label values hold, a line is read back as the sample it
\* was written for (of labels with different keys).
ReadBack(name, labels, a) ==
    /\ a.ends /\ Len(a.samples) = 1
    /\ a.samples[1].name = name
    /\ DOMAIN a.samples[1].labels = {labels[k][1] : k \in 1..Len(labels)}
    /\ \A k \in 1..Len(labels) : a.samples[1].labels[labels[k][1]] = labels[k][2]

\* Whatever the text is, a sample has a name, and so has each of its labels.
Named(a) ==
    \A s \in ToSet(a.samples) : IsName(s.name) /\ \A key \in DOMAIN s.labels : IsName(key)

\* No process that is left out has executed more commands than one that is listed,
\* and each is listed once, under its own routine.
TopHonest(procs, labels, a) ==
    /\ Len(a) = AtMost(Len(procs), TopSize)
    /\ \A k \in 2..Len(a) : a[k - 1].commands >= a[k].commands
    /\ \A p \in ToSet(procs) :
          \/ \E k \in 1..Len(a) : a[k].id = p.id /\ a[k].commands = p.commands
          \/ \A k \in 1..Len(a) : a[k].commands >= p.commands
    /\ \A k \in 1..Len(a) :
          /\ [id |-> a[k].id, commands |-> a[k].commands] \in ToSet(procs)
          /\ \A l \in ToSet(labels) : l.id = a[k].id =>
                \E m \in ToSet(labels) : m.id = a[k].id /\ m.routine = a[k].routine
=============================================================================
