---------------------------- MODULE DebugReplies ----------------------------
(***************************************************************************)
(* What the debugger tools make of the agent's replies and send to it      *)
(* (src/src/tools/debugger.rs, iris/dbgp.rs): file URIs, the frame that a  *)
(* break is shown at, and the breakpoints of a start.  DebugSessions has   *)
(* the exchanges themselves.                                               *)
(*                                                                         *)
(* A text is a sequence of bytes: "x" and the hexadecimal digits stand for *)
(* what may stay unencoded in a URI, "e1" and "e2" for a character of two  *)
(* bytes, "dbgp" for the scheme "dbgp://".                                 *)
(***************************************************************************)
EXTENDS Integers, FiniteSets, SequencesExt

CONSTANTS Unnamed,   \* a part that a location lacks
          Unread     \* no answer: a slice inside of a character ends the task

\* The bytes that texts are made of.
UriBytes == {"dbgp", "x", "2", "3", "5", "7", "9", "A", "C", "%", "|", ":", "e1", "e2", "?"}

ASSUME UnreadAssumption == Unread \notin Seq(UriBytes)

\* The two digits of a byte that is not left as it is.
Code == [b \in {"%", "|", ":", "e1", "e2"} |->
            CASE b = "%" -> <<"2", "5">> [] b = "|" -> <<"7", "C">> [] b = ":" -> <<"3", "A">>
              [] b = "e1" -> <<"C", "3">> [] b = "e2" -> <<"A", "9">>]

Digits == UNION {{Code[b][1], Code[b][2]} : b \in DOMAIN Code}

\* from_utf8_lossy: half a character is replaced.
Lossy(text) ==
    [k \in 1..Len(text) |->
        IF \/ text[k] = "e1" /\ (k = Len(text) \/ text[k + 1] # "e2")
           \/ text[k] = "e2" /\ (k = 1 \/ text[k - 1] # "e1")
        THEN "?" ELSE text[k]]

\* Two digits decode to the byte they are the code of, or to another one.
Byte(first, second) ==
    IF \E b \in DOMAIN Code : Code[b] = <<first, second>>
    THEN CHOOSE b \in DOMAIN Code : Code[b] = <<first, second>> ELSE "?"

\* The places of the percent signs that are looked at: not those within a code.
Codes(text) ==
    LET at[k \in 0..Len(text)] ==
            IF k = 0 THEN {}
            ELSE IF /\ text[k] = "%" /\ k + 2 <= Len(text)
                    /\ text[k + 1] \in Digits /\ text[k + 2] \in Digits
                    /\ {k - 1, k - 2} \cap at[k - 1] = {}
                 THEN at[k - 1] \cup {k} ELSE at[k - 1]
    IN  at[Len(text)]

\* percent_decode slices the text at the two bytes behind a percent sign, which
\* panics if a character goes on behind them.
PercentDecode(text) ==
    LET coded == Codes(text)
    IN  IF \E k \in 1..Len(text) - 2 :
              text[k] = "%" /\ text[k + 2] = "e1" /\ {k - 1, k - 2} \cap coded = {}
        THEN Unread
        ELSE Lossy(FlattenSeq([k \in 1..Len(text) |->
                 IF k \in coded THEN <<Byte(text[k + 1], text[k + 2])>>
                 ELSE IF {k - 1, k - 2} \cap coded # {} THEN <<>> ELSE <<text[k]>>]))

\* What is in front of and behind the first separator in a text that has one.
Splits(text, sep) == sep \in ToSet(text)
Before(text, sep) == SubSeq(text, 1, SelectInSeq(text, LAMBDA b : b = sep) - 1)
Behind(text, sep) == SubSeq(text, SelectInSeq(text, LAMBDA b : b = sep) + 1, Len(text))

Place(ns, doc) == [namespace |-> ns, document |-> doc]

\* parse_filename: "|ns|doc", else "ns:doc", else a document.
ParsePath(path) ==
    IF path = <<>> THEN Place(Unnamed, Unnamed)
    ELSE IF Head(path) = "|"
         THEN IF Splits(Tail(path), "|")
              THEN Place(Before(Tail(path), "|"), Behind(Tail(path), "|"))
              ELSE Place(Tail(path), Unnamed)
    ELSE IF Splits(path, ":") THEN Place(Before(path, ":"), Behind(path, ":"))
    ELSE Place(Unnamed, path)

ParseFilename(raw) ==
    LET decoded == PercentDecode(raw)
    IN  IF decoded = Unread THEN Unread
        ELSE ParsePath(IF decoded # <<>> /\ Head(decoded) = "dbgp" THEN Tail(decoded) ELSE decoded)

\* Seeded fault: a percent sign, as in %SYS, is left as it is.
PctFaulty(text) ==
    FlattenSeq([k \in 1..Len(text) |->
        IF text[k] \in DOMAIN Code \ {"%"} THEN <<"%">> \o Code[text[k]] ELSE <<text[k]>>])

Pct(text) ==
    FlattenSeq([k \in 1..Len(text) |->
        IF text[k] \in DOMAIN Code THEN <<"%">> \o Code[text[k]] ELSE <<text[k]>>])

BpFileUri(ns, doc) == <<"dbgp", "|">> \o Pct(ns) \o <<"|">> \o Pct(doc)

\* Where IRIS says that a document is: with encoded pipes, as it does, or plain.
Reported(ns, doc, form) ==
    CASE form = "uri"     -> BpFileUri(ns, doc)
      [] form = "encoded" -> <<"dbgp">> \o Pct(<<"|">> \o ns \o <<"|">> \o doc)
      [] form = "plain"   -> ns \o <<":">> \o doc
-----------------------------------------------------------------------------
\* break_context: shown are the place of the first frame and the variables of the
\* lowest level, at least 1; a level that is no number counts as 1.
BreakContext(levels) ==
    LET Level(k) == IF levels[k] = Unnamed THEN 1 ELSE levels[k]
        lowest   == CHOOSE n \in {Level(k) : k \in 1..Len(levels)} :
                        \A k \in 1..Len(levels) : n <= Level(k)
    IN  [place |-> IF levels = <<>> THEN 0 ELSE 1,
         level |-> IF levels = <<>> \/ lowest < 1 THEN 1 ELSE lowest]

\* start_inner: the breakpoints asked for, in order, then the one at the entry of a
\* class method. `replies` are IRIS's: a breakpoint that is refused ends the start,
\* but for an entry that cannot be mapped (error 201, a method that only quits).
StartInner(asked, entry, method, replies) ==
    LET wanted == asked \o IF entry /\ method THEN <<"entry">> ELSE <<>>
        failed == {k \in 1..Len(wanted) :
                      /\ replies[k] # "set"
                      /\ replies[k] = "unmapped" => wanted[k] # "entry"}
    IN  [ok  |-> failed = {},
         set |-> IF failed # {} THEN <<>>
                 ELSE SubSeq(wanted, 1, Cardinality({k \in 1..Len(wanted) : replies[k] = "set"}))]
-----------------------------------------------------------------------------
(***************************************************************************)
(* What the answers promise.                                               *)
(***************************************************************************)

\* A document in a namespace is read back as it was written, whatever characters the
\* names have: but a namespace has no separator, and plain names no percent sign.
ReadBackAs(ns, doc, form, a) ==
    form # "plain" \/ "%" \notin ToSet(ns \o doc) => a = Place(ns, doc)

\* The variables are those of the innermost frame, in whatever order IRIS lists them,
\* and the place is that of the same frame exactly if IRIS lists it first.
SameFrame(levels, a) ==
    LET Level(k) == IF levels[k] \in {Unnamed, 0} THEN 1 ELSE levels[k]
    IN  levels # <<>> =>
            /\ \A k \in 1..Len(levels) : a.level <= Level(k)
            /\ a.level = Level(a.place) <=> \A k \in 1..Len(levels) : Level(1) <= Level(k)

\* A start that succeeds has every breakpoint that was asked for, and reports those
\* that IRIS has set. The entry of a target is set of a class method alone, and not if
\* IRIS cannot map it: a start that leaves it unset succeeds, too.
AllSet(asked, entry, method, replies, a) ==
    a.ok => /\ IsPrefix(asked, a.set)
            /\ "entry" \in ToSet(a.set) <=> entry /\ method /\ replies[Len(asked) + 1] = "set"
=============================================================================
