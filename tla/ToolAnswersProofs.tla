------------------------- MODULE ToolAnswersProofs --------------------------
(***************************************************************************)
(* What the tools that keep no state between two calls answer.  First the  *)
(* theorems about each tool, for all arguments: commands of any number of  *)
(* frames, texts and rows of any length, every bound.  Then, for each      *)
(* property of ToolAnswers, an invariant that says which arguments the     *)
(* tools of that property are asked for and that they answer as the tool   *)
(* does, and the theorem from it.                                          *)
(***************************************************************************)
EXTENDS ToolAnswers, TextsProofs, FiniteSetTheorems

(***************************************************************************)
(* read_file, run_shell and list_files.                                    *)
(***************************************************************************)
\* is_binary overlooks no zero byte in its sample.
LEMMA BinaryIsSeen ==
    ASSUME NEW C, NEW text \in Seq(C), ~IsBinary(text), NEW k \in 1..Len(text), text[k] = "z"
    PROVE  Bytes(SubSeq(text, 1, k)) > Sample
<1> DEFINE within == {b \in Boundaries(text) : b <= Sample}
<1>0. Sample \in Nat /\ Len(text) \in Nat /\ k \in 0..Len(text)
  BY HostAssumption
<1>1. Greatest(within) \in within /\ \A b \in within : b <= Greatest(within)
  <2>1. within \in SUBSET (0..Sample) /\ 0 \in within
    BY <1>0, BoundariesOf
  <2> HIDE DEF within
  <2> QED
    BY <1>0, <2>1, GreatestOf
<1>2. Greatest(within) \in Boundaries(text)
  BY <1>1
<1>3. PICK j \in 0..Len(text) :
          /\ Upto(text, Greatest(within)) = SubSeq(text, 1, j)
          /\ Greatest(within) = Bytes(SubSeq(text, 1, j))
  BY <1>2, CutAtBoundary
<1>4. ASSUME Bytes(SubSeq(text, 1, k)) <= Sample PROVE FALSE
  <2>1. Bytes(SubSeq(text, 1, k)) \in within
    BY <1>0, <1>4, PrefixesOf
  <2>2. Bytes(SubSeq(text, 1, k)) <= Bytes(SubSeq(text, 1, j))
    BY <1>1, <1>3, <2>1
  <2>3. j < k => Bytes(SubSeq(text, 1, j)) < Bytes(SubSeq(text, 1, k))
    BY <1>0, BytesIncrease
  <2>4. PICK a \in Nat, b \in Nat : a = Bytes(SubSeq(text, 1, k)) /\ b = Bytes(SubSeq(text, 1, j))
    BY <1>0, BytesOfFirst
  <2>5. k <= j
    BY <1>0, <2>2, <2>3, <2>4
  <2>6. /\ Len(SubSeq(text, 1, j)) = j /\ \A i \in 1..j : SubSeq(text, 1, j)[i] = text[i]
    BY FirstElements
  <2>8. k \in 1..Len(SubSeq(text, 1, j)) /\ SubSeq(text, 1, j)[k] = "z"
    BY <2>5, <2>6
  <2>9. Contains(SubSeq(text, 1, j), "z")
    BY <2>8 DEF Contains
  <2>7. Contains(Upto(text, Greatest(within)), "z")
    BY <1>3, <2>9
  <2> QED
    BY <2>7 DEF IsBinary
<1>5. Bytes(SubSeq(text, 1, k)) \in Nat
  BY <1>0, BytesOfFirst
<1> QED
  BY <1>0, <1>4, <1>5

\* A file is cut at a boundary within the limit: behind its last usable line, or at
\* the limit itself.
LEMMA CutOfFile ==
    ASSUME NEW C, NEW text \in Seq(C), MaxFile \in Boundaries(text)
    PROVE  LET ends   == {Bytes(SubSeq(text, 1, k - 1)) : k \in {i \in 1..Len(text) : text[i] = "n"}}
               usable == {n \in ends : n < MaxFile /\ n > MaxFile \div 2}
           IN  /\ FileCut(text) \in Boundaries(text) /\ FileCut(text) \in 0..MaxFile
               /\ usable # {} => FileCut(text) \in usable
               /\ \A n \in usable : n <= FileCut(text)
<1> DEFINE ends   == {Bytes(SubSeq(text, 1, k - 1)) : k \in {i \in 1..Len(text) : text[i] = "n"}}
           usable == {n \in ends : n < MaxFile /\ n > MaxFile \div 2}
<1>0. MaxFile \in Nat /\ Len(text) \in Nat
  BY HostAssumption
<1>1. ends \subseteq Boundaries(text)
  <2>1. \A k \in 1..Len(text) : k - 1 \in 0..Len(text)
    BY <1>0
  <2> QED
    BY <2>1, PrefixesOf
<1>2. usable \in SUBSET (0..MaxFile)
  <2>1. Boundaries(text) \subseteq Nat
    BY BoundariesOf
  <2> QED
    BY <1>0, <1>1, <2>1
<1>3. CASE usable = {}
  BY <1>0, <1>3 DEF FileCut
<1>4. CASE usable # {}
  <2>1. FileCut(text) = Greatest(usable)
    BY <1>4 DEF FileCut
  <2> HIDE DEF usable
  <2>2. FileCut(text) \in usable /\ \A n \in usable : n <= FileCut(text)
    BY <1>0, <1>2, <1>4, <2>1, GreatestOf
  <2>3. usable \subseteq Boundaries(text)
    BY <1>1 DEF usable
  <2> QED
    BY <1>2, <2>2, <2>3 DEF usable
<1> QED
  BY <1>3, <1>4

\* What from_utf8_lossy makes of bytes, which is the same text if they are UTF-8.
LEMMA LossyText ==
    ASSUME NEW C, NEW bytes \in Seq(C)
    PROVE  /\ FromUtf8Lossy(bytes) \in Seq(C \cup {"u"})
           /\ ~Contains(bytes, "x") => FromUtf8Lossy(bytes) = bytes
<1>1. PICK n \in Nat : n = Len(bytes)
  BY LenProperties
<1>2. \A k \in 1..n : bytes[k] \in C
  BY <1>1, ElementOfSeq
<1>3. FromUtf8Lossy(bytes) = [k \in 1..n |-> IF bytes[k] = "x" THEN "u" ELSE bytes[k]]
  BY <1>1 DEF FromUtf8Lossy
<1>4. FromUtf8Lossy(bytes) \in [1..n -> C \cup {"u"}]
  BY <1>2, <1>3
<1>5. ASSUME ~Contains(bytes, "x") PROVE FromUtf8Lossy(bytes) = bytes
  <2>1. \A k \in 1..n : bytes[k] # "x"
    BY <1>1, <1>5 DEF Contains
  <2>2. bytes = [k \in 1..n |-> bytes[k]]
    BY <1>1
  <2> QED
    BY <1>3, <2>1, <2>2
<1> QED
  BY <1>4, <1>5

\* A file that is cut is cut at a line, with an exact notice.
LEMMA FileTruncatedHonestly ==
    ASSUME NEW C, NEW text \in Seq(C), MaxFile \in Boundaries(text), Bytes(text) > MaxFile
    PROVE  CutHonestly(text, TruncateFile(text)) /\ CutAtLine(text, TruncateFile(text))
<1> DEFINE cut == FileCut(text)
           kept == Upto(text, cut)
<1>0. /\ MaxFile \in Nat /\ Bytes(text) \in Nat /\ Len(text) \in Nat
      /\ cut \in Boundaries(text) /\ cut \in 0..MaxFile
  BY HostAssumption, BytesSteps, CutOfFile
<1> HIDE DEF cut
<1>1. PICK j \in 0..Len(text) : /\ kept = SubSeq(text, 1, j) /\ cut = Bytes(SubSeq(text, 1, j))
                                /\ Len(kept) = j /\ IsPrefix(kept, text) /\ Bytes(kept) = cut
  BY <1>0, CutAtBoundary
<1>2. TruncateFile(text) = [content |-> kept, truncated |-> TRUE, more |-> Bytes(text) - cut]
  BY <1>0 DEF TruncateFile, cut
<1> HIDE DEF kept
<1>3. CutHonestly(text, TruncateFile(text))
  <2>1. PICK b \in Nat, n \in Nat : b = Bytes(text) /\ n = cut /\ n <= MaxFile
    BY <1>0
  <2>2. n + (b - n) = b /\ b - n > 0
    BY <1>0, <2>1
  <2> QED
    BY <1>1, <1>2, <2>1, <2>2 DEF CutHonestly
<1>4. ASSUME NEW k \in 1..Len(text), text[k] = "n",
             Bytes(SubSeq(text, 1, k - 1)) \in MaxFile \div 2 + 1 .. MaxFile - 1
      PROVE  Bytes(SubSeq(text, 1, k - 1)) <= cut /\ text[j + 1] = "n"
  <2> DEFINE ends   == {Bytes(SubSeq(text, 1, i - 1)) : i \in {l \in 1..Len(text) : text[l] = "n"}}
             usable == {n \in ends : n < MaxFile /\ n > MaxFile \div 2}
  <2>1. Bytes(SubSeq(text, 1, k - 1)) \in ends
    BY <1>4
  <2>2. Bytes(SubSeq(text, 1, k - 1)) \in usable
    BY <1>0, <1>4, <2>1
  <2>3. cut \in usable /\ \A n \in usable : n <= cut
    BY <2>2, CutOfFile DEF cut
  <2>4. PICK i \in 1..Len(text) : text[i] = "n" /\ cut = Bytes(SubSeq(text, 1, i - 1))
    BY <2>3
  <2>5. i - 1 \in 0..Len(text) /\ SubSeq(text, 1, i - 1) = SubSeq(text, 1, j)
    <3>1. i - 1 \in 0..Len(text)
      BY <1>0
    <3>2. PICK l \in 0..Len(text) : l = i - 1
      BY <3>1
    <3>3. Upto(text, Bytes(SubSeq(text, 1, l))) = SubSeq(text, 1, l)
      BY UptoBoundary
    <3> QED
      BY <1>1, <2>4, <3>2, <3>3 DEF kept
  <2>6. Len(SubSeq(text, 1, i - 1)) = i - 1 /\ Len(SubSeq(text, 1, j)) = j
    BY <2>5, FirstElements
  <2>7. j + 1 = i
    BY <1>0, <2>5, <2>6
  <2> QED
    BY <2>2, <2>3, <2>4, <2>7
<1>5. CutAtLine(text, TruncateFile(text))
  BY <1>0, <1>1, <1>2, <1>4 DEF CutAtLine
<1> QED
  BY <1>3, <1>5

\* A text of any length is cut honestly, or not at all.
LEMMA TextCutHonestly ==
    ASSUME NEW C, NEW text \in Seq(C), TruncateFile(text) # Panic
    PROVE  CutHonestly(text, TruncateFile(text)) /\ CutAtLine(text, TruncateFile(text))
<1>0. Bytes(text) \in Nat /\ MaxFile \in Nat
  BY BytesSteps, HostAssumption
<1>1. CASE Bytes(text) <= MaxFile
  <2>1. TruncateFile(text) = [content |-> text, truncated |-> FALSE, more |-> 0]
    BY <1>1 DEF TruncateFile, Uncut
  <2>2. IsPrefix(text, text)
    BY DEF IsPrefix
  <2> QED
    BY <1>0, <2>1, <2>2 DEF CutHonestly, CutAtLine
<1>2. CASE Bytes(text) > MaxFile
  <2>1. MaxFile \in Boundaries(text)
    BY <1>0, <1>2 DEF TruncateFile
  <2> QED
    BY <1>2, <2>1, FileTruncatedHonestly
<1> QED
  BY <1>0, <1>1, <1>2

\* read_file: what it returns is of a file in the workspace that is no binary, and the
\* beginning of its decoded text, cut honestly.
THEOREM FileReadHonestly ==
    ASSUME NEW C, NEW rooted, NEW path, NEW file, file = <<>> \/ \E text \in Seq(C) : file = <<text>>
    PROVE  ReadHonestly(rooted, path, file, ReadFile(rooted, path, file))
<1> DEFINE a == ReadFile(rooted, path, file)
<1> SUFFICES ASSUME "text" \in DOMAIN a PROVE ReadHonestly(rooted, path, file, a)
  BY DEF ReadHonestly
<1>0. \A e : "text" \notin DOMAIN Error(e)
  BY DEF Error
<1>1. rooted /\ ResolveSafe(path) # <<>> /\ file # <<>>
  BY <1>0 DEF ReadFile
<1>2. PICK bytes \in Seq(C) : file = <<bytes>> /\ file[1] = bytes
  BY <1>1
<1>3. ~IsBinary(bytes)
  BY <1>0, <1>1, <1>2 DEF ReadFile
<1>4. InWorkspace(path)
  BY <1>1 DEF ResolveSafe, InWorkspace
<1>5. \A k \in 1..Len(bytes) : bytes[k] = "z" => Bytes(SubSeq(bytes, 1, k)) > Sample
  BY <1>3, BinaryIsSeen
<1>6. PICK text \in Seq(C \cup {"u"}) : /\ text = FromUtf8Lossy(bytes)
                                        /\ ~Contains(bytes, "x") => text = bytes
  BY LossyText
<1>7. TruncateFile(text) # Panic /\ a = [text |-> TruncateFile(text), size |-> Bytes(bytes)]
  <2>1. a = IF TruncateFile(text) = Panic THEN Panic
            ELSE [text |-> TruncateFile(text), size |-> Bytes(bytes)]
    BY <1>1, <1>2, <1>3, <1>6 DEF ReadFile
  <2> QED
    BY <1>0, <2>1 DEF Panic
<1>8. CutHonestly(text, TruncateFile(text)) /\ CutAtLine(text, TruncateFile(text))
  BY <1>7, TextCutHonestly
<1> HIDE DEF a
<1>9. a.text = TruncateFile(text) /\ a.size = Bytes(bytes)
  BY <1>7
<1>10. ~Contains(bytes, "x") => Bytes(a.text.content) + a.text.more = a.size
  BY <1>6, <1>8, <1>9 DEF CutHonestly
<1> QED
  BY <1>1, <1>2, <1>4, <1>5, <1>6, <1>8, <1>9, <1>10 DEF ReadHonestly

\* run_shell: either of its outputs is cut honestly, and only of a command that ended.
THEOREM OutputCutHonestly ==
    ASSUME NEW C, NEW bytes \in Seq(C), NEW secs \in Nat \cup {NotGiven}, NEW takes \in Nat, NEW exit,
           "stdout" \in DOMAIN RunShell(secs, takes, exit, bytes)
    PROVE  /\ CutHonestly(FromUtf8Lossy(bytes), RunShell(secs, takes, exit, bytes).stdout)
           /\ takes <= 3600
<1> DEFINE a == RunShell(secs, takes, exit, bytes)
<1>6. PICK text \in Seq(C \cup {"u"}) : text = FromUtf8Lossy(bytes)
  BY LossyText
<1> DEFINE cut == TruncateAt(text)
<1>0. \A e : "stdout" \notin DOMAIN Error(e)
  BY DEF Error
<1>1. ~(takes > ShellTimeout(secs)) /\ cut # Panic
  BY <1>0, <1>6 DEF RunShell, Panic
<1>2. a.stdout = cut
  BY <1>1, <1>6 DEF RunShell
<1>3. takes <= 3600
  BY <1>1 DEF ShellTimeout, AtLeast, AtMost
<1>4. CutHonestly(text, cut)
  <2>0. Bytes(text) \in Nat /\ MaxOutput \in Nat
    BY BytesSteps, HostAssumption
  <2>1. CASE Bytes(text) <= MaxOutput
    <3>1. cut = [content |-> text, truncated |-> FALSE, more |-> 0]
      BY <2>1 DEF TruncateAt, Uncut
    <3>2. IsPrefix(text, text)
      BY DEF IsPrefix
    <3> QED
      BY <2>0, <3>1, <3>2 DEF CutHonestly
  <2>2. CASE Bytes(text) > MaxOutput
    <3>1. MaxOutput \in Boundaries(text)
          /\ cut = [content |-> Upto(text, MaxOutput), truncated |-> TRUE,
                    more |-> Bytes(text) - MaxOutput]
      BY <1>1, <2>0, <2>2 DEF TruncateAt
    <3>2. IsPrefix(Upto(text, MaxOutput), text) /\ Bytes(Upto(text, MaxOutput)) = MaxOutput
      BY <3>1, CutAtBoundary
    <3> QED
      BY <2>0, <2>2, <3>1, <3>2 DEF CutHonestly
  <2> QED
    BY <2>0, <2>1, <2>2
<1> QED
  BY <1>2, <1>3, <1>4, <1>6

\* What list_files gathers, and what it starts with.
Lists(F) == [files : Seq(F), truncated : BOOLEAN]

NoList == [files |-> <<>>, truncated |-> FALSE]

\* The turn of list_files' loop, as a function.
Listing(max, F) ==
    [p \in Lists(F) \X F |->
        IF Len(p[1].files) >= ListLimit(max) THEN [p[1] EXCEPT !.truncated = TRUE]
        ELSE IF HasEntry(p[2]) THEN [p[1] EXCEPT !.files = Append(@, p[2])] ELSE p[1]]

\* The loop keeps the type of what it gathers.
LEMMA ListingIsFold ==
    ASSUME NEW max, NEW F PROVE IsFold(Lists(F), F, NoList, Listing(max, F))
<1>1. NoList \in Lists(F)
  BY EmptySeq DEF NoList, Lists
<1>2. ASSUME NEW out \in Lists(F), NEW f \in F
      PROVE  /\ [out EXCEPT !.truncated = TRUE] \in Lists(F)
             /\ [out EXCEPT !.files = Append(@, f)] \in Lists(F)
  BY AppendProperties DEF Lists
<1> QED
  BY <1>1, <1>2 DEF Listing, IsFold

\* Listed is that fold.
LEMMA ListedFold ==
    ASSUME NEW max, NEW F, NEW found \in Seq(F)
    PROVE  Listed(found, max) = Folded(Listing(max, F), NoList, found)
<1> DEFINE Rec(h) == h = [s \in SUBSET DOMAIN found |->
               IF s = {} THEN [files |-> <<>>, truncated |-> FALSE]
               ELSE IF Len(h[s \ {Max(s)}].files) >= ListLimit(max)
                    THEN [h[s \ {Max(s)}] EXCEPT !.truncated = TRUE]
               ELSE IF HasEntry(found[Max(s)])
                    THEN [h[s \ {Max(s)}] EXCEPT !.files = Append(@, found[Max(s)])]
               ELSE h[s \ {Max(s)}]]
<1>0. IsFold(Lists(F), F, NoList, Listing(max, F))
  BY ListingIsFold
<1>1. PICK g \in [SUBSET (1..Len(found)) -> Lists(F)] :
          Folding(g, Listing(max, F), NoList, found, Len(found))
  BY <1>0, FoldExists
<1>2. DOMAIN found = 1..Len(found) /\ Len(found) \in Nat
  OBVIOUS
<1>3. \A s \in SUBSET (1..Len(found)) : s # {} =>
          found[Max(s)] \in F /\ s \ {Max(s)} \in SUBSET (1..Len(found))
  BY <1>2, Topmost
<1>4. Rec(g)
  BY <1>1, <1>2, <1>3 DEF Folding, Listing, NoList
<1>5. Listed(found, max) = (CHOOSE h : Rec(h))[DOMAIN found]
  BY DEF Listed, FoldLeft, MapThenFoldSet
<1>6. PICK h : Rec(h) /\ Listed(found, max) = h[1..Len(found)]
  BY <1>2, <1>4, <1>5
<1>7. Steps(h, Listing(max, F), NoList, found, Lists(F))
  BY <1>2, <1>3, <1>6 DEF Steps, Listing, NoList
<1> HIDE DEF Rec
<1>8. h[1..Len(found)] = Folded(Listing(max, F), NoList, found)
  BY <1>0, <1>7, FoldValue
<1> QED
  BY <1>6, <1>8

\* A turn of the loop: the limit is looked at first.
LEMMA ListedSteps ==
    ASSUME NEW max, NEW F, NEW found \in Seq(F)
    PROVE  /\ Listed(found, max) \in Lists(F)
           /\ Listed(<<>>, max) = NoList
           /\ \A f \in F : Listed(Append(found, f), max) =
                 IF Len(Listed(found, max).files) >= ListLimit(max)
                 THEN [Listed(found, max) EXCEPT !.truncated = TRUE]
                 ELSE IF HasEntry(f) THEN [Listed(found, max) EXCEPT !.files = Append(@, f)]
                 ELSE Listed(found, max)
<1>0. IsFold(Lists(F), F, NoList, Listing(max, F))
  BY ListingIsFold
<1>1. Listed(found, max) \in Lists(F) /\ Listed(found, max) = Folded(Listing(max, F), NoList, found)
  BY <1>0, ListedFold, FoldedType
<1>2. ASSUME NEW f \in F
      PROVE  Listed(Append(found, f), max) = Listing(max, F)[<<Listed(found, max), f>>]
  <2>1. PICK more \in Seq(F) : more = Append(found, f)
    BY AppendProperties
  <2>2. Folded(Listing(max, F), NoList, Append(found, f))
           = Listing(max, F)[<<Folded(Listing(max, F), NoList, found), f>>]
    BY <1>0, FoldedAppend
  <2>3. Listed(more, max) = Folded(Listing(max, F), NoList, more)
    BY ListedFold
  <2> QED
    BY <1>1, <2>1, <2>2, <2>3
<1>3. Listed(<<>>, max) = NoList
  <2>1. <<>> \in Seq(F) /\ Folded(Listing(max, F), NoList, <<>>) = NoList
    BY <1>0, EmptySeq, FoldedEmpty
  <2> QED
    BY <2>1, ListedFold
<1> QED
  BY <1>1, <1>2, <1>3 DEF Listing

\* What list_files found of `seq`: those with an entry (R) of the first k, and no more.
ListsFirst(out, k, seq, L, R) ==
    /\ out.files = Only(SubSeq(seq, 1, k), R)
    /\ Len(out.files) <= L
    /\ out.truncated <=> k < Len(seq)
    /\ out.truncated => Len(out.files) = L

\* list_files has the first entries that can be read, and says whether there was one more.
THEOREM FilesListedHonestly ==
    ASSUME NEW F, NEW found \in Seq(F), NEW max \in Nat \cup {NotGiven}
    PROVE  \E k \in 0..Len(found) :
              ListsFirst(Listed(found, max), k, found, ListLimit(max), {f \in F : HasEntry(f)})
<1> DEFINE R == {f \in F : HasEntry(f)}
           L == ListLimit(max)
           Good == {seq \in Seq(F) : \E k \in 0..Len(seq) : ListsFirst(Listed(seq, max), k, seq, L, R)}
<1>0. L \in Nat /\ L >= 1
  BY HostAssumption DEF ListLimit, AtLeast, AtMost
<1>1. <<>> \in Good
  <2>1. PICK none \in Seq(F) : none = <<>>
    BY EmptySeq
  <2>2. Listed(<<>>, max) = NoList
    BY ListedSteps
  <2>3. Len(none) = 0 /\ 0 \in 0..Len(none) /\ ~(0 < Len(none)) /\ SubSeq(none, 1, 0) = <<>>
    BY <2>1
  <2>4. Only(<<>>, R) = <<>>
    BY OnlyNothing
  <2> HIDE DEF L, R
  <2>5. Listed(none, max) = [files |-> <<>>, truncated |-> FALSE] /\ Len(<<>>) <= L
    BY <1>0, <2>1, <2>2 DEF NoList
  <2>6. ListsFirst(Listed(none, max), 0, none, L, R)
    <3>1. /\ Listed(none, max).files = <<>> /\ Listed(none, max).truncated = FALSE
      BY <2>5
    <3>2. Listed(none, max).files = Only(SubSeq(none, 1, 0), R)
      BY <2>3, <2>4, <3>1
    <3>3. Len(Listed(none, max).files) <= L
      BY <2>5, <3>1
    <3> QED
      BY <2>3, <3>1, <3>2, <3>3 DEF ListsFirst
  <2> QED
    BY <2>1, <2>3, <2>6
<1>2. ASSUME NEW seq \in Seq(F), NEW f \in F, seq \in Good PROVE Append(seq, f) \in Good
  <2>1. PICK k \in 0..Len(seq) : ListsFirst(Listed(seq, max), k, seq, L, R)
    BY <1>2
  <2>2. PICK more \in Seq(F), n \in Nat : more = Append(seq, f) /\ n = Len(seq)
    BY AppendProperties, LenProperties
  <2>3. /\ Len(more) = n + 1 /\ SubSeq(more, 1, k) = SubSeq(seq, 1, k)
        /\ SubSeq(more, 1, n + 1) = more /\ SubSeq(seq, 1, n) = seq
        /\ k \in 0..n /\ k \in 0..n + 1 /\ n + 1 \in 0..n + 1
    BY <2>2
  <2> DEFINE out == Listed(seq, max)
             new == Listed(more, max)
  <2>4. out \in Lists(F) /\ out.files \in Seq(F) /\ out.truncated \in BOOLEAN /\ Len(out.files) \in Nat
    BY ListedSteps DEF Lists
  <2>5. new = IF Len(out.files) >= L THEN [out EXCEPT !.truncated = TRUE]
              ELSE IF HasEntry(f) THEN [out EXCEPT !.files = Append(@, f)] ELSE out
    BY <2>2, ListedSteps
  <2>6. Only(more, R) = IF HasEntry(f) THEN Append(Only(seq, R), f) ELSE Only(seq, R)
    <3>1. f \in R <=> HasEntry(f)
      OBVIOUS
    <3> HIDE DEF R
    <3> QED
      BY <2>2, <3>1, OnlySteps
  <2> HIDE DEF out, new, L, R
  <2>7. out.files = Only(SubSeq(seq, 1, k), R) /\ Len(out.files) <= L
    BY <2>1 DEF ListsFirst, out
  <2>8. (out.truncated <=> k < n) /\ (out.truncated => Len(out.files) = L)
    BY <2>1, <2>2 DEF ListsFirst, out
  <2>9. \E j \in 0..n + 1 : ListsFirst(new, j, more, L, R)
    <3>1. CASE Len(out.files) >= L
      <4>1. new.files = out.files /\ new.truncated = TRUE
        BY <2>4, <2>5, <3>1 DEF Lists
      <4>2. Len(new.files) = L /\ k < n + 1
        BY <1>0, <2>3, <2>4, <2>7, <3>1, <4>1
      <4>3. ListsFirst(new, k, more, L, R)
        BY <1>0, <2>3, <2>7, <4>1, <4>2 DEF ListsFirst
      <4> QED
        BY <2>3, <4>3
    <3>2. CASE ~(Len(out.files) >= L)
      <4>1. out.truncated = FALSE /\ k = n
        BY <1>0, <2>3, <2>4, <2>8, <3>2
      <4>2. out.files = Only(seq, R)
        BY <2>3, <2>7, <4>1
      <4>3. new.truncated = FALSE /\ new.files = Only(more, R)
        BY <2>4, <2>5, <2>6, <3>2, <4>1, <4>2 DEF Lists
      <4>4. Len(new.files) <= L
        <5>1. Len(new.files) \in {Len(out.files), Len(out.files) + 1}
          BY <2>4, <2>6, <4>2, <4>3
        <5> QED
          BY <1>0, <2>4, <3>2, <5>1
      <4>5. ListsFirst(new, n + 1, more, L, R)
        <5>1. ~(n + 1 < Len(more))
          BY <2>3
        <5> QED
          BY <2>3, <4>3, <4>4, <5>1 DEF ListsFirst
      <4> QED
        BY <2>3, <4>5
    <3> QED
      BY <3>1, <3>2
  <2> QED
    BY <2>2, <2>3, <2>9 DEF new
<1> HIDE DEF Good
<1>3. Seq(F) \subseteq Good
  BY <1>1, <1>2, SeqInductive
<1> QED
  BY <1>3 DEF Good

\* The n names behind the first i.
Stretch(s, i, n) == SubSeq(s, i + 1, i + n)

\* Name by name, n names are the same.
Alike(s, i, t, j, n) == \A m \in 1..n : s[i + m] = t[j + m]

\* What stands behind the first i, up to the next n.
LEMMA StretchIs ==
    ASSUME NEW S, NEW s \in Seq(S), NEW i \in Nat, NEW n \in Nat, i + n <= Len(s)
    PROVE  /\ SubSeq(s, i + 1, i + n) \in Seq(S) /\ Len(SubSeq(s, i + 1, i + n)) = n
           /\ \A m \in 1..n : SubSeq(s, i + 1, i + n)[m] = s[i + m]
<1>1. PICK l \in Nat : l = Len(s)
  BY LenProperties
<1>2. i + 1 \in 1..l + 1 /\ i + n \in i..l /\ i + n \in Nat
  BY <1>1
<1>3. \A k \in i + 1..i + n : s[k] \in S
  BY <1>1
<1> QED
  BY <1>1, <1>2, <1>3

\* Two stretches are the same if they are name by name.
LEMMA SameStretch ==
    ASSUME NEW S, NEW s \in Seq(S), NEW t \in Seq(S), NEW i \in Nat, NEW j \in Nat, NEW n \in Nat,
           i + n <= Len(s), j + n <= Len(t)
    PROVE  Stretch(s, i, n) = Stretch(t, j, n) <=> Alike(s, i, t, j, n)
<1> DEFINE u == SubSeq(s, i + 1, i + n)
           v == SubSeq(t, j + 1, j + n)
<1>1. /\ u \in Seq(S) /\ Len(u) = n /\ \A m \in 1..n : u[m] = s[i + m]
      /\ v \in Seq(S) /\ Len(v) = n /\ \A m \in 1..n : v[m] = t[j + m]
  BY StretchIs
<1> HIDE DEF u, v
<1>2. u = v <=> \A m \in 1..n : u[m] = v[m]
  BY <1>1, SeqEqual
<1> QED
  BY <1>1, <1>2 DEF u, v, Stretch, Alike

\* A pattern with "**" is matched in the directory as it is meant.
LEMMA MatchesAsMeant ==
    ASSUME NEW S, NEW parts \in Seq(S), NEW names \in Seq(S),
           Contains(parts, "**"), ~Contains(names, "..")
    PROVE  GlobMatches(parts, names) <=> Means(parts, names)
<1>0. PICK p \in Nat, n \in Nat : p = Len(parts) /\ n = Len(names)
  BY LenProperties
<1>1. \A k \in 1..n : names[k] # ".."
  BY <1>0 DEF Contains
<1>2. ASSUME NEW k \in 1..p, parts[k] = "**", p <= n + 1
      PROVE  LET j == n + k - p
             IN  /\ j \in k - 1..n /\ k - 1 \in 0..n
                 /\ SubSeq(names, 1, k - 1) = SubSeq(parts, 1, k - 1)
                       <=> \A l \in 1..k - 1 : names[l] = parts[l]
                 /\ SubSeq(names, j + 1, n) = SubSeq(parts, k + 1, p)
                       <=> \A l \in k + 1..p : names[l + (n + 1 - p) - 1] = parts[l]
  <2>1. PICK j \in Nat, d \in Nat : j = n + k - p /\ d = p - k /\ j + d = n /\ k + d = p
    <3>1. n + k - p \in Nat /\ p - k \in Nat
      BY <1>2
    <3> QED
      BY <3>1
  <2>2. PICK b \in Nat : b = k - 1 /\ 0 + b <= n /\ 0 + b <= p
    BY <1>2
  <2>3. SubSeq(names, 0 + 1, 0 + b) = SubSeq(parts, 0 + 1, 0 + b)
           <=> \A m \in 1..b : names[0 + m] = parts[0 + m]
    BY <1>0, <2>2, SameStretch DEF Stretch, Alike
  <2>4. SubSeq(names, j + 1, j + d) = SubSeq(parts, k + 1, k + d)
           <=> \A m \in 1..d : names[j + m] = parts[k + m]
    <3>1. PICK c \in Nat : c = k
      OBVIOUS
    <3>2. j + d <= n /\ c + d <= p
      BY <2>1, <3>1
    <3>3. Stretch(names, j, d) = Stretch(parts, c, d) <=> Alike(names, j, parts, c, d)
      BY <1>0, <3>2, SameStretch
    <3> QED
      BY <3>1, <3>3 DEF Stretch, Alike
  <2>5. (\A m \in 1..d : names[j + m] = parts[k + m])
           <=> \A l \in k + 1..p : names[l + (n + 1 - p) - 1] = parts[l]
    <3>1. ASSUME \A m \in 1..d : names[j + m] = parts[k + m], NEW l \in k + 1..p
          PROVE  names[l + (n + 1 - p) - 1] = parts[l]
      <4>1. l - k \in 1..d /\ j + (l - k) = l + (n + 1 - p) - 1 /\ k + (l - k) = l
        BY <2>1
      <4>2. names[j + (l - k)] = parts[k + (l - k)]
        BY <3>1, <4>1
      <4> QED
        BY <4>1, <4>2
    <3>2. ASSUME \A l \in k + 1..p : names[l + (n + 1 - p) - 1] = parts[l], NEW m \in 1..d
          PROVE  names[j + m] = parts[k + m]
      <4>1. k + m \in k + 1..p /\ (k + m) + (n + 1 - p) - 1 = j + m
        BY <2>1
      <4>2. names[(k + m) + (n + 1 - p) - 1] = parts[k + m]
        BY <3>2, <4>1
      <4> QED
        BY <4>1, <4>2
    <3> QED
      BY <3>1, <3>2
  <2>6. (\A m \in 1..b : names[0 + m] = parts[0 + m]) <=> \A l \in 1..k - 1 : names[l] = parts[l]
    BY <2>2
  <2>7. j \in k - 1..n /\ k - 1 \in 0..n
    BY <1>2, <2>1, <2>2
  <2> QED
    BY <2>1, <2>2, <2>3, <2>4, <2>5, <2>6, <2>7
<1>3. ASSUME GlobMatches(parts, names) PROVE Means(parts, names)
  <2>1. PICK k \in 1..p :
            /\ parts[k] = "**" /\ p <= n + 1
            /\ \A l \in 1..k - 1 : names[l] = parts[l]
            /\ \A l \in k + 1..p : names[l + (n + 1 - p) - 1] = parts[l]
    BY <1>0, <1>3 DEF GlobMatches
  <2>2. PICK i, j : i = k - 1 /\ j = n + k - p
    OBVIOUS
  <2>3. /\ j \in i..n /\ i \in 0..n
        /\ SubSeq(names, 1, i) = SubSeq(parts, 1, k - 1)
        /\ SubSeq(names, j + 1, n) = SubSeq(parts, k + 1, p)
    BY <1>2, <2>1, <2>2
  <2>4. i \in 0..n /\ j \in 0..n /\ i <= j
    BY <2>3
  <2> QED
    BY <1>0, <2>1, <2>3, <2>4 DEF Means
<1>4. ASSUME Means(parts, names) PROVE GlobMatches(parts, names)
  <2>1. PICK k \in 1..p, i \in 0..n, j \in 0..n :
            /\ parts[k] = "**" /\ i <= j
            /\ SubSeq(names, 1, i) = SubSeq(parts, 1, k - 1)
            /\ SubSeq(names, j + 1, n) = SubSeq(parts, k + 1, p)
    BY <1>0, <1>4 DEF Means
  <2>2. /\ Len(SubSeq(names, 1, i)) = i /\ Len(SubSeq(parts, 1, k - 1)) = k - 1
        /\ Len(SubSeq(names, j + 1, n)) = n - j /\ Len(SubSeq(parts, k + 1, p)) = p - k
    <3>1. i \in 0..Len(names) /\ k - 1 \in 0..Len(parts)
      BY <1>0
    <3>2. PICK b \in 0..Len(parts) : b = k - 1
      BY <3>1
    <3>3. Len(SubSeq(names, 1, i)) = i /\ Len(SubSeq(parts, 1, b)) = b
      BY <1>0, FirstElements
    <3>4. Len(SubSeq(names, j + 1, n)) = n - j
      BY <1>0
    <3>5. Len(SubSeq(parts, k + 1, p)) = p - k
      BY <1>0
    <3> QED
      BY <3>2, <3>3, <3>4, <3>5
  <2>3. i = k - 1 /\ n - j = p - k
    BY <2>1, <2>2
  <2>4. p <= n + 1 /\ j = n + k - p
    BY <2>1, <2>3
  <2>5. /\ \A l \in 1..k - 1 : names[l] = parts[l]
        /\ \A l \in k + 1..p : names[l + (n + 1 - p) - 1] = parts[l]
    BY <1>2, <2>1, <2>3, <2>4
  <2>6. \A l \in k..n : names[l] # ".."
    BY <1>1
  <2> QED
    BY <1>0, <2>1, <2>4, <2>5, <2>6 DEF GlobMatches
<1> QED
  BY <1>3, <1>4

\* What is matched by a pattern that does not leave the directory is in it.
LEMMA MatchesStay ==
    ASSUME NEW S, NEW parts \in Seq(S), NEW names \in Seq(S),
           ~Contains(parts, ".."), GlobMatches(parts, names)
    PROVE  ~Contains(names, "..")
<1>0. PICK p \in Nat, n \in Nat : p = Len(parts) /\ n = Len(names)
  BY LenProperties
<1>1. PICK at \in 1..p :
          /\ p <= n + 1
          /\ \A k \in 1..at - 1 : names[k] = parts[k]
          /\ \A k \in at..n : names[k] # ".."
  BY <1>0 DEF GlobMatches
<1>2. \A k \in 1..p : parts[k] # ".."
  BY <1>0 DEF Contains
<1>3. ASSUME NEW k \in 1..n PROVE names[k] # ".."
  <2>1. CASE k < at
    BY <1>1, <1>2, <2>1
  <2>2. CASE ~(k < at)
    BY <1>1, <2>2
  <2> QED
    BY <2>1, <2>2
<1> QED
  BY <1>0, <1>3 DEF Contains

\* The pattern that one without "**" is searched for with.
Doubled(parts, absolute) ==
    parts \o (IF absolute THEN <<"**", "">> ELSE <<"**">>) \o parts

\* It is longer than two of it.
LEMMA DoubledLength ==
    ASSUME NEW S, NEW parts \in Seq(S), NEW absolute \in BOOLEAN, NEW p \in Nat, p = Len(parts)
    PROVE  \E u \in Nat : u = Len(Doubled(parts, absolute)) /\ u > p + p
<1>1. PICK T : T = S \cup {"**", ""}
  OBVIOUS
<1>2. PICK ends \in Seq(T) : ends = parts
  <2>1. Seq(S) \subseteq Seq(T)
    BY <1>1, SeqMonotonic
  <2> QED
    BY <2>1
<1>3. ASSUME NEW middle \in Seq(T), NEW m \in Nat, m = Len(middle), m > 0
      PROVE  \E u \in Nat : u = Len(ends \o middle \o ends) /\ u > p + p
  <2>1. ends \o middle \in Seq(T) /\ Len(ends \o middle) = Len(ends) + Len(middle)
    BY ConcatProperties, Zenon
  <2>2. PICK front \in Seq(T) : front = ends \o middle
    BY <2>1, Zenon
  <2>3. Len(front \o ends) = Len(front) + Len(ends)
    BY ConcatProperties, Zenon
  <2>4. PICK f \in Nat : f = Len(front)
    BY LenProperties
  <2>5. Len(ends) = p
    BY <1>2
  <2>6. f = p + m
    BY <1>3, <2>1, <2>2, <2>4, <2>5
  <2>7. f + p \in Nat /\ f + p = Len(ends \o middle \o ends) /\ f + p > p + p
    BY <1>3, <2>2, <2>3, <2>4, <2>5, <2>6
  <2> QED
    BY <2>7
<1>4. CASE absolute
  <2>1. "**" \in T /\ "" \in T
    BY <1>1
  <2>2. <<"**", "">> \in Seq(T) /\ Len(<<"**", "">>) = 2
    BY <2>1, Double, Zenon
  <2>3. Doubled(parts, absolute) = ends \o <<"**", "">> \o ends
    BY <1>2, <1>4 DEF Doubled
  <2>4. PICK middle \in Seq(T) : middle = <<"**", "">> /\ Len(middle) = 2
    BY <2>2, Zenon
  <2>5. PICK m \in Nat : m = 2 /\ m > 0
    OBVIOUS
  <2>6. m = Len(middle)
    BY <2>4, <2>5, Zenon
  <2> QED
    BY <1>3, <2>3, <2>4, <2>5, <2>6, Zenon
<1>5. CASE ~absolute
  <2>1. "**" \in T
    BY <1>1
  <2>2. <<"**">> \in Seq(T) /\ Len(<<"**">>) = 1
    BY <2>1, Single, Zenon
  <2>3. Doubled(parts, absolute) = ends \o <<"**">> \o ends
    BY <1>2, <1>5 DEF Doubled
  <2>4. PICK middle \in Seq(T) : middle = <<"**">> /\ Len(middle) = 1
    BY <2>2, Zenon
  <2>5. PICK m \in Nat : m = 1 /\ m > 0
    OBVIOUS
  <2>6. m = Len(middle)
    BY <2>4, <2>5, Zenon
  <2> QED
    BY <1>3, <2>3, <2>4, <2>5, <2>6, Zenon
<1> QED
  BY <1>4, <1>5

\* Without "**" nothing is matched that the pattern names: matched is only what is
\* deeper.
LEMMA MatchesDeeper ==
    ASSUME NEW S, NEW parts \in Seq(S), NEW names \in Seq(S), parts # <<>>, NEW absolute \in BOOLEAN,
           ~Contains(parts, "**"), GlobMatches(Doubled(parts, absolute), names)
    PROVE  ~Means(parts, names)
<1>1. PICK p \in Nat \ {0}, n \in Nat : p = Len(parts) /\ n = Len(names)
  <2>1. Len(parts) # 0
    BY EmptySeq
  <2> QED
    BY <2>1, LenProperties
<1>2. PICK u \in Nat : u = Len(Doubled(parts, absolute)) /\ u > p + p
  BY <1>1, DoubledLength
<1>3. Len(Doubled(parts, absolute)) <= Len(names) + 1
  BY DEF GlobMatches
<1>4. names # parts
  BY <1>1, <1>2, <1>3
<1>5. \A k \in 1..p : parts[k] # "**"
  BY <1>1 DEF Contains
<1> QED
  BY <1>1, <1>4, <1>5 DEF Means

\* What is picked is of the set it is picked by.
LEMMA OnlyMembers ==
    ASSUME NEW S, NEW C, NEW seq \in Seq(C)
    PROVE  Only(seq, S) \in Seq(C \cap S)
<1> DEFINE Good == {u \in Seq(C) : Only(u, S) \in Seq(C \cap S)}
<1>1. <<>> \in Good
  BY OnlyNothing, EmptySeq
<1>2. ASSUME NEW u \in Seq(C), NEW c \in C, u \in Good PROVE Append(u, c) \in Good
  <2>1. Append(u, c) \in Seq(C)
    BY AppendProperties
  <2>2. Only(Append(u, c), S) = IF c \in S THEN Append(Only(u, S), c) ELSE Only(u, S)
    BY OnlySteps
  <2>3. c \in S => Append(Only(u, S), c) \in Seq(C \cap S)
    BY <1>2, AppendProperties
  <2> QED
    BY <1>2, <2>1, <2>2, <2>3
<1> HIDE DEF Good
<1>3. Seq(C) \subseteq Good
  BY <1>1, <1>2, SeqInductive
<1> QED
  BY <1>3 DEF Good

\* Walks of a glob with the names of S, and patterns of them.
GlobWalks(S) == [top : BOOLEAN, names : Seq(S), readable : BOOLEAN]
GlobPatterns(S) == {pattern \in [absolute : BOOLEAN, parts : Seq(S)] : pattern.parts # <<>>}

\* Of the walks with these names, those that are found, and those that are meant.
IsFound(f, pattern) ==
    IF pattern = NotGiven THEN IsEntry(f)
    ELSE (f.top <=> FromTop(pattern)) /\ GlobMatches(FullPattern(pattern), f.names)

IsMeant(f, pattern) ==
    IF pattern = NotGiven THEN IsEntry(f)
    ELSE ~f.top /\ ~Contains(f.names, "..") /\ Means(pattern.parts, f.names)

\* A pattern that list_files follows finds what it means.
LEMMA FollowedFindsMeant ==
    ASSUME NEW S, NEW f \in GlobWalks(S), NEW pattern \in GlobPatterns(S) \cup {NotGiven},
           Followed(pattern)
    PROVE  IsFound(f, pattern) <=> IsMeant(f, pattern)
<1>1. CASE pattern = NotGiven
  BY <1>1 DEF IsFound, IsMeant
<1>2. CASE pattern # NotGiven
  <2>1. PICK parts \in Seq(S) : parts = pattern.parts
    BY <1>2 DEF GlobPatterns
  <2>2. PICK names \in Seq(S) : names = f.names
    BY DEF GlobWalks
  <2>3. Contains(parts, "**") /\ ~pattern.absolute /\ ~Contains(parts, "..")
    BY <1>2, <2>1 DEF Followed, Recursive
  <2>4. FullPattern(pattern) = parts /\ ~FromTop(pattern)
    BY <2>1, <2>3 DEF FullPattern, FromTop, Recursive
  <2>5. ~Contains(names, "..") => (GlobMatches(parts, names) <=> Means(parts, names))
    BY <2>3, MatchesAsMeant
  <2>6. GlobMatches(parts, names) => ~Contains(names, "..")
    BY <2>3, MatchesStay
  <2>7. IsFound(f, pattern) <=> ~f.top /\ GlobMatches(parts, names)
    BY <1>2, <2>2, <2>4 DEF IsFound
  <2>8. IsMeant(f, pattern) <=> ~f.top /\ ~Contains(names, "..") /\ Means(parts, names)
    BY <1>2, <2>1, <2>2 DEF IsMeant
  <2> QED
    BY <2>5, <2>6, <2>7, <2>8
<1> QED
  BY <1>1, <1>2

\* A pattern without "**" finds nothing that it means.
LEMMA OthersFindDeeper ==
    ASSUME NEW S, NEW f \in GlobWalks(S), NEW pattern \in GlobPatterns(S) \cup {NotGiven},
           pattern # NotGiven, ~Recursive(pattern), IsFound(f, pattern)
    PROVE  ~IsMeant(f, pattern)
<1>1. PICK parts \in Seq(S), absolute \in BOOLEAN :
          parts = pattern.parts /\ absolute = pattern.absolute /\ parts # <<>>
  BY DEF GlobPatterns
<1>2. PICK names \in Seq(S) : names = f.names
  BY DEF GlobWalks
<1>3. ~Contains(parts, "**")
  BY <1>1 DEF Recursive
<1>4. GlobMatches(FullPattern(pattern), names)
  BY <1>2 DEF IsFound
<1>5. FullPattern(pattern) = Doubled(parts, absolute)
  BY <1>1 DEF FullPattern, Doubled
<1>6. ~Means(parts, names)
  BY <1>1, <1>3, <1>4, <1>5, MatchesDeeper
<1> QED
  BY <1>1, <1>2, <1>6 DEF IsMeant

\* A list has the first entries of what was found, or all.
LEMMA FoundListed ==
    ASSUME NEW F, NEW found \in Seq(F), NEW max \in Nat \cup {NotGiven}
    PROVE  ListedHonestly(found, max, Listed(found, max))
<1>1. PICK seen \in Seq(ToSet(found)) : seen = found
  <2>1. found \in Seq(ToSet(found))
    BY DEF ToSet
  <2> QED
    BY <2>1
<1>2. PICK k \in 0..Len(seen) :
          ListsFirst(Listed(seen, max), k, seen, ListLimit(max), {f \in ToSet(found) : HasEntry(f)})
  BY FilesListedHonestly
<1> QED
  BY <1>1, <1>2 DEF ListsFirst, ListedHonestly

\* What is listed is of what was found.
LEMMA ListedIsFound ==
    ASSUME NEW F, NEW found \in Seq(F), NEW max \in Nat \cup {NotGiven}
    PROVE  ToSet(Listed(found, max).files) \subseteq F
<1>1. Listed(found, max).files \in Seq(F)
  BY ListedSteps DEF Lists
<1> QED
  BY <1>1 DEF ToSet

\* list_files: without a pattern, and with one that has "**" and stays in the directory,
\* it lists what is wanted or says that the list is cut; with one that has no "**",
\* nothing of what is wanted.
THEOREM ListsAreWanted ==
    ASSUME NEW S, NEW rooted, NEW path, NEW there, NEW paths \in Seq(GlobWalks(S)),
           NEW pattern \in GlobPatterns(S) \cup {NotGiven}, NEW max \in Nat \cup {NotGiven}
    PROVE  ListsWhatIsWanted(rooted, path, paths, pattern, max,
                             ListFiles(rooted, path, there, paths, pattern, max))
<1> DEFINE a == ListFiles(rooted, path, there, paths, pattern, max)
<1> SUFFICES ASSUME "files" \in DOMAIN a
             PROVE  ListsWhatIsWanted(rooted, path, paths, pattern, max, a)
  BY DEF ListsWhatIsWanted
<1>0. \A e : "files" \notin DOMAIN Error(e)
  BY DEF Error
<1>1. rooted /\ (path # NotGiven => InWorkspace(path))
  BY <1>0 DEF ListFiles, ResolveSafe, InWorkspace
<1>2. a = Listed(Found(paths, pattern), max)
  BY <1>0 DEF ListFiles
<1> HIDE DEF a
<1> DEFINE among == {f \in ToSet(paths) : IsFound(f, pattern)}
           meant == {f \in ToSet(paths) : IsMeant(f, pattern)}
<1>3. Found(paths, pattern) = Only(paths, among) /\ Wanted(paths, pattern) = Only(paths, meant)
  BY DEF Found, Wanted, IsFound, IsMeant
<1>4. \A f \in ToSet(paths) : f \in GlobWalks(S)
  BY ElementOfSeq DEF ToSet
<1>5. PICK found \in Seq(GlobWalks(S) \cap among) : found = Found(paths, pattern)
  BY <1>3, OnlyMembers
<1>6. PICK wanted \in Seq(GlobWalks(S) \cap meant) : wanted = Wanted(paths, pattern)
  BY <1>3, OnlyMembers
<1>7. ListedHonestly(found, max, a)
  BY <1>2, <1>5, FoundListed
<1>8. Followed(pattern) => among = meant
  BY <1>4, FollowedFindsMeant
<1>9. Followed(pattern) => found = wanted
  BY <1>3, <1>5, <1>6, <1>8
<1>10. ASSUME ~Followed(pattern), ~Recursive(pattern)
       PROVE  ToSet(a.files) \cap ToSet(wanted) = {}
  <2>1. pattern # NotGiven
    BY <1>10 DEF Followed
  <2>2. among \cap meant = {}
    BY <1>4, <1>10, <2>1, OthersFindDeeper
  <2> HIDE DEF among, meant
  <2>3. ToSet(a.files) \subseteq GlobWalks(S) \cap among
    BY <1>2, <1>5, ListedIsFound
  <2>4. ToSet(wanted) \subseteq meant
    BY DEF ToSet
  <2> QED
    BY <2>2, <2>3, <2>4
<1> HIDE DEF among, meant
<1> QED
  BY <1>1, <1>5, <1>6, <1>7, <1>9, <1>10 DEF ListsWhatIsWanted
-----------------------------------------------------------------------------
(***************************************************************************)
(* The output of a command.                                                *)
(***************************************************************************)
\* What collect has of the frames it has read, and its step.
Gathered(C) == [kept : Seq(Seq(C)), streamed : Nat, dropped : Nat]

Accounting(bound, C) == [p \in Gathered(C) \X Seq(C) |-> AccountFrame(p[1], p[2], bound)]

\* Accounting for a frame keeps the type of what is gathered.
LEMMA AccountingIsFold ==
    ASSUME NEW bound \in Nat, NEW C
    PROVE  IsFold(Gathered(C), Seq(C), Fresh, Accounting(bound, C))
<1>1. Fresh \in Gathered(C)
  BY EmptySeq DEF Fresh, Gathered
<1>2. ASSUME NEW got \in Gathered(C), NEW frame \in Seq(C)
      PROVE  AccountFrame(got, frame, bound) \in Gathered(C)
  <2>0. PICK b \in Nat, n \in Nat, s \in Nat : b = Bytes(frame) /\ n = Len(frame) /\ s = got.streamed
    BY BytesSteps, LenProperties DEF Gathered
  <2>1. Append(got.kept, frame) \in Seq(Seq(C)) /\ got.dropped + n \in Nat /\ s + b \in Nat
    BY AppendProperties DEF Gathered
  <2>2. s < bound => s + AtMost(b, bound - s) \in Nat
    BY DEF AtMost
  <2> QED
    BY <2>0, <2>1, <2>2 DEF AccountFrame, Gathered
<1> QED
  BY <1>1, <1>2 DEF Accounting, IsFold

\* Collect is that fold.
LEMMA CollectFold ==
    ASSUME NEW bound \in Nat, NEW C, NEW frames \in Seq(Seq(C))
    PROVE  Collect(frames, bound) = Folded(Accounting(bound, C), Fresh, frames)
<1> DEFINE Rec(h) == h = [s \in SUBSET DOMAIN frames |->
               IF s = {} THEN Fresh ELSE AccountFrame(h[s \ {Max(s)}], frames[Max(s)], bound)]
<1>0. IsFold(Gathered(C), Seq(C), Fresh, Accounting(bound, C))
  BY AccountingIsFold
<1>1. PICK g \in [SUBSET (1..Len(frames)) -> Gathered(C)] :
          Folding(g, Accounting(bound, C), Fresh, frames, Len(frames))
  BY <1>0, FoldExists
<1>2. DOMAIN frames = 1..Len(frames) /\ Len(frames) \in Nat
  OBVIOUS
<1>3. \A s \in SUBSET (1..Len(frames)) : s # {} =>
          frames[Max(s)] \in Seq(C) /\ s \ {Max(s)} \in SUBSET (1..Len(frames))
  BY <1>2, Topmost
<1>4. Rec(g)
  BY <1>1, <1>2, <1>3 DEF Folding, Accounting
<1>5. Collect(frames, bound) = (CHOOSE h : Rec(h))[DOMAIN frames]
  BY DEF Collect, FoldLeft, MapThenFoldSet
<1>6. PICK h : Rec(h) /\ Collect(frames, bound) = h[1..Len(frames)]
  BY <1>2, <1>4, <1>5
<1>7. Steps(h, Accounting(bound, C), Fresh, frames, Gathered(C))
  BY <1>2, <1>3, <1>6 DEF Steps, Accounting
<1> HIDE DEF Rec
<1>8. h[1..Len(frames)] = Folded(Accounting(bound, C), Fresh, frames)
  BY <1>0, <1>7, FoldValue
<1> QED
  BY <1>6, <1>8

\* A frame more is accounted for.
LEMMA CollectSteps ==
    ASSUME NEW bound \in Nat, NEW C, NEW frames \in Seq(Seq(C))
    PROVE  /\ Collect(frames, bound) \in Gathered(C)
           /\ Collect(<<>>, bound) = Fresh
           /\ \A frame \in Seq(C) : Collect(Append(frames, frame), bound) =
                                       AccountFrame(Collect(frames, bound), frame, bound)
<1>0. IsFold(Gathered(C), Seq(C), Fresh, Accounting(bound, C))
  BY AccountingIsFold
<1>1. /\ Collect(frames, bound) \in Gathered(C)
      /\ Collect(frames, bound) = Folded(Accounting(bound, C), Fresh, frames)
  BY <1>0, CollectFold, FoldedType
<1>2. ASSUME NEW frame \in Seq(C)
      PROVE  Collect(Append(frames, frame), bound) =
                Accounting(bound, C)[<<Collect(frames, bound), frame>>]
  <2>1. PICK more \in Seq(Seq(C)) : more = Append(frames, frame)
    BY AppendProperties
  <2>2. Folded(Accounting(bound, C), Fresh, Append(frames, frame))
           = Accounting(bound, C)[<<Folded(Accounting(bound, C), Fresh, frames), frame>>]
    BY <1>0, FoldedAppend
  <2>3. Collect(more, bound) = Folded(Accounting(bound, C), Fresh, more)
    BY CollectFold
  <2> QED
    BY <1>1, <2>1, <2>2, <2>3
<1>3. Collect(<<>>, bound) = Fresh
  <2>1. <<>> \in Seq(Seq(C)) /\ Folded(Accounting(bound, C), Fresh, <<>>) = Fresh
    BY <1>0, EmptySeq, FoldedEmpty
  <2> QED
    BY <2>1, CollectFold
<1> QED
  BY <1>1, <1>2, <1>3 DEF Accounting

\* FrameBytes, as a fold.
Measuring(C) == [p \in Nat \X Seq(C) |-> p[1] + Bytes(p[2])]

\* Adding the bytes of a frame keeps a natural number.
LEMMA MeasuringIsFold ==
    ASSUME NEW C PROVE IsFold(Nat, Seq(C), 0, Measuring(C))
<1>1. \A frame \in Seq(C) : Bytes(frame) \in Nat
  BY BytesSteps
<1> QED
  BY <1>1 DEF Measuring, IsFold

\* FrameBytes is that fold.
LEMMA FrameBytesFold ==
    ASSUME NEW C, NEW frames \in Seq(Seq(C))
    PROVE  FrameBytes(frames) = Folded(Measuring(C), 0, frames)
<1> DEFINE Rec(h) == h = [s \in SUBSET DOMAIN frames |->
               IF s = {} THEN 0 ELSE h[s \ {Max(s)}] + Bytes(frames[Max(s)])]
<1>0. IsFold(Nat, Seq(C), 0, Measuring(C))
  BY MeasuringIsFold
<1>1. PICK g \in [SUBSET (1..Len(frames)) -> Nat] :
          Folding(g, Measuring(C), 0, frames, Len(frames))
  BY <1>0, FoldExists
<1>2. DOMAIN frames = 1..Len(frames) /\ Len(frames) \in Nat
  OBVIOUS
<1>3. \A s \in SUBSET (1..Len(frames)) : s # {} =>
          frames[Max(s)] \in Seq(C) /\ s \ {Max(s)} \in SUBSET (1..Len(frames))
  BY <1>2, Topmost
<1>4. Rec(g)
  BY <1>1, <1>2, <1>3 DEF Folding, Measuring
<1>5. FrameBytes(frames) = (CHOOSE h : Rec(h))[DOMAIN frames]
  BY DEF FrameBytes, FoldLeft, MapThenFoldSet
<1>6. PICK h : Rec(h) /\ FrameBytes(frames) = h[1..Len(frames)]
  BY <1>2, <1>4, <1>5
<1>7. Steps(h, Measuring(C), 0, frames, Nat)
  BY <1>2, <1>3, <1>6 DEF Steps, Measuring
<1> HIDE DEF Rec
<1>8. h[1..Len(frames)] = Folded(Measuring(C), 0, frames)
  BY <1>0, <1>7, FoldValue
<1> QED
  BY <1>6, <1>8

\* A frame more adds its bytes.
LEMMA FrameBytesSteps ==
    ASSUME NEW C, NEW frames \in Seq(Seq(C))
    PROVE  /\ FrameBytes(frames) \in Nat
           /\ FrameBytes(<<>>) = 0
           /\ \A frame \in Seq(C) :
                 FrameBytes(Append(frames, frame)) = FrameBytes(frames) + Bytes(frame)
<1>0. IsFold(Nat, Seq(C), 0, Measuring(C))
  BY MeasuringIsFold
<1>1. FrameBytes(frames) \in Nat /\ FrameBytes(frames) = Folded(Measuring(C), 0, frames)
  BY <1>0, FrameBytesFold, FoldedType
<1>2. ASSUME NEW frame \in Seq(C)
      PROVE  FrameBytes(Append(frames, frame)) = Measuring(C)[<<FrameBytes(frames), frame>>]
  <2>1. PICK more \in Seq(Seq(C)) : more = Append(frames, frame)
    BY AppendProperties
  <2>2. Folded(Measuring(C), 0, Append(frames, frame))
           = Measuring(C)[<<Folded(Measuring(C), 0, frames), frame>>]
    BY <1>0, FoldedAppend
  <2>3. FrameBytes(more) = Folded(Measuring(C), 0, more)
    BY FrameBytesFold
  <2> QED
    BY <1>1, <2>1, <2>2, <2>3
<1>3. FrameBytes(<<>>) = 0
  <2>1. <<>> \in Seq(Seq(C)) /\ Folded(Measuring(C), 0, <<>>) = 0
    BY <1>0, EmptySeq, FoldedEmpty
  <2> QED
    BY <2>1, FrameBytesFold
<1> QED
  BY <1>1, <1>2, <1>3 DEF Measuring

\* The joined text, as a fold over the frames behind the first.
Joining(C) == [p \in Seq(C) \X Seq(C) |-> Append(p[1], "n") \o p[2]]

\* A line break and a frame behind a text make a text.
LEMMA JoiningIsFold ==
    ASSUME NEW C, "n" \in C, NEW base \in Seq(C)
    PROVE  IsFold(Seq(C), Seq(C), base, Joining(C))
<1>1. ASSUME NEW text \in Seq(C), NEW frame \in Seq(C)
      PROVE  Append(text, "n") \o frame \in Seq(C)
  BY AppendProperties, ConcatProperties
<1> QED
  BY <1>1 DEF Joining, IsFold

\* Joined is that fold.
LEMMA JoinedFold ==
    ASSUME NEW C, "n" \in C, NEW frames \in Seq(Seq(C)), frames # <<>>
    PROVE  /\ Head(frames) \in Seq(C) /\ Tail(frames) \in Seq(Seq(C))
           /\ Joined(frames) = Folded(Joining(C), Head(frames), Tail(frames))
<1>1. PICK base \in Seq(C), rest \in Seq(Seq(C)) : base = Head(frames) /\ rest = Tail(frames)
  BY HeadTailProperties
<1> DEFINE Rec(h) == h = [s \in SUBSET DOMAIN rest |->
               IF s = {} THEN base ELSE Append(h[s \ {Max(s)}], "n") \o rest[Max(s)]]
<1>0. IsFold(Seq(C), Seq(C), base, Joining(C))
  BY JoiningIsFold
<1>2. PICK g \in [SUBSET (1..Len(rest)) -> Seq(C)] :
          Folding(g, Joining(C), base, rest, Len(rest))
  BY <1>0, FoldExists
<1>3. DOMAIN rest = 1..Len(rest) /\ Len(rest) \in Nat
  OBVIOUS
<1>4. \A s \in SUBSET (1..Len(rest)) : s # {} =>
          rest[Max(s)] \in Seq(C) /\ s \ {Max(s)} \in SUBSET (1..Len(rest))
  <2>1. ASSUME NEW s \in SUBSET (1..Len(rest)), s # {} PROVE Max(s) \in 1..Len(rest)
    BY <1>3, <2>1, Topmost
  <2> QED
    BY <1>3, <2>1, ElementOfSeq
<1>5. Rec(g)
  BY <1>2, <1>3, <1>4 DEF Folding, Joining
<1>6. Joined(frames) = (CHOOSE h : Rec(h))[DOMAIN rest]
  BY <1>1 DEF Joined, FoldLeft, MapThenFoldSet
<1>7. PICK h : Rec(h) /\ Joined(frames) = h[1..Len(rest)]
  BY <1>3, <1>5, <1>6
<1>8. Steps(h, Joining(C), base, rest, Seq(C))
  BY <1>3, <1>4, <1>7 DEF Steps, Joining
<1> HIDE DEF Rec
<1>9. h[1..Len(rest)] = Folded(Joining(C), base, rest)
  BY <1>0, <1>8, FoldValue
<1> QED
  BY <1>1, <1>7, <1>9

\* A frame more comes behind a line break.
LEMMA JoinedSteps ==
    ASSUME NEW C, "n" \in C, NEW frames \in Seq(Seq(C))
    PROVE  /\ Joined(frames) \in Seq(C)
           /\ Joined(<<>>) = <<>>
           /\ \A frame \in Seq(C) :
                 Joined(Append(frames, frame)) =
                    IF frames = <<>> THEN frame ELSE Append(Joined(frames), "n") \o frame
<1>1. Joined(<<>>) = <<>>
  BY DEF Joined
<1>2. Joined(frames) \in Seq(C)
  <2>1. CASE frames = <<>>
    BY <1>1, <2>1, EmptySeq
  <2>2. CASE frames # <<>>
    <3>1. PICK base \in Seq(C), rest \in Seq(Seq(C)) : base = Head(frames) /\ rest = Tail(frames)
      BY <2>2, HeadTailProperties
    <3>2. Joined(frames) = Folded(Joining(C), base, rest)
      BY <2>2, <3>1, JoinedFold
    <3>3. IsFold(Seq(C), Seq(C), base, Joining(C))
      BY JoiningIsFold
    <3> QED
      BY <3>2, <3>3, FoldedType
  <2> QED
    BY <2>1, <2>2
<1>3. ASSUME NEW frame \in Seq(C)
      PROVE  Joined(Append(frames, frame)) =
                IF frames = <<>> THEN frame ELSE Append(Joined(frames), "n") \o frame
  <2>1. PICK more \in Seq(Seq(C)) : more = Append(frames, frame) /\ more # <<>>
    BY AppendProperties
  <2>2. Joined(more) = Folded(Joining(C), Head(more), Tail(more))
    BY <2>1, JoinedFold
  <2>3. /\ Head(more) = IF frames = <<>> THEN frame ELSE Head(frames)
        /\ Tail(more) = IF frames = <<>> THEN <<>> ELSE Append(Tail(frames), frame)
    BY <2>1, HeadTailAppend
  <2>4. CASE frames = <<>>
    <3>1. IsFold(Seq(C), Seq(C), frame, Joining(C))
      BY JoiningIsFold
    <3>2. Folded(Joining(C), frame, <<>>) = frame
      BY <3>1, FoldedEmpty
    <3> QED
      BY <2>1, <2>2, <2>3, <2>4, <3>2
  <2>5. CASE frames # <<>>
    <3>1. PICK base \in Seq(C), rest \in Seq(Seq(C)) : base = Head(frames) /\ rest = Tail(frames)
      BY <2>5, HeadTailProperties
    <3>2. Joined(frames) = Folded(Joining(C), base, rest)
      BY <2>5, <3>1, JoinedFold
    <3>3. IsFold(Seq(C), Seq(C), base, Joining(C))
      BY JoiningIsFold
    <3>4. Folded(Joining(C), base, Append(rest, frame))
             = Joining(C)[<<Folded(Joining(C), base, rest), frame>>]
      BY <3>3, FoldedAppend
    <3>5. Joining(C)[<<Joined(frames), frame>>] = Append(Joined(frames), "n") \o frame
      BY <1>2 DEF Joining
    <3> QED
      BY <2>1, <2>2, <2>3, <2>5, <3>1, <3>2, <3>4, <3>5
  <2> QED
    BY <2>4, <2>5
<1> QED
  BY <1>1, <1>2, <1>3

\* The frames of a command are texts with a character at least.
LEMMA FramesAreTexts ==
    ASSUME NEW C, NEW frames \in Seq(Seq(C) \ {<<>>})
    PROVE  frames \in Seq(Seq(C))
<1>1. Seq(C) \ {<<>>} \subseteq Seq(C)
  OBVIOUS
<1> QED
  BY <1>1, SeqMonotonic

\* What account_frame gathers of the frames: `rest` is what it loses of them.
Gathers(frames, got, bound, rest) ==
    /\ Joined(frames) = Joined(got.kept) \o rest
    /\ Len(CleanText(rest)) + Len(got.kept) <= got.dropped + Len(frames)
    /\ (\A k \in 1..Len(frames) : frames[k] = CleanText(frames[k])) =>
          Len(CleanText(rest)) + Len(got.kept) = got.dropped + Len(frames)
    /\ \/ got.kept = frames
       \/ bound > 0 /\ got.streamed >= bound /\ got.dropped > 0
    /\ frames # <<>> => got.kept # <<>>
    /\ bound > 0 => got.streamed = AtMost(FrameBytes(got.kept), bound)
    /\ bound > 0 /\ got.kept # <<>> => FrameBytes(Front(got.kept)) < bound

\* A kept frame.
LEMMA KeepsFrame ==
    ASSUME NEW C, "n" \in C, NEW bound \in Nat, NEW frames \in Seq(Seq(C)), NEW frame \in Seq(C),
           NEW rest \in Seq(C), Gathers(frames, Collect(frames, bound), bound, rest),
           bound = 0 \/ Collect(frames, bound).streamed < bound
    PROVE  Gathers(Append(frames, frame), Collect(Append(frames, frame), bound), bound, <<>>)
<1> DEFINE got == Collect(frames, bound)
           new == Collect(Append(frames, frame), bound)
<1>0. got \in Gathered(C) /\ new = AccountFrame(got, frame, bound)
  BY CollectSteps
<1>1. got.kept \in Seq(Seq(C)) /\ got.streamed \in Nat /\ got.dropped \in Nat
  BY <1>0 DEF Gathered
<1> HIDE DEF got, new
<1>2. got.kept = frames
  BY <1>1 DEF Gathers, got
<1>3. PICK b \in Nat, s \in Nat, n \in Nat, d \in Nat :
          b = Bytes(frame) /\ s = got.streamed /\ n = Len(frames) /\ d = got.dropped
  BY <1>1, BytesSteps, LenProperties
<1>4. PICK more \in Seq(Seq(C)) : more = Append(frames, frame) /\ more # <<>> /\ Len(more) = n + 1
  BY <1>3, AppendProperties
<1>5. new.kept = more /\ new.dropped = d
  BY <1>0, <1>2, <1>3, <1>4 DEF AccountFrame, got, Gathered
<1>6. bound > 0 => new.streamed = s + AtMost(b, bound - s) /\ s < bound
  BY <1>0, <1>3 DEF AccountFrame, got, Gathered
<1>7. Joined(more) \o <<>> = Joined(more) /\ CleanText(<<>>) = <<>> /\ Len(<<>>) = 0
  BY JoinedSteps, ConcatEmptySeq, OnlyNothing, EmptySeq DEF CleanText
<1>8. /\ Joined(more) = Joined(new.kept) \o <<>>
      /\ Len(CleanText(<<>>)) + Len(new.kept) <= new.dropped + Len(more)
  <2>1. 0 + (n + 1) <= d + (n + 1)
    OBVIOUS
  <2> QED
    BY <1>4, <1>5, <1>7, <2>1
<1>9. ASSUME \A k \in 1..Len(more) : more[k] = CleanText(more[k])
      PROVE  Len(CleanText(<<>>)) + Len(new.kept) = new.dropped + Len(more)
  <2>1. \A k \in 1..Len(frames) : frames[k] = CleanText(frames[k])
    <3>1. \A k \in 1..n : k \in 1..n + 1 /\ more[k] = frames[k]
      BY <1>3, <1>4
    <3> QED
      BY <1>3, <1>4, <1>9, <3>1
  <2>2. rest = <<>>
    <3>1. PICK text \in Seq(C) : text = Joined(frames)
      BY JoinedSteps
    <3>2. text \o rest = text
      BY <1>2, <3>1 DEF Gathers, got
    <3> QED
      BY <3>2, ConcatEqualIffEmpty
  <2>3. 0 + n = d + n
    BY <1>2, <1>3, <1>7, <2>1, <2>2 DEF Gathers, got
  <2>4. d = 0
    BY <2>3
  <2> QED
    BY <1>3, <1>4, <1>5, <1>7, <2>4
<1>10. bound > 0 => new.streamed = AtMost(FrameBytes(new.kept), bound)
  <2>1. PICK f \in Nat : f = FrameBytes(frames)
    BY FrameBytesSteps
  <2>2. FrameBytes(more) = f + b
    BY <1>3, <1>4, <2>1, FrameBytesSteps
  <2>3. bound > 0 => s = AtMost(f, bound)
    BY <1>2, <1>3, <2>1 DEF Gathers, got
  <2>4. bound > 0 => s + AtMost(b, bound - s) = AtMost(f + b, bound)
    BY <1>6, <2>3 DEF AtMost
  <2> QED
    BY <1>5, <1>6, <2>2, <2>4
<1>11. bound > 0 => FrameBytes(Front(new.kept)) < bound
  <2>1. Front(more) = frames
    BY <1>3, <1>4 DEF Front
  <2>2. PICK f \in Nat : f = FrameBytes(frames)
    BY FrameBytesSteps
  <2>3. bound > 0 => s = AtMost(f, bound)
    BY <1>2, <1>3, <2>2 DEF Gathers, got
  <2>4. bound > 0 => f < bound
    BY <1>6, <2>3 DEF AtMost
  <2> QED
    BY <1>5, <2>1, <2>2, <2>4
<1> QED
  BY <1>4, <1>5, <1>8, <1>9, <1>10, <1>11 DEF Gathers, new

\* A frame that is dropped.
LEMMA DropsFrame ==
    ASSUME NEW C, "n" \in C, NEW bound \in Nat, NEW frames \in Seq(Seq(C)), NEW frame \in Seq(C),
           frame # <<>>,
           NEW rest \in Seq(C), Gathers(frames, Collect(frames, bound), bound, rest),
           ~(bound = 0 \/ Collect(frames, bound).streamed < bound)
    PROVE  Gathers(Append(frames, frame), Collect(Append(frames, frame), bound), bound,
                   Append(rest, "n") \o frame)
<1> DEFINE got == Collect(frames, bound)
           new == Collect(Append(frames, frame), bound)
           lost == Append(rest, "n") \o frame
<1>0. got \in Gathered(C) /\ new = AccountFrame(got, frame, bound)
  BY CollectSteps
<1>1. got.kept \in Seq(Seq(C)) /\ got.streamed \in Nat /\ got.dropped \in Nat
  BY <1>0 DEF Gathered
<1>2. frames # <<>> /\ bound > 0 /\ got.streamed >= bound
  <2>1. Collect(<<>>, bound) = Fresh /\ Fresh.streamed = 0
    BY CollectSteps DEF Fresh
  <2> QED
    BY <1>1, <2>1
<1> HIDE DEF got, new
<1>3. PICK f \in Nat, s \in Nat, n \in Nat, d \in Nat, k \in Nat :
          f = Len(frame) /\ s = got.streamed /\ n = Len(frames) /\ d = got.dropped /\ k = Len(got.kept)
  BY <1>1, LenProperties
<1>4. PICK more \in Seq(Seq(C)) : more = Append(frames, frame) /\ more # <<>> /\ Len(more) = n + 1
                                  /\ more[n + 1] = frame
  BY <1>3, AppendProperties
<1>5. new.kept = got.kept /\ new.dropped = d + f /\ new.streamed = s
  BY <1>0, <1>2, <1>3 DEF AccountFrame, got, Gathered
<1>6. f > 0
  BY <1>3, EmptySeq
<1>7. PICK text \in Seq(C), all \in Seq(C) : text = Joined(got.kept) /\ all = Joined(frames)
  BY <1>1, JoinedSteps
<1>8. lost \in Seq(C) /\ Joined(more) = text \o lost
  <2>1. all = text \o rest
    BY <1>7 DEF Gathers, got
  <2>2. Joined(more) = Append(all, "n") \o frame
    BY <1>2, <1>4, <1>7, JoinedSteps
  <2>3. PICK sep \in Seq(C) : sep = Append(rest, "n")
    BY AppendProperties
  <2>7. text \o Append(rest, "n") = Append(text \o rest, "n")
    BY ConcatAppend
  <2>4. Append(text \o rest, "n") = text \o sep
    BY <2>3, <2>7
  <2>5. (text \o sep) \o frame = text \o (sep \o frame)
    OBVIOUS
  <2>6. sep \o frame \in Seq(C)
    BY ConcatProperties
  <2> QED
    BY <2>1, <2>2, <2>3, <2>4, <2>5, <2>6
<1>9. PICK r \in Nat, c \in Nat :
          /\ r = Len(CleanText(rest)) /\ c = Len(CleanText(frame)) /\ c <= f
          /\ Len(CleanText(lost)) = r + 1 + c
  <2>0. Append(rest, "n") \in Seq(C) /\ CleanText(rest) \in Seq(C) /\ CleanText(frame) \in Seq(C)
    BY AppendProperties, OnlySteps DEF CleanText
  <2>1. PICK sep \in Seq(C), x \in Seq(C), y \in Seq(C) :
            sep = Append(rest, "n") /\ x = CleanText(rest) /\ y = CleanText(frame)
    BY <2>0
  <2>2. CleanText(sep) = Append(x, "n")
    BY <2>1, OnlySteps DEF CleanText
  <2>3. CleanText(sep \o frame) = CleanText(sep) \o CleanText(frame)
    BY OnlyConcat DEF CleanText
  <2>4. Len(x) \in Nat /\ Len(y) \in Nat /\ Len(Append(x, "n") \o y) = Len(x) + 1 + Len(y)
    BY AppendProperties, ConcatProperties, LenProperties
  <2>5. Len(y) <= f
    BY <1>3, <2>1, OnlyLength DEF CleanText
  <2> QED
    BY <2>1, <2>2, <2>3, <2>4, <2>5
<1> HIDE DEF lost
<1>10. Len(CleanText(lost)) + Len(new.kept) <= new.dropped + Len(more)
  <2>1. r + k <= d + n
    BY <1>3, <1>9 DEF Gathers, got
  <2>2. (r + 1 + c) + k <= (d + f) + (n + 1)
    BY <1>9, <2>1
  <2> QED
    BY <1>3, <1>4, <1>5, <1>9, <2>2
<1>11. ASSUME \A i \in 1..Len(more) : more[i] = CleanText(more[i])
       PROVE  Len(CleanText(lost)) + Len(new.kept) = new.dropped + Len(more)
  <2>1. \A i \in 1..Len(frames) : frames[i] = CleanText(frames[i])
    <3>1. \A i \in 1..n : i \in 1..n + 1 /\ more[i] = frames[i]
      BY <1>3, <1>4
    <3> QED
      BY <1>3, <1>4, <1>11, <3>1
  <2>2. frame = CleanText(frame)
    <3>1. n + 1 \in 1..Len(more)
      BY <1>4
    <3> QED
      BY <1>4, <1>11, <3>1
  <2>3. r + k = d + n
    BY <1>3, <1>9, <2>1 DEF Gathers, got
  <2>4. c = f
    BY <1>3, <1>9, <2>2
  <2>5. (r + 1 + c) + k = (d + f) + (n + 1)
    BY <2>3, <2>4
  <2> QED
    BY <1>3, <1>4, <1>5, <1>9, <2>5
<1>12. /\ bound > 0 /\ new.streamed >= bound /\ new.dropped > 0
       /\ new.kept # <<>>
       /\ new.streamed = AtMost(FrameBytes(new.kept), bound)
       /\ FrameBytes(Front(new.kept)) < bound
  <2>1. d + f > 0
    BY <1>6
  <2>2. /\ got.kept # <<>>
        /\ got.streamed = AtMost(FrameBytes(got.kept), bound)
        /\ FrameBytes(Front(got.kept)) < bound
    BY <1>2 DEF Gathers, got
  <2> QED
    BY <1>2, <1>3, <1>5, <2>1, <2>2
<1> QED
  BY <1>4, <1>5, <1>7, <1>8, <1>10, <1>11, <1>12 DEF Gathers, new, lost

\* Every frame of a command is accounted for, whatever its frames are.
LEMMA CollectGathers ==
    ASSUME NEW C, "n" \in C, NEW bound \in Nat, NEW frames \in Seq(Seq(C) \ {<<>>})
    PROVE  \E rest \in Seq(C) : Gathers(frames, Collect(frames, bound), bound, rest)
<1> DEFINE F == Seq(C) \ {<<>>}
           Good == {fs \in Seq(F) : \E rest \in Seq(C) : Gathers(fs, Collect(fs, bound), bound, rest)}
<1>1. <<>> \in Good
  <2>1. PICK none \in Seq(F) : none = <<>>
    BY EmptySeq
  <2>2. Collect(none, bound) = Fresh /\ none \in Seq(Seq(C))
    BY <2>1, CollectSteps, FramesAreTexts
  <2>3. PICK rest \in Seq(C) : rest = <<>>
    BY EmptySeq
  <2>4. /\ Joined(none) = <<>> /\ <<>> \o rest = <<>> /\ CleanText(rest) = <<>> /\ Len(none) = 0
        /\ FrameBytes(none) = 0 /\ Len(rest) = 0
    BY <2>1, <2>2, <2>3, JoinedSteps, ConcatEmptySeq, OnlyNothing, FrameBytesSteps DEF CleanText
  <2>5. Fresh.kept = none /\ Fresh.streamed = 0 /\ Fresh.dropped = 0
    BY <2>1 DEF Fresh
  <2>6. AtMost(0, bound) = 0
    BY DEF AtMost
  <2>7. Gathers(none, Fresh, bound, rest)
    BY <2>1, <2>3, <2>4, <2>5, <2>6 DEF Gathers
  <2> QED
    BY <2>1, <2>2, <2>7
<1>2. ASSUME NEW fs \in Seq(F), NEW frame \in F, fs \in Good PROVE Append(fs, frame) \in Good
  <2>1. PICK rest \in Seq(C) : Gathers(fs, Collect(fs, bound), bound, rest)
    BY <1>2
  <2>2. /\ fs \in Seq(Seq(C)) /\ frame \in Seq(C) /\ frame # <<>> /\ Append(fs, frame) \in Seq(F)
        /\ <<>> \in Seq(C)
    BY FramesAreTexts, AppendProperties, EmptySeq
  <2>3. CASE bound = 0 \/ Collect(fs, bound).streamed < bound
    <3>1. Gathers(Append(fs, frame), Collect(Append(fs, frame), bound), bound, <<>>)
      BY <2>1, <2>2, <2>3, KeepsFrame
    <3> QED
      BY <2>2, <3>1
  <2>4. CASE ~(bound = 0 \/ Collect(fs, bound).streamed < bound)
    <3>1. Gathers(Append(fs, frame), Collect(Append(fs, frame), bound), bound, Append(rest, "n") \o frame)
      BY <2>1, <2>2, <2>4, DropsFrame
    <3>2. Append(rest, "n") \o frame \in Seq(C)
      BY <2>2, AppendProperties, ConcatProperties
    <3> QED
      BY <2>2, <3>1, <3>2
  <2> QED
    BY <2>3, <2>4
<1> HIDE DEF Good, F
<1>3. Seq(F) \subseteq Good
  BY <1>1, <1>2, SeqInductive
<1> QED
  BY <1>3 DEF Good, F

\* What bound_outcome makes of the frames keeps what an outcome promises.
THEOREM OutcomeKeeps ==
    ASSUME NEW C, "n" \in C, NEW bound \in Nat, NEW frames \in Seq(Seq(C) \ {<<>>})
    PROVE  /\ Bounded(frames, bound, Outcome(frames, bound))
           /\ Watched(frames, bound, Outcome(frames, bound))
           /\ Accounted(frames, bound, Outcome(frames, bound))
<1> DEFINE got  == Collect(frames, bound)
           text == CleanText(Joined(got.kept))
           cut  == IF bound = 0 THEN Bytes(text) ELSE FloorCharBoundary(text, bound)
           o    == Outcome(frames, bound)
<1>0. frames \in Seq(Seq(C))
  BY FramesAreTexts
<1>1. PICK rest \in Seq(C) : Gathers(frames, got, bound, rest)
  BY CollectGathers
<1>2. got.kept \in Seq(Seq(C)) /\ got.dropped \in Nat
  BY <1>0, CollectSteps DEF Gathered
<1> HIDE DEF got
<1>3. PICK shown \in Seq(C) : shown = Joined(got.kept)
  BY <1>2, JoinedSteps
<1>4. text \in Seq(C) /\ CleanText(rest) \in Seq(C) /\ Whole(frames) = text \o CleanText(rest)
  <2>1. CleanText(shown) \in Seq(C) /\ CleanText(rest) \in Seq(C)
    BY OnlySteps DEF CleanText
  <2>2. CleanText(shown \o rest) = CleanText(shown) \o CleanText(rest)
    BY OnlyConcat DEF CleanText
  <2>3. Joined(frames) = shown \o rest
    BY <1>1, <1>3 DEF Gathers
  <2> QED
    BY <1>3, <2>1, <2>2, <2>3 DEF Whole
<1> HIDE DEF text
<1>5. PICK full \in Nat : full = Bytes(text)
  BY <1>4, BytesSteps
<1>6. cut \in Boundaries(text) /\ cut <= full /\ (bound > 0 => cut <= bound)
  <2>1. Bytes(text) \in Boundaries(text) /\ 0 \in Boundaries(text) /\ Boundaries(text) \subseteq 0..full
    BY <1>4, <1>5, BoundariesOf
  <2>2. CASE bound = 0
    BY <1>5, <2>1, <2>2
  <2>3. CASE bound # 0
    <3> DEFINE S == {b \in Boundaries(text) : b <= bound}
    <3>1. S \in SUBSET (0..bound) /\ S # {}
      BY <2>1, <2>3
    <3>2. Greatest(S) \in S
      <4> HIDE DEF S
      <4> QED
        BY <3>1, GreatestOf
    <3>3. cut = Greatest(S)
      BY <2>3 DEF FloorCharBoundary
    <3> HIDE DEF cut
    <3>4. cut \in Boundaries(text) /\ cut <= bound
      BY <3>2, <3>3
    <3> QED
      BY <2>1, <3>4
  <2> QED
    BY <2>2, <2>3
<1>7. PICK out \in Seq(C), k \in 0..Len(text) :
          /\ out = Upto(text, cut) /\ out = SubSeq(text, 1, k) /\ Len(out) = k
          /\ IsPrefix(out, text) /\ Bytes(out) = cut
          /\ Len(From(text, cut)) = Len(text) - k
  <2> HIDE DEF cut
  <2> QED
    BY <1>4, <1>6, CutAtBoundary
<1>8. /\ o.output = out /\ o.emitted = got.kept
      /\ o.truncated = (cut < full \/ got.dropped > 0)
      /\ o.omitted = Len(text) - k + got.dropped
  BY <1>5, <1>7 DEF Outcome, got, text
<1> HIDE DEF o, cut
<1>9. IsPrefix(out, Whole(frames))
  BY <1>4, <1>7, PrefixOfPrefix
<1>10. ASSUME ~o.truncated PROVE out = Whole(frames)
  <2>1. ~(cut < full) /\ got.dropped = 0
    <3>1. ~(cut < full) /\ ~(got.dropped > 0)
      BY <1>8, <1>10, Zenon
    <3> QED
      BY <1>2, <3>1
  <2>2. cut = full
    <3>1. cut \in 0..full
      BY <1>4, <1>5, <1>6, BoundariesOf
    <3> QED
      BY <2>1, <3>1
  <2>3. out = text
    <3>1. k \in 0..Len(text) /\ Len(text) \in 0..Len(text) /\ SubSeq(text, 1, Len(text)) = text
      BY <1>4, SubSeqFull, LenProperties
    <3>2. k < Len(text) => Bytes(SubSeq(text, 1, k)) < Bytes(SubSeq(text, 1, Len(text)))
      BY <1>4, <3>1, BytesIncrease
    <3>3. ~(full < full)
      OBVIOUS
    <3>4. ~(k < Len(text))
      BY <1>5, <1>7, <2>2, <3>1, <3>2, <3>3
    <3>5. k = Len(text)
      <4>1. PICK n \in Nat : n = Len(text)
        BY <1>4, LenProperties
      <4>2. PICK i \in 0..n : i = k
        BY <3>1, <4>1
      <4>3. ~(i < n)
        BY <3>4, <4>1, <4>2
      <4>4. i = n
        BY <4>3
      <4> QED
        BY <4>1, <4>2, <4>4
    <3> QED
      BY <1>7, <3>1, <3>5
  <2>4. got.kept = frames
    BY <1>1, <2>1 DEF Gathers
  <2>5. Whole(frames) = text
    BY <2>4 DEF Whole, text
  <2> QED
    BY <2>3, <2>5
<1>11. Bounded(frames, bound, o)
  BY <1>6, <1>7, <1>8, <1>9, <1>10 DEF Bounded
<1>12. Watched(frames, bound, o)
  <2>1. Whole(o.emitted) = text
    BY <1>8 DEF Whole, text
  <2>2. bound > 0 /\ got.kept # <<>> => FrameBytes(Front(got.kept)) < bound
    BY <1>1 DEF Gathers
  <2> QED
    BY <1>7, <1>8, <2>1, <2>2 DEF Watched
<1>13. Accounted(frames, bound, o)
  <2>1. PICK t \in Nat, r \in Nat, n \in Nat, m \in Nat, d \in Nat :
            /\ t = Len(text) /\ r = Len(CleanText(rest)) /\ n = Len(frames)
            /\ m = Len(got.kept) /\ d = got.dropped
    BY <1>0, <1>2, <1>4, LenProperties
  <2>2. Len(Whole(frames)) = t + r
    BY <1>4, <2>1, ConcatProperties
  <2>3. r + m <= d + n
    BY <1>1, <2>1 DEF Gathers
  <2>4. (\A i \in 1..Len(frames) : frames[i] = CleanText(frames[i])) => r + m = d + n
    BY <1>1, <2>1 DEF Gathers
  <2>0. PICK i \in Nat : i = k
    BY <2>1
  <2>5. (t - i + d) + (n - m) >= (t + r) - i
    BY <2>3
  <2>6. r + m = d + n => (t - i + d) + (n - m) = (t + r) - i
    OBVIOUS
  <2> QED
    BY <1>7, <1>8, <2>0, <2>1, <2>2, <2>4, <2>5, <2>6 DEF Accounted
<1> QED
  BY <1>11, <1>12, <1>13 DEF o
-----------------------------------------------------------------------------
(***************************************************************************)
(* Rows of SQL and of unit tests.                                          *)
(***************************************************************************)
\* The rows of a page are the first ones of the result.
LEMMA PageRows ==
    ASSUME NEW C, NEW rows \in Seq(C), NEW max \in Nat, NEW marks
    PROVE  \E n \in 0..Len(rows) :
              /\ n = IF Len(rows) <= max THEN Len(rows) ELSE max
              /\ Page(rows, max, marks).rows = SubSeq(rows, 1, n)
              /\ SubSeq(rows, 1, n) \in Seq(C) /\ Len(SubSeq(rows, 1, n)) = n
              /\ \A k \in 1..n : SubSeq(rows, 1, n)[k] = rows[k]
<1> DEFINE n == IF Len(rows) <= max THEN Len(rows) ELSE max
<1>1. n \in 0..Len(rows)
  BY LenProperties
<1>2. Page(rows, max, marks).rows = SubSeq(rows, 1, n)
  BY DEF Page
<1> HIDE DEF n
<1>3. /\ SubSeq(rows, 1, n) \in Seq(C) /\ Len(SubSeq(rows, 1, n)) = n
      /\ \A k \in 1..n : SubSeq(rows, 1, n)[k] = rows[k]
  BY <1>1, FirstElements
<1> QED
  BY <1>1, <1>2, <1>3 DEF n

\* execute_sql: it answers all rows up to max_rows, of which no value is lost or moved,
\* and says that there are more exactly if IRIS marks the partial page.
THEOREM SqlKeepsRows ==
    ASSUME NEW C, NEW rows \in Seq(C), NEW max \in Nat, NEW marks \in {"hasMore", "id", "none"}
    PROVE  RowsKept(rows, max, marks, ExecuteSql(rows, max, marks))
<1>1. \A mark : \E n \in 0..Len(rows) :
          /\ n = IF Len(rows) <= max THEN Len(rows) ELSE max
          /\ Page(rows, max, mark).rows = SubSeq(rows, 1, n)
          /\ SubSeq(rows, 1, n) \in Seq(C) /\ Len(SubSeq(rows, 1, n)) = n
          /\ \A k \in 1..n : SubSeq(rows, 1, n)[k] = rows[k]
  BY PageRows
<1>2. PICK n \in 0..Len(rows) :
          /\ n = IF Len(rows) <= max THEN Len(rows) ELSE max
          /\ Page(rows, max, marks).rows = SubSeq(rows, 1, n)
          /\ SubSeq(rows, 1, n) \in Seq(C) /\ Len(SubSeq(rows, 1, n)) = n
          /\ \A k \in 1..n : SubSeq(rows, 1, n)[k] = rows[k]
  BY <1>1, Zenon
<1> DEFINE page == Page(rows, max, marks)
           a == ExecuteSql(rows, max, marks)
<1>3. /\ page.more = IF marks = "hasMore" THEN (IF n < Len(rows) THEN "yes" ELSE "no") ELSE "absent"
      /\ page.id = (marks = "id")
  BY <1>2 DEF Page
<1>4. PICK l \in Nat : l = Len(rows)
  BY LenProperties
<1> HIDE DEF page
<1>5. /\ n \in Nat /\ n = AtMost(l, max)
      /\ n <= l /\ (l > max => n = max /\ n < l) /\ (n < l => l > max)
  <2>1. n = IF l <= max THEN l ELSE max
    BY <1>2, <1>4
  <2> QED
    BY <1>4, <2>1 DEF AtMost
<1>6. PICK shown \in Seq(C) : /\ page.rows = shown /\ Len(shown) = n
                             /\ \A k \in 1..n : shown[k] = rows[k]
  <2>1. page.rows = SubSeq(rows, 1, n)
    BY <1>2 DEF page
  <2> QED
    BY <1>2, <2>1, Zenon
<1>7. l > max => (HasMore(page, max) <=> marks # "none")
  <2> SUFFICES ASSUME l > max PROVE HasMore(page, max) <=> marks # "none"
    OBVIOUS
  <2>1. n = max /\ n < l /\ Len(page.rows) >= max
    BY <1>5, <1>6
  <2>2. CASE marks = "hasMore"
    BY <1>3, <1>4, <2>1, <2>2 DEF HasMore
  <2>3. CASE marks = "id"
    BY <1>3, <2>1, <2>3 DEF HasMore
  <2>4. CASE marks = "none"
    <3>1. page.more = "absent" /\ ~page.id
      BY <1>3, <2>4
    <3> QED
      BY <2>4, <3>1 DEF HasMore
  <2> QED
    BY <2>2, <2>3, <2>4
<1>8. /\ a.truncated = HasMore(page, max) /\ a.rows = Table(page.rows)
      /\ a.columns = Columns(page.rows)
  BY DEF ExecuteSql, page
<1>9. Len(Table(page.rows)) = n
  BY <1>5, <1>6 DEF Table
<1>10. ASSUME NEW k \in 1..n, NEW c \in Columns(page.rows) \cup DOMAIN rows[k]
      PROVE  Table(page.rows)[k][c] = IF c \in DOMAIN rows[k] THEN rows[k][c] ELSE Null
  <2>1. page.rows[k] = rows[k] /\ k \in 1..Len(page.rows)
    BY <1>6
  <2>2. c \in Columns(page.rows)
    BY <2>1 DEF Columns
  <2> QED
    BY <2>1, <2>2 DEF Table
<1> HIDE DEF a
<1> QED
  <2>1. /\ Len(a.rows) = AtMost(Len(rows), max)
        /\ Len(a.rows) < Len(rows) => (a.truncated <=> marks # "none")
    BY <1>4, <1>5, <1>7, <1>8, <1>9
  <2>2. \A k \in 1..Len(a.rows) : \A c \in a.columns \cup DOMAIN rows[k] :
            a.rows[k][c] = IF c \in DOMAIN rows[k] THEN rows[k][c] ELSE Null
    BY <1>8, <1>9, <1>10
  <2> QED
    BY <2>1, <2>2 DEF RowsKept, a

\* get_test_results: in a history from the newest run to the oldest, only the oldest
\* run that is reported may lack rows.
THEOREM NewestFirst ==
    ASSUME NEW C, NEW rows \in Seq(C), NEW max \in Nat \cup {Null},
           \A k \in 1..Len(rows) : rows[k][1] \in Nat,
           \A k \in 2..Len(rows) : rows[k - 1][1] >= rows[k][1]
    PROVE  HistoryComplete(rows, GetTestResults(rows, max))
<1> DEFINE l == Len(rows)
           Good == {k \in Nat : k \in 1..l => \A j \in 1..k : rows[j][1] >= rows[k][1]}
<1>0. l \in Nat
  BY LenProperties
<1>1. 0 \in Good
  OBVIOUS
<1>2. ASSUME NEW k \in Nat, k \in Good PROVE k + 1 \in Good
  <2>0. k + 1 \in Nat
    OBVIOUS
  <2> SUFFICES ASSUME k + 1 \in 1..l, NEW j \in 1..k + 1 PROVE rows[j][1] >= rows[k + 1][1]
    BY <2>0
  <2>1. rows[k + 1][1] \in Nat /\ rows[j][1] \in Nat
    BY <1>0
  <2>2. CASE j = k + 1
    BY <2>1, <2>2
  <2>3. CASE j # k + 1
    <3>1. j \in 1..k /\ k \in 1..l /\ k + 1 \in 2..l /\ k + 1 - 1 = k
      BY <1>0, <2>3
    <3>2. rows[k][1] \in Nat /\ rows[j][1] >= rows[k][1] /\ rows[k][1] >= rows[k + 1][1]
      BY <1>2, <3>1
    <3> QED
      BY <2>1, <3>2
  <2> QED
    BY <2>2, <2>3
<1> HIDE DEF Good
<1>3. Nat \subseteq Good
  BY <1>1, <1>2, Inductive
<1>4. PICK limit \in Nat : limit = HistoryLimit(max)
  BY DEF HistoryLimit
<1>5. PICK n \in 0..Len(rows) :
          /\ n = IF Len(rows) <= limit THEN Len(rows) ELSE limit
          /\ Page(rows, limit, "none").rows = SubSeq(rows, 1, n)
          /\ SubSeq(rows, 1, n) \in Seq(C) /\ Len(SubSeq(rows, 1, n)) = n
          /\ \A k \in 1..n : SubSeq(rows, 1, n)[k] = rows[k]
  BY PageRows
<1> DEFINE a == GetTestResults(rows, max)
<1>6. Len(a) = n /\ \A k \in 1..n : a[k].run = rows[k][1]
  BY <1>0, <1>4, <1>5 DEF GetTestResults
<1> HIDE DEF a
<1>7. ASSUME NEW k \in 1..l, k > n, NEW j \in 1..n PROVE a[j].run >= rows[k][1]
  <2>1. k \in Nat /\ k \in Good /\ j \in 1..k
    BY <1>0, <1>3, <1>7
  <2> QED
    BY <1>6, <2>1 DEF Good
<1> QED
  BY <1>6, <1>7 DEF HistoryComplete, a

\* What collect_methods gathers, and what it starts with.
Statuses == {"passed", "failed", "skipped", "unknown"}

Collections == [methods : Seq(Statuses), passed : Nat, failed : Nat, skipped : Nat]

NothingYet == [methods |-> <<>>, passed |-> 0, failed |-> 0, skipped |-> 0]

\* collect_methods, as a function of what it has and the next row.
Collecting(D) == [p \in Collections \X D |-> CollectMethod(p[1], p[2])]

\* A row keeps the type of what is gathered.
LEMMA CollectingIsFold ==
    ASSUME NEW D PROVE IsFold(Collections, D, NothingYet, Collecting(D))
<1>1. NothingYet \in Collections
  BY EmptySeq DEF NothingYet, Collections
<1>2. ASSUME NEW got \in Collections, NEW code PROVE CollectMethod(got, code) \in Collections
  <2>1. MethodStatus(code) \in Statuses
    BY DEF MethodStatus, Statuses
  <2>2. Append(got.methods, MethodStatus(code)) \in Seq(Statuses)
    BY <2>1, AppendProperties DEF Collections
  <2> QED
    BY <2>2 DEF CollectMethod, Collections
<1> QED
  BY <1>1, <1>2 DEF Collecting, IsFold

\* Collected is that fold.
LEMMA CollectedFold ==
    ASSUME NEW D, NEW seq \in Seq(D)
    PROVE  Collected(seq) = Folded(Collecting(D), NothingYet, seq)
<1> DEFINE Rec(h) == h = [s \in SUBSET DOMAIN seq |->
                            IF s = {} THEN NothingYet
                            ELSE CollectMethod(h[s \ {Max(s)}], seq[Max(s)])]
<1>0. IsFold(Collections, D, NothingYet, Collecting(D))
  BY CollectingIsFold
<1>1. PICK g \in [SUBSET (1..Len(seq)) -> Collections] : Folding(g, Collecting(D), NothingYet, seq, Len(seq))
  BY <1>0, FoldExists
<1>2. DOMAIN seq = 1..Len(seq) /\ Len(seq) \in Nat
  OBVIOUS
<1>3. \A s \in SUBSET (1..Len(seq)) : s # {} =>
          seq[Max(s)] \in D /\ s \ {Max(s)} \in SUBSET (1..Len(seq))
  BY <1>2, Topmost
<1>4. Rec(g)
  BY <1>1, <1>2, <1>3 DEF Folding, Collecting
<1>5. Collected(seq) = (CHOOSE h : Rec(h))[DOMAIN seq]
  BY DEF Collected, FoldLeft, MapThenFoldSet, NothingYet
<1>6. PICK h : Rec(h) /\ Collected(seq) = h[1..Len(seq)]
  BY <1>2, <1>4, <1>5
<1>7. Steps(h, Collecting(D), NothingYet, seq, Collections)
  BY <1>2, <1>3, <1>6 DEF Steps, Collecting
<1> HIDE DEF Rec
<1>8. h[1..Len(seq)] = Folded(Collecting(D), NothingYet, seq)
  BY <1>0, <1>7, FoldValue
<1> QED
  BY <1>6, <1>8

\* It starts with nothing.
LEMMA CollectedNothing == Collected(<<>>) = NothingYet
<1>1. <<>> \in Seq({}) /\ IsFold(Collections, {}, NothingYet, Collecting({}))
  BY EmptySeq, CollectingIsFold
<1>2. Folded(Collecting({}), NothingYet, <<>>) = NothingYet
  BY <1>1, FoldedEmpty
<1>3. Collected(<<>>) = Folded(Collecting({}), NothingYet, <<>>)
  BY <1>1, CollectedFold
<1> QED
  BY <1>2, <1>3

\* A row more is one method more.
LEMMA CollectedSteps ==
    ASSUME NEW D, NEW seq \in Seq(D)
    PROVE  /\ Collected(seq) \in Collections
           /\ \A c \in D : Collected(Append(seq, c)) = CollectMethod(Collected(seq), c)
<1>0. IsFold(Collections, D, NothingYet, Collecting(D))
  BY CollectingIsFold
<1>1. Collected(seq) \in Collections /\ Collected(seq) = Folded(Collecting(D), NothingYet, seq)
  BY <1>0, CollectedFold, FoldedType
<1>2. ASSUME NEW c \in D
      PROVE  Collected(Append(seq, c)) = CollectMethod(Collected(seq), c)
  <2>1. PICK more \in Seq(D) : more = Append(seq, c)
    BY AppendProperties
  <2>2. Folded(Collecting(D), NothingYet, Append(seq, c))
            = Collecting(D)[<<Folded(Collecting(D), NothingYet, seq), c>>]
    BY <1>0, FoldedAppend
  <2>3. Collected(more) = Folded(Collecting(D), NothingYet, more)
    BY CollectedFold
  <2> QED
    BY <1>1, <2>1, <2>2, <2>3 DEF Collecting
<1> QED
  BY <1>1, <1>2

\* The counts are those of the rows, and every method is counted once.
Counted(codes, got) ==
    /\ Len(got.methods) = Len(codes)
    /\ got.passed > 0 <=> \E k \in 1..Len(codes) : codes[k] = 1
    /\ got.failed > 0 <=> \E k \in 1..Len(codes) : codes[k] = 0
    /\ got.passed + got.failed + got.skipped + Len(Only(got.methods, {"unknown"}))
          = Len(got.methods)

\* The counts of collect_methods are those of its rows.
LEMMA CollectedCounts ==
    ASSUME NEW D, NEW codes \in Seq(D)
    PROVE  Counted(codes, Collected(codes))
<1> DEFINE Good == {u \in Seq(D) : Counted(u, Collected(u))}
<1>1. <<>> \in Good
  <2>1. Counted(<<>>, NothingYet)
    <3>1. Len(<<>>) = 0 /\ 1..0 = {}
      OBVIOUS
    <3> QED
      BY <3>1, OnlyNothing DEF Counted, NothingYet
  <2> QED
    BY <2>1, CollectedNothing, EmptySeq
<1>2. ASSUME NEW u \in Seq(D), NEW c \in D, u \in Good PROVE Append(u, c) \in Good
  <2>1. PICK got \in Collections : got = Collected(u) /\ Counted(u, got)
    BY <1>2, CollectedSteps
  <2>2. PICK methods \in Seq(Statuses), passed \in Nat, failed \in Nat, skipped \in Nat :
            /\ got.methods = methods /\ got.passed = passed
            /\ got.failed = failed /\ got.skipped = skipped
    BY DEF Collections
  <2>3. PICK status \in Statuses : status = MethodStatus(c)
    BY DEF MethodStatus, Statuses
  <2>4. PICK known \in Nat, other \in Nat :
            /\ known = Len(methods) /\ other = Len(Only(methods, {"unknown"}))
    BY OnlySteps, LenProperties
  <2>5. /\ Len(Append(methods, status)) = known + 1
        /\ Len(Only(Append(methods, status), {"unknown"}))
              = IF status = "unknown" THEN other + 1 ELSE other
    <3>1. PICK only \in Seq(Statuses) : only = Only(methods, {"unknown"})
      BY OnlySteps
    <3>2. Only(Append(methods, status), {"unknown"})
              = IF status \in {"unknown"} THEN Append(only, status) ELSE only
      BY <3>1, OnlySteps
    <3>3. Len(Append(only, status)) = Len(only) + 1 /\ Len(Append(methods, status)) = Len(methods) + 1
      BY AppendProperties
    <3> QED
      BY <2>4, <3>1, <3>2, <3>3
  <2>6. Collected(Append(u, c)) = CollectMethod(got, c)
    BY <2>1, CollectedSteps
  <2>7. PICK l \in Nat : l = Len(u) /\ Len(Append(u, c)) = l + 1 /\ Append(u, c)[l + 1] = c
                         /\ \A k \in 1..l : Append(u, c)[k] = u[k]
    BY AppendProperties, LenProperties
  <2>8. \A x : (\E k \in 1..l + 1 : Append(u, c)[k] = x) <=> c = x \/ \E k \in 1..l : u[k] = x
    <3> SUFFICES ASSUME NEW x
                 PROVE  (\E k \in 1..l + 1 : Append(u, c)[k] = x) <=> c = x \/ \E k \in 1..l : u[k] = x
      OBVIOUS
    <3>1. ASSUME NEW k \in 1..l + 1 PROVE k \in 1..l \/ k = l + 1
      OBVIOUS
    <3>2. l + 1 \in 1..l + 1 /\ 1..l \subseteq 1..l + 1
      OBVIOUS
    <3> QED
      BY <2>7, <3>1, <3>2
  <2>9. /\ known = l
        /\ passed > 0 <=> \E k \in 1..l : u[k] = 1
        /\ failed > 0 <=> \E k \in 1..l : u[k] = 0
        /\ passed + failed + skipped + other = known
    BY <2>1, <2>2, <2>4, <2>7 DEF Counted
  <2>10. PICK more : more = CollectMethod(got, c)
    OBVIOUS
  <2>11. /\ more.methods = Append(methods, status)
         /\ more.passed = passed + (IF status = "passed" THEN 1 ELSE 0)
         /\ more.failed = failed + (IF status = "failed" THEN 1 ELSE 0)
         /\ more.skipped = skipped + (IF status = "skipped" THEN 1 ELSE 0)
    BY <2>2, <2>3, <2>10 DEF CollectMethod
  <2>12. (status = "passed" <=> c = 1) /\ (status = "failed" <=> c = 0)
    BY <2>3 DEF MethodStatus
  <2>13. more.passed > 0 <=> passed > 0 \/ c = 1
    BY <2>11, <2>12
  <2>14. more.failed > 0 <=> failed > 0 \/ c = 0
    BY <2>11, <2>12
  <2>15. more.passed + more.failed + more.skipped + (IF status = "unknown" THEN other + 1 ELSE other)
             = known + 1
    BY <2>3, <2>9, <2>11 DEF Statuses
  <2>16. Counted(Append(u, c), more)
    BY <2>5, <2>7, <2>8, <2>9, <2>11, <2>13, <2>14, <2>15 DEF Counted
  <2>17. Append(u, c) \in Seq(D)
    BY AppendProperties
  <2> QED
    BY <2>6, <2>10, <2>16, <2>17
<1> HIDE DEF Good
<1>3. Seq(D) \subseteq Good
  BY <1>1, <1>2, SeqInductive
<1> QED
  BY <1>3 DEF Good

\* run_tests: the verdict and the counts are those of the rows of the run, as long as
\* they fit the page, and else those of the rows on the page; without an index there is
\* no verdict.
THEOREM VerdictIsHonest ==
    ASSUME NEW printed, NEW D, NEW codes \in Seq(D), NEW others \in Seq(D)
    PROVE  VerdictHonest(printed, codes, RunTests(printed, codes, others))
<1> DEFINE a == RunTests(printed, codes, others)
           Rows(index) == CASE index = "url" -> codes [] index = "other" -> others [] OTHER -> <<>>
<1>1. PICK index : index = RunIndex(printed)
  OBVIOUS
<1>2. PICK rows \in Seq(D) : rows = Rows(index)
  BY EmptySeq
<1>3. PICK size \in Nat : size = PageSize
  BY PageAssumption
<1>4. PICK n \in 0..Len(rows) :
          /\ n = IF Len(rows) <= size THEN Len(rows) ELSE size
          /\ Page(rows, size, "none").rows = SubSeq(rows, 1, n)
          /\ SubSeq(rows, 1, n) \in Seq(D) /\ Len(SubSeq(rows, 1, n)) = n
          /\ \A k \in 1..n : SubSeq(rows, 1, n)[k] = rows[k]
  BY PageRows
<1>5. PICK read \in Seq(D) : read = SubSeq(rows, 1, n) /\ Len(read) = n
                             /\ \A k \in 1..n : read[k] = rows[k]
  BY <1>4
<1>6. Counted(read, Collected(read)) /\ Collected(read) \in Collections
  BY CollectedCounts, CollectedSteps
<1>7. PICK got \in Collections : got = Collected(read) /\ Counted(read, got)
  BY <1>6
<1>8. /\ a.verdict = IF index = "none" THEN "unknown" ELSE Verdict(got)
      /\ a.methods = got.methods /\ a.passed = got.passed
      /\ a.failed = got.failed /\ a.skipped = got.skipped
  BY <1>1, <1>2, <1>3, <1>4, <1>5, <1>7 DEF RunTests
<1> HIDE DEF a, Rows
<1>9. index = "none" => a.verdict = "unknown"
  BY <1>8
<1>10. a.passed + a.failed + a.skipped + Len(Only(a.methods, {"unknown"})) = Len(a.methods)
  BY <1>7, <1>8 DEF Counted
<1>11. PICK seen : seen = IF Len(codes) <= PageSize THEN ToSet(codes)
                          ELSE {codes[k] : k \in 1..PageSize}
  OBVIOUS
<1>12. ASSUME index = "url"
       PROVE  /\ Len(a.methods) = AtMost(Len(codes), PageSize)
              /\ a.verdict = "passed" <=> 1 \in seen /\ 0 \notin seen
              /\ a.verdict = "failed" <=> 0 \in seen
  <2>1. rows = codes
    BY <1>2, <1>12 DEF Rows
  <2>2. n = AtMost(Len(codes), PageSize)
    BY <1>3, <1>4, <2>1 DEF AtMost
  <2>3. seen = {codes[k] : k \in 1..n}
    <3>1. CASE Len(codes) <= PageSize
      <4>1. DOMAIN codes = 1..n
        BY <2>2, <3>1 DEF AtMost
      <4> QED
        BY <1>11, <3>1, <4>1 DEF ToSet
    <3>2. CASE ~(Len(codes) <= PageSize)
      BY <1>11, <2>2, <3>2 DEF AtMost
    <3> QED
      BY <3>1, <3>2
  <2>4. (got.passed > 0 <=> 1 \in seen) /\ (got.failed > 0 <=> 0 \in seen)
    BY <1>5, <1>7, <2>1, <2>3 DEF Counted
  <2>5. Len(a.methods) = n
    BY <1>5, <1>7, <1>8 DEF Counted
  <2>6. /\ a.verdict = "passed" <=> got.passed > 0 /\ ~(got.failed > 0)
        /\ a.verdict = "failed" <=> got.failed > 0
    BY <1>8, <1>12 DEF Verdict
  <2> QED
    BY <2>2, <2>4, <2>5, <2>6
<1> QED
  BY <1>1, <1>9, <1>10, <1>11, <1>12 DEF VerdictHonest, a

\* The classes list_tests gathers.
Entries(N, M) == [name : N, methods : Seq(M)]

\* The place of a class is that of the entry with its name, if there is one.
LEMMA ClassFound ==
    ASSUME NEW N, NEW M, NEW classes \in Seq(Entries(N, M)), NEW name
    PROVE  /\ ClassAt(classes, name) \in 0..Len(classes)
           /\ ClassAt(classes, name) = 0 => \A k \in 1..Len(classes) : classes[k].name # name
           /\ ClassAt(classes, name) # 0 => classes[ClassAt(classes, name)].name = name
<1> DEFINE I == {k \in 1..Len(classes) : classes[k].name = name}
<1>1. ClassAt(classes, name) = IF I # {} THEN Min(I) ELSE 0
  BY DEF ClassAt, SelectInSeq
<1>2. Len(classes) \in Nat
  BY LenProperties
<1>3. ASSUME I # {} PROVE Min(I) \in I
  <2>1. I \in SUBSET Nat
    BY <1>2
  <2> HIDE DEF I
  <2>2. \E n \in I : \A m \in I : n <= m
    BY <1>3, <2>1, LeastNatural
  <2> QED
    BY <2>2 DEF Min
<1>4. 0 \in 0..Len(classes) /\ \A k \in 1..Len(classes) : k \in 0..Len(classes) /\ k # 0
  BY <1>2
<1> QED
  BY <1>1, <1>3, <1>4

\* A row whose class is there is appended to its methods.
LEMMA KnownClass ==
    ASSUME NEW N, NEW M, NEW classes \in Seq(Entries(N, M)), NEW name \in N, NEW method \in M,
           NEW at \in 1..Len(classes), at = ClassAt(classes, name)
    PROVE  /\ AddMethod(classes, <<name, method>>) \in Seq(Entries(N, M))
           /\ Len(AddMethod(classes, <<name, method>>)) = Len(classes)
           /\ \A k \in 1..Len(classes) :
                 /\ AddMethod(classes, <<name, method>>)[k].name = classes[k].name
                 /\ AddMethod(classes, <<name, method>>)[k].methods
                       = IF k = at THEN Append(classes[k].methods, method) ELSE classes[k].methods
<1>1. PICK l \in Nat : l = Len(classes)
  BY LenProperties
<1>2. classes \in [1..l -> Entries(N, M)] /\ at \in 1..l
  BY <1>1, LenProperties
<1>3. PICK entry \in Entries(N, M) : entry = classes[at]
  BY <1>2
<1>4. Append(entry.methods, method) \in Seq(M)
  BY AppendProperties DEF Entries
<1>5. PICK longer \in Entries(N, M) : longer = [name |-> name, methods |-> Append(entry.methods, method)]
  BY <1>4 DEF Entries
<1>6. entry.name = name
  BY <1>3, ClassFound, <1>2
<1>8. AddMethod(classes, <<name, method>>) = [classes EXCEPT ![at] = longer]
  <2>1. at > 0
    BY <1>2
  <2>2. <<name, method>>[1] = name /\ <<name, method>>[2] = method
    OBVIOUS
  <2>3. AddMethod(classes, <<name, method>>)
            = [classes EXCEPT ![at] = [name |-> name, methods |-> Append(classes[at].methods, method)]]
    BY <1>2, <2>1, <2>2 DEF AddMethod
  <2> QED
    BY <1>3, <1>5, <2>3
<1>9. PICK more : more = [classes EXCEPT ![at] = longer]
  OBVIOUS
<1>10. more \in [1..l -> Entries(N, M)] /\ more[at] = longer /\ \A k \in 1..l : k # at => more[k] = classes[k]
  BY <1>2, <1>9
<1>11. more \in Seq(Entries(N, M)) /\ Len(more) = l
  BY <1>10
<1>12. AddMethod(classes, <<name, method>>) = more
  BY <1>8, <1>9
<1>13. ASSUME NEW k \in 1..l
       PROVE  /\ more[k].name = classes[k].name
              /\ more[k].methods = IF k = at THEN Append(classes[k].methods, method)
                                   ELSE classes[k].methods
  <2>1. CASE k = at
    BY <1>3, <1>5, <1>6, <1>10, <2>1
  <2>2. CASE k # at
    BY <1>10, <2>2
  <2> QED
    BY <2>1, <2>2
<1> QED
  BY <1>1, <1>11, <1>12, <1>13

\* A row of a class that is not there begins it.
LEMMA NewClass ==
    ASSUME NEW N, NEW M, NEW classes \in Seq(Entries(N, M)), NEW name \in N, NEW method \in M,
           ClassAt(classes, name) = 0
    PROVE  /\ AddMethod(classes, <<name, method>>) \in Seq(Entries(N, M))
           /\ Len(AddMethod(classes, <<name, method>>)) = Len(classes) + 1
           /\ AddMethod(classes, <<name, method>>)[Len(classes) + 1]
                 = [name |-> name, methods |-> <<method>>]
           /\ \A k \in 1..Len(classes) : AddMethod(classes, <<name, method>>)[k] = classes[k]
<1>1. PICK entry \in Entries(N, M) : entry = [name |-> name, methods |-> <<method>>]
  <2>1. <<method>> \in Seq(M)
    OBVIOUS
  <2> QED
    BY <2>1 DEF Entries
<1>2. AddMethod(classes, <<name, method>>) = Append(classes, entry)
  <2>1. ~(0 > 0)
    OBVIOUS
  <2> QED
    BY <1>1, <2>1 DEF AddMethod
<1>3. PICK more : more = Append(classes, entry)
  OBVIOUS
<1>4. /\ more \in Seq(Entries(N, M)) /\ Len(more) = Len(classes) + 1
      /\ more[Len(classes) + 1] = entry
      /\ \A k \in 1..Len(classes) : more[k] = classes[k]
  BY <1>3, AppendProperties
<1>5. AddMethod(classes, <<name, method>>) = more
  BY <1>2, <1>3
<1> QED
  BY <1>1, <1>4, <1>5

\* list_tests' loop, as a function of the classes it has and the next row.
Grouping(N, M) == [p \in Seq(Entries(N, M)) \X (N \X M) |-> AddMethod(p[1], p[2])]

\* A row keeps the type of the classes.
LEMMA GroupingIsFold ==
    ASSUME NEW N, NEW M PROVE IsFold(Seq(Entries(N, M)), N \X M, <<>>, Grouping(N, M))
<1>1. <<>> \in Seq(Entries(N, M))
  BY EmptySeq
<1>2. ASSUME NEW classes \in Seq(Entries(N, M)), NEW row \in N \X M
      PROVE  AddMethod(classes, row) \in Seq(Entries(N, M))
  <2>1. PICK name \in N, method \in M : row = <<name, method>>
    OBVIOUS
  <2>2. PICK at \in 0..Len(classes) : at = ClassAt(classes, name)
    BY ClassFound
  <2>3. CASE at = 0
    BY <2>1, <2>2, <2>3, NewClass
  <2>4. CASE at # 0
    <3>1. at \in 1..Len(classes)
      BY <2>4, LenProperties
    <3> QED
      BY <2>1, <2>2, <3>1, KnownClass
  <2> QED
    BY <2>3, <2>4
<1> QED
  BY <1>1, <1>2 DEF Grouping, IsFold

\* ByClass is that fold.
LEMMA ByClassFold ==
    ASSUME NEW N, NEW M, NEW seq \in Seq(N \X M)
    PROVE  ByClass(seq) = Folded(Grouping(N, M), <<>>, seq)
<1> DEFINE V == Seq(Entries(N, M))
           Rec(h) == h = [s \in SUBSET DOMAIN seq |->
                            IF s = {} THEN <<>> ELSE AddMethod(h[s \ {Max(s)}], seq[Max(s)])]
<1>0. IsFold(V, N \X M, <<>>, Grouping(N, M))
  BY GroupingIsFold
<1>1. PICK g \in [SUBSET (1..Len(seq)) -> V] : Folding(g, Grouping(N, M), <<>>, seq, Len(seq))
  BY <1>0, FoldExists
<1>2. DOMAIN seq = 1..Len(seq) /\ Len(seq) \in Nat
  OBVIOUS
<1>3. \A s \in SUBSET (1..Len(seq)) : s # {} =>
          seq[Max(s)] \in N \X M /\ s \ {Max(s)} \in SUBSET (1..Len(seq))
  BY <1>2, Topmost
<1>4. Rec(g)
  BY <1>1, <1>2, <1>3 DEF Folding, Grouping
<1>5. ByClass(seq) = (CHOOSE h : Rec(h))[DOMAIN seq]
  BY DEF ByClass, FoldLeft, MapThenFoldSet
<1>6. PICK h : Rec(h) /\ ByClass(seq) = h[1..Len(seq)]
  BY <1>2, <1>4, <1>5
<1>7. Steps(h, Grouping(N, M), <<>>, seq, V)
  BY <1>2, <1>3, <1>6 DEF Steps, Grouping
<1> HIDE DEF Rec
<1>8. h[1..Len(seq)] = Folded(Grouping(N, M), <<>>, seq)
  BY <1>0, <1>7, FoldValue
<1> QED
  BY <1>6, <1>8

\* A row more is one method more.
LEMMA ByClassSteps ==
    ASSUME NEW N, NEW M, NEW seq \in Seq(N \X M)
    PROVE  /\ ByClass(<<>>) = <<>>
           /\ ByClass(seq) \in Seq(Entries(N, M))
           /\ \A c \in N \X M : ByClass(Append(seq, c)) = AddMethod(ByClass(seq), c)
<1>0. IsFold(Seq(Entries(N, M)), N \X M, <<>>, Grouping(N, M))
  BY GroupingIsFold
<1>1. ByClass(seq) \in Seq(Entries(N, M)) /\ ByClass(seq) = Folded(Grouping(N, M), <<>>, seq)
  BY <1>0, ByClassFold, FoldedType
<1>2. ASSUME NEW c \in N \X M
      PROVE  ByClass(Append(seq, c)) = AddMethod(ByClass(seq), c)
  <2>1. PICK more \in Seq(N \X M) : more = Append(seq, c)
    BY AppendProperties
  <2>2. Folded(Grouping(N, M), <<>>, Append(seq, c))
            = Grouping(N, M)[<<Folded(Grouping(N, M), <<>>, seq), c>>]
    BY <1>0, FoldedAppend
  <2>3. ByClass(more) = Folded(Grouping(N, M), <<>>, more)
    BY ByClassFold
  <2> QED
    BY <1>1, <2>1, <2>2, <2>3 DEF Grouping
<1>3. ByClass(<<>>) = <<>>
  <2>1. PICK none \in Seq(N \X M) : none = <<>>
    BY EmptySeq
  <2>2. Folded(Grouping(N, M), <<>>, <<>>) = <<>>
    BY <1>0, FoldedEmpty
  <2>3. ByClass(none) = Folded(Grouping(N, M), <<>>, none)
    BY ByClassFold
  <2> QED
    BY <2>1, <2>2, <2>3
<1> QED
  BY <1>1, <1>2, <1>3

\* The methods of these rows.
MethodsOf(own) == [i \in 1..Len(own) |-> own[i][2]]

\* The rows of a class among those of R.
OfClass(R, name) == {row \in R : row[1] = name}

\* Of n classes and l rows: every class is listed once, with all its rows, and a
\* class that is not listed has none.
Grouped(rows, l, classes, n, R) ==
    /\ \A j, k \in 1..n : classes[j].name = classes[k].name => j = k
    /\ \A k \in 1..n : classes[k].methods = MethodsOf(Only(rows, OfClass(R, classes[k].name)))
    /\ \A k \in 1..n : \E j \in 1..l : rows[j][1] = classes[k].name
    /\ \A j \in 1..l : \E k \in 1..n : classes[k].name = rows[j][1]
    /\ \A x : (\A k \in 1..n : classes[k].name # x) => Only(rows, OfClass(R, x)) = <<>>

\* A row goes to its class and leaves the others as they are.
LEMMA AddKeepsGroups ==
    ASSUME NEW N, NEW M, NEW R \in SUBSET (N \X M), NEW u \in Seq(R), NEW c \in R,
           NEW classes \in Seq(Entries(N, M)), Grouped(u, Len(u), classes, Len(classes), R)
    PROVE  Grouped(Append(u, c), Len(Append(u, c)), AddMethod(classes, c), Len(AddMethod(classes, c)), R)
<1>1. PICK name \in N, method \in M : c = <<name, method>>
  OBVIOUS
<1>2. PICK at \in 0..Len(classes) :
          /\ at = ClassAt(classes, name)
          /\ at = 0 => \A k \in 1..Len(classes) : classes[k].name # name
          /\ at # 0 => classes[at].name = name
  BY ClassFound
<1>3. PICK n \in Nat : n = Len(classes)
  BY LenProperties
<1>4. PICK v \in Seq(R), l \in Nat : Extended(v, u, c, l)
  BY Extension
<1>5. /\ l = Len(u) /\ v = Append(u, c) /\ Len(v) = l + 1 /\ v[l + 1] = c
      /\ \A j \in 1..l : v[j] = u[j]
  BY <1>4 DEF Extended
<1>6. v[l + 1][1] = name
  BY <1>1, <1>5
<1>7. Grouped(u, l, classes, n, R)
  BY <1>3, <1>5
<1>8. /\ \A j, k \in 1..n : classes[j].name = classes[k].name => j = k
      /\ \A k \in 1..n : classes[k].methods = MethodsOf(Only(u, OfClass(R, classes[k].name)))
      /\ \A k \in 1..n : \E j \in 1..l : u[j][1] = classes[k].name
      /\ \A j \in 1..l : \E k \in 1..n : classes[k].name = u[j][1]
      /\ \A x : (\A k \in 1..n : classes[k].name # x) => Only(u, OfClass(R, x)) = <<>>
  BY <1>7, Zenon DEF Grouped
<1>9. ASSUME NEW x
      PROVE  Only(v, OfClass(R, x)) = IF x = name THEN Append(Only(u, OfClass(R, x)), c)
                                      ELSE Only(u, OfClass(R, x))
  <2>1. Only(Append(u, c), OfClass(R, x)) = IF c \in OfClass(R, x) THEN Append(Only(u, OfClass(R, x)), c)
                                            ELSE Only(u, OfClass(R, x))
    BY OnlySteps
  <2>2. c \in OfClass(R, x) <=> x = name
    BY <1>1 DEF OfClass
  <2> QED
    BY <1>5, <2>1, <2>2
<1>10. ASSUME NEW own \in Seq(R) PROVE MethodsOf(Append(own, c)) = Append(MethodsOf(own), method)
  <2>1. PICK more \in Seq(R), size \in Nat : Extended(more, own, c, size)
    BY Extension
  <2>2. /\ size = Len(own) /\ more = Append(own, c) /\ Len(more) = size + 1
        /\ more[size + 1] = c /\ \A k \in 1..size : more[k] = own[k]
    BY <2>1 DEF Extended
  <2>3. \A k \in 1..size : own[k] \in N \X M
    BY <2>2, ElementOfSeq
  <2>4. MethodsOf(own) \in [1..size -> M]
    BY <2>2, <2>3 DEF MethodsOf
  <2>5. PICK names \in Seq(M) : names = MethodsOf(own) /\ Len(names) = size
    BY <2>4
  <2>6. PICK longer \in Seq(M), length \in Nat : Extended(longer, names, method, length)
    BY Extension
  <2>7. /\ longer = Append(names, method) /\ Len(longer) = size + 1
        /\ longer[size + 1] = method
        /\ \A k \in 1..size : longer[k] = names[k]
    BY <2>5, <2>6 DEF Extended
  <2>8. longer \in [1..size + 1 -> M]
    BY <2>7, LenProperties
  <2>9. MethodsOf(more) = [k \in 1..size + 1 |-> more[k][2]]
    BY <2>2 DEF MethodsOf
  <2>10. ASSUME NEW k \in 1..size + 1 PROVE longer[k] = more[k][2]
    <3>1. CASE k = size + 1
      BY <1>1, <2>2, <2>7, <3>1
    <3>2. CASE k # size + 1
      <4>1. k \in 1..size
        BY <3>2
      <4>2. names[k] = own[k][2]
        BY <2>2, <2>5, <4>1 DEF MethodsOf
      <4> QED
        BY <2>2, <2>7, <4>1, <4>2
    <3> QED
      BY <3>1, <3>2
  <2>11. longer = MethodsOf(more)
    BY <2>8, <2>9, <2>10
  <2> QED
    BY <2>2, <2>5, <2>7, <2>11
<1>11. \A x : Only(u, OfClass(R, x)) \in Seq(R)
  BY OnlySteps
<1>12. CASE at # 0
  <2>0. at \in 1..n
    BY <1>3, <1>12
  <2>1. PICK more \in Seq(Entries(N, M)) :
            /\ more = AddMethod(classes, <<name, method>>) /\ Len(more) = n
            /\ \A k \in 1..n :
                  /\ more[k].name = classes[k].name
                  /\ more[k].methods = IF k = at THEN Append(classes[k].methods, method)
                                       ELSE classes[k].methods
    BY <1>2, <1>3, <2>0, KnownClass
  <2>14. \A k \in 1..n : more[k].name = classes[k].name
    BY <2>1
  <2>2. \A j, k \in 1..n : more[j].name = more[k].name => j = k
    BY <1>8, <2>1
  <2>3. ASSUME NEW k \in 1..n
        PROVE  more[k].methods = MethodsOf(Only(v, OfClass(R, more[k].name)))
    <3>1. PICK x : x = classes[k].name /\ x = more[k].name
      BY <2>1
    <3>2. PICK own \in Seq(R) : own = Only(u, OfClass(R, x)) /\ classes[k].methods = MethodsOf(own)
      BY <1>8, <1>11, <3>1
    <3>3. CASE k = at
      <4>1. x = name
        BY <1>2, <1>12, <3>1, <3>3
      <4> QED
        BY <1>9, <1>10, <2>1, <3>1, <3>2, <3>3, <4>1
    <3>4. CASE k # at
      <4>1. x # name
        BY <1>2, <1>8, <1>12, <2>0, <3>1, <3>4
      <4> QED
        BY <1>9, <2>1, <3>1, <3>2, <3>4, <4>1
    <3> QED
      BY <3>3, <3>4
  <2>4. \A k \in 1..n : \E j \in 1..l + 1 : v[j][1] = more[k].name
    <3>1. \A k \in 1..n : \E j \in 1..l : u[j][1] = classes[k].name
      BY <1>8, Zenon
    <3>2. \A j \in 1..l : j \in 1..l + 1
      OBVIOUS
    <3> QED
      BY <1>5, <2>14, <3>1, <3>2, Zenon
  <2>5. ASSUME NEW j \in 1..l + 1 PROVE \E k \in 1..n : more[k].name = v[j][1]
    <3>1. CASE j = l + 1
      BY <1>2, <1>6, <1>12, <2>0, <2>1, <3>1
    <3>2. CASE j # l + 1
      <4>1. j \in 1..l
        BY <3>2
      <4>2. PICK k \in 1..n : classes[k].name = u[j][1]
        BY <1>8, <4>1
      <4> QED
        BY <1>5, <2>1, <4>1, <4>2
    <3> QED
      BY <3>1, <3>2
  <2>6. ASSUME NEW x, \A k \in 1..n : more[k].name # x PROVE Only(v, OfClass(R, x)) = <<>>
    <3>1. x # name
      BY <1>2, <1>12, <2>0, <2>1, <2>6
    <3>2. Only(u, OfClass(R, x)) = <<>>
      <4>1. \A k \in 1..n : classes[k].name # x
        BY <2>1, <2>6
      <4> QED
        BY <1>8, <4>1, Zenon
    <3> QED
      BY <1>9, <3>1, <3>2
  <2>7. Grouped(v, l + 1, more, n, R)
    BY <2>2, <2>3, <2>4, <2>5, <2>6, Zenon DEF Grouped
  <2> QED
    BY <1>1, <1>5, <2>1, <2>7
<1>13. CASE at = 0
  <2>1. PICK more \in Seq(Entries(N, M)) :
            /\ more = AddMethod(classes, <<name, method>>) /\ Len(more) = n + 1
            /\ more[n + 1] = [name |-> name, methods |-> <<method>>]
            /\ \A k \in 1..n : more[k] = classes[k]
    <3>1. ClassAt(classes, name) = 0
      BY <1>2, <1>13
    <3>2. PICK more : more = AddMethod(classes, <<name, method>>)
      OBVIOUS
    <3>3. /\ more \in Seq(Entries(N, M))
          /\ Len(more) = Len(classes) + 1
          /\ more[Len(classes) + 1] = [name |-> name, methods |-> <<method>>]
          /\ \A k \in 1..Len(classes) : more[k] = classes[k]
      BY <3>1, <3>2, NewClass
    <3> QED
      BY <1>3, <3>2, <3>3
  <2>11. more[n + 1].name = name /\ more[n + 1].methods = <<method>>
    <3>1. more[n + 1] = [name |-> name, methods |-> <<method>>]
      BY <2>1, Zenon
    <3>2. PICK first : first = <<method>>
      OBVIOUS
    <3>3. more[n + 1] = [name |-> name, methods |-> first]
      BY <3>1, <3>2
    <3> QED
      BY <3>2, <3>3
  <2>13. n + 1 \in 1..n + 1
    OBVIOUS
  <2>12. \A k \in 1..n : more[k].name = classes[k].name
    BY <2>1
  <2>0. \A k \in 1..n + 1 : k \in 1..n \/ k = n + 1
    OBVIOUS
  <2>2. ASSUME NEW j \in 1..n + 1, NEW k \in 1..n + 1, more[j].name = more[k].name PROVE j = k
    <3>1. \A i \in 1..n : more[i].name # name
      BY <1>2, <1>3, <1>13, <2>1
    <3>2. more[n + 1].name = name
      BY <2>1
    <3>3. \A p, q \in 1..n : more[p].name = more[q].name => p = q
      BY <1>8, <2>1
    <3>4. j \in 1..n \/ j = n + 1
      BY <2>0
    <3>5. k \in 1..n \/ k = n + 1
      BY <2>0
    <3> QED
      BY <2>2, <3>1, <3>2, <3>3, <3>4, <3>5
  <2>3. ASSUME NEW k \in 1..n + 1
        PROVE  more[k].methods = MethodsOf(Only(v, OfClass(R, more[k].name)))
    <3>1. CASE k = n + 1
      <4>1. Only(u, OfClass(R, name)) = <<>>
        <5>1. \A i \in 1..n : classes[i].name # name
          BY <1>2, <1>3, <1>13
        <5> QED
          BY <1>8, <5>1, Zenon
      <4>2. PICK none \in Seq(R) : none = <<>>
        BY EmptySeq
      <4>3. MethodsOf(Append(none, c)) = Append(MethodsOf(none), method)
        BY <1>10
      <4>4. MethodsOf(none) = <<>>
        BY <4>2 DEF MethodsOf
      <4>5. Append(MethodsOf(none), method) = <<method>>
        BY <4>4
      <4> QED
        BY <1>9, <2>11, <3>1, <4>1, <4>2, <4>3, <4>5
    <3>2. CASE k # n + 1
      <4>1. k \in 1..n
        BY <2>0, <3>2
      <4>2. PICK x : x = classes[k].name /\ x = more[k].name /\ x # name
        BY <1>2, <1>3, <1>13, <2>1, <4>1
      <4>3. classes[k].methods = MethodsOf(Only(u, OfClass(R, x)))
        BY <1>8, <4>1, <4>2
      <4> QED
        BY <1>9, <2>1, <4>1, <4>2, <4>3
    <3> QED
      BY <3>1, <3>2
  <2>4. ASSUME NEW k \in 1..n + 1 PROVE \E j \in 1..l + 1 : v[j][1] = more[k].name
    <3>1. CASE k = n + 1
      <4>1. l + 1 \in 1..l + 1
        OBVIOUS
      <4> QED
        BY <1>6, <2>11, <3>1, <4>1, Zenon
    <3>2. CASE k # n + 1
      <4>1. k \in 1..n
        BY <2>0, <3>2
      <4>2. PICK j \in 1..l : u[j][1] = classes[k].name
        BY <1>8, <4>1
      <4>3. j \in 1..l + 1
        OBVIOUS
      <4> QED
        BY <1>5, <2>1, <4>1, <4>2, <4>3
    <3> QED
      BY <3>1, <3>2
  <2>5. ASSUME NEW j \in 1..l + 1 PROVE \E k \in 1..n + 1 : more[k].name = v[j][1]
    <3>1. CASE j = l + 1
      BY <1>6, <2>11, <2>13, <3>1, Zenon
    <3>2. CASE j # l + 1
      <4>1. j \in 1..l
        BY <3>2
      <4>2. PICK k \in 1..n : classes[k].name = u[j][1]
        BY <1>8, <4>1
      <4>3. k \in 1..n + 1
        OBVIOUS
      <4> QED
        BY <1>5, <2>1, <4>1, <4>2, <4>3
    <3> QED
      BY <3>1, <3>2
  <2>6. ASSUME NEW x, \A k \in 1..n + 1 : more[k].name # x PROVE Only(v, OfClass(R, x)) = <<>>
    <3>1. x # name
      BY <2>11, <2>6
    <3>2. \A k \in 1..n : k \in 1..n + 1
      OBVIOUS
    <3>3. \A k \in 1..n : classes[k].name # x
      BY <2>12, <2>6, <3>2
    <3>4. Only(u, OfClass(R, x)) = <<>>
      BY <1>8, <3>3, Zenon
    <3> QED
      BY <1>9, <3>1, <3>4
  <2>7. Grouped(v, l + 1, more, n + 1, R)
    BY <2>2, <2>3, <2>4, <2>5, <2>6, Zenon DEF Grouped
  <2> QED
    BY <1>1, <1>5, <2>1, <2>7
<1> QED
  BY <1>12, <1>13

\* So the classes are those of the rows.
LEMMA ByClassGroups ==
    ASSUME NEW N, NEW M, NEW R \in SUBSET (N \X M), NEW rows \in Seq(R)
    PROVE  Grouped(rows, Len(rows), ByClass(rows), Len(ByClass(rows)), R) /\ ByClass(rows) \in Seq(Entries(N, M))
<1> DEFINE Good == {u \in Seq(R) : Grouped(u, Len(u), ByClass(u), Len(ByClass(u)), R)}
<1>0. Seq(R) \subseteq Seq(N \X M)
  BY SeqMonotonic
<1>1. <<>> \in Good
  <2>1. PICK none \in Seq(R) : none = <<>> /\ none \in Seq(N \X M)
    BY <1>0, EmptySeq
  <2>2. ByClass(none) = <<>>
    BY <2>1, ByClassSteps
  <2>3. Len(<<>>) = 0 /\ 1..0 = {}
    OBVIOUS
  <2>4. Grouped(none, Len(none), ByClass(none), Len(ByClass(none)), R)
    BY <2>1, <2>2, <2>3, OnlyNothing DEF Grouped
  <2> QED
    BY <2>1, <2>4
<1>2. ASSUME NEW u \in Seq(R), NEW c \in R, u \in Good PROVE Append(u, c) \in Good
  <2>1. u \in Seq(N \X M) /\ c \in N \X M
    BY <1>0
  <2>2. PICK classes \in Seq(Entries(N, M)) : classes = ByClass(u)
    BY <2>1, ByClassSteps
  <2>3. Grouped(Append(u, c), Len(Append(u, c)), AddMethod(classes, c), Len(AddMethod(classes, c)), R)
    BY <1>2, <2>2, AddKeepsGroups
  <2>4. ByClass(Append(u, c)) = AddMethod(ByClass(u), c)
    BY <2>1, ByClassSteps
  <2>5. Append(u, c) \in Seq(R)
    BY AppendProperties
  <2> QED
    BY <2>2, <2>3, <2>4, <2>5
<1> HIDE DEF Good
<1>3. Seq(R) \subseteq Good
  BY <1>1, <1>2, SeqInductive
<1>4. rows \in Seq(N \X M)
  BY <1>0
<1>5. ByClass(rows) \in Seq(Entries(N, M))
  BY <1>4, ByClassSteps
<1> QED
  BY <1>3, <1>5 DEF Good

\* list_tests: every class once, with the methods of all its rows in their order, if
\* the rows fit the page; else so for the rows on the page.
THEOREM TestsAreListed ==
    ASSUME NEW N, NEW M, NEW rows \in Seq(N \X M)
    PROVE  TestsListed(rows, ListTests(rows))
<1> DEFINE a == ListTests(rows)
<1>1. PICK size \in Nat : size = PageSize
  BY PageAssumption
<1>2. PICK n \in 0..Len(rows) :
          /\ n = IF Len(rows) <= size THEN Len(rows) ELSE size
          /\ Page(rows, size, "none").rows = SubSeq(rows, 1, n)
          /\ SubSeq(rows, 1, n) \in Seq(N \X M) /\ Len(SubSeq(rows, 1, n)) = n
          /\ \A k \in 1..n : SubSeq(rows, 1, n)[k] = rows[k]
  <2>1. PICK C : C = N \X M
    OBVIOUS
  <2>2. PICK all \in Seq(C) : all = rows
    BY <2>1
  <2>3. PICK n \in 0..Len(all) :
            /\ n = IF Len(all) <= size THEN Len(all) ELSE size
            /\ Page(all, size, "none").rows = SubSeq(all, 1, n)
            /\ SubSeq(all, 1, n) \in Seq(C) /\ Len(SubSeq(all, 1, n)) = n
            /\ \A k \in 1..n : SubSeq(all, 1, n)[k] = all[k]
    BY PageRows
  <2> QED
    BY <2>1, <2>2, <2>3
<1>3. PICK found \in Seq(N \X M) : found = Page(rows, PageSize, "none").rows
  BY <1>1, <1>2
<1>4. PICK R \in SUBSET (N \X M) : R = ToSet(found) /\ found \in Seq(R)
  <2>1. ToSet(found) \subseteq N \X M
    BY DEF ToSet
  <2>2. found \in Seq(ToSet(found))
    BY DEF ToSet
  <2> QED
    BY <2>1, <2>2
<1>5. Grouped(found, Len(found), ByClass(found), Len(ByClass(found)), R)
  BY <1>4, ByClassGroups
<1>6. PICK classes : classes = ByClass(found) /\ a = classes
  BY <1>3 DEF ListTests
<1>7. Grouped(found, Len(found), classes, Len(classes), R)
  BY <1>5, <1>6
<1> HIDE DEF a
<1>8. \A j, k \in 1..Len(classes) : classes[j].name = classes[k].name => j = k
  BY <1>7, Zenon DEF Grouped
<1>9. {classes[k].name : k \in 1..Len(classes)} = {found[k][1] : k \in 1..Len(found)}
  <2>1. /\ \A k \in 1..Len(classes) : \E j \in 1..Len(found) : found[j][1] = classes[k].name
        /\ \A j \in 1..Len(found) : \E k \in 1..Len(classes) : classes[k].name = found[j][1]
    BY <1>7, Zenon DEF Grouped
  <2>2. \A k \in 1..Len(classes) : classes[k].name \in {found[j][1] : j \in 1..Len(found)}
    BY <2>1, Zenon
  <2>3. \A j \in 1..Len(found) : found[j][1] \in {classes[k].name : k \in 1..Len(classes)}
    BY <2>1, Zenon
  <2> QED
    BY <2>2, <2>3
<1>10. ASSUME NEW k \in 1..Len(classes)
       PROVE  LET own == Only(found, {row \in ToSet(found) : row[1] = classes[k].name})
              IN  classes[k].methods = [i \in 1..Len(own) |-> own[i][2]]
  <2>1. classes[k].methods = MethodsOf(Only(found, OfClass(R, classes[k].name)))
    BY <1>7, Zenon DEF Grouped
  <2>2. OfClass(R, classes[k].name) = {row \in ToSet(found) : row[1] = classes[k].name}
    BY <1>4 DEF OfClass
  <2> QED
    BY <2>1, <2>2 DEF MethodsOf
<1> DEFINE listed == IF Len(rows) <= PageSize THEN rows ELSE SubSeq(rows, 1, PageSize)
<1>11. listed = found
  <2>1. CASE Len(rows) <= PageSize
    <3>1. n = Len(rows) /\ found = SubSeq(rows, 1, n) /\ listed = rows
      BY <1>1, <1>2, <1>3, <2>1
    <3>2. found = rows
      BY <1>2, <1>3, <3>1, SeqEqual
    <3> QED
      BY <3>1, <3>2
  <2>2. CASE ~(Len(rows) <= PageSize)
    BY <1>1, <1>2, <1>3, <2>2
  <2> QED
    BY <2>1, <2>2
<1> HIDE DEF listed
<1> QED
  <2>1. TestsListed(rows, classes)
    <3>1. {classes[k].name : k \in 1..Len(classes)} = {listed[k][1] : k \in 1..Len(listed)}
      BY <1>9, <1>11
    <3>2. ASSUME NEW k \in 1..Len(classes)
          PROVE  LET own == Only(listed, {row \in ToSet(listed) : row[1] = classes[k].name})
                 IN  classes[k].methods = [i \in 1..Len(own) |-> own[i][2]]
      BY <1>10, <1>11
    <3> QED
      BY <1>8, <3>1, <3>2, Zenon DEF TestsListed, listed
  <2> QED
    BY <1>6, <2>1 DEF a
-----------------------------------------------------------------------------
(***************************************************************************)
(* The gate and the door.                                                  *)
(***************************************************************************)
\* The calls of the tools that the gate lets through or not.
Calls == [tool : Tools, background : BOOLEAN, valid : BOOLEAN, timeout : Nat \cup {NotSet}]

\* The time-outs are within the week that deadline arithmetic survives.
LEMMA ClampsHold ==
    ASSUME NEW secs \in Nat \cup {NotSet}, NEW configured \in Nat
    PROVE  /\ TaskTimeout(secs, configured) \in 1..MaxTimeout
           /\ secs \in {NotSet, 0} => TaskTimeout(secs, configured) >= 3600
           /\ CommandTimeout(secs, configured) \in 0..MaxTimeout
           /\ TestTimeout(secs, configured) \in 0..MaxTimeout
  BY TimeoutAssumption DEF TaskTimeout, CommandTimeout, TestTimeout, ClampTimeoutSecs, AtLeastSecs, Given

\* call_tool: no task without tasks/get, nothing listed that is refused, no time-out
\* beyond the greatest.
LEMMA GateHolds ==
    ASSUME NEW session, NEW call \in Calls, NEW debug \in BOOLEAN, NEW configured \in Nat
    PROVE  LET a == CallTool(session, call, debug, configured)
           IN  /\ TasksKept(session, call, a)
               /\ ListedAreCallable(call, debug, a)
               /\ TimeoutsKept(call, configured, a)
<1> DEFINE a == CallTool(session, call, debug, configured)
<1>1. call.tool \in Tools /\ call.timeout \in Nat \cup {NotSet}
  BY DEF Calls
<1>2. /\ a.kind = "task" => call.tool = "execute_command" /\ TasksSupported(session)
      /\ a.kind = "run" => ~call.background \/ IsDebug(call.tool)
      /\ call.tool = "execute_command" /\ call.background /\ ~TasksSupported(session) =>
            a.why = "tasks"
      /\ a.why = "disabled" <=> IsDebug(call.tool) /\ ~debug
  BY DEF CallTool, Refusal, IsDebug
<1>3. /\ a.timeout \in {0, TaskTimeout(call.timeout, configured), CommandTimeout(call.timeout, configured)}
      /\ a.kind = "task" => a.timeout = TaskTimeout(call.timeout, configured)
  BY DEF CallTool, Refusal
<1>4. TasksKept(session, call, a)
  BY <1>2 DEF TasksKept, TaskRequest
<1>5. ListedAreCallable(call, debug, a)
  BY <1>1, <1>2 DEF ListedAreCallable, ListTools
<1>6. TimeoutsKept(call, configured, a)
  <2>0. PICK secs \in Nat \cup {NotSet} : secs = call.timeout
    BY <1>1
  <2>1. /\ TaskTimeout(secs, configured) \in 1..MaxTimeout
        /\ secs \in {NotSet, 0} => TaskTimeout(secs, configured) >= 3600
        /\ CommandTimeout(secs, configured) \in 0..MaxTimeout
        /\ TestTimeout(secs, configured) \in 0..MaxTimeout
    BY ClampsHold
  <2>2. a.timeout <= MaxTimeout
    BY <1>3, <2>0, <2>1, TimeoutAssumption
  <2> QED
    BY <1>3, <2>0, <2>1, <2>2, TimeoutAssumption DEF TimeoutsKept
<1> QED
  BY <1>4, <1>5, <1>6

\* rism mcp: the door that was asked for, and no wider.
LEMMA DoorHolds ==
    ASSUME NEW flags, NEW env, NEW file, DOMAIN file = {"parses", "url", "transport", "host", "port", "api", "debug"}
    PROVE  DoorKept(flags, env, file, Door(flags, env, file))
<1> DEFINE a == Door(flags, env, file)
           config == LoadSettings(env, file)
<1>1. /\ config.transport = file.transport /\ config.host = file.host
      /\ config.url = Given(env.url, file.url)
  BY DEF LoadSettings
<1> QED
  BY <1>1 DEF Door, DoorKept, Transport, IsLoopbackHost
-----------------------------------------------------------------------------
(***************************************************************************)
(* What the debugger tools make of the agent's replies.  A percent sign of *)
(* a URI is always in front of a code, so none is within one, and the code *)
(* of each byte is decoded to that byte; what is decoded has no character  *)
(* cut, and is split where it was put together.                            *)
(***************************************************************************)
\* The bytes that are encoded, and their codes.
LEMMA Encodings ==
    /\ DOMAIN Code = {"%", "|", ":", "e1", "e2"}
    /\ Code["%"] = <<"2", "5">> /\ Code["|"] = <<"7", "C">> /\ Code[":"] = <<"3", "A">>
    /\ Code["e1"] = <<"C", "3">> /\ Code["e2"] = <<"A", "9">>
    /\ Digits = {"2", "5", "7", "C", "3", "A", "9"}
<1>1. DOMAIN Code = {"%", "|", ":", "e1", "e2"}
  BY DEF Code
<1>2. /\ Code["%"] = <<"2", "5">> /\ Code["|"] = <<"7", "C">> /\ Code[":"] = <<"3", "A">>
      /\ Code["e1"] = <<"C", "3">> /\ Code["e2"] = <<"A", "9">>
  BY DEF Code
<1>3. Digits = {"2", "5", "7", "C", "3", "A", "9"}
  BY <1>1, <1>2 DEF Digits
<1> QED
  BY <1>1, <1>2, <1>3

\* A code is read back as what it is the code of.
LEMMA CodesDiffer ==
    ASSUME NEW b \in DOMAIN Code
    PROVE  /\ Len(Code[b]) = 2 /\ Code[b] = <<Code[b][1], Code[b][2]>>
           /\ Code[b][1] \in Digits /\ Code[b][2] \in Digits
           /\ Byte(Code[b][1], Code[b][2]) = b
<1>1. /\ Len(Code[b]) = 2 /\ Code[b] = <<Code[b][1], Code[b][2]>>
      /\ Code[b][1] \in Digits /\ Code[b][2] \in Digits
  BY Encodings
<1>2. \A a \in DOMAIN Code : Code[a] = <<Code[b][1], Code[b][2]>> => a = b
  BY Encodings
<1>3. Byte(Code[b][1], Code[b][2]) = b
  BY <1>1, <1>2 DEF Byte
<1> QED
  BY <1>1, <1>3

\* A text with percent signs in front of codes only.
Encoded(text) ==
    \A k \in 1..Len(text) : text[k] = "%" =>
        k + 2 <= Len(text) /\ \E b \in DOMAIN Code : Code[b] = <<text[k + 1], text[k + 2]>>

\* The percent signs of a text.
Percents(text) == {k \in 1..Len(text) : text[k] = "%"}

\* No percent sign is within a code, so each is looked at.
LEMMA CodesAtPercents ==
    ASSUME NEW C, NEW text \in Seq(C), Encoded(text)
    PROVE  Codes(text) = Percents(text)
<1> DEFINE n == Len(text)
           Is(k) == text[k] = "%" /\ k + 2 <= n /\ text[k + 1] \in Digits /\ text[k + 2] \in Digits
           Rec(h) == h = [k \in 0..n |->
                             IF k = 0 THEN {}
                             ELSE IF /\ text[k] = "%" /\ k + 2 <= n
                                     /\ text[k + 1] \in Digits /\ text[k + 2] \in Digits
                                     /\ {k - 1, k - 2} \cap h[k - 1] = {}
                                  THEN h[k - 1] \cup {k} ELSE h[k - 1]]
           Upon(k) == {j \in 1..k : text[j] = "%"}
           w == [k \in 0..n |-> Upon(k)]
<1>0. n \in Nat
  OBVIOUS
<1>1. ASSUME NEW k \in 1..n, text[k] = "%" PROVE Is(k)
  <2>1. k + 2 <= n /\ \E b \in DOMAIN Code : Code[b] = <<text[k + 1], text[k + 2]>>
    BY <1>1 DEF Encoded
  <2>2. PICK b \in DOMAIN Code : Code[b] = <<text[k + 1], text[k + 2]>>
    BY <2>1
  <2>3. text[k + 1] \in Digits /\ text[k + 2] \in Digits
    BY <2>2, CodesDiffer
  <2> QED
    BY <1>1, <2>1, <2>3
<1>2. ASSUME NEW k \in 1..n, text[k] = "%" PROVE {k - 1, k - 2} \cap Upon(k - 1) = {}
  <2> SUFFICES ASSUME NEW j \in 1..k - 1, j = k - 1 \/ j = k - 2, text[j] = "%" PROVE FALSE
    OBVIOUS
  <2>1. j \in 1..n /\ (k = j + 1 \/ k = j + 2)
    OBVIOUS
  <2>2. text[k] \in Digits
    BY <1>1, <2>1
  <2> QED
    BY <1>2, <2>2, Encodings
<1>3. ASSUME NEW k \in 1..n
      PROVE  Upon(k) = IF text[k] = "%" THEN Upon(k - 1) \cup {k} ELSE Upon(k - 1)
  <2>1. 1..k = (1..k - 1) \cup {k}
    OBVIOUS
  <2> QED
    BY <2>1
<1>4. Upon(0) = {}
  OBVIOUS
<1> HIDE DEF Upon
<1>5. Rec(w)
  <2> SUFFICES ASSUME NEW k \in 0..n
               PROVE  Upon(k) = IF k = 0 THEN {}
                                ELSE IF /\ text[k] = "%" /\ k + 2 <= n
                                        /\ text[k + 1] \in Digits /\ text[k + 2] \in Digits
                                        /\ {k - 1, k - 2} \cap w[k - 1] = {}
                                     THEN w[k - 1] \cup {k} ELSE w[k - 1]
    BY Zenon
  <2>1. CASE k = 0
    BY <1>4, <2>1
  <2>2. CASE k # 0
    <3>1. k \in 1..n /\ k - 1 \in 0..n
      BY <2>2
    <3>2. w[k - 1] = Upon(k - 1)
      BY <3>1
    <3> QED
      BY <1>1, <1>2, <1>3, <2>2, <3>1, <3>2
  <2> QED
    BY <2>1, <2>2
<1> HIDE DEF w
<1>6. PICK h : Rec(h) /\ Codes(text) = h[n]
  BY <1>5 DEF Codes
<1> DEFINE Good == {k \in Nat : k <= n => h[k] = Upon(k)}
<1>7. 0 \in Good
  BY <1>0, <1>4, <1>6
<1>8. ASSUME NEW k \in Nat, k \in Good PROVE k + 1 \in Good
  <2>0. k + 1 \in Nat
    OBVIOUS
  <2> SUFFICES ASSUME k + 1 <= n PROVE h[k + 1] = Upon(k + 1)
    BY <2>0
  <2>1. k + 1 \in 1..n /\ (k + 1) - 1 = k /\ k + 1 \in 0..n /\ k + 1 # 0
    OBVIOUS
  <2>2. h[k] = Upon(k)
    BY <1>8
  <2>3. h[k + 1] = IF /\ text[k + 1] = "%" /\ (k + 1) + 2 <= n
                      /\ text[(k + 1) + 1] \in Digits /\ text[(k + 1) + 2] \in Digits
                      /\ {(k + 1) - 1, (k + 1) - 2} \cap h[(k + 1) - 1] = {}
                   THEN h[(k + 1) - 1] \cup {k + 1} ELSE h[(k + 1) - 1]
    BY <1>6, <2>1
  <2> HIDE DEF Rec, Good
  <2>4. CASE text[k + 1] = "%"
    <3>1. Is(k + 1) /\ {(k + 1) - 1, (k + 1) - 2} \cap Upon((k + 1) - 1) = {}
      BY <1>1, <1>2, <2>1, <2>4
    <3> QED
      BY <1>3, <2>1, <2>2, <2>3, <2>4, <3>1
  <2>5. CASE text[k + 1] # "%"
    BY <1>3, <2>1, <2>2, <2>3, <2>5
  <2> QED
    BY <2>4, <2>5
<1> HIDE DEF Good, Rec
<1>9. Nat \subseteq Good
  BY <1>7, <1>8, Inductive
<1>10. h[n] = Upon(n)
  <2>1. n \in Good /\ n <= n
    BY <1>0, <1>9
  <2> QED
    BY <2>1 DEF Good
<1> QED
  BY <1>6, <1>10 DEF Upon, Percents

\* What is decoded at a place of a text, and the text that this makes.
Piece(text, k) ==
    IF text[k] = "%" THEN <<Byte(text[k + 1], text[k + 2])>>
    ELSE IF {k - 1, k - 2} \cap Percents(text) # {} THEN <<>> ELSE <<text[k]>>

\* What each place of a text decodes to.
Pieces(text) == [k \in 1..Len(text) |-> Piece(text, k)]

\* All of it, halves of characters included.
Decoded(text) == FlattenSeq(Pieces(text))

\* Bytes that texts may have: the encoded ones and the digits at least.
ByteSet(C) == DOMAIN Code \cup Digits \subseteq C

\* An encoded text is decoded piece by piece, and no slice is within a character.
LEMMA DecodesPieces ==
    ASSUME NEW C, NEW text \in Seq(C), Encoded(text)
    PROVE  PercentDecode(text) = Lossy(Decoded(text))
<1> DEFINE n == Len(text)
<1>0. n \in Nat /\ Codes(text) = Percents(text)
  BY CodesAtPercents
<1>1. ASSUME NEW k \in 1..n, text[k] = "%" PROVE text[k + 2] # "e1"
  <2>1. PICK b \in DOMAIN Code : Code[b] = <<text[k + 1], text[k + 2]>>
    BY <1>1 DEF Encoded
  <2>2. text[k + 2] \in Digits
    BY <2>1, CodesDiffer
  <2> QED
    BY <2>2, Encodings
<1>2. ~(\E k \in 1..n - 2 : /\ text[k] = "%" /\ text[k + 2] = "e1"
                            /\ {k - 1, k - 2} \cap Percents(text) = {})
  <2>1. \A k \in 1..n - 2 : k \in 1..n
    BY <1>0
  <2> QED
    BY <1>1, <2>1
<1>3. \A k \in 1..n : k \in Percents(text) <=> text[k] = "%"
  BY DEF Percents
<1>4. [k \in 1..n |->
          IF k \in Percents(text) THEN <<Byte(text[k + 1], text[k + 2])>>
          ELSE IF {k - 1, k - 2} \cap Percents(text) # {} THEN <<>> ELSE <<text[k]>>] = Pieces(text)
  BY <1>3, Zenon DEF Pieces, Piece
<1> QED
  BY <1>0, <1>2, <1>4 DEF PercentDecode, Decoded

\* Each piece is a text of no byte or one.
LEMMA PiecesAreTexts ==
    ASSUME NEW C, ByteSet(C), NEW text \in Seq(C), Encoded(text)
    PROVE  /\ Pieces(text) \in Seq(Seq(C)) /\ Len(Pieces(text)) = Len(text)
           /\ Decoded(text) \in Seq(C)
<1>1. ASSUME NEW k \in 1..Len(text) PROVE Piece(text, k) \in Seq(C)
  <2>0. text[k] \in C /\ <<>> \in Seq(C)
    BY ElementOfSeq, EmptySeq
  <2>1. CASE text[k] = "%"
    <3>1. PICK b \in DOMAIN Code : Code[b] = <<text[k + 1], text[k + 2]>>
      BY <2>1 DEF Encoded
    <3>2. Byte(Code[b][1], Code[b][2]) = b
      BY CodesDiffer
    <3>3. Code[b][1] = text[k + 1] /\ Code[b][2] = text[k + 2]
      BY <3>1
    <3>4. Byte(text[k + 1], text[k + 2]) \in C
      BY <3>2, <3>3 DEF ByteSet
    <3> QED
      BY <2>1, <3>4 DEF Piece
  <2>2. CASE text[k] # "%"
    BY <2>0, <2>2 DEF Piece
  <2> QED
    BY <2>1, <2>2
<1>2. Pieces(text) \in Seq(Seq(C)) /\ Len(Pieces(text)) = Len(text)
  BY <1>1 DEF Pieces
<1> QED
  BY <1>2, FlattenSteps DEF Decoded

\* The pieces of the text so far are those of the longer text.
LEMMA PiecesStay ==
    ASSUME NEW C, NEW u \in Seq(C), Encoded(u), NEW v \in Seq(C), Len(u) <= Len(v),
           \A k \in 1..Len(u) : v[k] = u[k]
    PROVE  \A k \in 1..Len(u) : Piece(v, k) = Piece(u, k)
<1> SUFFICES ASSUME NEW k \in 1..Len(u) PROVE Piece(v, k) = Piece(u, k)
  OBVIOUS
<1>0. Len(u) \in Nat /\ Len(v) \in Nat /\ v[k] = u[k]
  OBVIOUS
<1>1. CASE u[k] = "%"
  <2>1. k + 2 <= Len(u)
    BY <1>1 DEF Encoded
  <2>2. v[k + 1] = u[k + 1] /\ v[k + 2] = u[k + 2]
    BY <1>0, <2>1
  <2> QED
    BY <1>0, <1>1, <2>2 DEF Piece
<1>2. CASE u[k] # "%"
  <2>1. {k - 1, k - 2} \cap Percents(v) = {k - 1, k - 2} \cap Percents(u)
    BY <1>0 DEF Percents
  <2> QED
    BY <1>0, <1>2, <2>1 DEF Piece
<1> QED
  BY <1>1, <1>2

\* No percent sign is at the end of an encoded text.
LEMMA EndsClear ==
    ASSUME NEW C, NEW u \in Seq(C), Encoded(u), NEW k \in Percents(u)
    PROVE  k \in Nat /\ k + 2 <= Len(u)
  BY DEF Percents, Encoded

\* A byte that is left as it is.
LEMMA DecodesPlain ==
    ASSUME NEW C, ByteSet(C), NEW u \in Seq(C), Encoded(u), NEW c \in C, c # "%"
    PROVE  Encoded(Append(u, c)) /\ Decoded(Append(u, c)) = Append(Decoded(u), c)
<1>1. PICK v \in Seq(C) : v = Append(u, c)
  BY AppendProperties
<1>2. PICK n \in Nat : n = Len(u)
  OBVIOUS
<1>3. Len(v) = n + 1 /\ v[n + 1] = c /\ \A k \in 1..n : v[k] = u[k]
  BY <1>1, <1>2
<1>4. Encoded(v)
  <2> SUFFICES ASSUME NEW k \in 1..n + 1, v[k] = "%"
               PROVE  /\ k + 2 <= n + 1
                      /\ \E b \in DOMAIN Code : Code[b] = <<v[k + 1], v[k + 2]>>
    BY <1>3 DEF Encoded
  <2>1. k \in 1..n /\ u[k] = "%"
    BY <1>3
  <2>2. k + 2 <= n /\ \E b \in DOMAIN Code : Code[b] = <<u[k + 1], u[k + 2]>>
    BY <1>2, <2>1 DEF Encoded
  <2>3. v[k + 1] = u[k + 1] /\ v[k + 2] = u[k + 2]
    BY <1>3, <2>2
  <2> QED
    BY <2>2, <2>3
<1>5. Piece(v, n + 1) = <<c>>
  <2>1. {(n + 1) - 1, (n + 1) - 2} \cap Percents(v) = {}
    <3> SUFFICES ASSUME NEW k \in Percents(v), k = n \/ k = n - 1 PROVE FALSE
      BY <1>2
    <3>1. k \in Percents(u)
      BY <1>2, <1>3 DEF Percents
    <3>2. k + 2 <= n
      BY <1>2, <3>1, EndsClear
    <3> QED
      BY <3>2
  <2> QED
    BY <1>3, <2>1 DEF Piece
<1>6. \A k \in 1..n : Piece(v, k) = Piece(u, k)
  BY <1>2, <1>3, PiecesStay
<1>7. PICK p \in Seq(Seq(C)) : p = Pieces(u) /\ Len(p) = n
  BY <1>2, PiecesAreTexts
<1>8. PICK q \in Seq(Seq(C)) : q = Pieces(v) /\ Len(q) = n + 1
  BY <1>3, <1>4, PiecesAreTexts
<1>9. <<c>> \in Seq(C)
  OBVIOUS
<1>10. q = Append(p, <<c>>)
  <2>1. \A k \in 1..n : q[k] = p[k]
    BY <1>2, <1>3, <1>6, <1>7, <1>8 DEF Pieces
  <2>2. q[n + 1] = <<c>>
    BY <1>3, <1>5, <1>8 DEF Pieces
  <2> QED
    BY <1>7, <1>8, <1>9, <2>1, <2>2
<1>11. FlattenSeq(q) = FlattenSeq(p) \o <<c>> /\ FlattenSeq(p) \in Seq(C)
  BY <1>9, <1>10, FlattenSteps
<1>12. FlattenSeq(p) \o <<c>> = Append(FlattenSeq(p), c)
  BY <1>11
<1> QED
  BY <1>1, <1>4, <1>7, <1>8, <1>11, <1>12 DEF Decoded

\* An encoded byte.
LEMMA DecodesCode ==
    ASSUME NEW C, ByteSet(C), NEW u \in Seq(C), Encoded(u), NEW b \in DOMAIN Code
    PROVE  LET v == u \o (<<"%">> \o Code[b])
           IN  v \in Seq(C) /\ Encoded(v) /\ Decoded(v) = Append(Decoded(u), b)
<1>0. PICK d \in Digits, e \in Digits : Code[b] = <<d, e>> /\ Byte(d, e) = b
  BY CodesDiffer
<1>1. d # "%" /\ e # "%" /\ "%" \in C /\ d \in C /\ e \in C /\ b \in C
  BY <1>0, Encodings DEF ByteSet
<1>20. <<"%">> \o Code[b] = <<"%", d, e>> /\ <<"%", d, e>> \in Seq(C)
  <2>7. <<"%">> \in Seq(C)
    BY <1>1
  <2>8. <<d, e>> \in Seq(C)
    BY <1>1
  <2>1. PICK s \in Seq(C), t \in Seq(C) : s = <<"%">> /\ t = <<d, e>>
    BY <2>7, <2>8
  <2>2. Len(s) = 1 /\ Len(t) = 2 /\ s[1] = "%" /\ t[1] = d /\ t[2] = e
    BY <2>1
  <2>3. /\ s \o t \in Seq(C) /\ Len(s \o t) = 3
        /\ \A i \in 1..3 : (s \o t)[i] = IF i <= 1 THEN s[i] ELSE t[i - 1]
    <3>1. /\ s \o t \in Seq(C) /\ Len(s \o t) = Len(s) + Len(t)
          /\ \A i \in 1..Len(s) + Len(t) : (s \o t)[i] = IF i <= Len(s) THEN s[i] ELSE t[i - Len(s)]
      BY ConcatProperties, Zenon
    <3>2. Len(s) + Len(t) = 3
      BY <2>2
    <3> QED
      BY <2>2, <3>1, <3>2
  <2>9. <<"%", d, e>> \in Seq(C)
    BY <1>1
  <2>4. PICK w \in Seq(C) : w = <<"%", d, e>> /\ Len(w) = 3 /\ w[1] = "%" /\ w[2] = d /\ w[3] = e
    BY <2>9
  <2>5. \A i \in 1..3 : (s \o t)[i] = w[i]
    BY <2>2, <2>3, <2>4
  <2>6. s \o t = w
    BY <2>3, <2>4, <2>5, SeqEqual
  <2> QED
    BY <1>0, <2>1, <2>4, <2>6
<1>2. PICK v \in Seq(C) : v = u \o <<"%", d, e>>
  <2>1. u \o <<"%", d, e>> \in Seq(C)
    BY <1>20, ConcatProperties, Zenon
  <2> QED
    BY <2>1
<1>3. PICK n \in Nat : n = Len(u)
  OBVIOUS
<1>4. /\ Len(v) = n + 3 /\ \A k \in 1..n : v[k] = u[k]
      /\ v[n + 1] = "%" /\ v[n + 2] = d /\ v[n + 3] = e
  BY <1>1, <1>2, <1>3, <1>20
<1>5. Encoded(v)
  <2> SUFFICES ASSUME NEW k \in 1..n + 3, v[k] = "%"
               PROVE  /\ k + 2 <= n + 3
                      /\ \E a \in DOMAIN Code : Code[a] = <<v[k + 1], v[k + 2]>>
    BY <1>4 DEF Encoded
  <2>1. CASE k \in 1..n
    <3>1. k + 2 <= n /\ \E a \in DOMAIN Code : Code[a] = <<u[k + 1], u[k + 2]>>
      BY <1>3, <1>4, <2>1 DEF Encoded
    <3>2. v[k + 1] = u[k + 1] /\ v[k + 2] = u[k + 2]
      BY <1>4, <2>1, <3>1
    <3> QED
      BY <3>1, <3>2
  <2>2. CASE k = n + 1
    <3>1. v[k + 1] = d /\ v[k + 2] = e /\ k + 2 <= n + 3
      BY <1>4, <2>2
    <3> QED
      BY <1>0, <3>1
  <2>3. CASE k = n + 2 \/ k = n + 3
    BY <1>1, <1>4, <2>3
  <2> QED
    BY <2>1, <2>2, <2>3
<1>6. n + 1 \in Percents(v)
  BY <1>4 DEF Percents
<1>7. /\ Piece(v, n + 1) = <<b>> /\ Piece(v, n + 2) = <<>> /\ Piece(v, n + 3) = <<>>
  <2>1. Piece(v, n + 1) = <<b>>
    <3>1. (n + 1) + 1 = n + 2 /\ (n + 1) + 2 = n + 3
      OBVIOUS
    <3> QED
      BY <1>0, <1>4, <3>1 DEF Piece
  <2>2. Piece(v, n + 2) = <<>>
    <3>1. n + 1 \in {(n + 2) - 1, (n + 2) - 2}
      OBVIOUS
    <3> QED
      BY <1>1, <1>4, <1>6, <3>1 DEF Piece
  <2>3. Piece(v, n + 3) = <<>>
    <3>1. n + 1 \in {(n + 3) - 1, (n + 3) - 2}
      OBVIOUS
    <3> QED
      BY <1>1, <1>4, <1>6, <3>1 DEF Piece
  <2> QED
    BY <2>1, <2>2, <2>3
<1>8. \A k \in 1..n : Piece(v, k) = Piece(u, k)
  BY <1>3, <1>4, PiecesStay
<1>9. PICK p \in Seq(Seq(C)) : p = Pieces(u) /\ Len(p) = n
  BY <1>3, PiecesAreTexts
<1>10. PICK q \in Seq(Seq(C)) : q = Pieces(v) /\ Len(q) = n + 3
  BY <1>4, <1>5, PiecesAreTexts
<1>11. <<b>> \in Seq(C) /\ <<>> \in Seq(C)
  BY <1>1
<1>12. PICK r \in Seq(Seq(C)) : r = Append(p, <<b>>)
  BY <1>11, AppendProperties
<1>13. PICK s \in Seq(Seq(C)) : s = Append(r, <<>>)
  BY <1>11, AppendProperties
<1>14. q = Append(s, <<>>)
  <2>1. \A k \in 1..n : q[k] = p[k]
    BY <1>3, <1>4, <1>8, <1>9, <1>10 DEF Pieces
  <2>2. q[n + 1] = <<b>> /\ q[n + 2] = <<>> /\ q[n + 3] = <<>>
    BY <1>4, <1>7, <1>10 DEF Pieces
  <2>3. Len(r) = n + 1 /\ Len(s) = n + 2
    BY <1>9, <1>12, <1>13
  <2>4. /\ \A k \in 1..n : r[k] = p[k]
        /\ r[n + 1] = <<b>>
    BY <1>9, <1>11, <1>12, AppendProperties
  <2>5. /\ \A k \in 1..n + 1 : s[k] = r[k]
        /\ s[n + 2] = <<>>
    <3>1. (n + 1) + 1 = n + 2
      OBVIOUS
    <3> QED
      BY <1>11, <1>13, <2>3, <3>1, AppendProperties
  <2>6. PICK all \in Seq(Seq(C)) : all = Append(s, <<>>)
    BY <1>11, AppendProperties
  <2>7. /\ \A k \in 1..n + 2 : all[k] = s[k]
        /\ all[n + 3] = <<>> /\ Len(all) = n + 3
    <3>1. (n + 2) + 1 = n + 3
      OBVIOUS
    <3> QED
      BY <1>11, <1>13, <2>3, <2>6, <3>1, AppendProperties
  <2>8. ASSUME NEW k \in 1..n + 3 PROVE q[k] = all[k]
    <3>1. CASE k \in 1..n
      <4>1. k \in 1..n + 1 /\ k \in 1..n + 2
        BY <3>1
      <4>2. all[k] = s[k] /\ s[k] = r[k] /\ r[k] = p[k] /\ q[k] = p[k]
        BY <2>1, <2>4, <2>5, <2>7, <3>1, <4>1, Zenon
      <4> QED
        BY <4>2
    <3>2. CASE k = n + 1
      <4>1. n + 1 \in 1..n + 1 /\ n + 1 \in 1..n + 2
        OBVIOUS
      <4>2. all[n + 1] = s[n + 1] /\ s[n + 1] = r[n + 1]
        BY <2>5, <2>7, <4>1, Zenon
      <4> QED
        BY <2>2, <2>4, <3>2, <4>2
    <3>3. CASE k = n + 2
      <4>1. n + 2 \in 1..n + 2
        OBVIOUS
      <4>2. all[n + 2] = s[n + 2]
        BY <2>7, <4>1, Zenon
      <4> QED
        BY <2>2, <2>5, <3>3, <4>2
    <3>4. CASE k = n + 3
      BY <2>2, <2>7, <3>4
    <3>5. k \in 1..n \/ k = n + 1 \/ k = n + 2 \/ k = n + 3
      OBVIOUS
    <3> QED
      BY <3>1, <3>2, <3>3, <3>4, <3>5, Zenon
  <2> QED
    BY <1>10, <2>6, <2>7, <2>8, SeqEqual
<1>15. FlattenSeq(p) \in Seq(C) /\ FlattenSeq(r) = FlattenSeq(p) \o <<b>>
  BY <1>11, <1>12, FlattenSteps
<1>16. FlattenSeq(r) \in Seq(C) /\ FlattenSeq(s) = FlattenSeq(r) \o <<>>
  BY <1>11, <1>13, FlattenSteps
<1>17. FlattenSeq(s) \in Seq(C) /\ FlattenSeq(q) = FlattenSeq(s) \o <<>>
  BY <1>11, <1>14, FlattenSteps
<1>18. FlattenSeq(q) = FlattenSeq(p) \o <<b>>
  BY <1>15, <1>16, <1>17, ConcatEmptySeq
<1>19. FlattenSeq(p) \o <<b>> = Append(FlattenSeq(p), b)
  BY <1>1, <1>15
<1> QED
  BY <1>2, <1>5, <1>9, <1>10, <1>18, <1>19, <1>20 DEF Decoded

\* What pct makes of a byte.
Coding(b) == IF b \in DOMAIN Code THEN <<"%">> \o Code[b] ELSE <<b>>

\* What each byte of a text is encoded as.
Codings(text) == [k \in 1..Len(text) |-> Coding(text[k])]

\* These are texts.
LEMMA CodingsAreTexts ==
    ASSUME NEW C, ByteSet(C), NEW b \in C
    PROVE  Coding(b) \in Seq(C)
<1>1. CASE b \in DOMAIN Code
  <2>1. PICK d \in Digits, e \in Digits : Code[b] = <<d, e>>
    BY <1>1, CodesDiffer
  <2>2. d \in C /\ e \in C /\ "%" \in C
    BY Encodings DEF ByteSet
  <2>3. <<"%">> \in Seq(C)
    BY <2>2
  <2>4. Code[b] \in Seq(C)
    BY <2>1, <2>2
  <2>5. <<"%">> \o Code[b] \in Seq(C)
    BY <2>3, <2>4, ConcatProperties, Zenon
  <2> QED
    BY <1>1, <2>5 DEF Coding
<1>2. CASE b \notin DOMAIN Code
  BY <1>2 DEF Coding
<1> QED
  BY <1>1, <1>2

\* pct goes from byte to byte.
LEMMA PctSteps ==
    ASSUME NEW C, ByteSet(C), NEW t \in Seq(C)
    PROVE  /\ Pct(<<>>) = <<>>
           /\ Pct(t) \in Seq(C)
           /\ \A c \in C : Pct(Append(t, c)) = Pct(t) \o Coding(c)
<1>1. ASSUME NEW u \in Seq(C)
      PROVE  /\ Codings(u) \in Seq(Seq(C)) /\ Len(Codings(u)) = Len(u) /\ Pct(u) = FlattenSeq(Codings(u))
             /\ \A k \in 1..Len(u) : Codings(u)[k] = Coding(u[k])
  <2>1. ASSUME NEW k \in 1..Len(u) PROVE Coding(u[k]) \in Seq(C)
    <3>1. u[k] \in C
      BY ElementOfSeq
    <3> QED
      BY <3>1, CodingsAreTexts
  <2>2. Codings(u) \in Seq(Seq(C)) /\ Len(Codings(u)) = Len(u)
    BY <2>1 DEF Codings
  <2>3. Pct(u) = FlattenSeq(Codings(u))
    BY Zenon DEF Pct, Codings, Coding
  <2> QED
    BY <2>2, <2>3 DEF Codings
<1>2. Pct(<<>>) = <<>>
  <2>1. PICK none \in Seq(C) : none = <<>>
    BY EmptySeq
  <2>2. Len(Codings(none)) = 0 /\ Codings(none) \in Seq(Seq(C))
    BY <1>1, <2>1
  <2>3. Codings(none) = <<>>
    BY <2>2
  <2> QED
    BY <1>1, <2>1, <2>3, FlattenSteps
<1>3. Pct(t) \in Seq(C)
  BY <1>1, FlattenSteps
<1>4. ASSUME NEW c \in C PROVE Pct(Append(t, c)) = Pct(t) \o Coding(c)
  <2>1. PICK u \in Seq(C) : u = Append(t, c)
    BY AppendProperties
  <2>2. PICK n \in Nat : n = Len(t)
    OBVIOUS
  <2>3. Len(u) = n + 1 /\ u[n + 1] = c /\ \A k \in 1..n : u[k] = t[k]
    BY <2>1, <2>2
  <2>4. PICK p \in Seq(Seq(C)) : p = Codings(t) /\ Len(p) = n
    BY <1>1, <2>2
  <2>5. PICK q \in Seq(Seq(C)) : q = Codings(u) /\ Len(q) = n + 1
    BY <1>1, <2>3
  <2>6. PICK s \in Seq(C) : s = Coding(c)
    BY CodingsAreTexts
  <2>7. q = Append(p, s)
    <3>1. \A k \in 1..n : q[k] = p[k]
      BY <2>2, <2>3, <2>4, <2>5 DEF Codings
    <3>2. q[n + 1] = s
      BY <2>3, <2>5, <2>6 DEF Codings
    <3> QED
      BY <2>4, <2>5, <2>6, <3>1, <3>2
  <2>8. FlattenSeq(Append(p, s)) = FlattenSeq(p) \o s
    BY FlattenSteps
  <2> QED
    BY <1>1, <2>1, <2>4, <2>5, <2>6, <2>7, <2>8
<1> QED
  BY <1>2, <1>3, <1>4

\* Three texts one behind the other.
\* An encoded text to which text t has been added.
Adds(C, v, u, t) == v \in Seq(C) /\ Encoded(v) /\ Decoded(v) = Decoded(u) \o t

\* A byte more, encoded as pct does.
LEMMA DecodesCoding ==
    ASSUME NEW C, ByteSet(C), NEW u \in Seq(C), Encoded(u), NEW c \in C
    PROVE  LET v == u \o Coding(c)
           IN  v \in Seq(C) /\ Encoded(v) /\ Decoded(v) = Append(Decoded(u), c)
<1>1. CASE c \in DOMAIN Code
  <2>1. Coding(c) = <<"%">> \o Code[c]
    BY <1>1 DEF Coding
  <2>2. LET v == u \o (<<"%">> \o Code[c])
        IN  v \in Seq(C) /\ Encoded(v) /\ Decoded(v) = Append(Decoded(u), c)
    BY <1>1, DecodesCode
  <2> QED
    BY <2>1, <2>2
<1>2. CASE c \notin DOMAIN Code
  <2>1. Coding(c) = <<c>> /\ c # "%"
    BY <1>2, Encodings DEF Coding
  <2>2. u \o <<c>> = Append(u, c) /\ Append(u, c) \in Seq(C)
    BY AppendIsConcat, AppendProperties
  <2>3. Encoded(Append(u, c)) /\ Decoded(Append(u, c)) = Append(Decoded(u), c)
    BY <2>1, DecodesPlain
  <2> QED
    BY <2>1, <2>2, <2>3
<1> QED
  BY <1>1, <1>2

\* Behind an encoded text, percent decoding undoes pct.
LEMMA DecodesPct ==
    ASSUME NEW C, ByteSet(C), NEW u \in Seq(C), Encoded(u), NEW t \in Seq(C)
    PROVE  Adds(C, u \o Pct(t), u, t)
<1> DEFINE Good == {s \in Seq(C) : Adds(C, u \o Pct(s), u, s)}
<1>0. PICK d \in Seq(C) : d = Decoded(u)
  BY PiecesAreTexts
<1>1. <<>> \in Good
  <2>1. PICK none \in Seq(C) : none = <<>>
    BY EmptySeq
  <2>2. u \o Pct(none) = u /\ Decoded(u) \o none = Decoded(u)
    BY <1>0, <2>1, PctSteps, ConcatEmptySeq
  <2>3. Adds(C, u \o Pct(none), u, none)
    BY <2>2 DEF Adds
  <2> QED
    BY <2>1, <2>3
<1>2. ASSUME NEW s \in Seq(C), NEW c \in C, s \in Good PROVE Append(s, c) \in Good
  <2>1. PICK p \in Seq(C), q \in Seq(C) : p = Pct(s) /\ q = Coding(c)
    BY PctSteps, CodingsAreTexts
  <2>2. PICK v \in Seq(C) : v = u \o p /\ Encoded(v) /\ Decoded(v) = d \o s
    BY <1>0, <1>2, <2>1 DEF Adds
  <2>3. LET w == v \o Coding(c)
        IN  w \in Seq(C) /\ Encoded(w) /\ Decoded(w) = Append(Decoded(v), c)
    BY <2>2, DecodesCoding
  <2>4. PICK w \in Seq(C) : w = v \o q /\ Encoded(w) /\ Decoded(w) = Append(d \o s, c)
    BY <2>1, <2>2, <2>3
  <2>10. Append(s, c) \in Seq(C) /\ d \o Append(s, c) = Append(d \o s, c)
    BY ConcatAppend
  <2>5. PICK more \in Seq(C) : more = Append(s, c) /\ d \o more = Append(d \o s, c)
    BY <2>10
  <2>6. Pct(more) = p \o q
    BY <2>1, <2>5, PctSteps
  <2>7. u \o (p \o q) = (u \o p) \o q
    <3>1. Regroups(u, p, q)
      BY Regrouped, Zenon
    <3> QED
      BY <3>1 DEF Regroups
  <2>8. u \o Pct(more) = w
    BY <2>2, <2>4, <2>6, <2>7
  <2>9. Adds(C, u \o Pct(more), u, more)
    BY <1>0, <2>4, <2>5, <2>8 DEF Adds
  <2> QED
    BY <2>5, <2>9
<1> HIDE DEF Good
<1>3. Seq(C) \subseteq Good
  BY <1>1, <1>2, SeqInductive
<1> QED
  BY <1>3 DEF Good

\* The empty text, and a text without percent signs.
LEMMA DecodesNothing ==
    ASSUME NEW C PROVE <<>> \in Seq(C) /\ Encoded(<<>>) /\ Decoded(<<>>) = <<>>
<1>1. PICK none \in Seq(C) : none = <<>> /\ Len(none) = 0
  BY EmptySeq
<1>2. Encoded(none)
  BY <1>1 DEF Encoded
<1>3. Pieces(none) = <<>>
  <2>1. Pieces(none) \in Seq(C) /\ Len(Pieces(none)) = 0
    BY <1>1 DEF Pieces
  <2> QED
    BY <2>1
<1>4. FlattenSeq(<<>>) = <<>>
  BY DEF FlattenSeq
<1> QED
  BY <1>1, <1>2, <1>3, <1>4 DEF Decoded

\* A text without a percent sign is decoded to itself.
LEMMA DecodesRaw ==
    ASSUME NEW C, ByteSet(C), NEW t \in Seq(C), \A k \in 1..Len(t) : t[k] # "%"
    PROVE  Encoded(t) /\ Decoded(t) = t
<1> DEFINE Good == {s \in Seq(C) : (\A k \in 1..Len(s) : s[k] # "%") => Encoded(s) /\ Decoded(s) = s}
<1>1. <<>> \in Good
  BY DecodesNothing
<1>2. ASSUME NEW s \in Seq(C), NEW c \in C, s \in Good PROVE Append(s, c) \in Good
  <2>1. PICK v \in Seq(C) : v = Append(s, c)
    BY AppendProperties
  <2> SUFFICES ASSUME \A k \in 1..Len(v) : v[k] # "%" PROVE Encoded(v) /\ Decoded(v) = v
    BY <2>1
  <2>2. /\ Len(v) = Len(s) + 1 /\ Len(s) \in Nat
        /\ \A k \in 1..Len(s) : v[k] = s[k]
        /\ v[Len(s) + 1] = c
    BY <2>1
  <2>3. \A k \in 1..Len(s) : s[k] # "%"
    BY <2>2
  <2>4. c # "%"
    BY <2>2
  <2>5. Encoded(s) /\ Decoded(s) = s
    BY <1>2, <2>3
  <2> QED
    BY <2>1, <2>4, <2>5, DecodesPlain
<1> HIDE DEF Good
<1>3. Seq(C) \subseteq Good
  BY <1>1, <1>2, SeqInductive
<1> QED
  BY <1>3 DEF Good

\* Where the elements of two sequences are in the one behind the other.
\* A text in which no character is cut.
Paired(t) == \A k \in 1..Len(t) :
    /\ t[k] = "e1" => k < Len(t) /\ t[k + 1] = "e2"
    /\ t[k] = "e2" => k > 1 /\ t[k - 1] = "e1"

\* It is not replaced.
LEMMA LossyKeeps ==
    ASSUME NEW C, NEW t \in Seq(C), Paired(t)
    PROVE  Lossy(t) = t
<1>1. ASSUME NEW k \in 1..Len(t)
      PROVE  (IF \/ t[k] = "e1" /\ (k = Len(t) \/ t[k + 1] # "e2")
                 \/ t[k] = "e2" /\ (k = 1 \/ t[k - 1] # "e1")
              THEN "?" ELSE t[k]) = t[k]
  BY DEF Paired
<1>2. Lossy(t) = [k \in 1..Len(t) |-> t[k]]
  BY <1>1, Zenon DEF Lossy
<1>3. t = [k \in 1..Len(t) |-> t[k]]
  OBVIOUS
<1> QED
  BY <1>2, <1>3

\* Two such texts make one.
LEMMA PairedConcat ==
    ASSUME NEW C, NEW s \in Seq(C), NEW t \in Seq(C), Paired(s), Paired(t)
    PROVE  Paired(s \o t)
<1>1. PICK m \in Nat, n \in Nat : m = Len(s) /\ n = Len(t)
  OBVIOUS
<1>2. PICK v \in Seq(C) : v = s \o t /\ Len(v) = m + n
  BY <1>1, ConcatProperties
<1>3. (\A k \in 1..m : v[k] = s[k]) /\ (\A k \in m + 1..m + n : v[k] = t[k - m])
  BY <1>1, <1>2
<1> SUFFICES ASSUME NEW k \in 1..m + n
             PROVE  /\ v[k] = "e1" => k < m + n /\ v[k + 1] = "e2"
                    /\ v[k] = "e2" => k > 1 /\ v[k - 1] = "e1"
  BY <1>2 DEF Paired
<1>4. CASE k \in 1..m
  <2>1. /\ s[k] = "e1" => k < m /\ s[k + 1] = "e2"
        /\ s[k] = "e2" => k > 1 /\ s[k - 1] = "e1"
    BY <1>1, <1>4 DEF Paired
  <2>2. v[k] = s[k] /\ (k < m => v[k + 1] = s[k + 1]) /\ (k > 1 => v[k - 1] = s[k - 1])
    BY <1>3, <1>4
  <2> QED
    BY <2>1, <2>2
<1>5. CASE k \in m + 1..m + n
  <2>1. k - m \in 1..n
    BY <1>5
  <2>2. /\ t[k - m] = "e1" => k - m < n /\ t[(k - m) + 1] = "e2"
        /\ t[k - m] = "e2" => k - m > 1 /\ t[(k - m) - 1] = "e1"
    BY <1>1, <2>1 DEF Paired
  <2>3. /\ v[k] = t[k - m]
        /\ k - m < n => v[k + 1] = t[(k - m) + 1]
        /\ k - m > 1 => v[k - 1] = t[(k - m) - 1]
    <3>1. k - m < n => k + 1 \in m + 1..m + n /\ (k + 1) - m = (k - m) + 1
      BY <2>1
    <3>2. k - m > 1 => k - 1 \in m + 1..m + n /\ (k - 1) - m = (k - m) - 1
      BY <2>1
    <3>3. v[k] = t[k - m]
      BY <1>3, <1>5
    <3>4. k - m < n => v[k + 1] = t[(k - m) + 1]
      BY <1>3, <3>1
    <3>5. k - m > 1 => v[k - 1] = t[(k - m) - 1]
      BY <1>3, <3>2
    <3> QED
      BY <3>3, <3>4, <3>5
  <2> QED
    BY <2>1, <2>2, <2>3
<1> QED
  BY <1>4, <1>5

\* A byte that is no half of a character is such a text.
LEMMA PairedByte ==
    ASSUME NEW c, c \notin {"e1", "e2"} PROVE Paired(<<c>>)
  BY DEF Paired

\* A text with a separator is split at the first.
LEMMA SplitAt ==
    ASSUME NEW C, NEW s \in Seq(C), NEW sep \in C, \A k \in 1..Len(s) : s[k] # sep, NEW t \in Seq(C)
    PROVE  LET v == (s \o <<sep>>) \o t
           IN  Splits(v, sep) /\ Before(v, sep) = s /\ Behind(v, sep) = t
<1>1. PICK m \in Nat, n \in Nat : m = Len(s) /\ n = Len(t)
  OBVIOUS
<1>2. PICK u \in Seq(C) : u = Append(s, sep) /\ u = s \o <<sep>>
  BY AppendProperties, AppendIsConcat
<1>3. Len(u) = m + 1 /\ u[m + 1] = sep /\ \A k \in 1..m : u[k] = s[k]
  BY <1>1, <1>2
<1>13. PICK v \in Seq(C) : Joins(v, u, t)
  BY Concatenation
<1>4. v = u \o t /\ Len(v) = m + 1 + n
  BY <1>1, <1>3, <1>13 DEF Joins
<1>5. /\ \A k \in 1..m + 1 : v[k] = u[k]
      /\ \A k \in 1..n : v[m + 1 + k] = t[k]
  BY <1>1, <1>3, <1>13 DEF Joins
<1>6. v[m + 1] = sep /\ \A k \in 1..m : v[k] # sep /\ v[k] = s[k]
  BY <1>1, <1>3, <1>5
<1>7. m + 1 \in 1..Len(v)
  BY <1>4
<1>8. SelectInSeq(v, LAMBDA b : b = sep) = m + 1
  <2> DEFINE I == {i \in 1..Len(v) : v[i] = sep}
  <2>1. m + 1 \in I /\ \A i \in I : m + 1 <= i
    BY <1>4, <1>6, <1>7
  <2>2. \A i \in I : (\A j \in I : i <= j) => i = m + 1
    BY <2>1
  <2>3. I # {} /\ SelectInSeq(v, LAMBDA b : b = sep) = Min(I)
    BY <2>1 DEF SelectInSeq
  <2> HIDE DEF I
  <2>4. Min(I) = m + 1
    BY <2>1, <2>2 DEF Min
  <2> QED
    BY <2>3, <2>4
<1>9. Splits(v, sep)
  BY <1>6, <1>7 DEF Splits, ToSet
<1>10. Before(v, sep) = s
  <2>1. Before(v, sep) = SubSeq(v, 1, m)
    <3>1. (m + 1) - 1 = m
      OBVIOUS
    <3> QED
      BY <1>8, <3>1 DEF Before
  <2>2. m \in 0..Len(v)
    BY <1>4
  <2>3. /\ SubSeq(v, 1, m) \in Seq(C) /\ Len(SubSeq(v, 1, m)) = m
        /\ \A k \in 1..m : SubSeq(v, 1, m)[k] = v[k]
    BY <2>2, FirstElements
  <2>4. SubSeq(v, 1, m) = s
    BY <1>1, <1>6, <2>3, SeqEqual
  <2> QED
    BY <2>1, <2>4
<1>11. Behind(v, sep) = t
  <2>1. Behind(v, sep) = SubSeq(v, m + 2, m + 1 + n)
    <3>1. (m + 1) + 1 = m + 2
      OBVIOUS
    <3> QED
      BY <1>4, <1>8, <3>1 DEF Behind
  <2>4. \A k \in m + 2..m + 1 + n : v[k] \in C
    BY <1>4, ElementOfSeq
  <2>5. m + 2 \in Int /\ m + 1 + n \in Int
    OBVIOUS
  <2>6. /\ SubSeq(v, m + 2, m + 1 + n) \in Seq(C)
        /\ Len(SubSeq(v, m + 2, m + 1 + n)) =
              IF m + 2 <= m + 1 + n THEN (m + 1 + n) - (m + 2) + 1 ELSE 0
        /\ \A k \in 1..(m + 1 + n) - (m + 2) + 1 :
              SubSeq(v, m + 2, m + 1 + n)[k] = v[(m + 2) + k - 1]
    BY <2>4, <2>5, SubSeqProperties
  <2>2. PICK r \in Seq(C) : r = SubSeq(v, m + 2, m + 1 + n) /\ Len(r) = n
                            /\ \A k \in 1..n : r[k] = v[m + 1 + k]
    <3>1. (m + 1 + n) - (m + 2) + 1 = n
      OBVIOUS
    <3>2. Len(SubSeq(v, m + 2, m + 1 + n)) = n
      BY <2>6, <3>1
    <3>3. \A k \in 1..n : (m + 2) + k - 1 = m + 1 + k
      OBVIOUS
    <3>4. \A k \in 1..n : SubSeq(v, m + 2, m + 1 + n)[k] = v[m + 1 + k]
      BY <2>6, <3>1, <3>3
    <3> QED
      BY <2>6, <3>2, <3>4
  <2>3. r = t
    <3>1. \A k \in 1..n : r[k] = t[k]
      BY <1>5, <2>2
    <3> QED
      BY <1>1, <2>2, <3>1, SeqEqual
  <2> QED
    BY <2>1, <2>2, <2>3
<1> QED
  BY <1>2, <1>4, <1>9, <1>10, <1>11

\* An element in front of a sequence.
LEMMA InFront ==
    ASSUME NEW C, NEW c \in C, NEW r \in Seq(C)
    PROVE  LET path == <<c>> \o r
           IN  path \in Seq(C) /\ path # <<>> /\ Head(path) = c /\ Tail(path) = r
<1>1. PICK one \in Seq(C) : one = <<c>> /\ Len(one) = 1 /\ one[1] = c
  BY Single
<1>2. PICK path \in Seq(C) : Joins(path, one, r)
  BY Concatenation
<1>3. /\ path = one \o r /\ Len(path) = Len(one) + Len(r)
      /\ \A k \in 1..Len(one) : path[k] = one[k]
      /\ \A k \in 1..Len(r) : path[Len(one) + k] = r[k]
  BY <1>2 DEF Joins
<1>4. path # <<>> /\ Head(path) = c
  BY <1>1, <1>3
<1>5. /\ Tail(path) \in Seq(C) /\ Len(Tail(path)) = Len(r)
      /\ \A k \in 1..Len(r) : Tail(path)[k] = path[k + 1]
  <2>1. Len(path) - 1 = Len(r)
    BY <1>1, <1>3
  <2> QED
    BY <1>4, <2>1, HeadTailProperties
<1>6. \A k \in 1..Len(r) : Tail(path)[k] = r[k]
  BY <1>1, <1>3, <1>5
<1>7. Tail(path) = r
  BY <1>5, <1>6, SeqEqual
<1> QED
  BY <1>1, <1>3, <1>4, <1>7

\* parse_filename, of a path in the form of IRIS and in the plain form.
LEMMA ParsesPiped ==
    ASSUME NEW C, "|" \in C, NEW ns \in Seq(C), \A k \in 1..Len(ns) : ns[k] # "|", NEW doc \in Seq(C)
    PROVE  LET path == <<"|">> \o ((ns \o <<"|">>) \o doc)
           IN  path \in Seq(C) /\ ParsePath(path) = Place(ns, doc)
<1>1. PICK one \in Seq(C) : one = <<"|">> /\ Len(one) = 1 /\ one[1] = "|"
  BY Single
<1>2. PICK a \in Seq(C) : Joins(a, ns, one)
  BY Concatenation
<1>3. PICK r \in Seq(C) : Joins(r, a, doc)
  BY Concatenation
<1>4. r = (ns \o one) \o doc
  BY <1>2, <1>3 DEF Joins
<1>5. PICK path \in Seq(C) : path = <<"|">> \o r /\ path # <<>> /\ Head(path) = "|" /\ Tail(path) = r
  BY InFront
<1>6. Splits(r, "|") /\ Before(r, "|") = ns /\ Behind(r, "|") = doc
  BY <1>1, <1>4, SplitAt
<1>7. ParsePath(path) = Place(ns, doc)
  BY <1>5, <1>6 DEF ParsePath
<1> QED
  BY <1>1, <1>4, <1>5, <1>7

\* parse_filename takes "ns:doc" apart.
LEMMA ParsesPlain ==
    ASSUME NEW C, ":" \in C, NEW ns \in Seq(C), ns # <<>>, Head(ns) # "|",
           \A k \in 1..Len(ns) : ns[k] # ":", NEW doc \in Seq(C)
    PROVE  LET path == (ns \o <<":">>) \o doc
           IN  path \in Seq(C) /\ path # <<>> /\ Head(path) = Head(ns) /\ ParsePath(path) = Place(ns, doc)
<1>7. PICK one \in Seq(C) : one = <<":">> /\ Len(one) = 1
  BY Single
<1>8. PICK r \in Seq(C) : Joins(r, ns, one)
  BY Concatenation
<1>9. PICK path \in Seq(C) : Joins(path, r, doc)
  BY Concatenation
<1>1. r = ns \o one /\ Len(r) = Len(ns) + Len(one) /\ \A k \in 1..Len(ns) : r[k] = ns[k]
  BY <1>8 DEF Joins
<1>2. path = r \o doc /\ Len(path) = Len(r) + Len(doc) /\ \A k \in 1..Len(r) : path[k] = r[k]
  BY <1>9 DEF Joins
<1>4. path # <<>> /\ Head(path) = Head(ns)
  <2>1. Len(ns) \in Nat /\ Len(doc) \in Nat /\ Len(ns) >= 1
    OBVIOUS
  <2>2. 1 \in 1..Len(ns) /\ 1 \in 1..Len(r) /\ Len(path) >= 1
    BY <1>1, <1>2, <1>7, <2>1
  <2>3. path[1] = ns[1]
    BY <1>1, <1>2, <2>2
  <2> QED
    BY <2>2, <2>3
<1>5. Splits(path, ":") /\ Before(path, ":") = ns /\ Behind(path, ":") = doc
  BY <1>1, <1>2, <1>7, SplitAt
<1>6. ParsePath(path) = Place(ns, doc)
  BY <1>4, <1>5 DEF ParsePath
<1> QED
  BY <1>1, <1>2, <1>4, <1>6, <1>7

\* Percent decoding undoes the encoding, if no character is cut.
LEMMA DecodesTo ==
    ASSUME NEW C, ByteSet(C), NEW raw \in Seq(C), Encoded(raw), Paired(Decoded(raw))
    PROVE  PercentDecode(raw) = Decoded(raw) /\ Decoded(raw) \in Seq(C)
<1>1. PICK t \in Seq(C) : t = Decoded(raw)
  BY PiecesAreTexts
<1>2. Lossy(t) = t
  BY <1>1, LossyKeeps
<1> QED
  BY <1>1, <1>2, DecodesPieces

\* parse_filename strips the scheme.
LEMMA ParsesScheme ==
    ASSUME NEW C, ByteSet(C), "dbgp" \in C, Unread \notin Seq(C),
           NEW raw \in Seq(C), Encoded(raw), NEW path \in Seq(C), Paired(path),
           Decoded(raw) = <<"dbgp">> \o path
    PROVE  ParseFilename(raw) = ParsePath(path)
<1>1. PICK one \in Seq(C) : one = <<"dbgp">>
  BY Single
<1>2. Paired(one)
  BY <1>1, PairedByte
<1>3. Paired(one \o path)
  BY <1>2, PairedConcat
<1>4. PercentDecode(raw) = one \o path /\ one \o path \in Seq(C)
  BY <1>1, <1>3, DecodesTo
<1>5. LET p == <<"dbgp">> \o path
      IN  p \in Seq(C) /\ p # <<>> /\ Head(p) = "dbgp" /\ Tail(p) = path
  BY InFront
<1> QED
  BY <1>1, <1>4, <1>5 DEF ParseFilename

\* Namespace and document as IRIS puts them, without cut characters.
LEMMA PipedPath ==
    ASSUME NEW C, "|" \in C, NEW ns \in Seq(C), NEW doc \in Seq(C), Paired(ns), Paired(doc)
    PROVE  LET path == <<"|">> \o ((ns \o <<"|">>) \o doc)
           IN  path \in Seq(C) /\ Paired(path)
<1>1. PICK one \in Seq(C) : one = <<"|">>
  BY Single
<1>2. Paired(one)
  BY <1>1, PairedByte
<1>3. PICK a \in Seq(C) : a = ns \o one /\ Paired(a)
  <2>1. PICK a \in Seq(C) : Joins(a, ns, one)
    BY Concatenation
  <2>2. Paired(ns \o one)
    BY <1>2, PairedConcat
  <2> QED
    BY <2>1, <2>2 DEF Joins
<1>4. PICK b \in Seq(C) : b = a \o doc /\ Paired(b)
  <2>1. PICK b \in Seq(C) : Joins(b, a, doc)
    BY Concatenation
  <2>2. Paired(a \o doc)
    BY <1>3, PairedConcat
  <2> QED
    BY <2>1, <2>2 DEF Joins
<1>5. PICK p \in Seq(C) : p = one \o b /\ Paired(p)
  <2>1. PICK p \in Seq(C) : Joins(p, one, b)
    BY Concatenation
  <2>2. Paired(one \o b)
    BY <1>2, <1>4, PairedConcat
  <2> QED
    BY <2>1, <2>2 DEF Joins
<1> QED
  BY <1>1, <1>3, <1>4, <1>5

\* The two ways in which a URI is put together.
Groups(two, one, ns, doc) ==
    (((two \o one) \o ns) \o one) \o doc = two \o (one \o ((ns \o one) \o doc))

\* The text of a URI, put together in the one order or the other.
LEMMA UriGrouped ==
    ASSUME NEW C, NEW two \in Seq(C), NEW one \in Seq(C), NEW ns \in Seq(C), NEW doc \in Seq(C)
    PROVE  Groups(two, one, ns, doc)
<1>1. PICK a \in Seq(C), b \in Seq(C), c \in Seq(C) : a = two \o one /\ b = ns \o one /\ c = b \o doc
  <2>1. PICK a \in Seq(C) : Joins(a, two, one)
    BY Concatenation
  <2>2. PICK b \in Seq(C) : Joins(b, ns, one)
    BY Concatenation
  <2>3. PICK c \in Seq(C) : Joins(c, b, doc)
    BY Concatenation
  <2> QED
    BY <2>1, <2>2, <2>3 DEF Joins
<1>2. PICK d \in Seq(C) : d = a \o ns
  <2>1. PICK d \in Seq(C) : Joins(d, a, ns)
    BY Concatenation
  <2> QED
    BY <2>1 DEF Joins
<1>3. Regroups(a, ns, one) /\ Regroups(a, b, doc) /\ Regroups(two, one, c)
  BY Regrouped
<1>4. a \o b = d \o one /\ a \o c = (a \o b) \o doc /\ two \o (one \o c) = a \o c
  BY <1>1, <1>2, <1>3 DEF Regroups
<1> QED
  BY <1>1, <1>2, <1>4 DEF Groups

\* A namespace has no separator, and the scheme is none.
IsNamespace(ns) == /\ ns # <<>> /\ Head(ns) # "dbgp"
                   /\ \A k \in 1..Len(ns) : ns[k] # "|" /\ ns[k] # ":"

\* Where a document is, is read back from each form it is reported in.
THEOREM LocationsReadBack ==
    ASSUME NEW C, ByteSet(C), "dbgp" \in C, Unread \notin Seq(C),
           NEW ns \in Seq(C), IsNamespace(ns), Paired(ns), NEW doc \in Seq(C), Paired(doc),
           NEW form \in {"uri", "encoded", "plain"}
    PROVE  ReadBackAs(ns, doc, form, ParseFilename(Reported(ns, doc, form)))
<1> DEFINE path == <<"|">> \o ((ns \o <<"|">>) \o doc)
<1>0. "|" \in C /\ ":" \in C /\ "%" \in C
  BY Encodings DEF ByteSet
<1>1. path \in Seq(C) /\ Paired(path)
  BY <1>0, PipedPath
<1>2. ParsePath(path) = Place(ns, doc)
  BY <1>0, ParsesPiped DEF IsNamespace
<1>3. PICK one \in Seq(C), two \in Seq(C) : one = <<"|">> /\ two = <<"dbgp">>
  BY <1>0, Single
<1>4. ASSUME form = "uri"
      PROVE  ParseFilename(Reported(ns, doc, form)) = Place(ns, doc)
  <2>1. PICK u \in Seq(C) : u = two \o one /\ u = <<"dbgp", "|">> /\ Encoded(u) /\ Decoded(u) = u
    <3>1. PICK u \in Seq(C) : Joins(u, two, one)
      BY Concatenation
    <3>2. Len(u) = 2 /\ u[1] = "dbgp" /\ u[2] = "|" /\ u = two \o one
      BY <1>3, <3>1 DEF Joins
    <3>3. u = <<"dbgp", "|">>
      <4>1. PICK w \in Seq(C) : w = <<"dbgp", "|">> /\ Len(w) = 2 /\ w[1] = "dbgp" /\ w[2] = "|"
        <5>1. PICK x \in C, y \in C : x = "dbgp" /\ y = "|"
          BY <1>0
        <5>2. <<x, y>> \in Seq(C) /\ Len(<<x, y>>) = 2 /\ <<x, y>>[1] = x /\ <<x, y>>[2] = y
          BY Double
        <5> QED
          BY <5>1, <5>2, Zenon
      <4>2. Len(w) = 2 /\ w[1] = "dbgp" /\ w[2] = "|"
        BY <4>1
      <4>3. \A k \in 1..2 : u[k] = w[k]
        BY <3>2, <4>2
      <4> QED
        BY <3>2, <4>1, <4>2, <4>3, SeqEqual
    <3>4. \A k \in 1..Len(u) : u[k] # "%"
      BY <3>2
    <3>5. Encoded(u) /\ Decoded(u) = u
      BY <3>4, DecodesRaw
    <3> QED
      BY <3>2, <3>3, <3>5
  <2>2. PICK a \in Seq(C) : a = u \o Pct(ns) /\ Encoded(a) /\ Decoded(a) = u \o ns
    BY <2>1, DecodesPct DEF Adds
  <2>3. a \o <<"|">> = Append(a, "|") /\ Append(a, "|") \in Seq(C)
    BY <1>0, AppendIsConcat, AppendProperties
  <2>4. Encoded(Append(a, "|")) /\ Decoded(Append(a, "|")) = Append(Decoded(a), "|")
    BY <1>0, <2>2, DecodesPlain
  <2>5. PICK b \in Seq(C) : b = a \o <<"|">> /\ Encoded(b) /\ Decoded(b) = Append(u \o ns, "|")
    BY <2>2, <2>3, <2>4
  <2>6. PICK c \in Seq(C) : c = b \o Pct(doc) /\ Encoded(c) /\ Decoded(c) = Append(u \o ns, "|") \o doc
    BY <2>5, DecodesPct DEF Adds
  <2>7. PICK d \in Seq(C) : d = u \o ns
    BY Concatenation DEF Joins
  <2>8. Append(d, "|") = d \o one
    BY <1>0, <1>3, AppendIsConcat
  <2>9. Decoded(c) = (((two \o one) \o ns) \o one) \o doc
    BY <2>1, <2>6, <2>7, <2>8
  <2>10. Decoded(c) = <<"dbgp">> \o path
    <3>1. Groups(two, one, ns, doc)
      BY UriGrouped
    <3>2. path = one \o ((ns \o one) \o doc)
      BY <1>3
    <3> HIDE DEF path
    <3> QED
      BY <1>3, <2>9, <3>1, <3>2 DEF Groups
  <2>11. Reported(ns, doc, form) = c
    BY <1>4, <2>1, <2>2, <2>5, <2>6 DEF Reported, BpFileUri
  <2> HIDE DEF path
  <2>12. ParseFilename(c) = ParsePath(path)
    BY <1>1, <2>6, <2>10, ParsesScheme
  <2> QED
    BY <1>2, <2>11, <2>12
<1>5. ASSUME form = "encoded"
      PROVE  ParseFilename(Reported(ns, doc, form)) = Place(ns, doc)
  <2>1. Encoded(two) /\ Decoded(two) = two
    <3>1. Len(two) = 1 /\ two[1] = "dbgp"
      BY <1>3
    <3> QED
      BY <3>1, DecodesRaw
  <2>2. (<<"|">> \o ns \o <<"|">>) \o doc = path
    <3>1. PICK a \in Seq(C), b \in Seq(C) : a = one \o ns /\ b = ns \o one
      <4>1. PICK a \in Seq(C) : Joins(a, one, ns)
        BY Concatenation
      <4>2. PICK b \in Seq(C) : Joins(b, ns, one)
        BY Concatenation
      <4> QED
        BY <4>1, <4>2 DEF Joins
    <3>2. Regroups(one, ns, one) /\ Regroups(one, b, doc)
      BY Regrouped
    <3> QED
      BY <1>3, <3>1, <3>2 DEF Regroups
  <2> HIDE DEF path
  <2>3. PICK v \in Seq(C) : v = two \o Pct(path) /\ Encoded(v) /\ Decoded(v) = two \o path
    BY <1>1, <2>1, DecodesPct DEF Adds
  <2>4. Reported(ns, doc, form) = v
    BY <1>3, <1>5, <2>2, <2>3 DEF Reported
  <2>5. ParseFilename(v) = ParsePath(path)
    BY <1>1, <1>3, <2>3, ParsesScheme
  <2> QED
    BY <1>2, <2>4, <2>5
<1>6. ASSUME form = "plain", "%" \notin ToSet(ns \o doc)
      PROVE  ParseFilename(Reported(ns, doc, form)) = Place(ns, doc)
  <2>3. PICK mid \in Seq(C) : mid = <<":">> /\ Len(mid) = 1 /\ mid[1] = ":"
    BY <1>0, Single
  <2>4. PICK a \in Seq(C) : Joins(a, ns, mid)
    BY Concatenation
  <2>5. PICK b \in Seq(C) : Joins(b, a, doc)
    BY Concatenation
  <2>1. PICK v \in Seq(C) : v = (ns \o <<":">>) \o doc
    BY <2>3, <2>4, <2>5 DEF Joins
  <2>2. v # <<>> /\ Head(v) = Head(ns) /\ ParsePath(v) = Place(ns, doc)
    <3>1. Head(ns) # "|"
      <4>1. 1 \in 1..Len(ns)
        BY DEF IsNamespace
      <4> QED
        BY <4>1 DEF IsNamespace
    <3> QED
      BY <1>0, <2>1, <3>1, ParsesPlain DEF IsNamespace
  <2>6. v = b
    BY <2>1, <2>3, <2>4, <2>5 DEF Joins
  <2>7. Paired(v)
    <3>1. Paired(mid)
      BY <2>3, PairedByte
    <3>2. Paired(ns \o mid)
      BY <3>1, PairedConcat
    <3>3. Paired(a)
      BY <2>4, <3>2 DEF Joins
    <3>4. Paired(a \o doc)
      BY <3>3, PairedConcat
    <3> QED
      BY <2>5, <2>6, <3>4 DEF Joins
  <2>8. \A k \in 1..Len(v) : v[k] # "%"
    <3>1. PICK c \in Seq(C) : Joins(c, ns, doc)
      BY Concatenation
    <3>2. \A k \in 1..Len(c) : c[k] # "%"
      <4>1. c = ns \o doc
        BY <3>1 DEF Joins
      <4>2. ToSet(c) = {c[k] : k \in 1..Len(c)}
        BY DEF ToSet
      <4> QED
        BY <1>6, <4>1, <4>2
    <3>3. PICK m \in Nat, n \in Nat : m = Len(ns) /\ n = Len(doc)
      OBVIOUS
    <3>4. ASSUME NEW k \in 1..m PROVE ns[k] # "%"
      <4>1. k \in 1..Len(c)
        BY <3>1, <3>3 DEF Joins
      <4> QED
        BY <3>1, <3>2, <3>3, <4>1 DEF Joins
    <3>5. ASSUME NEW k \in 1..n PROVE doc[k] # "%"
      <4>1. m + k \in 1..Len(c)
        BY <3>1, <3>3 DEF Joins
      <4>2. c[m + k] = doc[k]
        BY <3>1, <3>3 DEF Joins
      <4> QED
        BY <3>2, <4>1, <4>2
    <3>6. Len(a) = m + 1 /\ Len(v) = (m + 1) + n
      BY <2>3, <2>4, <2>5, <2>6, <3>3 DEF Joins
    <3>7. ASSUME NEW k \in 1..m + 1 PROVE a[k] # "%"
      <4>1. CASE k \in 1..m
        BY <2>4, <3>3, <3>4, <4>1 DEF Joins
      <4>2. CASE k = m + 1
        <5>1. 1 \in 1..Len(mid) /\ a[m + 1] = mid[1]
          BY <2>3, <2>4, <3>3 DEF Joins
        <5> QED
          BY <2>3, <4>2, <5>1
      <4> QED
        BY <4>1, <4>2
    <3> SUFFICES ASSUME NEW k \in 1..(m + 1) + n PROVE v[k] # "%"
      BY <3>6
    <3>8. CASE k \in 1..m + 1
      BY <2>5, <2>6, <3>6, <3>7, <3>8 DEF Joins
    <3>9. CASE k \notin 1..m + 1
      <4>1. PICK j \in 1..n : k = (m + 1) + j
        <5>1. k - (m + 1) \in 1..n /\ k = (m + 1) + (k - (m + 1))
          BY <3>9
        <5> QED
          BY <5>1
      <4>2. b[(m + 1) + j] = doc[j]
        BY <2>5, <3>3, <3>6 DEF Joins
      <4> QED
        BY <2>6, <3>5, <4>1, <4>2
    <3> QED
      BY <3>8, <3>9
  <2>9. Encoded(v) /\ Decoded(v) = v
    BY <2>8, DecodesRaw
  <2>10. PercentDecode(v) = v
    BY <2>7, <2>9, DecodesTo
  <2>11. ParseFilename(v) = ParsePath(v)
    BY <2>2, <2>10 DEF ParseFilename, IsNamespace
  <2>12. Reported(ns, doc, form) = v
    BY <1>6, <2>1 DEF Reported
  <2> QED
    BY <2>2, <2>11, <2>12
<1> QED
  BY <1>4, <1>5, <1>6 DEF ReadBackAs

\* A break is shown with the variables of its innermost frame, which is the frame of
\* the place it is shown at exactly if IRIS lists that one first.
THEOREM BreakAtFrame ==
    ASSUME NEW levels \in Seq(Nat \cup {Unnamed})
    PROVE  SameFrame(levels, BreakContext(levels))
<1> DEFINE Level(k) == IF levels[k] \in {Unnamed, 0} THEN 1 ELSE levels[k]
           Raw(k) == IF levels[k] = Unnamed THEN 1 ELSE levels[k]
           all == {Raw(k) : k \in 1..Len(levels)}
           lowest == CHOOSE n \in all : \A k \in 1..Len(levels) : n <= Raw(k)
           level == IF lowest < 1 THEN 1 ELSE lowest
<1> SUFFICES ASSUME levels # <<>>
             PROVE  /\ \A k \in 1..Len(levels) : BreakContext(levels).level <= Level(k)
                    /\ BreakContext(levels).level = Level(BreakContext(levels).place)
                           <=> \A k \in 1..Len(levels) : Level(1) <= Level(k)
  BY DEF SameFrame
<1>1. 1 \in 1..Len(levels) /\ Len(levels) \in Nat
  BY EmptySeq
<1>2. \A k \in 1..Len(levels) :
         /\ Raw(k) \in Nat /\ Level(k) \in Nat
         /\ Level(k) = IF Raw(k) < 1 THEN 1 ELSE Raw(k)
  <2> SUFFICES ASSUME NEW k \in 1..Len(levels)
               PROVE  /\ Raw(k) \in Nat /\ Level(k) \in Nat
                      /\ Level(k) = IF Raw(k) < 1 THEN 1 ELSE Raw(k)
    OBVIOUS
  <2>1. levels[k] \in Nat \cup {Unnamed}
    OBVIOUS
  <2>2. CASE levels[k] = Unnamed
    BY <2>2
  <2>3. CASE levels[k] # Unnamed
    <3>1. levels[k] \in Nat
      BY <2>1, <2>3
    <3> QED
      BY <2>3, <3>1
  <2> QED
    BY <2>2, <2>3
<1>3. BreakContext(levels) = [place |-> 1, level |-> level]
  <2>1. BreakContext(levels) = [place |-> IF levels = <<>> THEN 0 ELSE 1,
                                level |-> IF levels = <<>> \/ lowest < 1 THEN 1 ELSE lowest]
    BY DEF BreakContext
  <2> HIDE DEF lowest
  <2> QED
    BY <2>1
<1> HIDE DEF Raw, Level
<1>4. lowest \in all /\ \A k \in 1..Len(levels) : lowest <= Raw(k)
  <2>1. all \in SUBSET Nat /\ all # {}
    BY <1>1, <1>2
  <2>2. PICK n \in all : \A m \in all : n <= m
    BY <2>1, LeastNatural
  <2>3. \A k \in 1..Len(levels) : n <= Raw(k)
    BY <2>2
  <2> QED
    BY <2>2, <2>3
<1>5. PICK at \in 1..Len(levels) : lowest = Raw(at)
  BY <1>4
<1> HIDE DEF lowest, all
<1>6. level = Level(at) /\ level \in Nat
  BY <1>2, <1>5
<1>7. \A k \in 1..Len(levels) : level <= Level(k)
  <2> SUFFICES ASSUME NEW k \in 1..Len(levels) PROVE level <= Level(k)
    OBVIOUS
  <2>1. lowest <= Raw(k) /\ lowest \in Nat /\ Raw(k) \in Nat
    BY <1>2, <1>4, <1>5
  <2> QED
    BY <1>2, <2>1
<1> HIDE DEF level
<1>8. level = Level(1) <=> \A k \in 1..Len(levels) : Level(1) <= Level(k)
  <2>1. ASSUME \A k \in 1..Len(levels) : Level(1) <= Level(k) PROVE level = Level(1)
    <3>1. Level(1) <= level /\ level <= Level(1) /\ Level(1) \in Nat
      BY <1>1, <1>2, <1>6, <1>7, <2>1
    <3> QED
      BY <1>6, <3>1
  <2> QED
    BY <1>7, <2>1
<1> QED
  BY <1>3, <1>7, <1>8

\* A start that succeeds has set what it was asked for.
THEOREM BreakpointsAreSet ==
    ASSUME NEW C, "entry" \notin C, NEW asked \in Seq(C), NEW entry \in BOOLEAN, NEW method \in BOOLEAN,
           NEW replies
    PROVE  AllSet(asked, entry, method, replies, StartInner(asked, entry, method, replies))
<1> DEFINE more == IF entry /\ method THEN <<"entry">> ELSE <<>>
           wanted == asked \o more
           failed == {k \in 1..Len(wanted) :
                         replies[k] # "set" /\ (replies[k] = "unmapped" => wanted[k] # "entry")}
           got == {k \in 1..Len(wanted) : replies[k] = "set"}
           a == StartInner(asked, entry, method, replies)
           All == C \cup {"entry"}
<1>1. PICK n \in Nat : n = Len(asked)
  BY LenProperties
<1>2. PICK m \in 0..1 : more \in Seq(All) /\ m = Len(more) /\ (m = 1 <=> entry /\ method)
                        /\ (m = 1 => more[1] = "entry")
  <2>1. CASE entry /\ method
    <3>1. more = <<"entry">>
      BY <2>1
    <3>2. <<"entry">> \in Seq(All) /\ Len(<<"entry">>) = 1 /\ <<"entry">>[1] = "entry"
      BY Single
    <3> QED
      BY <2>1, <3>1, <3>2
  <2>2. CASE ~(entry /\ method)
    <3>1. more = <<>>
      BY <2>2
    <3> QED
      BY <2>2, <3>1
  <2> QED
    BY <2>1, <2>2
<1>3. asked \in Seq(All)
  OBVIOUS
<1> HIDE DEF more
<1>4. PICK w \in Seq(All) : Joins(w, asked, more)
  BY <1>2, <1>3, Concatenation
<1>5. /\ w = wanted /\ Len(w) = n + m
      /\ \A k \in 1..n : w[k] = asked[k] /\ w[k] # "entry"
      /\ m = 1 => w[n + 1] = "entry"
  BY <1>1, <1>2, <1>4 DEF Joins
<1>6. a = [ok |-> failed = {}, set |-> IF failed # {} THEN <<>> ELSE SubSeq(wanted, 1, Cardinality(got))]
  BY DEF StartInner, more
<1> SUFFICES ASSUME a.ok
             PROVE  IsPrefix(asked, a.set)
                    /\ ("entry" \in ToSet(a.set) <=> entry /\ method /\ replies[n + 1] = "set")
  BY <1>1 DEF AllSet
<1> HIDE DEF a
<1>7. failed = {}
  <2> HIDE DEF failed, got, wanted
  <2>1. PICK whether, list : whether = (failed = {}) /\ a = [ok |-> whether, set |-> list]
    BY <1>6
  <2>2. a.ok = whether
    BY <2>1
  <2> QED
    BY <2>1, <2>2, Zenon
<1>8. \A k \in 1..n : replies[k] = "set"
  <2> SUFFICES ASSUME NEW k \in 1..n PROVE replies[k] = "set"
    OBVIOUS
  <2>1. k \in 1..n + m
    BY <1>2
  <2>2. k \notin failed
    BY <1>7
  <2> QED
    BY <1>5, <2>1, <2>2
<1>9. PICK s \in 0..1 : (s = 1 <=> m = 1 /\ replies[n + 1] = "set")
  <2>1. CASE m = 1 /\ replies[n + 1] = "set"
    BY <2>1
  <2>2. CASE ~(m = 1 /\ replies[n + 1] = "set")
    BY <2>2
  <2> QED
    BY <2>1, <2>2
<1>10. got = 1..n + s
  <2>1. \A k \in 1..n + m : k \in 1..n \/ (m = 1 /\ k = n + 1)
    <3>1. m = 0 \/ m = 1
      OBVIOUS
    <3>2. \A k \in 1..n + 1 : k \in 1..n \/ k = n + 1
      OBVIOUS
    <3> QED
      BY <3>1, <3>2
  <2>2. \A k \in 1..n + s : k \in 1..n \/ (s = 1 /\ k = n + 1)
    BY <1>9
  <2>3. \A k \in 1..n : k \in 1..n + m /\ k \in 1..n + s
    BY <1>2, <1>9
  <2>4. s = 1 => n + 1 \in 1..n + m /\ n + 1 \in 1..n + s
    BY <1>9
  <2>5. got = {k \in 1..n + m : replies[k] = "set"}
    BY <1>5
  <2> HIDE DEF got
  <2>6. ASSUME NEW k, k \in got PROVE k \in 1..n + s
    BY <1>9, <2>1, <2>3, <2>4, <2>5, <2>6, Zenon
  <2>7. ASSUME NEW k \in 1..n + s PROVE k \in got
    BY <1>8, <1>9, <2>2, <2>3, <2>4, <2>5, Zenon
  <2> QED
    BY <2>6, <2>7
<1>11. Cardinality(got) = n + s
  <2>1. 1 \in Int /\ n + s \in Int
    BY <1>9
  <2>2. PICK size \in Int : size = n + s
    BY <2>1
  <2>3. Cardinality(1..size) = IF 1 > size THEN 0 ELSE size - 1 + 1
    BY <2>1, FS_Interval
  <2>4. size >= 0
    BY <1>9, <2>2
  <2> HIDE DEF got
  <2> QED
    BY <1>10, <2>2, <2>3, <2>4
<1>12. a.set = SubSeq(w, 1, n + s)
  <2> HIDE DEF got, failed, wanted
  <2> QED
    BY <1>5, <1>6, <1>7, <1>11
<1>13. PICK t \in Seq(All) : /\ t = a.set /\ Len(t) = n + s
                             /\ \A k \in 1..n + s : t[k] = w[k]
  <2>1. n + s <= Len(w) /\ n + s \in Nat
    BY <1>5, <1>9, <1>2
  <2>2. PICK size \in Nat : size = n + s
    BY <2>1
  <2>3. SubSeq(w, 1, size) \in Seq(All) /\ Len(SubSeq(w, 1, size)) = size
        /\ \A k \in 1..size : SubSeq(w, 1, size)[k] = w[k]
    BY <2>1, <2>2
  <2> QED
    BY <1>12, <2>2, <2>3
<1>16. \A k \in 1..n : k \in 1..n + s
  BY <1>9
<1>17. \A k \in 1..n : t[k] = asked[k] /\ t[k] # "entry"
  BY <1>5, <1>13, <1>16, Zenon
<1>14. IsPrefix(asked, t)
  <2>1. n <= Len(t) /\ n \in Nat
    BY <1>9, <1>13
  <2>2. SubSeq(t, 1, n) \in Seq(All) /\ Len(SubSeq(t, 1, n)) = n
        /\ \A k \in 1..n : SubSeq(t, 1, n)[k] = t[k]
    BY <2>1
  <2>3. SubSeq(asked, 1, n) = asked
    BY <1>1
  <2>4. \A k \in 1..n : t[k] = asked[k]
    BY <1>17
  <2>5. SubSeq(t, 1, n) = asked
    BY <1>1, <1>3, <2>2, <2>4, SeqEqual
  <2> QED
    BY <1>1, <2>1, <2>3, <2>5 DEF IsPrefix
<1>15. "entry" \in ToSet(t) <=> s = 1
  <2>1. ToSet(t) = {t[k] : k \in 1..n + s}
    BY <1>13 DEF ToSet
  <2>2. \A k \in 1..n : t[k] # "entry"
    BY <1>17
  <2>3. s = 1 => n + 1 \in 1..n + s /\ t[n + 1] = "entry"
    BY <1>5, <1>9, <1>13
  <2>4. \A k \in 1..n + s : k \in 1..n \/ s = 1
    BY <1>9
  <2> QED
    BY <2>1, <2>2, <2>3, <2>4
<1> QED
  BY <1>2, <1>9, <1>13, <1>14, <1>15
-----------------------------------------------------------------------------
(***************************************************************************)
(* The processes of monitor_system: a sort by insertion, and its beginning. *)
(***************************************************************************)
\* Processes have a number of commands.
AreProcesses(P) == \A p \in P : p.commands \in Nat

\* A process is ranked behind k others, all of which have executed as many commands.
RankedAt(out, sorted, p, k) ==
    /\ k \in 0..Len(sorted) /\ Len(out) = Len(sorted) + 1
    /\ \A j \in 1..k : out[j] = sorted[j]
    /\ out[k + 1] = p
    /\ \A j \in k + 1..Len(sorted) : out[j + 1] = sorted[j] /\ p.commands > sorted[j].commands
    /\ k > 0 => sorted[k].commands >= p.commands

\* A process goes behind the last that has executed as many commands.
LEMMA RankedPlace ==
    ASSUME NEW P, AreProcesses(P), NEW sorted \in Seq(P), NEW p \in P
    PROVE  Ranked(sorted, p) \in Seq(P) /\ \E k \in Nat : RankedAt(Ranked(sorted, p), sorted, p, k)
<1> DEFINE busier == {k \in 1..Len(sorted) : sorted[k].commands >= p.commands}
           S == {0} \cup busier
<1>1. PICK n \in Nat : n = Len(sorted)
  BY LenProperties
<1>2. S \in SUBSET (0..n) /\ S # {}
  BY <1>1
<1>3. PICK k \in 0..n : k = Greatest(S) /\ k \in S /\ \A m \in S : m <= k
  <2> HIDE DEF S
  <2>1. Greatest(S) \in S /\ \A m \in S : m <= Greatest(S)
    BY <1>2, GreatestOf
  <2> QED
    BY <1>2, <2>1
<1>4. k > 0 => sorted[k].commands >= p.commands
  BY <1>3
<1>5. ASSUME NEW j \in k + 1..n PROVE p.commands > sorted[j].commands
  <2>1. j \in 1..n /\ j > k
    OBVIOUS
  <2>2. j \notin busier
    BY <1>3, <2>1
  <2>3. sorted[j] \in P
    BY <1>1, <2>1
  <2>4. p.commands \in Nat /\ sorted[j].commands \in Nat
    BY <2>3 DEF AreProcesses
  <2> QED
    BY <1>1, <2>1, <2>2, <2>4
<1>6. Ranked(sorted, p) = (SubSeq(sorted, 1, k) \o <<p>>) \o SubSeq(sorted, k + 1, n)
  <2>1. Ranked(sorted, p) = InsertAt(sorted, k + 1, p)
    BY <1>3 DEF Ranked
  <2>2. (k + 1) - 1 = k
    OBVIOUS
  <2> QED
    BY <1>1, <2>1, <2>2 DEF InsertAt
<1>7. PICK a \in Seq(P) : a = SubSeq(sorted, 1, k) /\ Len(a) = k /\ \A j \in 1..k : a[j] = sorted[j]
  BY <1>1, FirstElements
<1>8. PICK r \in Seq(P) : /\ r = SubSeq(sorted, k + 1, n) /\ Len(r) = n - k
                           /\ \A j \in 1..n - k : r[j] = sorted[k + j]
  <2>1. k + 1 \in 1..Len(sorted) + 1 /\ n \in (k + 1) - 1..Len(sorted)
    BY <1>1
  <2>2. /\ SubSeq(sorted, k + 1, n) \in Seq(P) /\ Len(SubSeq(sorted, k + 1, n)) = n - k
        /\ \A j \in 1..n - k : SubSeq(sorted, k + 1, n)[j] = sorted[k + j]
    BY <1>1, <2>1
  <2> QED
    BY <2>2
<1>9. PICK b \in Seq(P) : /\ b = a \o <<p>> /\ Len(b) = k + 1 /\ b[k + 1] = p
                           /\ \A j \in 1..k : b[j] = a[j]
  <2>1. Append(a, p) = a \o <<p>>
    BY AppendIsConcat
  <2>2. PICK b \in Seq(P), m \in Nat : Extended(b, a, p, m)
    BY Extension
  <2> QED
    BY <1>7, <2>1, <2>2 DEF Extended
<1>10. PICK out \in Seq(P) : Joins(out, b, r)
  BY Concatenation
<1>11. out = Ranked(sorted, p) /\ Len(out) = n + 1
  BY <1>6, <1>7, <1>8, <1>9, <1>10 DEF Joins
<1>12. \A j \in 1..k : out[j] = sorted[j]
  <2> SUFFICES ASSUME NEW j \in 1..k PROVE out[j] = sorted[j]
    OBVIOUS
  <2>1. j \in 1..k + 1
    OBVIOUS
  <2> QED
    BY <1>7, <1>9, <1>10, <2>1 DEF Joins
<1>13. out[k + 1] = p
  <2>1. k + 1 \in 1..k + 1
    OBVIOUS
  <2> QED
    BY <1>9, <1>10, <2>1 DEF Joins
<1>14. ASSUME NEW j \in k + 1..n PROVE out[j + 1] = sorted[j]
  <2>1. j - k \in 1..n - k /\ (k + 1) + (j - k) = j + 1 /\ k + (j - k) = j
    OBVIOUS
  <2>2. out[(k + 1) + (j - k)] = r[j - k]
    BY <1>8, <1>9, <1>10, <2>1 DEF Joins
  <2>3. r[j - k] = sorted[k + (j - k)]
    BY <1>8, <2>1
  <2> QED
    BY <2>1, <2>2, <2>3
<1>15. RankedAt(out, sorted, p, k)
  BY <1>1, <1>4, <1>5, <1>11, <1>12, <1>13, <1>14 DEF RankedAt
<1> QED
  BY <1>11, <1>15

\* The turn of Sorted as a function on processes.
Ranking(P) == [p \in Seq(P) \X P |-> Ranked(p[1], p[2])]

\* A fold of them stays a sequence of processes.
LEMMA RankingIsFold ==
    ASSUME NEW P, AreProcesses(P) PROVE IsFold(Seq(P), P, <<>>, Ranking(P))
<1>1. <<>> \in Seq(P)
  BY EmptySeq
<1>2. \A s \in Seq(P) : \A p \in P : Ranked(s, p) \in Seq(P)
  BY RankedPlace
<1> QED
  BY <1>1, <1>2 DEF Ranking, IsFold

\* The sort is that fold.
LEMMA SortedFold ==
    ASSUME NEW P, AreProcesses(P), NEW seq \in Seq(P)
    PROVE  Sorted(seq) = Folded(Ranking(P), <<>>, seq)
<1> DEFINE Rec(h) == h = [s \in SUBSET DOMAIN seq |->
               IF s = {} THEN <<>> ELSE Ranked(h[s \ {Max(s)}], seq[Max(s)])]
<1>0. IsFold(Seq(P), P, <<>>, Ranking(P))
  BY RankingIsFold
<1>1. PICK g \in [SUBSET (1..Len(seq)) -> Seq(P)] : Folding(g, Ranking(P), <<>>, seq, Len(seq))
  BY <1>0, FoldExists
<1>2. DOMAIN seq = 1..Len(seq) /\ Len(seq) \in Nat
  OBVIOUS
<1>3. \A s \in SUBSET (1..Len(seq)) : s # {} =>
          seq[Max(s)] \in P /\ s \ {Max(s)} \in SUBSET (1..Len(seq))
  BY <1>2, Topmost
<1>4. Rec(g)
  BY <1>1, <1>2, <1>3 DEF Folding, Ranking
<1>5. Sorted(seq) = (CHOOSE h : Rec(h))[DOMAIN seq]
  BY DEF Sorted, FoldLeft, MapThenFoldSet
<1>6. PICK h : Rec(h) /\ Sorted(seq) = h[1..Len(seq)]
  BY <1>2, <1>4, <1>5
<1>7. Steps(h, Ranking(P), <<>>, seq, Seq(P))
  BY <1>2, <1>3, <1>6 DEF Steps, Ranking
<1> HIDE DEF Rec
<1>8. h[1..Len(seq)] = Folded(Ranking(P), <<>>, seq)
  BY <1>0, <1>7, FoldValue
<1> QED
  BY <1>6, <1>8

\* The sort, element by element.
LEMMA SortedSteps ==
    ASSUME NEW P, AreProcesses(P), NEW seq \in Seq(P)
    PROVE  /\ Sorted(seq) \in Seq(P)
           /\ Sorted(<<>>) = <<>>
           /\ \A c \in P : Sorted(Append(seq, c)) = Ranked(Sorted(seq), c)
<1>0. IsFold(Seq(P), P, <<>>, Ranking(P))
  BY RankingIsFold
<1>1. /\ Sorted(seq) \in Seq(P)
      /\ Sorted(seq) = Folded(Ranking(P), <<>>, seq)
  BY <1>0, SortedFold, FoldedType
<1>2. ASSUME NEW c \in P
      PROVE  Sorted(Append(seq, c)) = Ranking(P)[<<Sorted(seq), c>>]
  <2>1. PICK more \in Seq(P) : more = Append(seq, c)
    BY AppendProperties
  <2>2. Folded(Ranking(P), <<>>, Append(seq, c)) = Ranking(P)[<<Folded(Ranking(P), <<>>, seq), c>>]
    BY <1>0, FoldedAppend
  <2>3. Sorted(more) = Folded(Ranking(P), <<>>, more)
    BY SortedFold
  <2> QED
    BY <1>1, <2>1, <2>2, <2>3
<1>3. Sorted(<<>>) = <<>>
  <2>1. <<>> \in Seq(P) /\ Folded(Ranking(P), <<>>, <<>>) = <<>>
    BY <1>0, EmptySeq, FoldedEmpty
  <2> QED
    BY <2>1, SortedFold
<1> QED
  BY <1>1, <1>2, <1>3 DEF Ranking

\* out has the elements of procs, the busiest first.
Ranks(procs, out, n) ==
    /\ Len(procs) = n /\ Len(out) = n
    /\ \A i \in 1..n : \A j \in i..n : out[i].commands >= out[j].commands
    /\ \A i \in 1..n : \E j \in 1..n : out[i] = procs[j]
    /\ \A j \in 1..n : \E i \in 1..n : out[i] = procs[j]

\* A process more is ranked.
LEMMA RanksMore ==
    ASSUME NEW P, AreProcesses(P), NEW procs \in Seq(P), NEW p \in P, NEW s \in Seq(P), NEW n \in Nat,
           Ranks(procs, s, n)
    PROVE  Ranks(Append(procs, p), Ranked(s, p), n + 1)
<1>1. PICK out \in Seq(P), k \in Nat : out = Ranked(s, p) /\ RankedAt(out, s, p, k)
  BY RankedPlace
<1>2. PICK more \in Seq(P) : Extended(more, procs, p, n)
  <2>1. PICK v \in Seq(P), m \in Nat : Extended(v, procs, p, m)
    BY Extension
  <2>2. m = n
    BY <2>1 DEF Extended, Ranks
  <2> QED
    BY <2>1, <2>2
<1>3. Len(s) = n /\ k \in 0..n /\ Len(out) = n + 1 /\ Len(more) = n + 1
  BY <1>1, <1>2 DEF RankedAt, Extended, Ranks
\* Where an element of out comes from, and where an element of s goes.
<1>4. ASSUME NEW i \in 1..n + 1
      PROVE  i = k + 1 \/ (i \in 1..k /\ i \in 1..n /\ out[i] = s[i])
             \/ (i - 1 \in k + 1..n /\ i - 1 \in 1..n /\ out[i] = s[i - 1])
  <2>1. CASE i = k + 1
    BY <2>1
  <2>2. CASE i <= k
    BY <1>1, <1>3, <2>2 DEF RankedAt
  <2>3. CASE i > k + 1
    <3>1. i - 1 \in k + 1..n /\ (i - 1) + 1 = i /\ i - 1 \in 1..n
      BY <1>3, <2>3
    <3> QED
      BY <1>1, <1>3, <3>1 DEF RankedAt
  <2> QED
    BY <1>3, <2>1, <2>2, <2>3
<1>5. ASSUME NEW i \in 1..n
      PROVE  \E j \in 1..n + 1 : out[j] = s[i]
  <2>1. CASE i <= k
    BY <1>1, <1>3, <2>1 DEF RankedAt
  <2>2. CASE i > k
    BY <1>1, <1>3, <2>2 DEF RankedAt
  <2> QED
    BY <1>3, <2>1, <2>2
<1>6. out[k + 1] = p /\ k + 1 \in 1..n + 1
  BY <1>1, <1>3 DEF RankedAt
<1>7. \A i \in 1..n + 1 : out[i].commands \in Nat
  BY <1>1, <1>3 DEF AreProcesses
<1>8. \A i \in 1..n : s[i].commands \in Nat
  BY <1>3 DEF AreProcesses
<1>9. p.commands \in Nat
  BY DEF AreProcesses
<1>10. \A i \in 1..k : s[i].commands >= p.commands
  <2> SUFFICES ASSUME NEW i \in 1..k PROVE s[i].commands >= p.commands
    OBVIOUS
  <2>1. k > 0 /\ s[k].commands >= p.commands
    BY <1>1, <1>3 DEF RankedAt
  <2>2. i \in 1..n /\ k \in i..n /\ k \in 1..n
    BY <1>3
  <2>3. s[i].commands >= s[k].commands
    BY <2>2 DEF Ranks
  <2> QED
    BY <1>8, <1>9, <2>1, <2>2, <2>3
<1>11. \A i \in k + 1..n : p.commands > s[i].commands
  BY <1>1, <1>3 DEF RankedAt
<1>12. ASSUME NEW i \in 1..n + 1, NEW j \in i..n + 1
       PROVE  out[i].commands >= out[j].commands
  <2>0. j \in 1..n + 1 /\ i <= j
    OBVIOUS
  <2>1. CASE i = k + 1 /\ j = k + 1
    BY <1>7, <2>1
  <2>2. CASE i = k + 1 /\ j # k + 1
    <3>1. j - 1 \in k + 1..n /\ out[j] = s[j - 1] /\ j - 1 \in 1..n
      BY <1>4, <2>0, <2>2
    <3> QED
      BY <1>6, <1>8, <1>9, <1>11, <2>2, <3>1
  <2>3. CASE i # k + 1 /\ j = k + 1
    <3>1. i \in 1..k /\ out[i] = s[i] /\ i \in 1..n
      BY <1>4, <2>0, <2>3
    <3> QED
      BY <1>6, <1>8, <1>9, <1>10, <2>3, <3>1
  <2>4. CASE i # k + 1 /\ j # k + 1
    <3>1. PICK a \in 1..n : out[i] = s[a] /\ ((a = i /\ i <= k) \/ (a = i - 1 /\ i > k + 1))
      <4>1. \/ i \in 1..k /\ i \in 1..n /\ out[i] = s[i]
            \/ i - 1 \in k + 1..n /\ i - 1 \in 1..n /\ out[i] = s[i - 1]
        BY <1>4, <2>0, <2>4
      <4>2. CASE i \in 1..k /\ i \in 1..n /\ out[i] = s[i]
        <5>1. i <= k
          BY <4>2
        <5> QED
          BY <4>2, <5>1
      <4>3. CASE i - 1 \in k + 1..n /\ i - 1 \in 1..n /\ out[i] = s[i - 1]
        <5>1. i > k + 1
          BY <1>3, <2>0, <4>3
        <5> QED
          BY <4>3, <5>1
      <4> QED
        BY <4>1, <4>2, <4>3
    <3>2. PICK b \in 1..n : out[j] = s[b] /\ ((b = j /\ j <= k) \/ (b = j - 1 /\ j > k + 1))
      <4>1. \/ j \in 1..k /\ j \in 1..n /\ out[j] = s[j]
            \/ j - 1 \in k + 1..n /\ j - 1 \in 1..n /\ out[j] = s[j - 1]
        BY <1>4, <2>0, <2>4
      <4>2. CASE j \in 1..k /\ j \in 1..n /\ out[j] = s[j]
        <5>1. j <= k
          BY <4>2
        <5> QED
          BY <4>2, <5>1
      <4>3. CASE j - 1 \in k + 1..n /\ j - 1 \in 1..n /\ out[j] = s[j - 1]
        <5>1. j > k + 1
          BY <1>3, <2>0, <4>3
        <5> QED
          BY <4>3, <5>1
      <4> QED
        BY <4>1, <4>2, <4>3
    <3>3. b \in a..n
      <4>1. a <= b
        BY <1>3, <1>4, <2>0, <2>4, <3>1, <3>2
      <4> QED
        BY <4>1
    <3> QED
      BY <3>1, <3>2, <3>3 DEF Ranks
  <2> QED
    BY <2>1, <2>2, <2>3, <2>4
<1>13. ASSUME NEW i \in 1..n + 1 PROVE \E j \in 1..n + 1 : out[i] = more[j]
  <2>1. CASE i = k + 1
    <3>1. n + 1 \in 1..n + 1 /\ more[n + 1] = p
      BY <1>2 DEF Extended
    <3> QED
      BY <1>6, <2>1, <3>1
  <2>2. CASE i # k + 1
    <3>1. PICK a \in 1..n : out[i] = s[a]
      BY <1>4, <2>2
    <3>2. PICK j \in 1..n : s[a] = procs[j]
      BY DEF Ranks
    <3>3. more[j] = procs[j] /\ j \in 1..n + 1
      BY <1>2 DEF Extended
    <3> QED
      BY <3>1, <3>2, <3>3
  <2> QED
    BY <2>1, <2>2
<1>14. ASSUME NEW j \in 1..n + 1 PROVE \E i \in 1..n + 1 : out[i] = more[j]
  <2>1. CASE j = n + 1
    <3>1. more[n + 1] = p
      BY <1>2 DEF Extended
    <3> QED
      BY <1>6, <2>1, <3>1
  <2>2. CASE j \in 1..n
    <3>1. more[j] = procs[j]
      BY <1>2, <2>2 DEF Extended
    <3>2. PICK a \in 1..n : s[a] = procs[j]
      BY <2>2 DEF Ranks
    <3> QED
      BY <1>5, <3>1, <3>2
  <2>3. j \in 1..n \/ j = n + 1
    OBVIOUS
  <2> QED
    BY <2>1, <2>2, <2>3
<1>15. Ranks(more, out, n + 1)
  BY <1>3, <1>12, <1>13, <1>14 DEF Ranks
<1> QED
  BY <1>1, <1>2, <1>15 DEF Extended

\* sort_by_key sorts.
LEMMA SortedRanks ==
    ASSUME NEW P, AreProcesses(P), NEW procs \in Seq(P)
    PROVE  Ranks(procs, Sorted(procs), Len(procs))
<1> DEFINE Good == {u \in Seq(P) : Ranks(u, Sorted(u), Len(u))}
<1>1. <<>> \in Good
  <2>1. PICK none \in Seq(P) : none = <<>>
    BY EmptySeq
  <2>2. Sorted(none) = none
    BY <2>1, SortedSteps
  <2>3. Len(none) = 0
    BY <2>1
  <2>4. Ranks(none, none, 0)
    BY <2>3 DEF Ranks
  <2> QED
    BY <2>1, <2>2, <2>3, <2>4
<1>2. ASSUME NEW u \in Seq(P), NEW c \in P, u \in Good PROVE Append(u, c) \in Good
  <2>1. PICK n \in Nat : n = Len(u)
    BY LenProperties
  <2>2. Sorted(u) \in Seq(P) /\ Sorted(Append(u, c)) = Ranked(Sorted(u), c)
    BY SortedSteps
  <2>3. PICK s \in Seq(P) : s = Sorted(u) /\ Ranks(u, s, n)
    BY <1>2, <2>1, <2>2
  <2>4. Ranks(Append(u, c), Ranked(s, c), n + 1)
    BY <2>3, RanksMore
  <2>5. Append(u, c) \in Seq(P) /\ Len(Append(u, c)) = n + 1
    BY <2>1, AppendProperties
  <2> QED
    BY <2>2, <2>3, <2>4, <2>5
<1> HIDE DEF Good
<1>3. Seq(P) \subseteq Good
  BY <1>1, <1>2, SeqInductive
<1> QED
  BY <1>3 DEF Good

\* The routine of a process is one that a label set of its id names.
LEMMA RoutineKnown ==
    ASSUME NEW L, NEW labels \in Seq(L), NEW id, NEW l \in ToSet(labels), l.id = id
    PROVE  \E m \in ToSet(labels) : m.id = id /\ m.routine = Routine(labels, id)
<1> DEFINE own == {k \in 1..Len(labels) : labels[k].id = id}
<1>1. PICK n \in Nat : n = Len(labels)
  BY LenProperties
<1>2. ToSet(labels) = {labels[k] : k \in 1..n}
  BY <1>1 DEF ToSet
<1>3. own \in SUBSET (0..n) /\ own # {}
  BY <1>1, <1>2
<1>4. Greatest(own) \in own
  <2> HIDE DEF own
  <2> QED
    BY <1>3, GreatestOf
<1>5. Routine(labels, id) = labels[Greatest(own)].routine
  BY <1>3 DEF Routine
<1> QED
  BY <1>1, <1>2, <1>4, <1>5

\* The processes of monitor_system, however many there are, and for every TopSize: the
\* busiest are listed, in order, each once and under its own routine.
THEOREM TopIsHonest ==
    ASSUME NEW I, NEW procs \in Seq([id : I, commands : Nat]), NEW L, NEW labels \in Seq(L)
    PROVE  TopHonest(procs, labels, TopProcesses(procs, labels))
<1> DEFINE P == [id : I, commands : Nat]
           a == TopProcesses(procs, labels)
<1>1. /\ AreProcesses(P) /\ procs \in Seq(P)
      /\ \A p \in P : p = [id |-> p.id, commands |-> p.commands]
  BY DEF AreProcesses
<1> HIDE DEF P
<1>2. PICK n \in Nat : n = Len(procs)
  BY LenProperties
<1>3. PICK s \in Seq(P) : s = Sorted(procs) /\ Ranks(procs, s, n)
  <2>1. Sorted(procs) \in Seq(P)
    BY <1>1, SortedSteps
  <2>2. Ranks(procs, Sorted(procs), Len(procs))
    BY <1>1, SortedRanks
  <2> QED
    BY <1>2, <2>1, <2>2
<1>4. PICK m \in 0..n : m = AtMost(n, TopSize) /\ (m = n \/ m = TopSize)
  BY TopAssumption DEF AtMost
<1>5. PICK top \in Seq(P) : top = Top(procs) /\ Len(top) = m /\ \A k \in 1..m : top[k] = s[k]
  <2>1. m \in 0..Len(s)
    BY <1>3 DEF Ranks
  <2>2. /\ SubSeq(s, 1, m) \in Seq(P) /\ Len(SubSeq(s, 1, m)) = m
        /\ \A k \in 1..m : SubSeq(s, 1, m)[k] = s[k]
    BY <2>1, FirstElements
  <2>3. Top(procs) = SubSeq(s, 1, m)
    BY <1>2, <1>3, <1>4 DEF Top
  <2> QED
    BY <2>2, <2>3
<1>6. /\ a = [k \in 1..m |-> [id |-> top[k].id, commands |-> top[k].commands,
                               routine |-> Routine(labels, top[k].id)]]
      /\ Len(a) = m
  BY <1>5 DEF TopProcesses
<1>7. ASSUME NEW k \in 1..m
      PROVE  /\ k \in 1..n /\ s[k] \in P
             /\ a[k].id = s[k].id /\ a[k].commands = s[k].commands
             /\ a[k].routine = Routine(labels, s[k].id)
  <2>1. k \in 1..n /\ k \in 1..Len(s)
    BY <1>3, <1>4 DEF Ranks
  <2>2. s[k] \in P
    BY <2>1
  <2>3. top[k] = s[k]
    BY <1>5
  <2> QED
    BY <1>6, <2>1, <2>2, <2>3
<1> HIDE DEF a
<1>8. ToSet(procs) = {procs[k] : k \in 1..n}
  BY <1>1, <1>2 DEF ToSet
<1>9. Len(a) = AtMost(Len(procs), TopSize)
  BY <1>2, <1>4, <1>6
<1>10. ASSUME NEW k \in 2..Len(a) PROVE a[k - 1].commands >= a[k].commands
  <2>1. k \in 1..m /\ k - 1 \in 1..m /\ k \in (k - 1)..n
    BY <1>6
  <2>2. s[k - 1].commands >= s[k].commands
    BY <1>3, <1>7, <2>1 DEF Ranks
  <2> QED
    BY <1>7, <2>1, <2>2
<1>11. ASSUME NEW p \in ToSet(procs)
       PROVE  \/ \E k \in 1..Len(a) : a[k].id = p.id /\ a[k].commands = p.commands
              \/ \A k \in 1..Len(a) : a[k].commands >= p.commands
  <2>1. PICK j \in 1..n : p = procs[j]
    BY <1>8
  <2>2. PICK i \in 1..n : s[i] = p
    BY <1>3, <2>1 DEF Ranks
  <2>3. CASE i \in 1..m
    BY <1>6, <1>7, <2>2, <2>3
  <2>4. CASE i \notin 1..m
    <3> SUFFICES ASSUME NEW k \in 1..m PROVE a[k].commands >= p.commands
      BY <1>6
    <3>1. i \in k..n /\ k \in 1..n
      BY <2>4
    <3>2. s[k].commands >= s[i].commands
      BY <1>3, <3>1 DEF Ranks
    <3> QED
      BY <1>7, <2>2, <3>2
  <2> QED
    BY <2>3, <2>4
<1>12. ASSUME NEW k \in 1..Len(a)
       PROVE  /\ [id |-> a[k].id, commands |-> a[k].commands] \in ToSet(procs)
              /\ \A l \in ToSet(labels) : l.id = a[k].id =>
                    \E o \in ToSet(labels) : o.id = a[k].id /\ o.routine = a[k].routine
  <2>0. k \in 1..m
    BY <1>6
  <2>1. [id |-> a[k].id, commands |-> a[k].commands] = s[k]
    BY <1>1, <1>7, <2>0
  <2>2. PICK j \in 1..n : s[k] = procs[j]
    BY <1>3, <1>7, <2>0 DEF Ranks
  <2>3. s[k] \in ToSet(procs)
    BY <1>8, <2>2
  <2>4. ASSUME NEW l \in ToSet(labels), l.id = s[k].id
        PROVE  \E o \in ToSet(labels) : o.id = s[k].id /\ o.routine = Routine(labels, s[k].id)
    BY <2>4, RoutineKnown
  <2> QED
    BY <1>7, <2>0, <2>1, <2>3, <2>4
<1> QED
  BY <1>9, <1>10, <1>11, <1>12 DEF TopHonest, a

-----------------------------------------------------------------------------
(***************************************************************************)
(* The score of monitor_system: a component grows with its samples, the sum*)
(* with its components, and a sample that is not finite adds nothing.      *)
(***************************************************************************)
\* Total, as a fold.
Adding == [p \in Int \X Int |-> p[1] + p[2]]

\* The parameters of that fold.
LEMMA AddingIsFold == IsFold(Int, Int, 0, Adding)
  BY DEF Adding, IsFold

\* The total is that fold.
LEMMA TotalFold ==
    ASSUME NEW seq \in Seq(Int)
    PROVE  Total(seq) = Folded(Adding, 0, seq)
<1> DEFINE Rec(h) == h = [s \in SUBSET DOMAIN seq |->
               IF s = {} THEN 0 ELSE h[s \ {Max(s)}] + seq[Max(s)]]
<1>0. IsFold(Int, Int, 0, Adding)
  BY AddingIsFold
<1>1. PICK g \in [SUBSET (1..Len(seq)) -> Int] : Folding(g, Adding, 0, seq, Len(seq))
  BY <1>0, FoldExists
<1>2. DOMAIN seq = 1..Len(seq) /\ Len(seq) \in Nat
  OBVIOUS
<1>3. \A s \in SUBSET (1..Len(seq)) : s # {} =>
          seq[Max(s)] \in Int /\ s \ {Max(s)} \in SUBSET (1..Len(seq))
  BY <1>2, Topmost
<1>4. Rec(g)
  BY <1>1, <1>2, <1>3 DEF Folding, Adding
<1>5. Total(seq) = (CHOOSE h : Rec(h))[DOMAIN seq]
  BY DEF Total, FoldLeft, MapThenFoldSet
<1>6. PICK h : Rec(h) /\ Total(seq) = h[1..Len(seq)]
  BY <1>2, <1>4, <1>5
<1>7. Steps(h, Adding, 0, seq, Int)
  BY <1>2, <1>3, <1>6 DEF Steps, Adding
<1> HIDE DEF Rec
<1>8. h[1..Len(seq)] = Folded(Adding, 0, seq)
  BY <1>0, <1>7, FoldValue
<1> QED
  BY <1>6, <1>8

\* The total, element by element.
LEMMA TotalSteps ==
    ASSUME NEW seq \in Seq(Int)
    PROVE  /\ Total(seq) \in Int
           /\ Total(<<>>) = 0
           /\ \A c \in Int : Total(Append(seq, c)) = Total(seq) + c
<1>0. IsFold(Int, Int, 0, Adding)
  BY AddingIsFold
<1>1. /\ Total(seq) \in Int
      /\ Total(seq) = Folded(Adding, 0, seq)
  BY <1>0, TotalFold, FoldedType
<1>2. ASSUME NEW c \in Int
      PROVE  Total(Append(seq, c)) = Adding[<<Total(seq), c>>]
  <2>1. PICK more \in Seq(Int) : more = Append(seq, c)
    BY AppendProperties
  <2>2. Folded(Adding, 0, Append(seq, c)) = Adding[<<Folded(Adding, 0, seq), c>>]
    BY <1>0, FoldedAppend
  <2>3. Total(more) = Folded(Adding, 0, more)
    BY TotalFold
  <2> QED
    BY <1>1, <2>1, <2>2, <2>3
<1>3. Total(<<>>) = 0
  <2>1. <<>> \in Seq(Int) /\ Folded(Adding, 0, <<>>) = 0
    BY <1>0, EmptySeq, FoldedEmpty
  <2> QED
    BY <2>1, TotalFold
<1> QED
  BY <1>1, <1>2, <1>3 DEF Adding

\* The totals of two sequences add up.
LEMMA TotalConcat ==
    ASSUME NEW s \in Seq(Int), NEW t \in Seq(Int)
    PROVE  Total(s \o t) = Total(s) + Total(t)
<1> DEFINE Good == {u \in Seq(Int) : Total(s \o u) = Total(s) + Total(u)}
<1>0. Total(s) \in Int
  BY TotalSteps
<1>1. <<>> \in Good
  <2>1. <<>> \in Seq(Int) /\ s \o <<>> = s /\ Total(<<>>) = 0
    BY EmptySeq, ConcatEmptySeq, TotalSteps
  <2> QED
    BY <1>0, <2>1
<1>2. ASSUME NEW u \in Seq(Int), NEW c \in Int, u \in Good PROVE Append(u, c) \in Good
  <2>1. /\ Append(u, c) \in Seq(Int) /\ s \o u \in Seq(Int)
        /\ s \o Append(u, c) = Append(s \o u, c)
    BY ConcatAppend
  <2>2. PICK v \in Seq(Int) : v = s \o u
    BY <2>1
  <2>3. Total(Append(v, c)) = Total(v) + c
    BY TotalSteps
  <2>4. Total(Append(u, c)) = Total(u) + c /\ Total(u) \in Int
    BY TotalSteps
  <2>5. Total(v) = Total(s) + Total(u)
    BY <1>2, <2>2
  <2>6. Total(s \o Append(u, c)) = Total(s) + Total(Append(u, c))
    BY <1>0, <2>1, <2>2, <2>3, <2>4, <2>5
  <2> QED
    BY <2>1, <2>6
<1> HIDE DEF Good
<1>3. Seq(Int) \subseteq Good
  BY <1>1, <1>2, SeqInductive
<1> QED
  BY <1>3 DEF Good

\* Sequences of n numbers, the first nowhere greater than the second.
Below(s, t, n) == /\ Len(s) = n /\ Len(t) = n
                  /\ \A k \in 1..n : s[k] <= t[k]

\* A sequence that is nowhere greater has no greater total.
LEMMA TotalBelow ==
    ASSUME NEW s \in Seq(Int), NEW t \in Seq(Int), NEW n \in Nat, Below(s, t, n)
    PROVE  Total(s) <= Total(t)
<1> DEFINE S == {p \in Seq(Int) \X Seq(Int) : Total(p[1]) <= Total(p[2])}
<1>0. Len(s) = n /\ Len(t) = n /\ \A k \in 1..n : s[k] \in Int /\ t[k] \in Int /\ s[k] <= t[k]
  BY DEF Below
<1>1. << <<>>, <<>> >> \in S
  <2>1. PICK none \in Seq(Int) : none = <<>>
    BY EmptySeq
  <2>2. Total(none) \in Int
    BY TotalSteps
  <2>3. <<none, none>> \in S
    BY <2>2
  <2> QED
    BY <2>1, <2>3
<1>2. ASSUME NEW k \in 1..n, NEW p \in Seq(Int), NEW q \in Seq(Int), <<p, q>> \in S
      PROVE  <<Append(p, s[k]), Append(q, t[k])>> \in S
  <2>1. PICK c \in Int, d \in Int : c = s[k] /\ d = t[k] /\ c <= d
    BY <1>0
  <2>2. /\ Append(p, c) \in Seq(Int) /\ Append(q, d) \in Seq(Int)
        /\ Total(p) \in Int /\ Total(q) \in Int
        /\ Total(Append(p, c)) = Total(p) + c /\ Total(Append(q, d)) = Total(q) + d
    BY TotalSteps, AppendProperties
  <2>3. Total(p) <= Total(q)
    BY <1>2
  <2>4. Total(Append(p, c)) <= Total(Append(q, d))
    BY <2>1, <2>2, <2>3
  <2>5. <<Append(p, c), Append(q, d)>> \in S
    BY <2>2, <2>4
  <2> QED
    BY <2>1, <2>5
<1> HIDE DEF S
<1>3. <<s, t>> \in S
  BY <1>0, <1>1, <1>2, PairInductive
<1> QED
  BY <1>3 DEF S

\* There is a greatest sample.
LEMMA MaximumOf ==
    ASSUME NEW s \in Seq(Int), NEW n \in Nat, n = Len(s), s # <<>>
    PROVE  /\ \E k \in 1..n : Maximum(s) = s[k]
           /\ \A k \in 1..n : s[k] <= Maximum(s)
<1> DEFINE Good == {u \in Seq(Int) : u # <<>> =>
                       \E k \in 1..Len(u) : \A j \in 1..Len(u) : u[j] <= u[k]}
<1>1. <<>> \in Good
  BY EmptySeq
<1>2. ASSUME NEW u \in Seq(Int), NEW c \in Int, u \in Good PROVE Append(u, c) \in Good
  <2>1. PICK v \in Seq(Int), m \in Nat : Extended(v, u, c, m)
    BY Extension
  <2>2. m = Len(u) /\ Len(v) = m + 1 /\ v[m + 1] = c /\ v = Append(u, c)
        /\ \A k \in 1..m : v[k] = u[k] /\ u[k] \in Int
    BY <2>1 DEF Extended
  <2>3. \E k \in 1..m + 1 : \A j \in 1..m + 1 : v[j] <= v[k]
    <3>1. CASE u = <<>>
      <4>1. m = 0
        BY <2>2, <3>1
      <4> QED
        BY <2>2, <4>1
    <3>2. CASE u # <<>>
      <4>1. PICK k \in 1..m : \A j \in 1..m : u[j] <= u[k]
        BY <1>2, <2>2, <3>2
      <4>2. CASE c <= u[k]
        <5>1. k \in 1..m + 1 /\ v[k] = u[k]
          BY <2>2
        <5>2. ASSUME NEW j \in 1..m + 1 PROVE v[j] <= v[k]
          <6>1. CASE j = m + 1
            BY <2>2, <4>2, <5>1, <6>1
          <6>2. CASE j # m + 1
            <7>1. j \in 1..m
              BY <6>2
            <7> QED
              BY <2>2, <4>1, <5>1, <7>1
          <6> QED
            BY <6>1, <6>2
        <5> QED
          BY <5>1, <5>2
      <4>3. CASE ~(c <= u[k])
        <5>1. m + 1 \in 1..m + 1
          OBVIOUS
        <5>2. ASSUME NEW j \in 1..m + 1 PROVE v[j] <= v[m + 1]
          <6>1. CASE j = m + 1
            BY <2>2, <6>1
          <6>2. CASE j # m + 1
            <7>1. j \in 1..m
              BY <6>2
            <7>2. u[j] <= u[k] /\ u[j] \in Int /\ u[k] \in Int /\ v[j] = u[j]
              BY <2>2, <4>1, <7>1
            <7> QED
              BY <2>2, <4>3, <7>2
          <6> QED
            BY <6>1, <6>2
        <5> QED
          BY <5>1, <5>2
      <4> QED
        BY <4>2, <4>3
    <3> QED
      BY <3>1, <3>2
  <2> QED
    BY <2>2, <2>3
<1> HIDE DEF Good
<1>3. s \in Good
  BY <1>1, <1>2, SeqInductive
<1>4. PICK k \in 1..n : \A j \in 1..n : s[j] <= s[k]
  BY <1>3 DEF Good
<1>5. ToSet(s) = {s[j] : j \in 1..n}
  BY DEF ToSet
<1>6. s[k] \in ToSet(s) /\ \A w \in ToSet(s) : w <= s[k]
  BY <1>4, <1>5
<1>7. Maximum(s) \in ToSet(s) /\ \A w \in ToSet(s) : w <= Maximum(s)
  BY <1>6 DEF Maximum
<1> QED
  BY <1>5, <1>7

\* ... and so has no greater maximum.
LEMMA MaximumBelow ==
    ASSUME NEW s \in Seq(Int), NEW t \in Seq(Int), NEW n \in Nat, Below(s, t, n), n > 0
    PROVE  Maximum(s) \in Int /\ Maximum(t) \in Int /\ Maximum(s) <= Maximum(t)
<1>1. Len(s) = n /\ Len(t) = n /\ s # <<>> /\ t # <<>>
  BY DEF Below
<1>2. PICK k \in 1..n : Maximum(s) = s[k]
  BY <1>1, MaximumOf
<1>3. (\E j \in 1..n : Maximum(t) = t[j]) /\ \A j \in 1..n : t[j] <= Maximum(t)
  BY <1>1, MaximumOf
<1>4. \A j \in 1..n : s[j] \in Int /\ t[j] \in Int
  BY <1>1
<1>5. s[k] <= t[k] /\ t[k] <= Maximum(t)
  BY <1>3 DEF Below
<1>6. Maximum(t) \in Int
  BY <1>3, <1>4
<1> QED
  BY <1>2, <1>4, <1>5, <1>6
-----------------------------------------------------------------------------
\* A sample counts for something between nothing and everything.
LEMMA NormaliseBounds ==
    ASSUME NEW v \in Int
    PROVE  Normalise(v) \in 0..100
<1>1. CASE v < 0
  BY <1>1 DEF Normalise
<1>2. CASE v > Threshold
  BY <1>2, ThresholdAssumption DEF Normalise
<1>3. CASE v \in 0..Threshold
  <2>1. v * 100 \in Nat /\ v * 100 <= Threshold * 100
    BY <1>3, ThresholdAssumption
  <2>2. (v * 100) \div Threshold \in 0..100
    BY <2>1, ThresholdAssumption
  <2>3. ~(v < 0) /\ ~(v > Threshold)
    BY <1>3, ThresholdAssumption
  <2> QED
    BY <2>2, <2>3 DEF Normalise
<1> QED
  BY <1>1, <1>2, <1>3, ThresholdAssumption

\* A busier one counts for no less.
LEMMA NormaliseIncreases ==
    ASSUME NEW v \in Int, NEW w \in Int, v <= w
    PROVE  Normalise(v) <= Normalise(w)
<1>0. Normalise(v) \in 0..100 /\ Normalise(w) \in 0..100 /\ Threshold \in Nat /\ Threshold > 0
  BY NormaliseBounds, ThresholdAssumption
<1>1. CASE v < 0
  <2>1. Normalise(v) = 0
    BY <1>1 DEF Normalise
  <2> QED
    BY <1>0, <2>1
<1>2. CASE w > Threshold
  <2>1. Normalise(w) = 100
    BY <1>0, <1>2 DEF Normalise
  <2> QED
    BY <1>0, <2>1
<1>3. CASE v >= 0 /\ w <= Threshold
  <2>1. v \in 0..Threshold /\ w \in 0..Threshold
    BY <1>0, <1>3
  <2>2. /\ Normalise(v) = (v * 100) \div Threshold
        /\ Normalise(w) = (w * 100) \div Threshold
    BY <1>0, <2>1 DEF Normalise
  <2>3. v * 100 <= w * 100 /\ v * 100 \in Nat /\ w * 100 \in Nat
    BY <2>1
  <2>4. (v * 100) \div Threshold <= (w * 100) \div Threshold
    BY <1>0, <2>3
  <2> QED
    BY <2>2, <2>4
<1> QED
  BY <1>0, <1>1, <1>2, <1>3

\* A sample, finite or not.
Measured == Int \cup {NaN}
Percent == 0..100

\* Filtering keeps the samples that are finite, and all of those.
LEMMA FiniteSteps ==
    ASSUME NEW v \in Seq(Measured)
    PROVE  /\ Finite(<<>>) = <<>>
           /\ Finite(v) \in Seq(Int)
           /\ \A c \in Measured : Finite(Append(v, c)) =
                                   IF c \in Int THEN Append(Finite(v), c) ELSE Finite(v)
<1> DEFINE Good == {u \in Seq(Measured) : Finite(u) \in Seq(Int)}
<1>1. ASSUME NEW u \in Seq(Measured), NEW c \in Measured
      PROVE  Finite(Append(u, c)) = IF c \in Int THEN Append(Finite(u), c) ELSE Finite(u)
  BY OnlySteps DEF Finite
<1>2. Finite(<<>>) = <<>>
  BY OnlyNothing DEF Finite
<1>3. <<>> \in Good
  BY <1>2, EmptySeq
<1>4. ASSUME NEW u \in Seq(Measured), NEW c \in Measured, u \in Good PROVE Append(u, c) \in Good
  <2>1. Finite(u) \in Seq(Int) /\ Append(u, c) \in Seq(Measured)
    BY <1>4, AppendProperties
  <2>2. c \in Int => Append(Finite(u), c) \in Seq(Int)
    BY <2>1, AppendProperties
  <2> QED
    BY <1>1, <2>1, <2>2
<1> HIDE DEF Good
<1>5. v \in Good
  BY <1>3, <1>4, SeqInductive
<1> QED
  BY <1>1, <1>2, <1>5 DEF Good

\* Finite samples are all kept.
LEMMA FiniteAll ==
    ASSUME NEW v \in Seq(Int)
    PROVE  v \in Seq(Measured) /\ Finite(v) = v
<1> DEFINE Good == {u \in Seq(Int) : u \in Seq(Measured) /\ Finite(u) = u}
<1>1. <<>> \in Good
  BY FiniteSteps, EmptySeq
<1>2. ASSUME NEW u \in Seq(Int), NEW c \in Int, u \in Good PROVE Append(u, c) \in Good
  <2>1. u \in Seq(Measured) /\ c \in Measured /\ Finite(u) = u
    BY <1>2 DEF Measured
  <2>2. Finite(Append(u, c)) = Append(u, c)
    BY <2>1, FiniteSteps
  <2>3. Append(u, c) \in Seq(Measured) /\ Append(u, c) \in Seq(Int)
    BY <2>1, AppendProperties
  <2> QED
    BY <2>2, <2>3
<1> HIDE DEF Good
<1>3. v \in Good
  BY <1>1, <1>2, SeqInductive
<1> QED
  BY <1>3 DEF Good

\* r has the samples of v or greater ones.
Busier(v, r, n) ==
    /\ Len(v) = n /\ Len(r) = n
    /\ \A k \in 1..n : v[k] = r[k] \/ (v[k] \in Int /\ r[k] \in Int /\ v[k] <= r[k])

\* v and r can be compared.
IsBelow(s, t) == \E m \in Nat : Below(s, t, m)

\* Nothing is below nothing, and a value below one that is no less.
LEMMA BelowAppend ==
    ASSUME NEW s \in Seq(Int), NEW t \in Seq(Int), IsBelow(s, t), NEW c \in Int, NEW d \in Int, c <= d
    PROVE  IsBelow(<<>>, <<>>) /\ IsBelow(Append(s, c), Append(t, d))
<1>1. IsBelow(<<>>, <<>>)
  BY DEF IsBelow, Below
<1>2. PICK n \in Nat : Below(s, t, n)
  BY DEF IsBelow
<1>3. PICK v \in Seq(Int), i \in Nat : Extended(v, s, c, i)
  BY Extension
<1>4. PICK w \in Seq(Int), j \in Nat : Extended(w, t, d, j)
  BY Extension
<1>5. i = n /\ j = n
  BY <1>2, <1>3, <1>4 DEF Below, Extended
<1>6. Below(v, w, n + 1)
  <2>1. ASSUME NEW k \in 1..n + 1 PROVE v[k] <= w[k]
    <3>1. CASE k = n + 1
      BY <1>3, <1>4, <1>5, <3>1 DEF Extended
    <3>2. CASE k # n + 1
      <4>1. k \in 1..n
        BY <3>2
      <4> QED
        BY <1>2, <1>3, <1>4, <1>5, <4>1 DEF Extended, Below
    <3> QED
      BY <3>1, <3>2
  <2> QED
    BY <1>3, <1>4, <1>5, <2>1 DEF Extended, Below
<1> QED
  BY <1>1, <1>3, <1>4, <1>6 DEF IsBelow, Extended

\* Greater samples are as many, and nowhere less.
LEMMA FiniteBelow ==
    ASSUME NEW v \in Seq(Measured), NEW r \in Seq(Measured), NEW n \in Nat, Busier(v, r, n)
    PROVE  IsBelow(Finite(v), Finite(r))
<1> DEFINE S == {p \in Seq(Measured) \X Seq(Measured) : IsBelow(Finite(p[1]), Finite(p[2]))}
<1>1. << <<>>, <<>> >> \in S
  <2>1. PICK none \in Seq(Measured) : none = <<>> /\ Finite(none) = none
    BY EmptySeq, FiniteSteps
  <2>2. IsBelow(none, none)
    BY <2>1 DEF IsBelow, Below
  <2>3. <<none, none>> \in S
    BY <2>1, <2>2
  <2> QED
    BY <2>1, <2>3
<1>2. ASSUME NEW k \in 1..n, NEW p \in Seq(Measured), NEW q \in Seq(Measured), <<p, q>> \in S
      PROVE  <<Append(p, v[k]), Append(q, r[k])>> \in S
  <2>1. PICK c \in Measured, d \in Measured :
           c = v[k] /\ d = r[k] /\ (c = d \/ (c \in Int /\ d \in Int /\ c <= d))
    BY DEF Busier
  <2>2. PICK s \in Seq(Int), t \in Seq(Int) :
           /\ s = Finite(p) /\ t = Finite(q) /\ IsBelow(s, t)
           /\ Finite(Append(p, c)) = IF c \in Int THEN Append(s, c) ELSE s
           /\ Finite(Append(q, d)) = IF d \in Int THEN Append(t, d) ELSE t
    BY <1>2, FiniteSteps
  <2>3. Append(p, c) \in Seq(Measured) /\ Append(q, d) \in Seq(Measured)
    BY AppendProperties
  <2>4. IsBelow(Finite(Append(p, c)), Finite(Append(q, d)))
    <3>1. CASE c \in Int
      <4>1. d \in Int /\ c <= d
        BY <2>1, <3>1
      <4> QED
        BY <2>2, <3>1, <4>1, BelowAppend
    <3>2. CASE c \notin Int
      <4>1. d \notin Int
        BY <2>1, <3>2
      <4> QED
        BY <2>2, <3>2, <4>1
    <3> QED
      BY <3>1, <3>2
  <2>5. <<Append(p, c), Append(q, d)>> \in S
    BY <2>3, <2>4
  <2> QED
    BY <2>1, <2>5
<1> HIDE DEF S
<1>3. Len(v) = n /\ Len(r) = n
  BY DEF Busier
<1>4. <<v, r>> \in S
  BY <1>1, <1>2, <1>3, PairInductive
<1> QED
  BY <1>4 DEF S

\* A component is one value in per cent, or missing.
LEMMA ComponentIs ==
    ASSUME NEW v \in Seq(Measured)
    PROVE  Special(v) \in Seq(Percent) /\ Plain(v) \in Seq(Percent)
<1>1. PICK s \in Seq(Int), n \in Nat : s = Finite(v) /\ n = Len(s)
  BY FiniteSteps
<1>2. <<>> \in Seq(Percent)
  BY EmptySeq
<1>3. Special(v) \in Seq(Percent)
  <2>1. Total(s) \in Int
    BY TotalSteps
  <2>2. Normalise(Total(s)) \in Percent
    BY <2>1, NormaliseBounds DEF Percent
  <2>3. <<Normalise(Total(s))>> \in Seq(Percent)
    BY <2>2, Single
  <2> QED
    BY <1>1, <1>2, <2>3 DEF Special
<1>4. Plain(v) \in Seq(Percent)
  <2>1. CASE s = <<>>
    BY <1>1, <1>2, <2>1 DEF Plain
  <2>2. CASE s # <<>>
    <3>1. PICK k \in 1..n : Maximum(s) = s[k]
      BY <1>1, <2>2, MaximumOf
    <3>2. Maximum(s) \in Int
      BY <1>1, <3>1
    <3>3. Normalise(Maximum(s)) \in Percent
      BY <3>2, NormaliseBounds DEF Percent
    <3>4. <<Normalise(Maximum(s))>> \in Seq(Percent)
      BY <3>3, Single
    <3> QED
      BY <1>1, <2>2, <3>4 DEF Plain
  <2> QED
    BY <2>1, <2>2
<1> QED
  BY <1>3, <1>4

\* Greater samples make no component less.
LEMMA ComponentBelow ==
    ASSUME NEW v \in Seq(Measured), NEW r \in Seq(Measured), NEW n \in Nat, Busier(v, r, n)
    PROVE  IsBelow(Special(v), Special(r)) /\ IsBelow(Plain(v), Plain(r))
<1>1. PICK s \in Seq(Int), t \in Seq(Int), m \in Nat : s = Finite(v) /\ t = Finite(r) /\ Below(s, t, m)
  BY FiniteSteps, FiniteBelow DEF IsBelow
<1>2. ASSUME NEW c \in Int, NEW d \in Int, c <= d
      PROVE  IsBelow(<<Normalise(c)>>, <<Normalise(d)>>)
  <2>1. PICK x \in 0..100, y \in 0..100 : x = Normalise(c) /\ y = Normalise(d) /\ x <= y
    BY <1>2, NormaliseBounds, NormaliseIncreases
  <2>2. Below(<<x>>, <<y>>, 1)
    <3>1. Len(<<x>>) = 1 /\ <<x>>[1] = x /\ Len(<<y>>) = 1 /\ <<y>>[1] = y
      BY Single
    <3>2. ASSUME NEW k \in 1..1 PROVE <<x>>[k] <= <<y>>[k]
      <4>1. k = 1
        OBVIOUS
      <4> QED
        BY <2>1, <3>1, <4>1
    <3> QED
      BY <3>1, <3>2 DEF Below
  <2> QED
    BY <2>1, <2>2 DEF IsBelow
<1>3. IsBelow(<<>>, <<>>)
  BY DEF IsBelow, Below
<1>4. IsBelow(Special(v), Special(r))
  <2>1. Total(s) <= Total(t) /\ Total(s) \in Int /\ Total(t) \in Int
    BY <1>1, TotalBelow, TotalSteps
  <2>2. v = <<>> <=> r = <<>>
    BY DEF Busier
  <2> QED
    BY <1>1, <1>2, <1>3, <2>1, <2>2 DEF Special
<1>5. IsBelow(Plain(v), Plain(r))
  <2>1. CASE m = 0
    <3>1. s = <<>> /\ t = <<>>
      BY <1>1, <2>1 DEF Below
    <3> QED
      BY <1>1, <1>3, <3>1 DEF Plain
  <2>2. CASE m > 0
    <3>1. s # <<>> /\ t # <<>>
      BY <1>1, <2>2 DEF Below
    <3>2. Maximum(s) \in Int /\ Maximum(t) \in Int /\ Maximum(s) <= Maximum(t)
      BY <1>1, <2>2, MaximumBelow
    <3> QED
      BY <1>1, <1>2, <3>1, <3>2 DEF Plain
  <2> QED
    BY <2>1, <2>2
<1> QED
  BY <1>4, <1>5

\* Percentages are integers.
LEMMA PercentSeq ==
    ASSUME NEW p \in Seq(Percent)
    PROVE  p \in Seq(Int) /\ Total(p) \in 0..100 * Len(p)
<1> DEFINE Good == {u \in Seq(Percent) : u \in Seq(Int) /\ Total(u) \in 0..100 * Len(u)}
<1>1. <<>> \in Good
  <2>1. PICK none \in Seq(Percent) : none = <<>>
    BY EmptySeq
  <2>2. none \in Seq(Int) /\ Total(none) = 0 /\ Len(none) = 0
    BY <2>1, EmptySeq, TotalSteps
  <2> QED
    BY <2>1, <2>2
<1>2. ASSUME NEW u \in Seq(Percent), NEW c \in Percent, u \in Good PROVE Append(u, c) \in Good
  <2>1. PICK n \in Nat : n = Len(u)
    BY LenProperties
  <2>2. u \in Seq(Int) /\ Total(u) \in 0..100 * n /\ c \in 0..100
    BY <1>2, <2>1 DEF Percent
  <2>3. Append(u, c) \in Seq(Percent) /\ Append(u, c) \in Seq(Int) /\ Len(Append(u, c)) = n + 1
    BY <2>1, <2>2, AppendProperties
  <2>4. Total(Append(u, c)) = Total(u) + c
    BY <2>2, TotalSteps
  <2>5. Total(Append(u, c)) \in 0..100 * (n + 1)
    BY <2>2, <2>4
  <2> QED
    BY <2>3, <2>5
<1> HIDE DEF Good
<1>3. p \in Good
  BY <1>1, <1>2, SeqInductive
<1> QED
  BY <1>3 DEF Good

\* Two parts each are compared.
LEMMA BelowConcat ==
    ASSUME NEW s \in Seq(Int), NEW t \in Seq(Int), NEW u \in Seq(Int), NEW v \in Seq(Int),
           IsBelow(s, t), IsBelow(u, v)
    PROVE  IsBelow(s \o u, t \o v)
<1>1. PICK n \in Nat : Below(s, t, n)
  BY DEF IsBelow
<1>2. PICK m \in Nat : Below(u, v, m)
  BY DEF IsBelow
<1>3. PICK a \in Seq(Int) : Joins(a, s, u)
  BY Concatenation
<1>4. PICK b \in Seq(Int) : Joins(b, t, v)
  BY Concatenation
<1>5. /\ Len(s) = n /\ Len(t) = n /\ Len(u) = m /\ Len(v) = m
      /\ Len(a) = n + m /\ Len(b) = n + m
  BY <1>1, <1>2, <1>3, <1>4 DEF Below, Joins
<1>6. ASSUME NEW k \in 1..n + m PROVE a[k] <= b[k]
  <2>1. CASE k <= n
    <3>1. k \in 1..n
      BY <2>1
    <3> QED
      BY <1>1, <1>3, <1>4, <1>5, <3>1 DEF Below, Joins
  <2>2. CASE k > n
    <3>1. k - n \in 1..m /\ n + (k - n) = k
      BY <2>2
    <3>2. u[k - n] <= v[k - n] /\ a[n + (k - n)] = u[k - n] /\ b[n + (k - n)] = v[k - n]
      BY <1>2, <1>3, <1>4, <1>5, <3>1 DEF Below, Joins
    <3> QED
      BY <3>1, <3>2
  <2> QED
    BY <2>1, <2>2
<1>7. Below(a, b, n + m)
  BY <1>5, <1>6 DEF Below
<1> QED
  BY <1>3, <1>4, <1>7 DEF IsBelow, Joins

\* ... or any number of parts.
LEMMA FlattenBelow ==
    ASSUME NEW ps \in Seq(Seq(Int)), NEW qs \in Seq(Seq(Int)), NEW n \in Nat,
           Len(ps) = n, Len(qs) = n, \A k \in 1..n : IsBelow(ps[k], qs[k])
    PROVE  IsBelow(FlattenSeq(ps), FlattenSeq(qs))
<1> DEFINE S == {p \in Seq(Seq(Int)) \X Seq(Seq(Int)) : IsBelow(FlattenSeq(p[1]), FlattenSeq(p[2]))}
<1>1. << <<>>, <<>> >> \in S
  <2>1. PICK none \in Seq(Seq(Int)) : none = <<>> /\ FlattenSeq(none) = none
    BY EmptySeq, FlattenSteps
  <2>2. IsBelow(none, none)
    BY <2>1 DEF IsBelow, Below
  <2>3. <<none, none>> \in S
    BY <2>1, <2>2
  <2> QED
    BY <2>1, <2>3
<1>2. ASSUME NEW k \in 1..n, NEW p \in Seq(Seq(Int)), NEW q \in Seq(Seq(Int)), <<p, q>> \in S
      PROVE  <<Append(p, ps[k]), Append(q, qs[k])>> \in S
  <2>1. PICK c \in Seq(Int), d \in Seq(Int) : c = ps[k] /\ d = qs[k] /\ IsBelow(c, d)
    OBVIOUS
  <2>2. PICK s \in Seq(Int), t \in Seq(Int) :
           /\ s = FlattenSeq(p) /\ t = FlattenSeq(q) /\ IsBelow(s, t)
           /\ FlattenSeq(Append(p, c)) = s \o c /\ FlattenSeq(Append(q, d)) = t \o d
    <3>1. FlattenSeq(p) \in Seq(Int) /\ FlattenSeq(Append(p, c)) = FlattenSeq(p) \o c
      BY FlattenSteps
    <3>2. FlattenSeq(q) \in Seq(Int) /\ FlattenSeq(Append(q, d)) = FlattenSeq(q) \o d
      BY FlattenSteps
    <3>3. IsBelow(FlattenSeq(p), FlattenSeq(q))
      BY <1>2
    <3> QED
      BY <3>1, <3>2, <3>3, Zenon
  <2>3. Append(p, c) \in Seq(Seq(Int)) /\ Append(q, d) \in Seq(Seq(Int))
    BY AppendProperties
  <2>4. IsBelow(s \o c, t \o d)
    BY <2>1, <2>2, BelowConcat
  <2>5. <<Append(p, c), Append(q, d)>> \in S
    BY <2>2, <2>3, <2>4
  <2> QED
    BY <2>1, <2>5
<1> HIDE DEF S
<1>3. <<ps, qs>> \in S
  BY <1>1, <1>2, PairInductive
<1> QED
  BY <1>3 DEF S

\* The components of a category.
Each(plain) == [k \in 1..Len(plain) |-> Plain(plain[k])]
Components(special, plain) == Special(special) \o FlattenSeq(Each(plain))

\* They are in per cent.
LEMMA EachIs ==
    ASSUME NEW plain \in Seq(Seq(Measured))
    PROVE  /\ Each(plain) \in Seq(Seq(Percent)) /\ Each(plain) \in Seq(Seq(Int))
           /\ Len(Each(plain)) = Len(plain)
           /\ \A k \in 1..Len(plain) : Each(plain)[k] = Plain(plain[k])
           /\ FlattenSeq(Each(plain)) \in Seq(Percent)
<1>1. PICK n \in Nat : n = Len(plain)
  BY LenProperties
<1>2. \A k \in 1..n : Plain(plain[k]) \in Seq(Percent)
  BY <1>1, ComponentIs
<1>3. \A k \in 1..n : Plain(plain[k]) \in Seq(Int)
  BY <1>2, PercentSeq
<1>4. Each(plain) \in Seq(Seq(Percent))
  BY <1>1, <1>2 DEF Each
<1>5. Each(plain) \in Seq(Seq(Int))
  BY <1>1, <1>3 DEF Each
<1>6. FlattenSeq(Each(plain)) \in Seq(Percent)
  BY <1>4, FlattenSteps
<1> QED
  BY <1>1, <1>4, <1>5, <1>6 DEF Each

\* score_category, of its components.
LEMMA ScoreOf ==
    ASSUME NEW special \in Seq(Measured), NEW plain \in Seq(Seq(Measured))
    PROVE  \E c \in Seq(Percent), n \in Nat :
              /\ c = Components(special, plain) /\ n = Len(c)
              /\ ScoreCategory(special, plain).sum = Total(c)
              /\ ScoreCategory(special, plain).of = IF n = 0 THEN 1 ELSE n
<1>1. PICK s \in Seq(Percent), f \in Seq(Percent) : s = Special(special) /\ f = FlattenSeq(Each(plain))
  BY ComponentIs, EachIs
<1>2. PICK c \in Seq(Percent) : Joins(c, s, f)
  BY Concatenation
<1>3. c = Components(special, plain)
  BY <1>1, <1>2 DEF Components, Joins
<1>4. PICK n \in Nat : n = Len(c)
  BY LenProperties
<1>5. n = 0 <=> c = <<>>
  BY <1>4
<1>6. ScoreCategory(special, plain) = [sum |-> Total(c), of |-> IF c = <<>> THEN 1 ELSE Len(c)]
  BY <1>3 DEF ScoreCategory, Components, Each
<1> QED
  BY <1>3, <1>4, <1>5, <1>6

\* Components that are below have no greater score.
LEMMA ScoreBelow ==
    ASSUME NEW special \in Seq(Measured), NEW plain \in Seq(Seq(Measured)),
           NEW louder \in Seq(Measured), NEW plainer \in Seq(Seq(Measured)), NEW n \in Nat,
           IsBelow(Special(special), Special(louder)),
           Len(plain) = n, Len(plainer) = n,
           \A k \in 1..n : IsBelow(Plain(plain[k]), Plain(plainer[k]))
    PROVE  AtMostScore(ScoreCategory(special, plain), ScoreCategory(louder, plainer))
<1>1. IsBelow(FlattenSeq(Each(plain)), FlattenSeq(Each(plainer)))
  <2>1. PICK ps \in Seq(Seq(Int)), qs \in Seq(Seq(Int)) : ps = Each(plain) /\ qs = Each(plainer)
    BY EachIs
  <2>2. Len(ps) = n /\ Len(qs) = n /\ \A k \in 1..n : IsBelow(ps[k], qs[k])
    BY <2>1, EachIs
  <2> QED
    BY <2>1, <2>2, FlattenBelow
<1>2. IsBelow(Components(special, plain), Components(louder, plainer))
  <2>1. PICK s \in Seq(Int), t \in Seq(Int), f \in Seq(Int), g \in Seq(Int) :
           /\ s = Special(special) /\ t = Special(louder)
           /\ f = FlattenSeq(Each(plain)) /\ g = FlattenSeq(Each(plainer))
    BY ComponentIs, EachIs, PercentSeq
  <2>2. IsBelow(s \o f, t \o g)
    BY <1>1, <2>1, BelowConcat
  <2> QED
    BY <2>1, <2>2 DEF Components
<1>3. PICK c \in Seq(Percent), i \in Nat :
         /\ c = Components(special, plain) /\ i = Len(c)
         /\ ScoreCategory(special, plain).sum = Total(c)
         /\ ScoreCategory(special, plain).of = IF i = 0 THEN 1 ELSE i
  BY ScoreOf
<1>4. PICK d \in Seq(Percent), j \in Nat :
         /\ d = Components(louder, plainer) /\ j = Len(d)
         /\ ScoreCategory(louder, plainer).sum = Total(d)
         /\ ScoreCategory(louder, plainer).of = IF j = 0 THEN 1 ELSE j
  BY ScoreOf
<1>5. PICK m \in Nat : Below(c, d, m)
  BY <1>2, <1>3, <1>4 DEF IsBelow
<1>6. i = j /\ c \in Seq(Int) /\ d \in Seq(Int) /\ Total(c) \in Int /\ Total(d) \in Int
  BY <1>3, <1>4, <1>5, PercentSeq, TotalSteps DEF Below
<1>7. Total(c) <= Total(d)
  BY <1>5, <1>6, TotalBelow
<1>8. PICK o \in Nat : o = IF i = 0 THEN 1 ELSE i
  OBVIOUS
<1>9. \A x, y \in Int : x <= y => x * o <= y * o
  OBVIOUS
<1> QED
  BY <1>3, <1>4, <1>6, <1>7, <1>8, <1>9 DEF AtMostScore

\* A sample that is raised makes the samples busier.
LEMMA RaisedIs ==
    ASSUME NEW v \in Seq(Measured), NEW n \in Nat, n = Len(v), NEW k \in 1..n, v[k] # NaN
    PROVE  Raised(v, k) \in Seq(Measured) /\ Busier(v, Raised(v, k), n)
<1>1. v[k] \in Int
  BY DEF Measured
<1>2. v[k] + 1 \in Int /\ v[k] <= v[k] + 1
  BY <1>1
<1>3. PICK r : r = Raised(v, k)
  OBVIOUS
<1>4. r \in Seq(Measured) /\ Len(r) = n /\ r[k] = v[k] + 1 /\ \A j \in 1..n : j # k => r[j] = v[j]
  <2>1. r = [v EXCEPT ![k] = v[k] + 1]
    BY <1>3 DEF Raised
  <2>2. v[k] + 1 \in Measured
    BY <1>2 DEF Measured
  <2> QED
    BY <2>1, <2>2
<1>5. Busier(v, r, n)
  BY <1>1, <1>2, <1>4 DEF Busier
<1> QED
  BY <1>3, <1>4, <1>5

\* Samples are below themselves.
LEMMA SameBelow ==
    ASSUME NEW v \in Seq(Measured)
    PROVE  IsBelow(Special(v), Special(v)) /\ IsBelow(Plain(v), Plain(v))
<1>1. PICK n \in Nat : n = Len(v)
  BY LenProperties
<1>2. Busier(v, v, n)
  BY <1>1 DEF Busier
<1> QED
  BY <1>2, ComponentBelow

\* A score lies between 0 and 100.
LEMMA ScoreRange ==
    ASSUME NEW special \in Seq(Measured), NEW plain \in Seq(Seq(Measured)), NEW a,
           a = ScoreCategory(special, plain)
    PROVE  0 <= a.sum /\ a.sum <= 100 * a.of
<1>1. PICK c \in Seq(Percent), n \in Nat :
         /\ c = Components(special, plain) /\ n = Len(c)
         /\ ScoreCategory(special, plain).sum = Total(c)
         /\ ScoreCategory(special, plain).of = IF n = 0 THEN 1 ELSE n
  BY ScoreOf
<1>2. Total(c) \in 0..100 * n
  BY <1>1, PercentSeq
<1> QED
  BY <1>1, <1>2

\* Leaving the samples out that are not finite lowers no score.
LEMMA ScoreFinite ==
    ASSUME NEW special \in Seq(Measured), NEW plain \in Seq(Seq(Measured))
    PROVE  AtMostScore(ScoreCategory(special, plain),
                       ScoreCategory(Finite(special), [k \in 1..Len(plain) |-> Finite(plain[k])]))
<1> DEFINE finite == [k \in 1..Len(plain) |-> Finite(plain[k])]
<1>1. PICK n \in Nat : n = Len(plain)
  BY LenProperties
<1>2. PICK s \in Seq(Int) : s = Finite(special) /\ Finite(s) = s /\ s \in Seq(Measured)
  <2>1. Finite(special) \in Seq(Int)
    BY FiniteSteps
  <2> QED
    BY <2>1, FiniteAll
<1>3. ASSUME NEW k \in 1..n
      PROVE  Finite(plain[k]) \in Seq(Measured) /\ Plain(Finite(plain[k])) = Plain(plain[k])
  <2>1. PICK p \in Seq(Measured) : p = plain[k]
    BY <1>1
  <2>2. Finite(p) \in Seq(Int)
    BY FiniteSteps
  <2>3. Finite(Finite(p)) = Finite(p) /\ Finite(p) \in Seq(Measured)
    BY <2>2, FiniteAll
  <2> QED
    BY <2>1, <2>3 DEF Plain
<1>4. finite \in Seq(Seq(Measured)) /\ Len(finite) = n
  BY <1>1, <1>3
<1>5. Each(finite) = Each(plain)
  BY <1>1, <1>3, <1>4 DEF Each
<1> HIDE DEF finite
<1>6. PICK f \in Seq(Percent), m \in Nat : f = FlattenSeq(Each(plain)) /\ m = Len(f)
  BY EachIs, LenProperties
<1>7. PICK c \in Seq(Percent), i \in Nat :
         /\ c = Components(special, plain) /\ i = Len(c)
         /\ ScoreCategory(special, plain).sum = Total(c)
         /\ ScoreCategory(special, plain).of = IF i = 0 THEN 1 ELSE i
  BY ScoreOf
<1>8. PICK d \in Seq(Percent), j \in Nat :
         /\ d = Components(s, finite) /\ j = Len(d)
         /\ ScoreCategory(s, finite).sum = Total(d)
         /\ ScoreCategory(s, finite).of = IF j = 0 THEN 1 ELSE j
  BY <1>2, <1>4, ScoreOf
<1>9. /\ Total(c) \in Nat /\ Total(c) = Total(d)
      /\ i = j \/ (i = m + 1 /\ j = m)
  <2>1. Total(c) \in Nat
    BY <1>7, PercentSeq
  <2>2. CASE s # <<>> \/ special = <<>>
    <3>1. Special(s) = Special(special)
      <4>1. CASE special = <<>>
        BY <1>2, <4>1, FiniteSteps
      <4>2. CASE special # <<>> /\ s # <<>>
        BY <1>2, <4>2 DEF Special
      <4> QED
        BY <2>2, <4>1, <4>2
    <3>2. c = d
      BY <1>5, <1>7, <1>8, <3>1 DEF Components
    <3> QED
      BY <1>7, <1>8, <2>1, <3>2
  <2>3. CASE s = <<>> /\ special # <<>>
    <3>1. PICK z \in Percent : z = Normalise(0) /\ z = 0
      BY ThresholdAssumption DEF Normalise, Percent
    <3>2. Special(special) = <<z>>
      BY <1>2, <2>3, <3>1, TotalSteps DEF Special
    <3>3. Special(s) = <<>>
      BY <2>3 DEF Special
    <3>4. PICK o \in Seq(Int) : o = <<z>> /\ Len(o) = 1 /\ o \in Seq(Percent)
      BY <3>1, Single, PercentSeq
    <3>5. c = o \o f
      BY <1>6, <1>7, <3>2, <3>4 DEF Components
    <3>6. d = f
      <4>1. <<>> \o f = f
        BY ConcatEmptySeq
      <4> QED
        BY <1>5, <1>6, <1>8, <3>3, <4>1 DEF Components
    <3>7. f \in Seq(Int) /\ Total(f) \in Int
      BY PercentSeq, TotalSteps
    <3>8. Total(c) = Total(o) + Total(f)
      BY <3>5, <3>7, TotalConcat
    <3>9. Total(o) = 0
      <4>1. PICK none \in Seq(Int) : none = <<>> /\ Total(none) = 0
        BY EmptySeq, TotalSteps
      <4>2. o = Append(none, 0)
        BY <3>1, <3>4, <4>1
      <4>3. Total(Append(none, 0)) = Total(none) + 0
        BY TotalSteps
      <4> QED
        BY <4>1, <4>2, <4>3
    <3>10. i = m + 1
      BY <1>6, <1>7, <3>4, <3>5
    <3> QED
      BY <1>6, <1>8, <2>1, <3>6, <3>7, <3>8, <3>9, <3>10
  <2> QED
    BY <2>2, <2>3
<1>10. PICK t \in Nat, x \in Nat, y \in Nat :
          /\ t = Total(c) /\ x = (IF i = 0 THEN 1 ELSE i) /\ y = (IF j = 0 THEN 1 ELSE j) /\ y <= x
  BY <1>9
<1>11. t * y <= t * x
  <2>1. \A v, w \in Nat : v <= w => v * t <= w * t
    OBVIOUS
  <2>2. y * t <= x * t
    <3>1. y <= x
      BY <1>10
    <3> QED
      BY <2>1, <3>1, Zenon
  <2> QED
    BY <2>2
<1> QED
  BY <1>2, <1>7, <1>8, <1>9, <1>10, <1>11 DEF AtMostScore, finite

\* score_category, of any number of metrics and samples, those that are not finite among
\* them: in per cent, monotone, and a missing sample raises nothing.
THEOREM ScoreIsHonest ==
    ASSUME NEW special \in Seq(Measured), NEW plain \in Seq(Seq(Measured))
    PROVE  ScoreHonest(special, plain, ScoreCategory(special, plain))
<1>1. PICK n \in Nat : n = Len(plain)
  BY LenProperties
<1>2. PICK i \in Nat : i = Len(special)
  BY LenProperties
<1>3. \A k \in 1..n : IsBelow(Plain(plain[k]), Plain(plain[k]))
  BY <1>1, SameBelow
<1>4. ASSUME NEW k \in 1..i, special[k] # NaN
      PROVE  AtMostScore(ScoreCategory(special, plain), ScoreCategory(Raised(special, k), plain))
  <2>1. PICK r \in Seq(Measured) : r = Raised(special, k) /\ Busier(special, r, i)
    BY <1>2, <1>4, RaisedIs
  <2>2. IsBelow(Special(special), Special(r))
    BY <2>1, ComponentBelow
  <2> QED
    BY <1>1, <1>3, <2>1, <2>2, ScoreBelow
<1>5. ASSUME NEW k \in 1..n, NEW j \in 1..Len(plain[k]), plain[k][j] # NaN
      PROVE  AtMostScore(ScoreCategory(special, plain),
                         ScoreCategory(special, [plain EXCEPT ![k] = Raised(@, j)]))
  <2>1. PICK p \in Seq(Measured), m \in Nat : p = plain[k] /\ m = Len(p)
    BY <1>1, LenProperties
  <2>2. PICK r \in Seq(Measured) : r = Raised(p, j) /\ Busier(p, r, m)
    BY <1>5, <2>1, RaisedIs
  <2>3. IsBelow(Plain(p), Plain(r))
    BY <2>2, ComponentBelow
  <2>4. PICK plainer \in Seq(Seq(Measured)) :
           /\ plainer = [plain EXCEPT ![k] = Raised(@, j)] /\ Len(plainer) = n
           /\ plainer[k] = r /\ \A o \in 1..n : o # k => plainer[o] = plain[o]
    <3>1. PICK q : q = [plain EXCEPT ![k] = r]
      OBVIOUS
    <3>2. q \in Seq(Seq(Measured)) /\ Len(q) = n /\ q[k] = r /\ \A o \in 1..n : o # k => q[o] = plain[o]
      BY <1>1, <3>1
    <3>3. q = [plain EXCEPT ![k] = Raised(@, j)]
      BY <2>1, <2>2, <3>1
    <3> QED
      BY <3>2, <3>3
  <2>5. \A o \in 1..n : IsBelow(Plain(plain[o]), Plain(plainer[o]))
    BY <1>3, <2>1, <2>3, <2>4
  <2>6. IsBelow(Special(special), Special(special))
    BY SameBelow
  <2> QED
    BY <1>1, <2>4, <2>5, <2>6, ScoreBelow
<1>6. PICK a : a = ScoreCategory(special, plain)
  OBVIOUS
<1>7. 0 <= a.sum /\ a.sum <= 100 * a.of
  BY <1>6, ScoreRange
<1> QED
  BY <1>1, <1>2, <1>4, <1>5, <1>6, <1>7, ScoreFinite DEF ScoreHonest

-----------------------------------------------------------------------------
(***************************************************************************)
(* The metrics text. What the two scanners make of a text follows from what *)
(* they make of its pieces: Goes and Reads say so, and compose.            *)
(***************************************************************************)
\* The states of split_head_value: outside of braces and quotes, in braces, in quotes
\* there, and behind a backslash.
ScanStates == [depth : Nat, quoted : BOOLEAN, escaped : BOOLEAN]
Outside == [depth |-> 0, quoted |-> FALSE, escaped |-> FALSE]
InBraces == [depth |-> 1, quoted |-> FALSE, escaped |-> FALSE]
InQuotes == [depth |-> 1, quoted |-> TRUE, escaped |-> FALSE]
InEscape == [depth |-> 1, quoted |-> TRUE, escaped |-> TRUE]

Scanning(C) == [p \in ScanStates \X C |-> Scan(p[1], p[2])]

\* A turn of split_head_value leaves it in one of its states.
LEMMA ScanTyped ==
    ASSUME NEW st \in ScanStates, NEW char
    PROVE  Scan(st, char) \in ScanStates
<1>1. st.depth \in Nat /\ st.quoted \in BOOLEAN
  BY DEF ScanStates
<1>2. CASE st.escaped
  BY <1>2 DEF Scan, ScanStates
<1>3. CASE ~st.escaped
  <2> DEFINE d == IF st.quoted THEN st.depth
                  ELSE IF char = "o" THEN st.depth + 1
                  ELSE IF char = "c" /\ st.depth > 0 THEN st.depth - 1 ELSE st.depth
             q == st.quoted # (char = "q")
             e == char = "b" /\ st.quoted
  <2>1. d \in Nat
    BY <1>1
  <2>2. q \in BOOLEAN
    BY <1>1
  <2>3. e \in BOOLEAN
    BY <1>1
  <2>4. Scan(st, char) = [depth |-> d, quoted |-> q, escaped |-> e]
    BY <1>3 DEF Scan
  <2> HIDE DEF d, q, e
  <2> QED
    BY <2>1, <2>2, <2>3, <2>4 DEF ScanStates
<1> QED
  BY <1>2, <1>3

\* The parameters of that fold.
LEMMA ScanningIsFold ==
    ASSUME NEW C PROVE IsFold(ScanStates, C, Outside, Scanning(C))
<1>1. Outside \in ScanStates
  BY DEF Outside, ScanStates
<1> QED
  BY <1>1, ScanTyped DEF Scanning, IsFold

\* The scan is that fold.
LEMMA ScannedFold ==
    ASSUME NEW C, NEW seq \in Seq(C)
    PROVE  Scanned(seq) = Folded(Scanning(C), Outside, seq)
<1> DEFINE Rec(h) == h = [s \in SUBSET DOMAIN seq |->
               IF s = {} THEN Outside ELSE Scan(h[s \ {Max(s)}], seq[Max(s)])]
<1>0. IsFold(ScanStates, C, Outside, Scanning(C))
  BY ScanningIsFold
<1>1. PICK g \in [SUBSET (1..Len(seq)) -> ScanStates] : Folding(g, Scanning(C), Outside, seq, Len(seq))
  BY <1>0, FoldExists
<1>2. DOMAIN seq = 1..Len(seq) /\ Len(seq) \in Nat
  OBVIOUS
<1>3. \A s \in SUBSET (1..Len(seq)) : s # {} =>
          seq[Max(s)] \in C /\ s \ {Max(s)} \in SUBSET (1..Len(seq))
  BY <1>2, Topmost
<1>4. Rec(g)
  BY <1>1, <1>2, <1>3 DEF Folding, Scanning
<1>5. Scanned(seq) = (CHOOSE h : Rec(h))[DOMAIN seq]
  BY DEF Scanned, Outside, FoldLeft, MapThenFoldSet
<1>6. PICK h : Rec(h) /\ Scanned(seq) = h[1..Len(seq)]
  BY <1>2, <1>4, <1>5
<1>7. Steps(h, Scanning(C), Outside, seq, ScanStates)
  BY <1>2, <1>3, <1>6 DEF Steps, Scanning
<1> HIDE DEF Rec
<1>8. h[1..Len(seq)] = Folded(Scanning(C), Outside, seq)
  BY <1>0, <1>7, FoldValue
<1> QED
  BY <1>6, <1>8

\* The scan, element by element.
LEMMA ScannedSteps ==
    ASSUME NEW C, NEW seq \in Seq(C)
    PROVE  /\ Scanned(seq) \in ScanStates
           /\ Scanned(<<>>) = Outside
           /\ \A c \in C : Scanned(Append(seq, c)) = Scan(Scanned(seq), c)
<1>0. IsFold(ScanStates, C, Outside, Scanning(C))
  BY ScanningIsFold
<1>1. /\ Scanned(seq) \in ScanStates
      /\ Scanned(seq) = Folded(Scanning(C), Outside, seq)
  BY <1>0, ScannedFold, FoldedType
<1>2. ASSUME NEW c \in C
      PROVE  Scanned(Append(seq, c)) = Scanning(C)[<<Scanned(seq), c>>]
  <2>1. PICK more \in Seq(C) : more = Append(seq, c)
    BY AppendProperties
  <2>2. Folded(Scanning(C), Outside, Append(seq, c)) = Scanning(C)[<<Folded(Scanning(C), Outside, seq), c>>]
    BY <1>0, FoldedAppend
  <2>3. Scanned(more) = Folded(Scanning(C), Outside, more)
    BY ScannedFold
  <2> QED
    BY <1>1, <2>1, <2>2, <2>3
<1>3. Scanned(<<>>) = Outside
  <2>1. <<>> \in Seq(C) /\ Folded(Scanning(C), Outside, <<>>) = Outside
    BY <1>0, EmptySeq, FoldedEmpty
  <2> QED
    BY <2>1, ScannedFold
<1> QED
  BY <1>1, <1>2, <1>3 DEF Scanning

\* Which turns the characters of a line with labels make.
LEMMA ScanTurns ==
    /\ \A c \in NameChars \cup {"s", "1"} : Scan(Outside, c) = Outside
    /\ Scan(Outside, "o") = InBraces
    /\ \A c \in NameChars \cup {"=", ","} : Scan(InBraces, c) = InBraces
    /\ Scan(InBraces, "q") = InQuotes /\ Scan(InBraces, "c") = Outside
    /\ \A c : c \notin {"b", "q"} => Scan(InQuotes, c) = InQuotes
    /\ Scan(InQuotes, "b") = InEscape /\ Scan(InQuotes, "q") = InBraces
    /\ \A c : Scan(InEscape, c) = InQuotes
<1>1. \A c \in NameChars \cup {"s", "1"} : Scan(Outside, c) = Outside
  BY DEF Scan, Outside, NameChars
<1>2. Scan(Outside, "o") = InBraces
  <2>1. Scan(Outside, "o") = [depth |-> 0 + 1, quoted |-> FALSE # ("o" = "q"), escaped |-> FALSE]
    BY DEF Scan, Outside
  <2>2. (FALSE # ("o" = "q")) = FALSE
    BY Zenon
  <2>3. 0 + 1 = 1
    OBVIOUS
  <2> QED
    BY <2>1, <2>2, <2>3, Zenon DEF InBraces
<1>3. \A c \in NameChars \cup {"=", ","} : Scan(InBraces, c) = InBraces
  BY DEF Scan, InBraces, NameChars
<1>4. Scan(InBraces, "q") = InQuotes /\ Scan(InBraces, "c") = Outside
  <2>1. Scan(InBraces, "q") = InQuotes
    BY DEF Scan, InBraces, InQuotes
  <2>2. Scan(InBraces, "c") = [depth |-> 1 - 1, quoted |-> FALSE # ("c" = "q"),
                               escaped |-> "c" = "b" /\ FALSE]
    <3>1. 1 > 0
      OBVIOUS
    <3> QED
      BY <3>1, Zenon DEF Scan, InBraces
  <2>3. (FALSE # ("c" = "q")) = FALSE /\ ("c" = "b" /\ FALSE) = FALSE
    BY Zenon
  <2>4. 1 - 1 = 0
    OBVIOUS
  <2> QED
    BY <2>1, <2>2, <2>3, <2>4, Zenon DEF Outside
<1>5. \A c : c \notin {"b", "q"} => Scan(InQuotes, c) = InQuotes
  BY DEF Scan, InQuotes
<1>6. Scan(InQuotes, "b") = InEscape /\ Scan(InQuotes, "q") = InBraces
  BY DEF Scan, InBraces, InQuotes, InEscape
<1>7. \A c : Scan(InEscape, c) = InQuotes
  BY DEF Scan, InQuotes, InEscape
<1> QED
  BY <1>1, <1>2, <1>3, <1>4, <1>5, <1>6, <1>7
-----------------------------------------------------------------------------
\* No head ends in a text, and it leaves split_head_value in a state.
Scans(text, st) == HeadEnds(text) = {} /\ Scanned(text) = st

\* White space outside of braces and quotes is the end of a head.
LEMMA HeadEndsSteps ==
    ASSUME NEW C, NEW text \in Seq(C), NEW n \in Nat, n = Len(text), NEW c \in C
    PROVE  /\ HeadEnds(<<>>) = {}
           /\ HeadEnds(Append(text, c)) = HeadEnds(text) \cup
                 (IF c = "s" /\ Scanned(text) = Outside THEN {n + 1} ELSE {})
<1>1. PICK more \in Seq(C), m \in Nat : Extended(more, text, c, m)
  BY Extension
<1>2. /\ m = n /\ more = Append(text, c) /\ Len(more) = n + 1 /\ more[n + 1] = c
      /\ \A k \in 1..n : more[k] = text[k]
  BY <1>1 DEF Extended
<1>3. ASSUME NEW k \in 1..n + 1 PROVE SubSeq(more, 1, k - 1) = SubSeq(text, 1, k - 1)
  <2>1. k - 1 \in 0..n /\ k - 1 \in 0..Len(more) /\ k - 1 \in 0..Len(text)
    BY <1>2
  <2>2. PICK a \in Seq(C) : /\ a = SubSeq(more, 1, k - 1) /\ Len(a) = k - 1
                             /\ \A j \in 1..k - 1 : a[j] = more[j]
    BY <2>1, FirstElements
  <2>3. PICK b \in Seq(C) : /\ b = SubSeq(text, 1, k - 1) /\ Len(b) = k - 1
                             /\ \A j \in 1..k - 1 : b[j] = text[j]
    BY <2>1, FirstElements
  <2>4. \A j \in 1..k - 1 : a[j] = b[j]
    BY <1>2, <2>2, <2>3
  <2>5. a = b
    BY <2>2, <2>3, <2>4
  <2> QED
    BY <2>2, <2>3, <2>5
<1>4. SubSeq(text, 1, n) = text
  BY SubSeqFull
<1> DEFINE End(t, k) == t[k] = "s" /\ Scanned(SubSeq(t, 1, k - 1)) = Outside
<1>5. HeadEnds(text) = {k \in 1..n : End(text, k)}
  BY DEF HeadEnds, Outside
<1>6. HeadEnds(more) = {k \in 1..n + 1 : End(more, k)}
  BY <1>2 DEF HeadEnds, Outside
<1>7. ASSUME NEW k \in 1..n PROVE End(more, k) <=> End(text, k)
  <2>1. k \in 1..n + 1
    OBVIOUS
  <2>2. SubSeq(more, 1, k - 1) = SubSeq(text, 1, k - 1)
    BY <1>3, <2>1
  <2> QED
    BY <1>2, <2>2
<1>8. End(more, n + 1) <=> c = "s" /\ Scanned(text) = Outside
  <2>1. n + 1 \in 1..n + 1 /\ (n + 1) - 1 = n
    OBVIOUS
  <2>2. SubSeq(more, 1, n) = text
    BY <1>3, <1>4, <2>1
  <2> QED
    BY <1>2, <2>1, <2>2
<1> HIDE DEF End
<1>9. HeadEnds(more) = HeadEnds(text) \cup (IF c = "s" /\ Scanned(text) = Outside THEN {n + 1} ELSE {})
  <2>1. 1..n + 1 = (1..n) \cup {n + 1}
    OBVIOUS
  <2> QED
    BY <1>5, <1>6, <1>7, <1>8, <2>1
<1>10. HeadEnds(<<>>) = {}
  BY DEF HeadEnds
<1> QED
  BY <1>2, <1>9, <1>10

\* From wherever a text begins in the state st, it comes to the state next.
Goes(C, st, text, next) == \A p \in Seq(C) : Scans(p, st) => Scans(p \o text, next)

\* One character.
LEMMA GoesOne ==
    ASSUME NEW C, NEW st \in ScanStates, NEW c \in C, c # "s" \/ st # Outside
    PROVE  Goes(C, st, <<c>>, Scan(st, c))
<1> SUFFICES ASSUME NEW p \in Seq(C), Scans(p, st) PROVE Scans(p \o <<c>>, Scan(st, c))
  BY DEF Goes
<1>1. p \o <<c>> = Append(p, c)
  BY AppendIsConcat
<1>2. PICK n \in Nat : n = Len(p)
  BY LenProperties
<1>3. HeadEnds(Append(p, c)) = HeadEnds(p) \cup
         (IF c = "s" /\ Scanned(p) = Outside THEN {n + 1} ELSE {})
  BY <1>2, HeadEndsSteps
<1>4. Scanned(Append(p, c)) = Scan(Scanned(p), c)
  BY ScannedSteps
<1> QED
  BY <1>1, <1>3, <1>4 DEF Scans

\* One text after the other.
LEMMA GoesOn ==
    ASSUME NEW C, NEW a, NEW s \in Seq(C), NEW b, NEW t \in Seq(C), NEW c,
           Goes(C, a, s, b), Goes(C, b, t, c)
    PROVE  Goes(C, a, s \o t, c)
<1> SUFFICES ASSUME NEW p \in Seq(C), Scans(p, a) PROVE Scans(p \o (s \o t), c)
  BY DEF Goes
<1>1. Regroups(p, s, t)
  BY Regrouped
<1>2. PICK u \in Seq(C) : Joins(u, p, s)
  BY Concatenation
<1>3. Scans(u, b)
  BY <1>2 DEF Goes, Joins
<1>4. Scans(u \o t, c)
  BY <1>3 DEF Goes
<1> QED
  BY <1>1, <1>2, <1>4 DEF Regroups, Joins

\* Nothing at all.
LEMMA GoesNowhere ==
    ASSUME NEW C, NEW st PROVE Goes(C, st, <<>>, st)
<1> SUFFICES ASSUME NEW p \in Seq(C), Scans(p, st) PROVE Scans(p \o <<>>, st)
  BY DEF Goes
<1>1. p \o <<>> = p
  BY ConcatEmptySeq
<1> QED
  BY <1>1

\* Characters that leave a state as it is.
LEMMA GoesAlong ==
    ASSUME NEW C, NEW D, D \subseteq C, NEW st \in ScanStates,
           \A c \in D : (c # "s" \/ st # Outside) /\ Scan(st, c) = st, NEW text \in Seq(D)
    PROVE  text \in Seq(C) /\ Goes(C, st, text, st)
<1> DEFINE Good == {u \in Seq(D) : u \in Seq(C) /\ Goes(C, st, u, st)}
<1>1. <<>> \in Good
  BY EmptySeq, GoesNowhere
<1>2. ASSUME NEW u \in Seq(D), NEW c \in D, u \in Good PROVE Append(u, c) \in Good
  <2>1. u \in Seq(C) /\ Goes(C, st, u, st) /\ c \in C
    BY <1>2
  <2>2. Goes(C, st, <<c>>, st)
    <3>1. Goes(C, st, <<c>>, Scan(st, c))
      BY <2>1, GoesOne
    <3> QED
      BY <3>1
  <2>3. <<c>> \in Seq(C)
    BY <2>1
  <2>4. Goes(C, st, u \o <<c>>, st)
    BY <2>1, <2>2, <2>3, GoesOn
  <2>5. u \o <<c>> = Append(u, c) /\ Append(u, c) \in Seq(C) /\ Append(u, c) \in Seq(D)
    BY <2>1, AppendIsConcat, AppendProperties
  <2> QED
    BY <2>4, <2>5
<1> HIDE DEF Good
<1>3. text \in Good
  BY <1>1, <1>2, SeqInductive
<1> QED
  BY <1>3 DEF Good

\* The states of parse_labels.
Modes == {"after", "key", "equals", "value", "escape", "stuck"}
Keys == {k \in Seq(NameChars) : k # <<>>}
Labellings(C) == UNION {[D -> Seq(C)] : D \in SUBSET Keys}
LabelStates(C) == [mode : Modes, key : Seq(NameChars), value : Seq(C), out : Labellings(C)]

AtLabel(mode, key, value, out) == [mode |-> mode, key |-> key, value |-> value, out |-> out]

Labelling(C) == [p \in LabelStates(C) \X C |-> Label(p[1], p[2])]

\* A label more.
LEMMA WithTyped ==
    ASSUME NEW C, NEW out \in Labellings(C), NEW key \in Keys, NEW value \in Seq(C)
    PROVE  With(out, key, value) \in Labellings(C)
<1>1. PICK D \in SUBSET Keys : out \in [D -> Seq(C)]
  BY DEF Labellings
<1>2. With(out, key, value) \in [D \cup {key} -> Seq(C)]
  BY <1>1 DEF With
<1>3. D \cup {key} \in SUBSET Keys
  OBVIOUS
<1> QED
  BY <1>2, <1>3 DEF Labellings

\* A label is entered if its key is not empty.
LEMMA InsertTyped ==
    ASSUME NEW C, NEW st \in LabelStates(C)
    PROVE  Insert(st) \in LabelStates(C)
<1> DEFINE out == IF st.key = <<>> THEN st.out ELSE With(st.out, st.key, st.value)
<1>1. /\ st.mode \in Modes /\ st.key \in Seq(NameChars) /\ st.value \in Seq(C)
      /\ st.out \in Labellings(C)
  BY DEF LabelStates
<1>2. out \in Labellings(C)
  <2>1. st.key # <<>> => st.key \in Keys
    BY <1>1 DEF Keys
  <2> QED
    BY <1>1, <2>1, WithTyped
<1>3. Insert(st) = [st EXCEPT !.mode = "after", !.out = out]
  BY DEF Insert
<1> HIDE DEF out
<1> QED
  BY <1>2, <1>3 DEF LabelStates, Modes

\* A turn of parse_labels leaves it in one of its states.
LEMMA LabelTyped ==
    ASSUME NEW C, "nl" \in C, NEW st \in LabelStates(C), NEW char \in C
    PROVE  Label(st, char) \in LabelStates(C)
<1>1. /\ st.mode \in Modes /\ st.key \in Seq(NameChars) /\ st.value \in Seq(C)
      /\ st.out \in Labellings(C)
  BY DEF LabelStates
<1>2. ASSUME NEW m \in Modes PROVE [st EXCEPT !.mode = m] \in LabelStates(C)
  BY DEF LabelStates
<1>3. ASSUME NEW m \in Modes, NEW k \in Seq(NameChars)
      PROVE  [st EXCEPT !.mode = m, !.key = k] \in LabelStates(C)
  BY DEF LabelStates
<1>4. ASSUME NEW m \in Modes, NEW v \in Seq(C)
      PROVE  [st EXCEPT !.mode = m, !.value = v] \in LabelStates(C)
  BY DEF LabelStates
<1>5. ASSUME NEW m \in Modes, NEW k \in Seq(NameChars), NEW v \in Seq(C)
      PROVE  [st EXCEPT !.mode = m, !.key = k, !.value = v] \in LabelStates(C)
  BY DEF LabelStates
<1>6. ASSUME NEW c \in C PROVE [st EXCEPT !.value = Append(@, c)] \in LabelStates(C)
  BY <1>1, AppendProperties DEF LabelStates
<1>7. ASSUME NEW c \in NameChars PROVE [st EXCEPT !.key = Append(@, c)] \in LabelStates(C)
  BY <1>1, AppendProperties DEF LabelStates
<1>8. ASSUME NEW c \in C
      PROVE  [st EXCEPT !.mode = "value", !.value = Append(@, c)] \in LabelStates(C)
  BY <1>1, AppendProperties DEF LabelStates, Modes
<1>9. Insert(st) \in LabelStates(C)
  BY InsertTyped
<1>10. {"after", "key", "equals", "value", "escape", "stuck"} \subseteq Modes
  BY DEF Modes
<1>11. <<>> \in Seq(NameChars) /\ <<>> \in Seq(C)
  BY EmptySeq
<1>12. Turn(st, char) \in LabelStates(C)
  <2>1. CASE char \in {"s", ","}
    BY <1>2, <1>10, <2>1 DEF Turn
  <2>2. CASE char \in NameChars
    <3>1. <<char>> \in Seq(NameChars)
      BY <2>2
    <3>2. Turn(st, char) = [st EXCEPT !.mode = "key", !.key = <<char>>]
      BY <2>2 DEF Turn, NameChars
    <3> QED
      BY <1>3, <1>10, <3>1, <3>2
  <2>3. CASE char = "="
    <3>1. Turn(st, char) = [st EXCEPT !.mode = "equals", !.key = <<>>]
      BY <2>3 DEF Turn, NameChars
    <3> QED
      BY <1>3, <1>10, <1>11, <3>1
  <2>4. CASE char = "q"
    <3>1. Turn(st, char) = [st EXCEPT !.mode = "value", !.key = <<>>, !.value = <<>>]
      BY <2>4 DEF Turn, NameChars
    <3>2. "value" \in Modes
      BY <1>10
    <3>3. [st EXCEPT !.mode = "value", !.key = <<>>, !.value = <<>>] \in LabelStates(C)
      BY <1>5, <1>11, <3>2, Zenon
    <3> QED
      BY <3>1, <3>3
  <2>5. CASE char \notin {"s", ","} \cup NameChars \cup {"=", "q"}
    <3>1. Turn(st, char) = [st EXCEPT !.mode = "stuck"]
      BY <2>5 DEF Turn
    <3> QED
      BY <1>2, <1>10, <3>1
  <2> QED
    BY <2>1, <2>2, <2>3, <2>4, <2>5
<1>13. CASE st.mode = "escape"
  <2>1. PICK c \in C : c = IF char = "n" THEN "nl" ELSE char
    OBVIOUS
  <2>2. Label(st, char) = [st EXCEPT !.mode = "value", !.value = Append(@, c)]
    BY <1>13, <2>1 DEF Label
  <2> QED
    BY <1>8, <2>2
<1>14. CASE st.mode = "value"
  <2>1. Label(st, char) = IF char = "b" THEN [st EXCEPT !.mode = "escape"]
                          ELSE IF char = "q" THEN Insert(st) ELSE [st EXCEPT !.value = Append(@, char)]
    BY <1>14 DEF Label
  <2> QED
    BY <1>2, <1>6, <1>9, <1>10, <2>1
<1>15. CASE st.mode \in {"key", "equals"} /\ char = "q"
  <2>1. Label(st, char) = [st EXCEPT !.mode = "value", !.value = <<>>]
    <3>1. /\ st.mode # "escape" /\ st.mode # "value"
          /\ st.mode \in {"key", "equals"} /\ char = "q"
      BY <1>15
    <3> QED
      BY <3>1 DEF Label, NameChars
  <2> QED
    BY <1>4, <1>10, <1>11, <2>1
<1>16. CASE st.mode = "key" /\ char \in NameChars
  <2>1. Label(st, char) = [st EXCEPT !.key = Append(@, char)]
    BY <1>16 DEF Label, NameChars
  <2> QED
    BY <1>7, <1>16, <2>1
<1>17. CASE st.mode \in {"key", "equals"} /\ char \in {"s", "="}
  <2>1. Label(st, char) = [st EXCEPT !.mode = "equals"]
    BY <1>17 DEF Label, NameChars
  <2> QED
    BY <1>2, <1>10, <2>1
<1>18. CASE st.mode = "stuck"
  <2>1. Label(st, char) = st
    BY <1>18 DEF Label
  <2> QED
    BY <2>1
<1>19. CASE /\ st.mode \notin {"escape", "value", "stuck"}
            /\ ~(st.mode \in {"key", "equals"} /\ char \in {"q", "s", "="})
            /\ ~(st.mode = "key" /\ char \in NameChars)
  <2>1. Label(st, char) = Turn(st, char)
    BY <1>19 DEF Label
  <2> QED
    BY <1>12, <2>1
<1> QED
  BY <1>13, <1>14, <1>15, <1>16, <1>17, <1>18, <1>19

\* The parameters of that fold.
LEMMA LabellingIsFold ==
    ASSUME NEW C, "nl" \in C PROVE IsFold(LabelStates(C), C, NoLabels, Labelling(C))
<1>1. NoLabels \in LabelStates(C)
  <2>1. <<>> \in Labellings(C)
    <3>1. <<>> \in [{} -> Seq(C)] /\ {} \in SUBSET Keys
      OBVIOUS
    <3> QED
      BY <3>1 DEF Labellings
  <2>2. <<>> \in Seq(NameChars) /\ <<>> \in Seq(C)
    BY EmptySeq
  <2> QED
    BY <2>1, <2>2 DEF NoLabels, LabelStates, Modes
<1> QED
  BY <1>1, LabelTyped DEF Labelling, IsFold

\* The scan of the labels is that fold.
LEMMA LabelledFold ==
    ASSUME NEW C, "nl" \in C, NEW seq \in Seq(C)
    PROVE  Labelled(seq) = Folded(Labelling(C), NoLabels, seq)
<1> DEFINE Rec(h) == h = [s \in SUBSET DOMAIN seq |->
               IF s = {} THEN NoLabels ELSE Label(h[s \ {Max(s)}], seq[Max(s)])]
<1>0. IsFold(LabelStates(C), C, NoLabels, Labelling(C))
  BY LabellingIsFold
<1>1. PICK g \in [SUBSET (1..Len(seq)) -> LabelStates(C)] : Folding(g, Labelling(C), NoLabels, seq, Len(seq))
  BY <1>0, FoldExists
<1>2. DOMAIN seq = 1..Len(seq) /\ Len(seq) \in Nat
  OBVIOUS
<1>3. \A s \in SUBSET (1..Len(seq)) : s # {} =>
          seq[Max(s)] \in C /\ s \ {Max(s)} \in SUBSET (1..Len(seq))
  BY <1>2, Topmost
<1>4. Rec(g)
  BY <1>1, <1>2, <1>3 DEF Folding, Labelling
<1>5. Labelled(seq) = (CHOOSE h : Rec(h))[DOMAIN seq]
  BY DEF Labelled, FoldLeft, MapThenFoldSet
<1>6. PICK h : Rec(h) /\ Labelled(seq) = h[1..Len(seq)]
  BY <1>2, <1>4, <1>5
<1>7. Steps(h, Labelling(C), NoLabels, seq, LabelStates(C))
  BY <1>2, <1>3, <1>6 DEF Steps, Labelling
<1> HIDE DEF Rec
<1>8. h[1..Len(seq)] = Folded(Labelling(C), NoLabels, seq)
  BY <1>0, <1>7, FoldValue
<1> QED
  BY <1>6, <1>8

\* The scan of the labels, element by element.
LEMMA LabelledSteps ==
    ASSUME NEW C, "nl" \in C, NEW seq \in Seq(C)
    PROVE  /\ Labelled(seq) \in LabelStates(C)
           /\ Labelled(<<>>) = NoLabels
           /\ \A c \in C : Labelled(Append(seq, c)) = Label(Labelled(seq), c)
<1>0. IsFold(LabelStates(C), C, NoLabels, Labelling(C))
  BY LabellingIsFold
<1>1. /\ Labelled(seq) \in LabelStates(C)
      /\ Labelled(seq) = Folded(Labelling(C), NoLabels, seq)
  BY <1>0, LabelledFold, FoldedType
<1>2. ASSUME NEW c \in C
      PROVE  Labelled(Append(seq, c)) = Labelling(C)[<<Labelled(seq), c>>]
  <2>1. PICK more \in Seq(C) : more = Append(seq, c)
    BY AppendProperties
  <2>2. Folded(Labelling(C), NoLabels, Append(seq, c)) = Labelling(C)[<<Folded(Labelling(C), NoLabels, seq), c>>]
    BY <1>0, FoldedAppend
  <2>3. Labelled(more) = Folded(Labelling(C), NoLabels, more)
    BY LabelledFold
  <2> QED
    BY <1>1, <2>1, <2>2, <2>3
<1>3. Labelled(<<>>) = NoLabels
  <2>1. <<>> \in Seq(C) /\ Folded(Labelling(C), NoLabels, <<>>) = NoLabels
    BY <1>0, EmptySeq, FoldedEmpty
  <2> QED
    BY <2>1, LabelledFold
<1> QED
  BY <1>1, <1>2, <1>3 DEF Labelling

\* The characters of a line.
IsAlphabet(C) == NameChars \subseteq C /\ {"q", "b", "o", "c", "s", "=", ",", "nl"} \subseteq C

\* Which turns the labels of a sample make.
TurnsAt(key, value, out) ==
    /\ \A c \in NameChars : /\ Label(AtLabel("after", key, value, out), c)
                                  = AtLabel("key", <<c>>, value, out)
                            /\ Label(AtLabel("key", key, value, out), c)
                                  = AtLabel("key", Append(key, c), value, out)
    /\ Label(AtLabel("key", key, value, out), "=") = AtLabel("equals", key, value, out)
    /\ Label(AtLabel("equals", key, value, out), "q") = AtLabel("value", key, <<>>, out)
    /\ Label(AtLabel("value", key, value, out), "b") = AtLabel("escape", key, value, out)
    /\ \A c : Label(AtLabel("escape", key, value, out), c)
                 = AtLabel("value", key, Append(value, IF c = "n" THEN "nl" ELSE c), out)
    /\ \A c : c \notin {"b", "q"} => Label(AtLabel("value", key, value, out), c)
                                        = AtLabel("value", key, Append(value, c), out)
    /\ key # <<>> => Label(AtLabel("value", key, value, out), "q")
                        = AtLabel("after", key, value, With(out, key, value))
    /\ Label(AtLabel("after", key, value, out), ",") = AtLabel("after", key, value, out)

\* It makes them from every state.
LEMMA LabelTurns ==
    ASSUME NEW key, NEW value, NEW out PROVE TurnsAt(key, value, out)
<1>1. ASSUME NEW c \in NameChars
      PROVE  Label(AtLabel("after", key, value, out), c) = AtLabel("key", <<c>>, value, out)
  <2>1. Label(AtLabel("after", key, value, out), c) = Turn(AtLabel("after", key, value, out), c)
    BY DEF Label, AtLabel, NameChars
  <2>2. Turn(AtLabel("after", key, value, out), c) = AtLabel("key", <<c>>, value, out)
    BY DEF Turn, AtLabel, NameChars
  <2> QED
    BY <2>1, <2>2
<1>2. ASSUME NEW c \in NameChars
      PROVE  Label(AtLabel("key", key, value, out), c) = AtLabel("key", Append(key, c), value, out)
  BY DEF Label, AtLabel, NameChars
<1>3. Label(AtLabel("key", key, value, out), "=") = AtLabel("equals", key, value, out)
  BY DEF Label, AtLabel, NameChars
<1>4. Label(AtLabel("equals", key, value, out), "q") = AtLabel("value", key, <<>>, out)
  BY DEF Label, AtLabel, NameChars
<1>5. Label(AtLabel("value", key, value, out), "b") = AtLabel("escape", key, value, out)
  BY DEF Label, AtLabel
<1>6. ASSUME NEW c
      PROVE  Label(AtLabel("escape", key, value, out), c)
                = AtLabel("value", key, Append(value, IF c = "n" THEN "nl" ELSE c), out)
  BY DEF Label, AtLabel
<1>7. ASSUME NEW c, c \notin {"b", "q"}
      PROVE  Label(AtLabel("value", key, value, out), c)
                = AtLabel("value", key, Append(value, c), out)
  BY <1>7 DEF Label, AtLabel
<1>8. ASSUME key # <<>>
      PROVE  Label(AtLabel("value", key, value, out), "q")
                = AtLabel("after", key, value, With(out, key, value))
  <2>1. Label(AtLabel("value", key, value, out), "q") = Insert(AtLabel("value", key, value, out))
    BY DEF Label, AtLabel
  <2>2. Insert(AtLabel("value", key, value, out))
           = AtLabel("after", key, value, With(out, key, value))
    <3>1. PICK st : st = AtLabel("value", key, value, out)
      OBVIOUS
    <3>2. st.key = key /\ st.value = value /\ st.out = out
      BY <3>1 DEF AtLabel
    <3>3. PICK w : w = With(out, key, value)
      OBVIOUS
    <3>4. Insert(st) = [st EXCEPT !.mode = "after", !.out = w]
      BY <1>8, <3>2, <3>3 DEF Insert
    <3>5. [st EXCEPT !.mode = "after"] = AtLabel("after", key, value, out)
      BY <3>1 DEF AtLabel
    <3>6. [AtLabel("after", key, value, out) EXCEPT !.out = w] = AtLabel("after", key, value, w)
      BY DEF AtLabel
    <3>7. [[st EXCEPT !.mode = "after"] EXCEPT !.out = w] = [st EXCEPT !.mode = "after", !.out = w]
      BY <3>1 DEF AtLabel
    <3> QED
      BY <3>1, <3>3, <3>4, <3>5, <3>6, <3>7
  <2> QED
    BY <2>1, <2>2
<1>9. Label(AtLabel("after", key, value, out), ",") = AtLabel("after", key, value, out)
  <2>1. Label(AtLabel("after", key, value, out), ",") = Turn(AtLabel("after", key, value, out), ",")
    BY DEF Label, AtLabel, NameChars
  <2>2. Turn(AtLabel("after", key, value, out), ",") = AtLabel("after", key, value, out)
    BY DEF Turn, AtLabel, NameChars
  <2> QED
    BY <2>1, <2>2
<1> QED
  BY <1>1, <1>2, <1>3, <1>4, <1>5, <1>6, <1>7, <1>8, <1>9 DEF TurnsAt

\* From wherever the labels so far are read to st, a text more leads to next.
Reads(C, st, text, next) == \A p \in Seq(C) : Labelled(p) = st => Labelled(p \o text) = next

\* One character.
LEMMA ReadsOne ==
    ASSUME NEW C, "nl" \in C, NEW st, NEW c \in C
    PROVE  Reads(C, st, <<c>>, Label(st, c))
<1> SUFFICES ASSUME NEW p \in Seq(C), Labelled(p) = st PROVE Labelled(p \o <<c>>) = Label(st, c)
  BY DEF Reads
<1>1. p \o <<c>> = Append(p, c)
  BY AppendIsConcat
<1>2. Labelled(Append(p, c)) = Label(Labelled(p), c)
  BY LabelledSteps
<1> QED
  BY <1>1, <1>2

\* One text after the other.
LEMMA ReadsOn ==
    ASSUME NEW C, NEW a, NEW s \in Seq(C), NEW b, NEW t \in Seq(C), NEW c,
           Reads(C, a, s, b), Reads(C, b, t, c)
    PROVE  Reads(C, a, s \o t, c)
<1> SUFFICES ASSUME NEW p \in Seq(C), Labelled(p) = a PROVE Labelled(p \o (s \o t)) = c
  BY DEF Reads
<1>1. Regroups(p, s, t)
  BY Regrouped
<1>2. PICK u \in Seq(C) : Joins(u, p, s)
  BY Concatenation
<1>3. Labelled(u) = b
  BY <1>2 DEF Reads, Joins
<1>4. Labelled(u \o t) = c
  BY <1>3 DEF Reads
<1> QED
  BY <1>1, <1>2, <1>4 DEF Regroups, Joins

\* Nothing at all.
LEMMA ReadsNothing ==
    ASSUME NEW C, NEW st PROVE Reads(C, st, <<>>, st)
<1> SUFFICES ASSUME NEW p \in Seq(C), Labelled(p) = st PROVE Labelled(p \o <<>>) = st
  BY DEF Reads
<1>1. p \o <<>> = p
  BY ConcatEmptySeq
<1> QED
  BY <1>1

\* A key.
LEMMA ReadsKey ==
    ASSUME NEW C, IsAlphabet(C), NEW key \in Keys, NEW k, NEW v, NEW out
    PROVE  /\ key \in Seq(C) /\ key \in Seq(NameChars)
           /\ Reads(C, AtLabel("after", k, v, out), key, AtLabel("key", key, v, out))
<1> DEFINE At == AtLabel("after", k, v, out)
           In(u) == AtLabel("key", u, v, out)
           Good == {u \in Seq(NameChars) : u \in Seq(C) /\ (u # <<>> => Reads(C, At, u, In(u)))}
<1>0. NameChars \subseteq C /\ "nl" \in C
  BY DEF IsAlphabet
<1>1. <<>> \in Good
  BY EmptySeq
<1>2. ASSUME NEW u \in Seq(NameChars), NEW c \in NameChars, u \in Good PROVE Append(u, c) \in Good
  <2>1. u \in Seq(C) /\ c \in C
    BY <1>0, <1>2
  <2>2. /\ Append(u, c) \in Seq(NameChars) /\ Append(u, c) \in Seq(C)
        /\ u \o <<c>> = Append(u, c) /\ <<c>> \in Seq(C)
    BY <2>1, AppendProperties, AppendIsConcat
  <2>3. Reads(C, At, Append(u, c), In(Append(u, c)))
    <3>1. CASE u = <<>>
      <4>1. Reads(C, At, <<c>>, Label(At, c))
        BY <1>0, <2>1, ReadsOne
      <4>2. Label(At, c) = In(<<c>>)
        <5>1. TurnsAt(k, v, out)
          BY LabelTurns
        <5> QED
          BY <5>1 DEF TurnsAt
      <4>3. Append(u, c) = <<c>>
        BY <3>1
      <4> QED
        BY <4>1, <4>2, <4>3
    <3>2. CASE u # <<>>
      <4>1. Reads(C, At, u, In(u))
        BY <1>2, <3>2
      <4>2. Reads(C, In(u), <<c>>, Label(In(u), c))
        BY <1>0, <2>1, ReadsOne
      <4>3. Label(In(u), c) = In(Append(u, c))
        <5>1. TurnsAt(u, v, out)
          BY LabelTurns
        <5> QED
          BY <5>1 DEF TurnsAt
      <4> HIDE DEF At, In
      <4>4. Reads(C, At, u \o <<c>>, In(Append(u, c)))
        BY <2>1, <2>2, <4>1, <4>2, <4>3, ReadsOn
      <4> QED
        BY <2>2, <4>4
    <3> QED
      BY <3>1, <3>2
  <2> QED
    BY <2>2, <2>3
<1>3. key \in Seq(NameChars) /\ key # <<>>
  BY DEF Keys
<1> HIDE DEF Good
<1>4. key \in Good
  BY <1>1, <1>2, <1>3, SeqInductive
<1> QED
  BY <1>3, <1>4 DEF Good

\* How a character of a value is written.
EscapeOf(char) == IF char = "nl" THEN <<"b", "n">>
                  ELSE IF char \in {"b", "q"} THEN <<"b", char>> ELSE <<char>>

\* A value is written character by character.
LEMMA EscapedSteps ==
    ASSUME NEW C, IsAlphabet(C), NEW value \in Seq(C)
    PROVE  /\ Escaped(<<>>) = <<>> /\ Escaped(value) \in Seq(C)
           /\ \A c \in C : EscapeOf(c) \in Seq(C)
           /\ \A c \in C : Escaped(Append(value, c)) = Escaped(value) \o EscapeOf(c)
<1> DEFINE Parts(v) == [k \in 1..Len(v) |-> EscapeOf(v[k])]
<1>1. ASSUME NEW c \in C PROVE EscapeOf(c) \in Seq(C)
  <2>1. "b" \in C /\ "n" \in C
    BY DEF IsAlphabet, NameChars
  <2>2. <<"b", "n">> \in Seq(C) /\ <<"b", c>> \in Seq(C) /\ <<c>> \in Seq(C)
    BY <2>1, Single, Double
  <2> QED
    BY <2>2 DEF EscapeOf
<1>2. \A v : Escaped(v) = FlattenSeq(Parts(v))
  BY DEF Escaped, EscapeOf
<1>3. Parts(value) \in Seq(Seq(C))
  BY <1>1
<1>4. ASSUME NEW c \in C PROVE Parts(Append(value, c)) = Append(Parts(value), EscapeOf(c))
  <2>1. PICK v \in Seq(C), n \in Nat : Extended(v, value, c, n)
    BY Extension
  <2>2. PICK ps \in Seq(Seq(C)) : ps = Parts(value) /\ Len(ps) = n /\ \A k \in 1..n : ps[k] = EscapeOf(value[k])
    <3>1. Len(value) = n
      BY <2>1 DEF Extended
    <3>2. PICK ps \in Seq(Seq(C)) : ps = [k \in 1..n |-> EscapeOf(value[k])] /\ ps = Parts(value)
      BY <1>3, <3>1
    <3>3. Len(ps) = n /\ \A k \in 1..n : ps[k] = EscapeOf(value[k])
      BY <3>2
    <3> QED
      BY <3>2, <3>3
  <2>3. PICK e \in Seq(C) : e = EscapeOf(c)
    BY <1>1
  <2>4. PICK w \in Seq(Seq(C)), m \in Nat : Extended(w, ps, e, m)
    BY Extension
  <2>5. m = n /\ Len(w) = n + 1 /\ Len(v) = n + 1
    BY <2>1, <2>2, <2>4 DEF Extended
  <2>6. PICK u : u = Parts(v)
    OBVIOUS
  <2>7. u = [k \in 1..n + 1 |-> EscapeOf(v[k])]
    BY <2>5, <2>6
  <2>8. \A k \in 1..n + 1 : w[k] = u[k]
    <3> SUFFICES ASSUME NEW k \in 1..n + 1 PROVE w[k] = u[k]
      OBVIOUS
    <3>1. CASE k = n + 1
      BY <2>1, <2>3, <2>4, <2>5, <2>7, <3>1 DEF Extended
    <3>2. CASE k # n + 1
      <4>1. k \in 1..n
        BY <3>2
      <4> QED
        BY <2>1, <2>2, <2>4, <2>5, <2>7, <4>1 DEF Extended
    <3> QED
      BY <3>1, <3>2
  <2>9. u \in Seq(Seq(C))
    <3>1. \A k \in 1..n + 1 : u[k] \in Seq(C)
      BY <1>1, <2>5, <2>7
    <3> QED
      BY <2>7, <3>1
  <2>10. w = u
    <3>1. Len(u) = n + 1
      BY <2>7
    <3> QED
      BY <2>4, <2>5, <2>8, <2>9, <3>1
  <2> QED
    BY <2>1, <2>2, <2>3, <2>4, <2>6, <2>10 DEF Extended
<1>5. Parts(<<>>) = <<>>
  OBVIOUS
<1> HIDE DEF Parts
<1>6. FlattenSeq(<<>>) = <<>> /\ FlattenSeq(Parts(value)) \in Seq(C)
  BY <1>3, FlattenSteps
<1>7. ASSUME NEW c \in C
      PROVE  FlattenSeq(Append(Parts(value), EscapeOf(c))) = FlattenSeq(Parts(value)) \o EscapeOf(c)
  BY <1>1, <1>3, FlattenSteps
<1> QED
  BY <1>1, <1>2, <1>4, <1>5, <1>6, <1>7

\* A value: its quotes hold what is in them, and it is read as it was.
LEMMA ValueIsRead ==
    ASSUME NEW C, IsAlphabet(C), NEW value \in Seq(C), NEW key, NEW out
    PROVE  /\ Goes(C, InQuotes, Escaped(value), InQuotes)
           /\ Reads(C, AtLabel("value", key, <<>>, out), Escaped(value), AtLabel("value", key, value, out))
<1> DEFINE In(v) == AtLabel("value", key, v, out)
           Out(v) == AtLabel("escape", key, v, out)
           Good == {v \in Seq(C) : /\ Goes(C, InQuotes, Escaped(v), InQuotes)
                                   /\ Reads(C, In(<<>>), Escaped(v), In(v))}
<1>0. "b" \in C /\ "n" \in C /\ "nl" \in C
  BY DEF IsAlphabet, NameChars
<1>1. <<>> \in Good
  BY EmptySeq, EscapedSteps, GoesNowhere, ReadsNothing
<1>2. ASSUME NEW v \in Seq(C), NEW c \in C, v \in Good PROVE Append(v, c) \in Good
  <2>1. /\ Goes(C, InQuotes, Escaped(v), InQuotes)
        /\ Reads(C, In(<<>>), Escaped(v), In(v))
    BY <1>2
  <2>2. TurnsAt(key, v, out)
    BY LabelTurns
  <2> HIDE DEF In, Out
  <2>3. InQuotes \in ScanStates /\ InQuotes # Outside /\ InEscape \in ScanStates /\ InEscape # Outside
    <3>1. InQuotes \in ScanStates /\ InEscape \in ScanStates
      BY DEF InQuotes, InEscape, ScanStates
    <3>2. InQuotes.quoted = TRUE /\ InEscape.quoted = TRUE /\ Outside.quoted = FALSE
      BY DEF InQuotes, InEscape, Outside
    <3> QED
      BY <3>1, <3>2
  \* A backslash and the character behind it.
  <2>4. ASSUME NEW d \in C
        PROVE  /\ Goes(C, InQuotes, <<"b", d>>, InQuotes)
               /\ Reads(C, In(v), <<"b", d>>, In(Append(v, IF d = "n" THEN "nl" ELSE d)))
    <3>1. <<"b">> \in Seq(C) /\ <<d>> \in Seq(C) /\ <<"b">> \o <<d>> = <<"b", d>>
      BY <1>0, Twice
    <3>2. Goes(C, InQuotes, <<"b">>, InEscape)
      <4>1. Goes(C, InQuotes, <<"b">>, Scan(InQuotes, "b"))
        BY <1>0, <2>3, GoesOne
      <4> QED
        BY <4>1, ScanTurns
    <3>3. Goes(C, InEscape, <<d>>, InQuotes)
      <4>1. Goes(C, InEscape, <<d>>, Scan(InEscape, d))
        BY <2>3, GoesOne
      <4>2. Scan(InEscape, d) = InQuotes
        BY ScanTurns
      <4> QED
        BY <4>1, <4>2
    <3>4. Goes(C, InQuotes, <<"b">> \o <<d>>, InQuotes)
      BY <3>1, <3>2, <3>3, GoesOn
    <3>5. Reads(C, In(v), <<"b">>, Out(v))
      <4>1. Reads(C, In(v), <<"b">>, Label(In(v), "b"))
        BY <1>0, ReadsOne
      <4>2. Label(In(v), "b") = Out(v)
        BY <2>2 DEF TurnsAt, In, Out
      <4> QED
        BY <4>1, <4>2
    <3>6. Reads(C, Out(v), <<d>>, In(Append(v, IF d = "n" THEN "nl" ELSE d)))
      <4>1. Reads(C, Out(v), <<d>>, Label(Out(v), d))
        BY <1>0, ReadsOne
      <4>2. Label(Out(v), d) = In(Append(v, IF d = "n" THEN "nl" ELSE d))
        BY <2>2 DEF TurnsAt, In, Out
      <4> QED
        BY <4>1, <4>2
    <3>7. Reads(C, In(v), <<"b">> \o <<d>>, In(Append(v, IF d = "n" THEN "nl" ELSE d)))
      BY <3>1, <3>5, <3>6, ReadsOn
    <3> QED
      BY <3>1, <3>4, <3>7
  <2>5. /\ Goes(C, InQuotes, EscapeOf(c), InQuotes)
        /\ Reads(C, In(v), EscapeOf(c), In(Append(v, c)))
    <3>1. CASE c = "nl"
      <4>1. EscapeOf(c) = <<"b", "n">>
        BY <3>1 DEF EscapeOf
      <4>2. /\ Goes(C, InQuotes, <<"b", "n">>, InQuotes)
            /\ Reads(C, In(v), <<"b", "n">>, In(Append(v, "nl")))
        BY <1>0, <2>4
      <4> QED
        BY <3>1, <4>1, <4>2
    <3>2. CASE c \in {"b", "q"}
      <4>1. EscapeOf(c) = <<"b", c>> /\ c # "n"
        BY <3>2 DEF EscapeOf
      <4>2. /\ Goes(C, InQuotes, <<"b", c>>, InQuotes)
            /\ Reads(C, In(v), <<"b", c>>, In(Append(v, c)))
        BY <2>4, <4>1
      <4> QED
        BY <4>1, <4>2
    <3>3. CASE c \notin {"nl", "b", "q"}
      <4>1. EscapeOf(c) = <<c>>
        BY <3>3 DEF EscapeOf
      <4>2. Goes(C, InQuotes, <<c>>, InQuotes)
        <5>1. Goes(C, InQuotes, <<c>>, Scan(InQuotes, c))
          BY <2>3, GoesOne
        <5>2. Scan(InQuotes, c) = InQuotes
          BY <3>3, ScanTurns
        <5> QED
          BY <5>1, <5>2
      <4>3. Reads(C, In(v), <<c>>, In(Append(v, c)))
        <5>1. Reads(C, In(v), <<c>>, Label(In(v), c))
          BY <1>0, ReadsOne
        <5>2. Label(In(v), c) = In(Append(v, c))
          BY <2>2, <3>3 DEF TurnsAt, In
        <5> QED
          BY <5>1, <5>2
      <4> QED
        BY <4>1, <4>2, <4>3
    <3> QED
      BY <3>1, <3>2, <3>3
  <2>6. PICK e \in Seq(C), f \in Seq(C) :
           e = Escaped(v) /\ f = EscapeOf(c) /\ Escaped(Append(v, c)) = e \o f
    BY EscapedSteps
  <2>7. Goes(C, InQuotes, e \o f, InQuotes)
    BY <2>1, <2>5, <2>6, GoesOn
  <2>8. Reads(C, In(<<>>), e \o f, In(Append(v, c)))
    BY <2>1, <2>5, <2>6, ReadsOn
  <2>9. Append(v, c) \in Seq(C)
    BY AppendProperties
  <2> QED
    BY <2>6, <2>7, <2>8, <2>9
<1> HIDE DEF Good
<1>3. value \in Good
  BY <1>1, <1>2, SeqInductive
<1> QED
  BY <1>3 DEF Good

\* A label as it is written, behind the others if there are any.
LabelText(sep, key, value) ==
    sep \o key \o <<"=", "q">> \o Escaped(value) \o <<"q">>

\* There is a comma between two labels.
IsSeparator(sep) == sep \in {<<>>, <<",">>}

\* It stays in the braces, and is read.
LEMMA PieceIsRead ==
    ASSUME NEW C, IsAlphabet(C), NEW sep, IsSeparator(sep), NEW key \in Keys, NEW value \in Seq(C),
           NEW k, NEW v, NEW out
    PROVE  /\ LabelText(sep, key, value) \in Seq(C)
           /\ Goes(C, InBraces, LabelText(sep, key, value), InBraces)
           /\ Reads(C, AtLabel("after", k, v, out), LabelText(sep, key, value),
                       AtLabel("after", key, value, With(out, key, value)))
<1> DEFINE A == AtLabel("after", k, v, out)
           K == AtLabel("key", key, v, out)
           E == AtLabel("equals", key, v, out)
           V == AtLabel("value", key, <<>>, out)
           W == AtLabel("value", key, value, out)
           Z == AtLabel("after", key, value, With(out, key, value))
<1>0. {"b", "n", "nl", "q", "=", ","} \subseteq C /\ NameChars \subseteq C
  BY DEF IsAlphabet, NameChars
<1>1. InBraces \in ScanStates /\ InBraces # Outside /\ InQuotes \in ScanStates /\ InQuotes # Outside
  <2>1. InQuotes \in ScanStates /\ InBraces \in ScanStates
    BY DEF InQuotes, InBraces, ScanStates
  <2>2. InQuotes # Outside /\ InBraces # Outside
    <3>1. InQuotes.depth = 1 /\ InBraces.depth = 1 /\ Outside.depth = 0
      BY DEF InQuotes, InBraces, Outside
    <3>2. 1 # 0
      OBVIOUS
    <3> QED
      BY <3>1, <3>2, Zenon
  <2> QED
    BY <2>1, <2>2
<1>2. /\ TurnsAt(k, v, out) /\ TurnsAt(key, v, out) /\ TurnsAt(key, <<>>, out)
      /\ TurnsAt(key, value, out)
  BY LabelTurns
<1>3. key # <<>>
  BY DEF Keys
<1>4. /\ Label(A, ",") = A /\ Label(K, "=") = E /\ Label(E, "q") = V /\ Label(W, "q") = Z
  BY <1>2, <1>3 DEF TurnsAt
<1>5. key \in Seq(NameChars) /\ key \in Seq(C) /\ Reads(C, A, key, K)
  BY ReadsKey
<1>6. Reads(C, V, Escaped(value), W)
  BY ValueIsRead
<1> HIDE DEF A, K, E, V, W, Z
<1>7. PICK s \in Seq(C) : s = sep /\ Goes(C, InBraces, s, InBraces) /\ Reads(C, A, s, A)
  <2>1. Goes(C, InBraces, <<>>, InBraces) /\ Reads(C, A, <<>>, A) /\ <<>> \in Seq(C)
    BY GoesNowhere, ReadsNothing, EmptySeq
  <2>2. Goes(C, InBraces, <<",">>, Scan(InBraces, ",")) /\ Reads(C, A, <<",">>, Label(A, ","))
    BY <1>0, <1>1, GoesOne, ReadsOne
  <2>3. Scan(InBraces, ",") = InBraces
    BY ScanTurns
  <2>4. <<",">> \in Seq(C)
    BY <1>0, Single
  <2>5. Goes(C, InBraces, <<",">>, InBraces) /\ Reads(C, A, <<",">>, A)
    BY <1>4, <2>2, <2>3
  <2>6. sep = <<>> \/ sep = <<",">>
    BY Zenon DEF IsSeparator
  <2> QED
    BY <2>1, <2>4, <2>5, <2>6, Zenon
<1>8. Goes(C, InBraces, key, InBraces)
  <2>1. \A c \in NameChars : (c # "s" \/ InBraces # Outside) /\ Scan(InBraces, c) = InBraces
    BY <1>1, ScanTurns
  <2> QED
    BY <1>0, <1>1, <1>5, <2>1, GoesAlong
<1>9. PICK q \in Seq(C) : /\ q = <<"=", "q">>
                           /\ Goes(C, InBraces, q, InQuotes) /\ Reads(C, K, q, V)
  <2>1. /\ Goes(C, InBraces, <<"=">>, Scan(InBraces, "=")) /\ Reads(C, K, <<"=">>, Label(K, "="))
        /\ Goes(C, InBraces, <<"q">>, Scan(InBraces, "q")) /\ Reads(C, E, <<"q">>, Label(E, "q"))
    BY <1>0, <1>1, GoesOne, ReadsOne
  <2>2. Scan(InBraces, "=") = InBraces /\ Scan(InBraces, "q") = InQuotes
    BY ScanTurns
  <2>3. <<"=">> \in Seq(C) /\ <<"q">> \in Seq(C) /\ <<"=">> \o <<"q">> = <<"=", "q">>
        /\ <<"=", "q">> \in Seq(C)
    BY <1>0, Twice
  <2>4. Goes(C, InBraces, <<"=">> \o <<"q">>, InQuotes)
    BY <2>1, <2>2, <2>3, GoesOn
  <2>5. Reads(C, K, <<"=">> \o <<"q">>, V)
    BY <1>4, <2>1, <2>3, ReadsOn
  <2> QED
    BY <2>3, <2>4, <2>5
<1>10. PICK e \in Seq(C) : /\ e = Escaped(value)
                            /\ Goes(C, InQuotes, e, InQuotes) /\ Reads(C, V, e, W)
  <2>1. Escaped(value) \in Seq(C)
    BY EscapedSteps
  <2>2. Goes(C, InQuotes, Escaped(value), InQuotes)
    BY ValueIsRead
  <2> QED
    BY <1>6, <2>1, <2>2
<1>11. PICK z \in Seq(C) : /\ z = <<"q">>
                            /\ Goes(C, InQuotes, z, InBraces) /\ Reads(C, W, z, Z)
  <2>1. Goes(C, InQuotes, <<"q">>, Scan(InQuotes, "q")) /\ Reads(C, W, <<"q">>, Label(W, "q"))
    BY <1>0, <1>1, GoesOne, ReadsOne
  <2>2. Scan(InQuotes, "q") = InBraces
    BY ScanTurns
  <2>3. <<"q">> \in Seq(C)
    BY <1>0, Single
  <2> QED
    BY <1>4, <2>1, <2>2, <2>3
<1>12. PICK a \in Seq(C) : a = s \o key /\ Goes(C, InBraces, a, InBraces) /\ Reads(C, A, a, K)
  <2>1. PICK a \in Seq(C) : Joins(a, s, key)
    BY <1>5, Concatenation
  <2>2. Goes(C, InBraces, s \o key, InBraces)
    BY <1>5, <1>7, <1>8, GoesOn
  <2>3. Reads(C, A, s \o key, K)
    BY <1>5, <1>7, ReadsOn
  <2> QED
    BY <2>1, <2>2, <2>3 DEF Joins
<1>13. PICK b \in Seq(C) : b = a \o q /\ Goes(C, InBraces, b, InQuotes) /\ Reads(C, A, b, V)
  <2>1. PICK b \in Seq(C) : Joins(b, a, q)
    BY Concatenation
  <2>2. Goes(C, InBraces, a \o q, InQuotes) /\ Reads(C, A, a \o q, V)
    BY <1>9, <1>12, GoesOn, ReadsOn
  <2> QED
    BY <2>1, <2>2 DEF Joins
<1>14. PICK c \in Seq(C) : c = b \o e /\ Goes(C, InBraces, c, InQuotes) /\ Reads(C, A, c, W)
  <2>1. PICK c \in Seq(C) : Joins(c, b, e)
    BY Concatenation
  <2>2. Goes(C, InBraces, b \o e, InQuotes) /\ Reads(C, A, b \o e, W)
    BY <1>10, <1>13, GoesOn, ReadsOn
  <2> QED
    BY <2>1, <2>2 DEF Joins
<1>15. PICK d \in Seq(C) : d = c \o z /\ Goes(C, InBraces, d, InBraces) /\ Reads(C, A, d, Z)
  <2>1. PICK d \in Seq(C) : Joins(d, c, z)
    BY Concatenation
  <2>2. Goes(C, InBraces, c \o z, InBraces) /\ Reads(C, A, c \o z, Z)
    BY <1>11, <1>14, GoesOn, ReadsOn
  <2> QED
    BY <2>1, <2>2 DEF Joins
<1>16. LabelText(sep, key, value) = d
  <2>1. LabelText(sep, key, value) = (((s \o key) \o q) \o e) \o z
    BY <1>7, <1>9, <1>10, <1>11, Zenon DEF LabelText
  <2> QED
    BY <1>12, <1>13, <1>14, <1>15, <2>1, Zenon
<1> QED
  BY <1>15, <1>16 DEF A, Z

\* Labels as they are asked for, with different keys, and read.
LabelPairs(C) == Keys \X Seq(C)
Distinct(labels) ==
    \A i, j \in 1..Len(labels) : labels[i][1] = labels[j][1] => i = j
Held(labels, out) ==
    /\ DOMAIN out = {labels[k][1] : k \in 1..Len(labels)}
    /\ \A k \in 1..Len(labels) : out[labels[k][1]] = labels[k][2]

\* One more.
LEMMA HeldMore ==
    ASSUME NEW C, NEW labels \in Seq(LabelPairs(C)), NEW key \in Keys, NEW value \in Seq(C), NEW out,
           Distinct(Append(labels, <<key, value>>)), Distinct(labels) => Held(labels, out)
    PROVE  Held(Append(labels, <<key, value>>), With(out, key, value))
<1>1. PICK l \in LabelPairs(C) : l = <<key, value>> /\ l[1] = key /\ l[2] = value
  BY DEF LabelPairs
<1>2. PICK more \in Seq(LabelPairs(C)), n \in Nat : Extended(more, labels, l, n)
  BY Extension
<1>3. /\ Len(labels) = n /\ Len(more) = n + 1 /\ more = Append(labels, l) /\ more[n + 1] = l
      /\ \A k \in 1..n : more[k] = labels[k]
  BY <1>2 DEF Extended
<1>4. \A i, j \in 1..n + 1 : more[i][1] = more[j][1] => i = j
  BY <1>1, <1>3 DEF Distinct
<1>5. Distinct(labels)
  <2> SUFFICES ASSUME NEW i \in 1..n, NEW j \in 1..n, labels[i][1] = labels[j][1] PROVE i = j
    BY <1>3 DEF Distinct
  <2>1. i \in 1..n + 1 /\ j \in 1..n + 1 /\ more[i][1] = more[j][1]
    BY <1>3
  <2> QED
    BY <1>4, <2>1
<1>6. DOMAIN out = {labels[k][1] : k \in 1..n} /\ \A k \in 1..n : out[labels[k][1]] = labels[k][2]
  BY <1>3, <1>5 DEF Held
<1>7. PICK w : w = With(out, key, value)
  OBVIOUS
<1>8. /\ DOMAIN w = DOMAIN out \cup {key}
      /\ \A k \in DOMAIN out \cup {key} : w[k] = IF k = key THEN value ELSE out[k]
  BY <1>7 DEF With
<1>9. DOMAIN w = {more[k][1] : k \in 1..n + 1}
  <2>1. \A k \in 1..n + 1 : k = n + 1 \/ k \in 1..n
    OBVIOUS
  <2>2. \A k \in 1..n : k \in 1..n + 1
    OBVIOUS
  <2>3. n + 1 \in 1..n + 1
    OBVIOUS
  <2> QED
    BY <1>1, <1>3, <1>6, <1>8, <2>1, <2>2, <2>3
<1>10. ASSUME NEW k \in 1..n + 1 PROVE w[more[k][1]] = more[k][2]
  <2>1. CASE k = n + 1
    BY <1>1, <1>3, <1>8, <2>1
  <2>2. CASE k # n + 1
    <3>1. k \in 1..n /\ n + 1 \in 1..n + 1
      BY <2>2
    <3>2. more[k] = labels[k]
      BY <1>3, <3>1
    <3>3. labels[k][1] # key
      BY <1>1, <1>3, <1>4, <2>2, <3>1, <3>2
    <3>4. labels[k][1] \in DOMAIN out /\ out[labels[k][1]] = labels[k][2]
      BY <1>6, <3>1
    <3> QED
      BY <1>8, <3>2, <3>3, <3>4
  <2> QED
    BY <2>1, <2>2
<1>11. Held(more, w)
  BY <1>3, <1>9, <1>10 DEF Held
<1> QED
  BY <1>1, <1>3, <1>7, <1>11

\* The labels are written one after the other.
SeparatorAt(k) == IF k = 1 THEN <<>> ELSE <<",">>

\* No labels are written as nothing.
LEMMA WrittenNothing == Written(<<>>) = <<>>
<1> DEFINE LabelTexts(ls) == [k \in 1..Len(ls) |-> LabelText(SeparatorAt(k), ls[k][1], ls[k][2])]
<1>1. Written(<<>>) = FlattenSeq(LabelTexts(<<>>))
  BY Zenon DEF Written, LabelText, SeparatorAt
<1>2. LabelTexts(<<>>) = <<>>
  OBVIOUS
<1> QED
  BY <1>1, <1>2 DEF FlattenSeq

\* A label more is a piece more.
LEMMA WrittenSteps ==
    ASSUME NEW C, IsAlphabet(C), NEW labels \in Seq(LabelPairs(C)), NEW n \in Nat, n = Len(labels),
           NEW key \in Keys, NEW value \in Seq(C)
    PROVE  /\ Written(labels) \in Seq(C)
           /\ Written(Append(labels, <<key, value>>))
                 = Written(labels) \o LabelText(SeparatorAt(n + 1), key, value)
<1> DEFINE LabelTexts(ls) == [k \in 1..Len(ls) |-> LabelText(SeparatorAt(k), ls[k][1], ls[k][2])]
<1>1. \A ls : Written(ls) = FlattenSeq(LabelTexts(ls))
  BY Zenon DEF Written, LabelText, SeparatorAt
<1>2. \A k : IsSeparator(SeparatorAt(k))
  BY Zenon DEF IsSeparator, SeparatorAt
<1>3. \A k : \A ke \in Keys : \A va \in Seq(C) : LabelText(SeparatorAt(k), ke, va) \in Seq(C)
  BY <1>2, PieceIsRead
<1>4. ASSUME NEW k \in 1..n PROVE labels[k][1] \in Keys /\ labels[k][2] \in Seq(C)
  <2>1. labels[k] \in LabelPairs(C)
    OBVIOUS
  <2> QED
    BY <2>1 DEF LabelPairs
<1>5. PICK s \in Seq(Seq(C)) : /\ s = LabelTexts(labels) /\ Len(s) = n
                                /\ \A k \in 1..n : s[k] = LabelText(SeparatorAt(k), labels[k][1], labels[k][2])
  <2>1. PICK s \in Seq(Seq(C)) :
           /\ s = [k \in 1..n |-> LabelText(SeparatorAt(k), labels[k][1], labels[k][2])]
           /\ s = LabelTexts(labels)
    <3>1. ASSUME NEW k \in 1..n
          PROVE  LabelText(SeparatorAt(k), labels[k][1], labels[k][2]) \in Seq(C)
      BY <1>3, <1>4, Zenon
    <3>2. [k \in 1..n |-> LabelText(SeparatorAt(k), labels[k][1], labels[k][2])] \in Seq(Seq(C))
      BY <3>1
    <3> QED
      BY <3>2
  <2>2. Len(s) = n /\ \A k \in 1..n : s[k] = LabelText(SeparatorAt(k), labels[k][1], labels[k][2])
    BY <2>1
  <2> QED
    BY <2>1, <2>2
<1>6. PICK l \in LabelPairs(C) : l = <<key, value>> /\ l[1] = key /\ l[2] = value
  <2>1. <<key, value>> \in LabelPairs(C)
    BY DEF LabelPairs
  <2>2. <<key, value>>[1] = key /\ <<key, value>>[2] = value
    OBVIOUS
  <2> QED
    BY <2>1, <2>2, Zenon
<1>7. PICK more \in Seq(LabelPairs(C)) : Extended(more, labels, l, n)
  <2>1. PICK v \in Seq(LabelPairs(C)), m \in Nat : Extended(v, labels, l, m)
    BY Extension
  <2> QED
    BY <2>1 DEF Extended
<1>8. PICK p \in Seq(C) : p = LabelText(SeparatorAt(n + 1), key, value)
  BY <1>3
<1>9. PICK g : g = LabelTexts(more)
  OBVIOUS
<1>10. g = [k \in 1..n + 1 |-> LabelText(SeparatorAt(k), more[k][1], more[k][2])]
  BY <1>7, <1>9 DEF Extended
<1>11. \A k \in 1..n : g[k] = s[k]
  BY <1>5, <1>7, <1>10 DEF Extended
<1>12. g[n + 1] = p
  <2>1. n + 1 \in 1..n + 1 /\ more[n + 1] = l
    BY <1>7 DEF Extended
  <2> QED
    BY <1>6, <1>8, <1>10, <2>1
<1>13. g \in [1..n + 1 -> Seq(C)]
  <2>1. ASSUME NEW k \in 1..n + 1 PROVE g[k] \in Seq(C)
    <3>1. k \in 1..n \/ k = n + 1
      OBVIOUS
    <3>2. k \in 1..n => s[k] \in Seq(C)
      BY <1>5
    <3> QED
      BY <1>11, <1>12, <3>1, <3>2
  <2> QED
    BY <1>10, <2>1
<1>14. g = Append(s, p)
  BY <1>5, <1>11, <1>12, <1>13, Grown
<1> HIDE DEF LabelTexts
<1>16. /\ FlattenSeq(<<>>) = <<>> /\ FlattenSeq(s) \in Seq(C)
       /\ FlattenSeq(Append(s, p)) = FlattenSeq(s) \o p
  BY FlattenSteps
<1>17. more = Append(labels, <<key, value>>)
  BY <1>6, <1>7 DEF Extended
<1> QED
  BY <1>1, <1>5, <1>8, <1>9, <1>14, <1>16, <1>17

\* The labels are read as they were written.
ReadAs(labels) ==
    \E k, v, out : /\ Labelled(Written(labels)) = AtLabel("after", k, v, out)
                   /\ Distinct(labels) => Held(labels, out)

\* They are, and they stay in the braces.
LEMMA WrittenIsRead ==
    ASSUME NEW C, IsAlphabet(C), NEW labels \in Seq(LabelPairs(C))
    PROVE  /\ Written(labels) \in Seq(C)
           /\ Goes(C, InBraces, Written(labels), InBraces)
           /\ ReadAs(labels)
<1> DEFINE Good == {u \in Seq(LabelPairs(C)) : /\ Written(u) \in Seq(C)
                                          /\ Goes(C, InBraces, Written(u), InBraces)
                                          /\ ReadAs(u)}
<1>1. <<>> \in Good
  <2>1. PICK none \in Seq(LabelPairs(C)) : none = <<>>
    BY EmptySeq
  <2>2. Written(none) = <<>>
    BY <2>1, WrittenNothing
  <2>3. <<>> \in Seq(C) /\ Goes(C, InBraces, <<>>, InBraces)
    BY EmptySeq, GoesNowhere
  <2>4. Labelled(<<>>) = AtLabel("after", <<>>, <<>>, <<>>)
    <3>1. "nl" \in C
      BY DEF IsAlphabet
    <3> QED
      BY <2>3, <3>1, LabelledSteps DEF NoLabels, AtLabel
  <2>5. Held(<<>>, <<>>)
    BY DEF Held
  <2>6. ReadAs(none)
    BY <2>1, <2>2, <2>4, <2>5, Zenon DEF ReadAs
  <2> QED
    BY <2>1, <2>2, <2>3, <2>6
<1>2. ASSUME NEW u \in Seq(LabelPairs(C)), NEW l \in LabelPairs(C), u \in Good PROVE Append(u, l) \in Good
  <2>1. PICK key \in Keys, value \in Seq(C) : l = <<key, value>>
    BY DEF LabelPairs
  <2>2. PICK n \in Nat : n = Len(u)
    BY LenProperties
  <2>3. PICK w \in Seq(C) : w = Written(u) /\ Goes(C, InBraces, w, InBraces)
    BY <1>2
  <2>4. PICK k, v, out : /\ Labelled(w) = AtLabel("after", k, v, out)
                         /\ Distinct(u) => Held(u, out)
    BY <1>2, <2>3 DEF ReadAs
  <2>5. IsSeparator(SeparatorAt(n + 1))
    BY Zenon DEF IsSeparator, SeparatorAt
  <2>6. PICK p \in Seq(C) :
           /\ p = LabelText(SeparatorAt(n + 1), key, value)
           /\ Goes(C, InBraces, p, InBraces)
           /\ Reads(C, AtLabel("after", k, v, out), p, AtLabel("after", key, value, With(out, key, value)))
    BY <2>5, PieceIsRead
  <2>7. Written(Append(u, l)) = w \o p
    BY <2>1, <2>2, <2>3, <2>6, WrittenSteps
  <2>8. PICK x \in Seq(C) : Joins(x, w, p)
    BY Concatenation
  <2>9. Goes(C, InBraces, w \o p, InBraces)
    BY <2>3, <2>6, GoesOn
  <2>10. Labelled(w \o p) = AtLabel("after", key, value, With(out, key, value))
    BY <2>4, <2>6 DEF Reads
  <2>11. Distinct(Append(u, l)) => Held(Append(u, l), With(out, key, value))
    BY <2>1, <2>4, HeldMore
  <2>12. ReadAs(Append(u, l))
    BY <2>7, <2>10, <2>11 DEF ReadAs
  <2>13. Append(u, l) \in Seq(LabelPairs(C))
    BY AppendProperties
  <2> QED
    BY <2>7, <2>8, <2>9, <2>12, <2>13 DEF Joins
<1> HIDE DEF Good
<1>3. labels \in Good
  BY <1>1, <1>2, SeqInductive
<1> QED
  BY <1>3 DEF Good

\* Where the head of a line ends, and what the parser makes of it.
EndOf(line) == CHOOSE k \in HeadEnds(line) : \A j \in HeadEnds(line) : k <= j
HeadOf(line) == SubSeq(line, 1, EndOf(line) - 1)
OpenOf(head) == SelectInSeq(head, LAMBDA char : char = "o")
BlockOf(rest) == IF rest # <<>> /\ Last(rest) = "c" THEN Front(rest) ELSE rest
NameOf(head) == IF OpenOf(head) = 0 THEN head ELSE SubSeq(head, 1, OpenOf(head) - 1)
InBlock(head) == BlockOf(SubSeq(head, OpenOf(head) + 1, Len(head)))
Parsed(head) ==
    [Nothing EXCEPT !.samples =
        <<[name |-> NameOf(head),
           labels |-> IF OpenOf(head) = 0 THEN <<>> ELSE ParseLabels(InBlock(head))]>>]

\* parse_prometheus, by its parts.
LEMMA ParseLineIs ==
    ASSUME NEW line
    PROVE  ParseLine(line) =
              IF HeadEnds(line) = {} THEN Nothing
              ELSE IF ~HasValue(line, EndOf(line)) THEN Nothing
              ELSE IF OpenOf(HeadOf(line)) > 0 /\ Labelled(InBlock(HeadOf(line))).mode = "stuck"
                   THEN [Nothing EXCEPT !.ends = FALSE]
              ELSE IF ~IsName(NameOf(HeadOf(line))) \/ NameOf(HeadOf(line))[1] = "1" THEN Nothing
              ELSE Parsed(HeadOf(line))
  BY Zenon DEF ParseLine, EndOf, HeadOf, OpenOf, BlockOf, NameOf, InBlock, Parsed

\* The first brace of a head.
LEMMA OpenIs ==
    ASSUME NEW C, NEW head \in Seq(C), NEW n \in Nat, n = Len(head)
    PROVE  /\ OpenOf(head) \in 0..n
           /\ (\A k \in 1..n : head[k] # "o") => OpenOf(head) = 0
           /\ \A k \in 1..n : head[k] = "o" /\ (\A j \in 1..k - 1 : head[j] # "o") => OpenOf(head) = k
<1> DEFINE I == {k \in 1..n : head[k] = "o"}
<1>1. OpenOf(head) = IF I # {} THEN Min(I) ELSE 0
  BY DEF OpenOf, SelectInSeq
<1>2. I # {} => Min(I) \in I /\ \A k \in I : Min(I) <= k
  <2>1. I \in SUBSET Nat
    OBVIOUS
  <2> HIDE DEF I
  <2>2. I # {} => \E k \in I : \A m \in I : k <= m
    BY <2>1, LeastNatural
  <2> QED
    BY <2>2 DEF Min
<1>3. ASSUME NEW k \in 1..n, head[k] = "o", \A j \in 1..k - 1 : head[j] # "o"
      PROVE  OpenOf(head) = k
  <2>1. k \in I
    BY <1>3
  <2>2. Min(I) \in I /\ Min(I) <= k
    BY <1>2, <2>1
  <2>3. Min(I) \in 1..n /\ head[Min(I)] = "o"
    BY <2>2
  <2>4. ~(Min(I) \in 1..k - 1)
    BY <1>3, <2>3
  <2>5. Min(I) = k
    BY <2>2, <2>3, <2>4
  <2> QED
    BY <1>1, <2>1, <2>5
<1> QED
  BY <1>1, <1>2, <1>3

\* Names are what is in Keys.
LEMMA KeysAreNames == \A key \in Keys : IsName(key)
<1> SUFFICES ASSUME NEW key \in Seq(NameChars), key # <<>> PROVE IsName(key)
  BY DEF Keys
<1>1. ToSet(key) = {key[k] : k \in 1..Len(key)}
  BY DEF ToSet
<1>2. \A k \in 1..Len(key) : key[k] \in NameChars
  OBVIOUS
<1> QED
  BY <1>1, <1>2 DEF IsName

\* parse_labels makes no label without a key.
LEMMA ParseLabelsNamed ==
    ASSUME NEW C, IsAlphabet(C), NEW block \in Seq(C)
    PROVE  \A key \in DOMAIN ParseLabels(block) : IsName(key)
<1>0. "nl" \in C /\ "b" \in C
  BY DEF IsAlphabet
<1>1. PICK st \in LabelStates(C) : st = Labelled(block)
  BY <1>0, LabelledSteps
<1>2. ParseLabels(block) \in Labellings(C)
  <2>1. st.out \in Labellings(C) /\ st.value \in Seq(C)
    BY DEF LabelStates
  <2>2. CASE st.mode = "value"
    <3>1. ParseLabels(block) = Insert(st).out
      BY <1>1, <2>2 DEF ParseLabels
    <3>2. Insert(st) \in LabelStates(C)
      BY InsertTyped
    <3> QED
      BY <3>1, <3>2 DEF LabelStates
  <2>3. CASE st.mode = "escape"
    <3>1. PICK last : last = [st EXCEPT !.value = Append(@, "b")]
      OBVIOUS
    <3>2. last \in LabelStates(C)
      BY <1>0, <2>1, <3>1, AppendProperties DEF LabelStates
    <3>3. ParseLabels(block) = Insert(last).out
      BY <1>1, <2>3, <3>1 DEF ParseLabels
    <3>4. Insert(last) \in LabelStates(C)
      BY <3>2, InsertTyped
    <3> QED
      BY <3>3, <3>4 DEF LabelStates
  <2>4. CASE st.mode \notin {"value", "escape"}
    <3>1. ParseLabels(block) = st.out
      BY <1>1, <2>4 DEF ParseLabels
    <3> QED
      BY <2>1, <3>1
  <2> QED
    BY <2>2, <2>3, <2>4
<1>3. PICK D \in SUBSET Keys : ParseLabels(block) \in [D -> Seq(C)]
  BY <1>2 DEF Labellings
<1>4. DOMAIN ParseLabels(block) = D
  BY <1>3
<1> QED
  BY <1>3, <1>4, KeysAreNames

\* Whatever a line is, it makes no sample without a name and no label without a key.
THEOREM LineNamed ==
    ASSUME NEW C, IsAlphabet(C), NEW line \in Seq(C)
    PROVE  Named(ParseLine(line))
<1>1. PICK head : head = HeadOf(line)
  OBVIOUS
<1>2. Named(Nothing) /\ Named([Nothing EXCEPT !.ends = FALSE])
  <2>1. Nothing.samples = <<>> /\ [Nothing EXCEPT !.ends = FALSE].samples = <<>>
    BY DEF Nothing
  <2>2. ToSet(<<>>) = {}
    BY DEF ToSet
  <2> QED
    BY <2>1, <2>2 DEF Named
<1>3. ASSUME HeadEnds(line) # {}, IsName(NameOf(head))
      PROVE  Named(Parsed(head))
  <2> DEFINE E == HeadEnds(line)
  <2>1. PICK n \in Nat : n = Len(line)
    BY LenProperties
  <2>2. E \in SUBSET (1..n)
    BY <2>1 DEF HeadEnds
  <2> HIDE DEF E
  <2>3. E # {} /\ EndOf(line) = CHOOSE k \in E : \A j \in E : k <= j
    BY <1>3 DEF E, EndOf
  <2>4. PICK end \in 1..n : end = EndOf(line)
    <3>1. E \in SUBSET Nat
      BY <2>2
    <3>2. \E k \in E : \A j \in E : k <= j
      BY <2>3, <3>1, LeastNatural
    <3> QED
      BY <2>2, <2>3, <3>2
  <2>5. end - 1 \in 0..Len(line)
    BY <2>1
  <2>6. PICK h \in Seq(C), m \in Nat : h = head /\ m = Len(h)
    BY <1>1, <2>4, <2>5, FirstElements, LenProperties DEF HeadOf
  <2>7. PICK open \in 0..m : open = OpenOf(h)
    BY <2>6, OpenIs
  <2>8. PICK rest \in Seq(C) : rest = SubSeq(h, open + 1, m)
    <3>1. open + 1 \in 1..Len(h) + 1 /\ m \in (open + 1) - 1..Len(h)
      BY <2>6
    <3>2. SubSeq(h, open + 1, m) \in Seq(C)
      BY <2>6, <3>1
    <3> QED
      BY <3>2
  <2>9. InBlock(head) \in Seq(C)
    <3>1. CASE rest # <<>> /\ Last(rest) = "c"
      <4>1. Front(rest) \in Seq(C)
        <5>1. PICK i \in Nat : i = Len(rest) /\ i > 0
          BY <3>1
        <5>2. i - 1 \in 0..Len(rest)
          BY <5>1
        <5> QED
          BY <5>1, <5>2, FirstElements DEF Front
      <4> QED
        BY <2>6, <2>7, <2>8, <3>1, <4>1 DEF InBlock, BlockOf
    <3>2. CASE ~(rest # <<>> /\ Last(rest) = "c")
      BY <2>6, <2>7, <2>8, <3>2 DEF InBlock, BlockOf
    <3> QED
      BY <3>1, <3>2
  <2>10. PICK labels : labels = IF OpenOf(head) = 0 THEN <<>> ELSE ParseLabels(InBlock(head))
    OBVIOUS
  <2>11. \A key \in DOMAIN labels : IsName(key)
    <3>1. CASE OpenOf(head) = 0
      <4>1. labels = <<>> /\ DOMAIN <<>> = {}
        BY <2>10, <3>1
      <4> QED
        BY <4>1
    <3>2. CASE OpenOf(head) # 0
      BY <2>9, <2>10, <3>2, ParseLabelsNamed
    <3> QED
      BY <3>1, <3>2
  <2>12. PICK s : s = [name |-> NameOf(head), labels |-> labels]
    OBVIOUS
  <2>13. Parsed(head).samples = <<s>> /\ ToSet(<<s>>) = {s}
    BY <2>10, <2>12 DEF Parsed, Nothing, ToSet
  <2>14. s.name = NameOf(head) /\ s.labels = labels
    BY <2>12
  <2> QED
    BY <1>3, <2>11, <2>13, <2>14 DEF Named
<1> QED
  BY <1>1, <1>2, <1>3, ParseLineIs

\* What is between the name of a sample and its value.
Body(labels) == IF labels = <<>> THEN <<>> ELSE <<"o">> \o Written(labels) \o <<"c">>

\* The head of a line, which ends nowhere else.
LEMMA HeadIs ==
    ASSUME NEW C, IsAlphabet(C), NEW name \in Seq(NameChars), NEW labels \in Seq(LabelPairs(C))
    PROVE  /\ name \in Seq(C) /\ Body(labels) \in Seq(C) /\ name \o Body(labels) \in Seq(C)
           /\ labels # <<>> => /\ Written(labels) \o <<"c">> \in Seq(C)
                               /\ Body(labels) = <<"o">> \o (Written(labels) \o <<"c">>)
           /\ Scans(name \o Body(labels), Outside)
<1>0. "o" \in C /\ "c" \in C /\ NameChars \subseteq C
  BY DEF IsAlphabet
<1>1. Outside \in ScanStates /\ InBraces \in ScanStates /\ InBraces # Outside
  <2>1. Outside \in ScanStates /\ InBraces \in ScanStates
    BY DEF Outside, InBraces, ScanStates
  <2>2. InBraces.depth = 1 /\ Outside.depth = 0
    BY DEF InBraces, Outside
  <2>3. InBraces # Outside
    BY <2>2
  <2> QED
    BY <2>1, <2>3
<1>2. name \in Seq(C) /\ Goes(C, Outside, name, Outside)
  <2>1. \A c \in NameChars : (c # "s" \/ Outside # Outside) /\ Scan(Outside, c) = Outside
    <3>1. \A c \in NameChars : Scan(Outside, c) = Outside
      BY ScanTurns
    <3>2. \A c \in NameChars : c # "s"
      BY DEF NameChars
    <3> QED
      BY <3>1, <3>2
  <2> QED
    BY <1>0, <1>1, <2>1, GoesAlong
<1>3. PICK w \in Seq(C) : w = Written(labels) /\ Goes(C, InBraces, w, InBraces)
  BY WrittenIsRead
<1>4. <<"o">> \in Seq(C) /\ <<"c">> \in Seq(C)
  BY <1>0, Single
<1>5. Goes(C, Outside, <<"o">>, InBraces)
  <2>1. Goes(C, Outside, <<"o">>, Scan(Outside, "o"))
    BY <1>0, <1>1, GoesOne
  <2> QED
    BY <2>1, ScanTurns
<1>6. Goes(C, InBraces, <<"c">>, Outside)
  <2>1. Goes(C, InBraces, <<"c">>, Scan(InBraces, "c"))
    BY <1>0, <1>1, GoesOne
  <2> QED
    BY <2>1, ScanTurns
<1>7. PICK r \in Seq(C) : r = w \o <<"c">> /\ Goes(C, InBraces, r, Outside)
  <2>1. PICK r \in Seq(C) : Joins(r, w, <<"c">>)
    BY <1>4, Concatenation
  <2>2. Goes(C, InBraces, w \o <<"c">>, Outside)
    BY <1>3, <1>4, <1>6, GoesOn
  <2> QED
    BY <2>1, <2>2 DEF Joins
<1>8. PICK b \in Seq(C) : b = <<"o">> \o r /\ Goes(C, Outside, b, Outside)
  <2>1. PICK b \in Seq(C) : Joins(b, <<"o">>, r)
    BY <1>4, Concatenation
  <2>2. Goes(C, Outside, <<"o">> \o r, Outside)
    BY <1>4, <1>5, <1>7, GoesOn
  <2> QED
    BY <2>1, <2>2 DEF Joins
<1>9. labels # <<>> => Body(labels) = b
  <2>1. Regroups(<<"o">>, w, <<"c">>)
    BY <1>4, Regrouped
  <2>2. labels # <<>> => Body(labels) = (<<"o">> \o w) \o <<"c">>
    BY <1>3, Zenon DEF Body
  <2> QED
    BY <1>7, <1>8, <2>1, <2>2, Zenon DEF Regroups
<1>10. PICK body \in Seq(C) : body = Body(labels) /\ Goes(C, Outside, body, Outside)
  <2>1. CASE labels = <<>>
    <3>1. Body(labels) = <<>>
      BY <2>1, Zenon DEF Body
    <3>2. <<>> \in Seq(C) /\ Goes(C, Outside, <<>>, Outside)
      BY EmptySeq, GoesNowhere
    <3> QED
      BY <3>1, <3>2
  <2>2. CASE labels # <<>>
    BY <1>8, <1>9, <2>2
  <2> QED
    BY <2>1, <2>2
<1>11. PICK head \in Seq(C) : head = name \o body /\ Goes(C, Outside, head, Outside)
  <2>1. PICK head \in Seq(C) : Joins(head, name, body)
    BY <1>2, Concatenation
  <2>2. Goes(C, Outside, name \o body, Outside)
    BY <1>2, <1>10, GoesOn
  <2> QED
    BY <2>1, <2>2 DEF Joins
<1>12. Scans(head, Outside)
  <2>1. <<>> \in Seq(C) /\ HeadEnds(<<>>) = {} /\ Scanned(<<>>) = Outside
    BY <1>0, EmptySeq, HeadEndsSteps, ScannedSteps
  <2>2. Scans(<<>>, Outside)
    BY <2>1 DEF Scans
  <2>3. Scans(<<>> \o head, Outside)
    BY <1>11, <2>1, <2>2 DEF Goes
  <2>4. <<>> \o head = head
    BY ConcatEmptySeq
  <2> QED
    BY <2>3, <2>4
<1> QED
  BY <1>2, <1>3, <1>7, <1>8, <1>9, <1>10, <1>11, <1>12

\* What is behind a head: white space and the value.
LEMMA LineIs ==
    ASSUME NEW C, IsAlphabet(C), NEW head \in Seq(C), Scans(head, Outside), NEW n \in Nat, n = Len(head),
           NEW line, line = head \o <<"s", "1">>
    PROVE  /\ HeadEnds(line) = {n + 1} /\ EndOf(line) = n + 1 /\ HeadOf(line) = head
           /\ HasValue(line, EndOf(line))
<1>0. "s" \in C /\ "1" \in C
  BY DEF IsAlphabet, NameChars
<1>1. PICK tail \in Seq(C) : tail = <<"s", "1">> /\ Len(tail) = 2 /\ tail[1] = "s" /\ tail[2] = "1"
  <2>1. /\ <<"s", "1">> \in Seq(C) /\ Len(<<"s", "1">>) = 2
        /\ <<"s", "1">>[1] = "s" /\ <<"s", "1">>[2] = "1"
    BY <1>0, Double
  <2> QED
    BY <2>1, Zenon
<1>2. PICK u \in Seq(C) : Joins(u, head, tail)
  BY Concatenation
<1>3. u = line /\ Len(u) = n + 2
  BY <1>1, <1>2 DEF Joins
<1>4. PICK a \in Seq(C) : a = Append(head, "s") /\ Len(a) = n + 1
  BY <1>0, AppendProperties
<1>5. line = Append(a, "1")
  <2>1. <<"s">> \in Seq(C) /\ <<"1">> \in Seq(C) /\ <<"s">> \o <<"1">> = <<"s", "1">>
    BY <1>0, Twice
  <2>2. Regroups(head, <<"s">>, <<"1">>)
    BY <2>1, Regrouped
  <2>3. head \o <<"s">> = a /\ a \o <<"1">> = Append(a, "1")
    BY <1>0, <1>4, AppendIsConcat
  <2> QED
    BY <2>1, <2>2, <2>3 DEF Regroups
<1>6. HeadEnds(line) = {n + 1}
  <2>1. HeadEnds(a) = HeadEnds(head) \cup {n + 1}
    <3>1. HeadEnds(Append(head, "s")) = HeadEnds(head) \cup
             (IF "s" = "s" /\ Scanned(head) = Outside THEN {n + 1} ELSE {})
      BY <1>0, HeadEndsSteps
    <3> QED
      BY <1>4, <3>1 DEF Scans
  <2>2. HeadEnds(line) = HeadEnds(a)
    <3>0. PICK m \in Nat : m = Len(a)
      BY LenProperties
    <3>1. HeadEnds(Append(a, "1")) = HeadEnds(a) \cup
             (IF "1" = "s" /\ Scanned(a) = Outside THEN {m + 1} ELSE {})
      BY <1>0, <1>4, <3>0, HeadEndsSteps
    <3> QED
      BY <1>5, <3>1
  <2> QED
    BY <2>1, <2>2 DEF Scans
<1>7. EndOf(line) = n + 1
  BY <1>6 DEF EndOf
<1>8. SubSeq(line, 1, n) = head /\ SubSeq(line, n + 1, Len(line)) = tail
  <2>1. u = head \o tail
    BY <1>2 DEF Joins
  <2>2. SubSeq(u, 1, n) = head /\ SubSeq(u, n + 1, Len(u)) = tail
    BY <2>1, Halves
  <2> QED
    BY <1>3, <2>2
<1>9. HeadOf(line) = head
  <2>1. (n + 1) - 1 = n
    OBVIOUS
  <2> QED
    BY <1>7, <1>8, <2>1 DEF HeadOf
<1>10. HasValue(line, EndOf(line))
  <2>1. 1 \in 1..Len(tail) /\ 2 \in 1..Len(tail)
    BY <1>1
  <2>2. u[n + 1] = "s" /\ u[n + 2] = "1"
    BY <1>1, <1>2, <2>1 DEF Joins
  <2>3. /\ n + 2 \in (n + 1) + 1..Len(u) /\ n + 2 \in n + 2..Len(u)
        /\ \A k \in n + 1..(n + 2) - 1 : u[k] = "s"
        /\ \A k \in n + 2..n + 2 : u[k] = "1"
        /\ ~(n + 2 < Len(u))
    BY <1>3, <2>2
  <2>4. HasValue(u, n + 1)
    BY <2>3 DEF HasValue
  <2> QED
    BY <1>3, <1>7, <2>4
<1> QED
  BY <1>6, <1>7, <1>9, <1>10

\* A head without labels is a name, and one with labels a name and its block.
LEMMA HeadParts ==
    ASSUME NEW C, IsAlphabet(C), NEW name \in Seq(NameChars), NEW labels \in Seq(LabelPairs(C)), NEW head,
           head = name \o Body(labels)
    PROVE  /\ NameOf(head) = name
           /\ labels = <<>> => OpenOf(head) = 0
           /\ labels # <<>> => OpenOf(head) > 0 /\ InBlock(head) = Written(labels)
<1>0. "o" \in C /\ "c" \in C
  BY DEF IsAlphabet
<1>1. name \in Seq(C) /\ head \in Seq(C)
  BY HeadIs
<1>2. PICK m \in Nat, n \in Nat : m = Len(name) /\ n = Len(head)
  BY <1>1, LenProperties
<1>3. \A k \in 1..m : name[k] # "o"
  <2>1. \A k \in 1..m : name[k] \in NameChars
    BY <1>2
  <2> QED
    BY <2>1 DEF NameChars
<1>4. CASE labels = <<>>
  <2>1. Body(labels) = <<>>
    BY <1>4, Zenon DEF Body
  <2>2. head = name
    <3>1. name \o <<>> = name
      BY ConcatEmptySeq
    <3> QED
      BY <2>1, <3>1
  <2>3. OpenOf(head) = 0
    BY <1>1, <1>2, <1>3, <2>2, OpenIs
  <2> QED
    BY <1>4, <2>2, <2>3 DEF NameOf
<1>5. CASE labels # <<>>
  <2>1. PICK w \in Seq(C) : w = Written(labels)
    BY WrittenIsRead
  <2>2. PICK r \in Seq(C) : r = w \o <<"c">> /\ Body(labels) = <<"o">> \o r
    BY <1>5, <2>1, HeadIs
  <2>3. PICK o \in Seq(C) : o = <<"o">> /\ Len(o) = 1 /\ o[1] = "o"
    <3>1. <<"o">> \in Seq(C) /\ Len(<<"o">>) = 1 /\ <<"o">>[1] = "o"
      BY <1>0, Single
    <3> QED
      BY <3>1, Zenon
  <2>4. PICK a \in Seq(C) : Joins(a, name, o)
    BY <1>1, Concatenation
  <2>5. head = a \o r
    <3>1. Regroups(name, o, r)
      BY <1>1, Regrouped
    <3>2. head = name \o (o \o r)
      BY <2>2, <2>3
    <3> QED
      BY <2>4, <3>1, <3>2 DEF Regroups, Joins
  <2>6. Len(a) = m + 1 /\ a[m + 1] = "o" /\ \A k \in 1..m : a[k] = name[k]
    <3>1. 1 \in 1..Len(o)
      BY <2>3
    <3> QED
      BY <1>2, <2>3, <2>4, <3>1 DEF Joins
  <2>7. PICK h \in Seq(C) : Joins(h, a, r)
    BY Concatenation
  <2>8. /\ h = head /\ Len(r) \in Nat /\ n = (m + 1) + Len(r)
        /\ \A k \in 1..m + 1 : head[k] = a[k]
    BY <1>2, <2>5, <2>6, <2>7 DEF Joins
  <2>9. OpenOf(head) = m + 1
    <3>1. m + 1 \in 1..n /\ head[m + 1] = "o"
      <4>1. PICK j \in Nat : j = Len(r) /\ n = (m + 1) + j
        BY <2>8
      <4>2. m + 1 \in 1..m + 1 /\ m + 1 \in 1..n
        BY <4>1
      <4> QED
        BY <2>6, <2>8, <4>2
    <3>2. \A j \in 1..(m + 1) - 1 : head[j] # "o"
      BY <1>3, <2>6, <2>8
    <3> QED
      BY <1>1, <1>2, <3>1, <3>2, OpenIs
  <2>10. SubSeq(head, 1, m) = name
    <3>1. PICK b \in Seq(C) : Joins(b, o, r)
      BY Concatenation
    <3>2. head = name \o b
      BY <2>2, <2>3, <3>1 DEF Joins
    <3> QED
      BY <1>1, <1>2, <3>1, <3>2, Halves
  <2>11. SubSeq(head, (m + 1) + 1, Len(head)) = r
    <3>1. PICK i \in Nat : i = m + 1 /\ i = Len(a)
      BY <2>6
    <3>2. SubSeq(head, i + 1, Len(head)) = r
      BY <1>1, <2>5, <3>1, Halves
    <3> QED
      BY <3>1, <3>2
  <2>12. NameOf(head) = name
    <3>1. (m + 1) - 1 = m /\ m + 1 # 0
      OBVIOUS
    <3> QED
      BY <2>9, <2>10, <3>1 DEF NameOf
  <2>13. BlockOf(r) = w
    <3>1. PICK c \in Seq(C) : c = <<"c">> /\ Len(c) = 1 /\ c[1] = "c"
      <4>1. <<"c">> \in Seq(C) /\ Len(<<"c">>) = 1 /\ <<"c">>[1] = "c"
        BY <1>0, Single
      <4> QED
        BY <4>1, Zenon
    <3>2. PICK i \in Nat : i = Len(w)
      BY LenProperties
    <3>3. PICK s \in Seq(C) : Joins(s, w, c)
      BY Concatenation
    <3>4. s = r /\ Len(r) = i + 1 /\ r[i + 1] = "c"
      <4>1. 1 \in 1..Len(c)
        BY <3>1
      <4> QED
        BY <2>2, <3>1, <3>2, <3>3, <4>1 DEF Joins
    <3>5. r # <<>> /\ Last(r) = "c"
      BY <3>4 DEF Last
    <3>6. SubSeq(r, 1, i) = w
      BY <2>2, <3>1, <3>2, Halves
    <3>7. Front(r) = w
      <4>1. (i + 1) - 1 = i
        OBVIOUS
      <4> QED
        BY <3>4, <3>6, <4>1 DEF Front
    <3> QED
      BY <3>5, <3>7 DEF BlockOf
  <2>14. InBlock(head) = w
    BY <2>9, <2>11, <2>13 DEF InBlock
  <2> QED
    BY <1>5, <2>1, <2>9, <2>12, <2>14
<1> QED
  BY <1>4, <1>5

\* A line of metrics is read back as the sample it was written for, with any number of
\* labels of different keys, whose values hold any characters.
THEOREM LineReadBack ==
    ASSUME NEW C, IsAlphabet(C), NEW name \in Keys, name[1] # "1", NEW labels \in Seq(LabelPairs(C)),
           Distinct(labels)
    PROVE  ReadBack(name, labels, ParseLine(Line(name, labels)))
<1>1. PICK line : line = Line(name, labels)
  OBVIOUS
<1>2. name \in Seq(NameChars) /\ IsName(name)
  BY KeysAreNames DEF Keys
<1>3. PICK head \in Seq(C) : head = name \o Body(labels) /\ Scans(head, Outside)
  BY <1>2, HeadIs
<1>4. line = head \o <<"s", "1">>
  BY <1>1, <1>3, Zenon DEF Line, Body
<1>5. PICK n \in Nat : n = Len(head)
  BY LenProperties
<1>6. HeadEnds(line) # {} /\ HeadOf(line) = head /\ HasValue(line, EndOf(line))
  <2>1. HeadEnds(line) = {n + 1} /\ HeadOf(line) = head /\ HasValue(line, EndOf(line))
    BY <1>3, <1>4, <1>5, LineIs
  <2> QED
    BY <2>1
<1>7. /\ NameOf(head) = name
      /\ labels = <<>> => OpenOf(head) = 0
      /\ labels # <<>> => OpenOf(head) > 0 /\ InBlock(head) = Written(labels)
  BY <1>2, <1>3, HeadParts
<1>8. PICK k, v, out : /\ Labelled(Written(labels)) = AtLabel("after", k, v, out)
                       /\ Held(labels, out)
  <2>1. ReadAs(labels)
    BY WrittenIsRead
  <2> QED
    BY <2>1 DEF ReadAs
<1>9. PICK st : st = Labelled(Written(labels)) /\ st.mode = "after" /\ st.out = out
  BY <1>8 DEF AtLabel
<1>10. ParseLabels(Written(labels)) = out
  BY <1>9 DEF ParseLabels
<1>11. ParseLine(line) = Parsed(head)
  <2>1. ~(OpenOf(head) > 0 /\ Labelled(InBlock(head)).mode = "stuck")
    <3>1. CASE labels = <<>>
      BY <1>7, <3>1
    <3>2. CASE labels # <<>>
      BY <1>7, <1>9, <3>2
    <3> QED
      BY <3>1, <3>2
  <2> QED
    BY <1>2, <1>6, <1>7, <2>1, ParseLineIs, Zenon
<1>12. PICK got : /\ got = IF OpenOf(head) = 0 THEN <<>> ELSE ParseLabels(InBlock(head))
                  /\ Held(labels, got)
  <2>1. CASE labels = <<>>
    <3>1. Held(<<>>, <<>>)
      BY DEF Held
    <3> QED
      BY <1>7, <2>1, <3>1, Zenon
  <2>2. CASE labels # <<>>
    <3>1. OpenOf(head) # 0 /\ InBlock(head) = Written(labels)
      BY <1>7, <2>2
    <3> QED
      BY <1>8, <1>10, <3>1, Zenon
  <2> QED
    BY <2>1, <2>2
<1>13. PICK s : s = [name |-> name, labels |-> got]
  OBVIOUS
<1>14. s.name = name /\ s.labels = got
  BY <1>13
<1>15. PICK a : a = Parsed(head)
  OBVIOUS
<1>16. a.ends = TRUE /\ a.samples = <<s>>
  BY <1>7, <1>12, <1>13, <1>15 DEF Parsed, Nothing
<1>17. Len(a.samples) = 1 /\ a.samples[1] = s
  BY <1>16
<1>18. a.ends
  BY <1>16
<1> QED
  BY <1>1, <1>11, <1>12, <1>14, <1>15, <1>17, <1>18 DEF ReadBack, Held
-----------------------------------------------------------------------------
(***************************************************************************)
(* What is asked, and what follows of the answers.                         *)
(***************************************************************************)
\* The arguments asked for are sequences.
LEMMA BoundedSeqs ==
    ASSUME NEW S, NEW n \in Nat
    PROVE  BoundedSeq(S, n) \subseteq Seq(S)
  BY DEF BoundedSeq, SeqOf

\* The calls of run_with: frames with a character at least.
RunAsked == tool = "run_with" =>
    /\ args[1] \in Seq(Seq(Chars) \ {<<>>}) /\ args[2] \in Nat
    /\ answer = NoAnswer \/ answer = Outcome(args[1], args[2])

\* The frames asked for are texts with a character at least.
LEMMA FramesOf == BoundedSeq(Frames, MaxFrames) \subseteq Seq(Seq(Chars) \ {<<>>})
<1>1. {"a", "e", "c"} \subseteq Chars /\ 2 \in Nat
  BY DEF Chars
<1>2. Frames \subseteq Seq(Chars) \ {<<>>}
  <2> SUFFICES ASSUME NEW f \in Frames PROVE f \in Seq(Chars)
    BY DEF Frames
  <2>1. f \in Seq({"a", "e", "c"})
    BY <1>1, BoundedSeqs DEF Frames
  <2> QED
    BY <1>1, <2>1, SeqMonotonic
<1>3. BoundedSeq(Frames, MaxFrames) \subseteq Seq(Frames)
  BY SizesAssumption, BoundedSeqs
<1> QED
  BY <1>2, <1>3, SeqMonotonic

\* Whatever run_with is asked, it answers with the outcome of that.
LEMMA RunAskedAlways == Spec => []RunAsked
<1>1. Init => RunAsked
  <2>1. Init /\ tool = "run_with" =>
            answer = NoAnswer /\ args \in BoundedSeq(Frames, MaxFrames) \X (0..4)
    BY DEF Init, Asks
  <2> QED
    BY <2>1, FramesOf DEF RunAsked
<1>2. RunAsked /\ [Next]_vars => RunAsked'
  <2> SUFFICES ASSUME RunAsked, [Next]_vars, tool' = "run_with" PROVE RunAsked'
    BY DEF RunAsked
  <2>1. CASE UNCHANGED vars
    BY <2>1 DEF RunAsked, vars
  <2>2. CASE Next
    <3>1. UNCHANGED <<tool, args>> /\ answer' = Outcome(args[1], args[2])
      BY <2>2 DEF Next, Answers
    <3> QED
      BY <3>1 DEF RunAsked
  <2> QED
    BY <2>1, <2>2
<1> QED
  BY <1>1, <1>2, PTL DEF Spec

\* run_with: the output of a command fits its bound, is the beginning of what was
\* printed, was shown in whole until the bound, and what is missing is counted to the
\* character, for every MaxFrames.
THEOREM CommandOutput == Spec => []OutputKept
<1>1. RunAsked => OutputKept
  <2> SUFFICES ASSUME RunAsked, Answered("run_with") PROVE OutputKept
    BY DEF OutputKept
  <2>1. /\ args[1] \in Seq(Seq(Chars) \ {<<>>}) /\ args[2] \in Nat
        /\ answer = Outcome(args[1], args[2])
    BY DEF RunAsked, Answered
  <2>2. PICK frames \in Seq(Seq(Chars) \ {<<>>}), bound \in Nat : frames = args[1] /\ bound = args[2]
    BY <2>1
  <2>3. "n" \in Chars
    BY DEF Chars
  <2>4. /\ Bounded(frames, bound, Outcome(frames, bound))
        /\ Watched(frames, bound, Outcome(frames, bound))
        /\ Accounted(frames, bound, Outcome(frames, bound))
    BY <2>3, OutcomeKeeps
  <2> QED
    BY <2>1, <2>2, <2>4 DEF OutputKept
<1> QED
  BY <1>1, RunAskedAlways, PTL

\* The calls of the tools that read rows.
SqlRows == {[a |-> 1], [b |-> 2], [a |-> 3, b |-> 4]}

TestRows == {"A", "B"} \X {"m", "n"}

RunRows == (1..2) \X {"A", "B"} \X {0, 1}

RowsAsked ==
    /\ tool = "execute_sql" =>
          /\ args[1] \in Seq(SqlRows) /\ args[2] \in Nat /\ args[3] \in {"hasMore", "id", "none"}
          /\ answer = NoAnswer \/ answer = ExecuteSql(args[1], args[2], args[3])
    /\ tool = "run_tests" =>
          /\ args[2] \in Seq({0, 1, 2, 3}) /\ args[3] \in Seq({0, 1, 2, 3})
          /\ answer = NoAnswer \/ answer = RunTests(args[1], args[2], args[3])
    /\ tool = "list_tests" =>
          /\ args \in Seq(TestRows)
          /\ answer = NoAnswer \/ answer = ListTests(args)
    /\ tool = "get_test_results" =>
          /\ args[1] \in Seq(RunRows) /\ args[2] \in Nat \cup {Null}
          /\ \A k \in 2..Len(args[1]) : args[1][k - 1][1] >= args[1][k][1]
          /\ answer = NoAnswer \/ answer = GetTestResults(args[1], args[2])

\* Whatever the tools that read rows are asked, they answer that.
LEMMA RowsAskedAlways == Spec => []RowsAsked
<1>1. Init => RowsAsked
  <2> SUFFICES ASSUME Init PROVE RowsAsked
    OBVIOUS
  <2>0. PICK most \in Nat : most = MaxRows
    BY SizesAssumption
  <2>1. ASSUME tool = "execute_sql"
        PROVE  /\ args[1] \in Seq(SqlRows) /\ args[2] \in Nat /\ args[3] \in {"hasMore", "id", "none"}
               /\ answer = NoAnswer
    <3>1. answer = NoAnswer /\ args \in BoundedSeq(SqlRows, MaxRows) \X (0..MaxRows) \X {"hasMore", "id", "none"}
      BY <2>1 DEF Init, Asks, SqlRows
    <3>2. BoundedSeq(SqlRows, MaxRows) \subseteq Seq(SqlRows)
      BY SizesAssumption, BoundedSeqs
    <3> QED
      BY <2>0, <3>1, <3>2
  <2>2. ASSUME tool = "run_tests"
        PROVE  args[2] \in Seq({0, 1, 2, 3}) /\ args[3] \in Seq({0, 1, 2, 3}) /\ answer = NoAnswer
    <3>1. answer = NoAnswer /\ args \in BoundedSeq({"url", "echo", "other", "text"}, 2)
                                        \X BoundedSeq({0, 1, 2, 3}, MaxRows) \X {<<>>, <<0>>, <<1>>}
      BY <2>2 DEF Init, Asks
    <3>2. BoundedSeq({0, 1, 2, 3}, MaxRows) \subseteq Seq({0, 1, 2, 3})
      BY SizesAssumption, BoundedSeqs
    <3>3. <<>> \in Seq({0, 1, 2, 3}) /\ <<0>> \in Seq({0, 1, 2, 3}) /\ <<1>> \in Seq({0, 1, 2, 3})
      OBVIOUS
    <3> QED
      BY <3>1, <3>2, <3>3
  <2>3. ASSUME tool = "list_tests" PROVE args \in Seq(TestRows) /\ answer = NoAnswer
    <3>1. answer = NoAnswer /\ args \in BoundedSeq(TestRows, MaxRows)
      BY <2>3 DEF Init, Asks, TestRows
    <3> QED
      BY <3>1, SizesAssumption, BoundedSeqs
  <2>4. ASSUME tool = "get_test_results"
        PROVE  /\ args[1] \in Seq(RunRows) /\ args[2] \in Nat \cup {Null}
               /\ \A k \in 2..Len(args[1]) : args[1][k - 1][1] >= args[1][k][1]
               /\ answer = NoAnswer
    <3>1. answer = NoAnswer /\ args \in {rows \in BoundedSeq(RunRows, 3) :
                \A k \in 2..Len(rows) : rows[k - 1][1] >= rows[k][1]} \X {Null, 0, 1, 2}
      BY <2>4 DEF Init, Asks, RunRows
    <3>2. BoundedSeq(RunRows, 3) \subseteq Seq(RunRows)
      BY BoundedSeqs
    <3> QED
      BY <3>1, <3>2
  <2> QED
    BY <2>1, <2>2, <2>3, <2>4 DEF RowsAsked
<1>2. RowsAsked /\ [Next]_vars => RowsAsked'
  <2> SUFFICES ASSUME RowsAsked, [Next]_vars PROVE RowsAsked'
    OBVIOUS
  <2>1. CASE UNCHANGED vars
    BY <2>1 DEF RowsAsked, vars
  <2>2. CASE Next
    <3>1. UNCHANGED <<tool, args>>
      BY <2>2 DEF Next, Answers
    <3>2. tool = "execute_sql" => answer' = ExecuteSql(args[1], args[2], args[3])
      BY <2>2 DEF Next, Answers
    <3>3. tool = "run_tests" => answer' = RunTests(args[1], args[2], args[3])
      BY <2>2 DEF Next, Answers
    <3>4. tool = "list_tests" => answer' = ListTests(args)
      BY <2>2 DEF Next, Answers
    <3>5. tool = "get_test_results" => answer' = GetTestResults(args[1], args[2])
      BY <2>2 DEF Next, Answers
    <3> QED
      BY <3>1, <3>2, <3>3, <3>4, <3>5 DEF RowsAsked
  <2> QED
    BY <2>1, <2>2
<1> QED
  BY <1>1, <1>2, PTL DEF Spec

\* execute_sql, run_tests, list_tests and get_test_results: as long as the rows fit the
\* page no row or value is lost, every class is listed once with all its methods, the
\* verdict is that of the rows, and the history has no gap. Of a longer result so much
\* is true of the page, and only execute_sql says so, if IRIS marks the page.
THEOREM RowsComplete == Spec => []RowsAreKept
<1>1. RowsAsked => RowsAreKept
  <2> SUFFICES ASSUME RowsAsked, answer # NoAnswer PROVE RowsAreKept
    BY DEF RowsAreKept, Answered
  <2>1. ASSUME tool = "execute_sql" PROVE RowsKept(args[1], args[2], args[3], answer)
    <3>1. PICK rows \in Seq(SqlRows), max \in Nat, marks \in {"hasMore", "id", "none"} :
              /\ rows = args[1] /\ max = args[2] /\ marks = args[3]
              /\ answer = ExecuteSql(rows, max, marks)
      BY <2>1 DEF RowsAsked
    <3>2. RowsKept(rows, max, marks, ExecuteSql(rows, max, marks))
      BY SqlKeepsRows
    <3> QED
      BY <3>1, <3>2
  <2>2. ASSUME tool = "run_tests" PROVE VerdictHonest(args[1], args[2], answer)
    <3>1. PICK codes \in Seq({0, 1, 2, 3}), others \in Seq({0, 1, 2, 3}) :
              codes = args[2] /\ others = args[3] /\ answer = RunTests(args[1], codes, others)
      BY <2>2 DEF RowsAsked
    <3>2. PICK printed : printed = args[1]
      OBVIOUS
    <3>3. VerdictHonest(printed, codes, RunTests(printed, codes, others))
      BY VerdictIsHonest
    <3> QED
      BY <3>1, <3>2, <3>3
  <2>3. ASSUME tool = "list_tests" PROVE TestsListed(args, answer)
    <3>1. PICK rows \in Seq({"A", "B"} \X {"m", "n"}) : rows = args /\ answer = ListTests(rows)
      BY <2>3 DEF RowsAsked, TestRows
    <3>2. TestsListed(rows, ListTests(rows))
      BY TestsAreListed
    <3> QED
      BY <3>1, <3>2
  <2>4. ASSUME tool = "get_test_results" PROVE HistoryComplete(args[1], answer)
    <3>1. PICK rows \in Seq(RunRows), max \in Nat \cup {Null} :
              /\ rows = args[1] /\ max = args[2] /\ answer = GetTestResults(rows, max)
              /\ \A k \in 2..Len(rows) : rows[k - 1][1] >= rows[k][1]
      BY <2>4 DEF RowsAsked
    <3>2. \A k \in 1..Len(rows) : rows[k][1] \in Nat
      <4> SUFFICES ASSUME NEW k \in 1..Len(rows) PROVE rows[k][1] \in Nat
        OBVIOUS
      <4>1. rows[k] \in RunRows
        BY ElementOfSeq
      <4> QED
        BY <4>1 DEF RunRows
    <3>3. HistoryComplete(rows, GetTestResults(rows, max))
      BY <3>1, <3>2, NewestFirst
    <3> QED
      BY <3>1, <3>3
  <2> QED
    BY <2>1, <2>2, <2>3, <2>4 DEF RowsAreKept, Answered
<1> QED
  BY <1>1, RowsAskedAlways, PTL

\* The characters of files.
TextChars == Chars \cup {"z"}

\* The calls of the tools that read the machine.
HostAsked ==
    /\ tool = "read_file" =>
          /\ args.file = <<>> \/ \E text \in Seq(TextChars) : args.file = <<text>>
          /\ answer = NoAnswer \/ answer = ReadFile(args.rooted, args.path, args.file)
    /\ tool = "run_shell" =>
          /\ args[1] \in Nat \cup {NotGiven} /\ args[2] \in Nat /\ args[4] \in Seq({"a", "e", "x"})
          /\ answer = NoAnswer \/ answer = RunShell(args[1], args[2], args[3], args[4])
    /\ tool = "list_files" =>
          /\ args.paths \in Seq(GlobWalks(Names))
          /\ args.pattern \in Patterns /\ args.max \in Nat \cup {NotGiven}
          /\ answer = NoAnswer \/ answer = ListFiles(args.rooted, args.path, args.there, args.paths,
                                                     args.pattern, args.max)

\* The paths a glob walks are of those that are given.
LEMMA WalkedTyped ==
    ASSUME NEW there, NEW gone PROVE Walked(there, gone) \in Seq(GlobWalks(Names))
<1> DEFINE Sources == [top : BOOLEAN, names : Seq(Names)]
<1>1. PICK walks \in Seq(Sources) :
          walks = Only(Walks, {walk \in ToSet(Walks) : WalkEnd(walk) \in there})
  BY WalksAssumption, OnlySteps
<1>2. PICK n \in Nat : n = Len(walks)
  BY LenProperties
<1>3. Walked(there, gone) = [k \in 1..n |-> [top |-> walks[k].top, names |-> walks[k].names,
                                            readable |-> WalkEnd(walks[k]) \notin gone]]
  BY <1>1, <1>2 DEF Walked
<1>4. \A k \in 1..n : walks[k].top \in BOOLEAN /\ walks[k].names \in Seq(Names)
  <2> HIDE DEF Sources
  <2>1. \A k \in 1..n : walks[k] \in Sources
    BY <1>2, ElementOfSeq
  <2> QED
    BY <2>1 DEF Sources
<1>5. Walked(there, gone) \in [1..n -> GlobWalks(Names)]
  BY <1>3, <1>4 DEF GlobWalks
<1> QED
  BY <1>5

\* The patterns asked for are some of their names.
PatternNames == {"cls", "src", "**", ".."}

\* They are patterns of names.
LEMMA PatternsTyped == Patterns \subseteq GlobPatterns(PatternNames) \cup {NotGiven}
<1> DEFINE P == PatternNames
<1>1. "cls" \in P /\ "src" \in P /\ "**" \in P /\ ".." \in P
  BY DEF PatternNames
<1> HIDE DEF P
<1>2. /\ <<"cls">> \in Seq(P) /\ <<"src", "cls">> \in Seq(P) /\ <<"**", "cls">> \in Seq(P)
      /\ <<"src", "**", "cls">> \in Seq(P) /\ <<"..", "**", "cls">> \in Seq(P)
  BY <1>1
<1>3. /\ <<"cls">> # <<>> /\ <<"src", "cls">> # <<>> /\ <<"**", "cls">> # <<>>
      /\ <<"src", "**", "cls">> # <<>> /\ <<"..", "**", "cls">> # <<>>
  OBVIOUS
<1>4. ASSUME NEW parts \in Seq(P), parts # <<>>
      PROVE  Relative(parts) \in GlobPatterns(P) /\ Absolute(parts) \in GlobPatterns(P)
  BY <1>4 DEF Relative, Absolute, GlobPatterns
<1> QED
  BY <1>2, <1>3, <1>4, Zenon DEF Patterns, P

\* Whatever the host tools are asked, they answer that.
LEMMA HostAskedAlways == Spec => []HostAsked
<1>1. Init => HostAsked
  <2> SUFFICES ASSUME Init PROVE HostAsked
    OBVIOUS
  <2>1. ASSUME tool = "read_file"
        PROVE  (args.file = <<>> \/ \E text \in Seq(TextChars) : args.file = <<text>>)
               /\ answer = NoAnswer
    <3>1. /\ answer = NoAnswer
          /\ args \in ReadRequests
      BY <2>1 DEF Init, Asks
    <3>2. args.file \in {<<t>> : t \in BoundedSeq(Chars, MaxText)} \cup {<<>>}
                        \cup {<<t>> : t \in BoundedSeq({"a", "z"}, 2)}
      BY <3>1 DEF ReadRequests
    <3>3. BoundedSeq(Chars, MaxText) \subseteq Seq(TextChars)
      <4>1. BoundedSeq(Chars, MaxText) \subseteq Seq(Chars)
        BY SizesAssumption, BoundedSeqs
      <4>2. Seq(Chars) \subseteq Seq(TextChars)
        BY SeqMonotonic DEF TextChars
      <4> QED
        BY <4>1, <4>2
    <3>4. BoundedSeq({"a", "z"}, 2) \subseteq Seq(TextChars)
      <4>1. BoundedSeq({"a", "z"}, 2) \subseteq Seq({"a", "z"})
        BY BoundedSeqs
      <4>2. {"a", "z"} \subseteq TextChars
        BY DEF TextChars, Chars
      <4>3. Seq({"a", "z"}) \subseteq Seq(TextChars)
        BY <4>2, SeqMonotonic
      <4> QED
        BY <4>1, <4>3
    <3> QED
      BY <3>1, <3>2, <3>3, <3>4
  <2>2. ASSUME tool = "run_shell"
        PROVE  /\ args[1] \in Nat \cup {NotGiven} /\ args[2] \in Nat /\ args[4] \in Seq({"a", "e", "x"})
               /\ answer = NoAnswer
    <3>1. /\ answer = NoAnswer
          /\ args \in {NotGiven, 0, 40, 4000} \X {0, 1, 2, 35, 3700}
                      \X {"exits", "killed"} \X BoundedSeq({"a", "e", "x"}, 4)
      BY <2>2 DEF Init, Asks
    <3>2. BoundedSeq({"a", "e", "x"}, 4) \subseteq Seq({"a", "e", "x"})
      BY BoundedSeqs
    <3> QED
      BY <3>1, <3>2
  <2>3. ASSUME tool = "list_files"
        PROVE  /\ args.paths \in Seq(GlobWalks(Names)) /\ args.pattern \in Patterns
               /\ args.max \in Nat \cup {NotGiven} /\ answer = NoAnswer
    <3>1. /\ answer = NoAnswer
          /\ (\E there, gone : args \in ListRequests(Walked(there, gone))) \/ args \in AnyPlace
      BY <2>3 DEF Init, Asks
    <3>2. ASSUME NEW there, NEW gone, args \in ListRequests(Walked(there, gone))
          PROVE  /\ args.paths \in Seq(GlobWalks(Names)) /\ args.pattern \in Patterns
                 /\ args.max \in Nat \cup {NotGiven}
      <4>1. Walked(there, gone) \in Seq(GlobWalks(Names))
        BY WalkedTyped
      <4> QED
        BY <3>2, <4>1 DEF ListRequests
    <3>3. ASSUME args \in AnyPlace
          PROVE  /\ args.paths \in Seq(GlobWalks(Names)) /\ args.pattern \in Patterns
                 /\ args.max \in Nat \cup {NotGiven}
      <4>1. NotGiven \in Patterns
        BY DEF Patterns
      <4>2. <<>> \in Seq(GlobWalks(Names))
        BY EmptySeq
      <4> QED
        BY <3>3, <4>1, <4>2 DEF AnyPlace
    <3> QED
      BY <3>1, <3>2, <3>3
  <2> QED
    BY <2>1, <2>2, <2>3 DEF HostAsked
<1>2. HostAsked /\ [Next]_vars => HostAsked'
  <2> SUFFICES ASSUME HostAsked, [Next]_vars PROVE HostAsked'
    OBVIOUS
  <2>1. CASE UNCHANGED vars
    BY <2>1 DEF HostAsked, vars
  <2>2. CASE Next
    <3>1. UNCHANGED <<tool, args>>
      BY <2>2 DEF Next, Answers
    <3>2. tool = "read_file" => answer' = ReadFile(args.rooted, args.path, args.file)
      BY <2>2 DEF Next, Answers
    <3>3. tool = "run_shell" => answer' = RunShell(args[1], args[2], args[3], args[4])
      BY <2>2 DEF Next, Answers
    <3>4. tool = "list_files" =>
              answer' = ListFiles(args.rooted, args.path, args.there, args.paths, args.pattern, args.max)
      BY <2>2 DEF Next, Answers
    <3> QED
      BY <3>1, <3>2, <3>3, <3>4 DEF HostAsked
  <2> QED
    BY <2>1, <2>2
<1> QED
  BY <1>1, <1>2, PTL DEF Spec

\* read_file, run_shell and list_files: what the first two return is the beginning of
\* the decoded text with an exact notice of the rest, from inside a configured
\* workspace. A list has what its pattern means or says that it is cut if there is no
\* pattern, or one with "**" that stays in the directory; without "**" it has nothing
\* of what the pattern means.
THEOREM HostHonest == Spec => []HostIsHonest
<1>1. HostAsked => HostIsHonest
  <2> SUFFICES ASSUME HostAsked, answer # NoAnswer PROVE HostIsHonest
    BY DEF HostIsHonest, Answered
  <2>1. ASSUME tool = "read_file" PROVE ReadHonestly(args.rooted, args.path, args.file, answer)
    <3>1. PICK rooted, path, file : rooted = args.rooted /\ path = args.path /\ file = args.file
      OBVIOUS
    <3>2. /\ file = <<>> \/ \E text \in Seq(TextChars) : file = <<text>>
          /\ answer = ReadFile(rooted, path, file)
      BY <2>1, <3>1 DEF HostAsked
    <3>3. ReadHonestly(rooted, path, file, ReadFile(rooted, path, file))
      BY <3>2, FileReadHonestly
    <3> QED
      BY <3>1, <3>2, <3>3
  <2>2. ASSUME tool = "run_shell", "stdout" \in DOMAIN answer
        PROVE  CutHonestly(FromUtf8Lossy(args[4]), answer.stdout) /\ args[2] <= 3600
    <3>1. PICK secs \in Nat \cup {NotGiven}, takes \in Nat, bytes \in Seq({"a", "e", "x"}) :
              secs = args[1] /\ takes = args[2] /\ bytes = args[4]
      BY <2>2 DEF HostAsked
    <3>2. PICK exit : exit = args[3]
      OBVIOUS
    <3>3. answer = RunShell(secs, takes, exit, bytes)
      BY <2>2, <3>1, <3>2 DEF HostAsked
    <3>4. "stdout" \in DOMAIN RunShell(secs, takes, exit, bytes)
      BY <2>2, <3>3
    <3>5. CutHonestly(FromUtf8Lossy(bytes), RunShell(secs, takes, exit, bytes).stdout) /\ takes <= 3600
      BY <3>4, OutputCutHonestly
    <3> QED
      BY <3>1, <3>3, <3>5
  <2>3. ASSUME tool = "list_files"
        PROVE  ListsWhatIsWanted(args.rooted, args.path, args.paths, args.pattern, args.max, answer)
    <3>0. PICK S : S = Names \cup PatternNames
      OBVIOUS
    <3>1. GlobWalks(Names) \subseteq GlobWalks(S) /\ GlobPatterns(PatternNames) \subseteq GlobPatterns(S)
      <4>1. Seq(Names) \subseteq Seq(S) /\ Seq(PatternNames) \subseteq Seq(S)
        BY <3>0, SeqMonotonic
      <4> QED
        BY <4>1 DEF GlobWalks, GlobPatterns
    <3>2. args.paths \in Seq(GlobWalks(S)) /\ args.pattern \in GlobPatterns(S) \cup {NotGiven}
      <4>1. Seq(GlobWalks(Names)) \subseteq Seq(GlobWalks(S))
        BY <3>1, SeqMonotonic
      <4> QED
        BY <2>3, <3>1, <4>1, PatternsTyped DEF HostAsked
    <3>3. PICK paths \in Seq(GlobWalks(S)), pattern \in GlobPatterns(S) \cup {NotGiven},
               max \in Nat \cup {NotGiven} :
              paths = args.paths /\ pattern = args.pattern /\ max = args.max
      BY <2>3, <3>2 DEF HostAsked
    <3>4. PICK rooted, path, there : rooted = args.rooted /\ path = args.path /\ there = args.there
      OBVIOUS
    <3>5. answer = ListFiles(rooted, path, there, paths, pattern, max)
      BY <2>3, <3>3, <3>4 DEF HostAsked
    <3>6. ListsWhatIsWanted(rooted, path, paths, pattern, max,
                            ListFiles(rooted, path, there, paths, pattern, max))
      BY ListsAreWanted
    <3> QED
      BY <3>3, <3>4, <3>5, <3>6
  <2> QED
    BY <2>1, <2>2, <2>3 DEF HostIsHonest, Answered
<1> QED
  BY <1>1, HostAskedAlways, PTL

\* The calls that reach the gate, and the flags and settings the door is chosen by.
GateAsked ==
    /\ tool = "call_tool" =>
          /\ args[2] \in Calls /\ args[3] \in BOOLEAN /\ args[4] \in Nat
          /\ answer = NoAnswer \/ answer = CallTool(args[1], args[2], args[3], args[4])
    /\ tool = "serve_mcp" =>
          /\ DOMAIN args[3] = {"parses", "url", "transport", "host", "port", "api", "debug"}
          /\ answer = NoAnswer \/ answer = Door(args[1], args[2], args[3])

\* Whatever the gate and the door are asked, they answer that.
LEMMA GateAskedAlways == Spec => []GateAsked
<1>1. Init => GateAsked
  <2> SUFFICES ASSUME Init PROVE GateAsked
    OBVIOUS
  <2>0. PICK week \in Nat : week = MaxTimeout
    BY TimeoutAssumption
  <2>1. Secs \subseteq Nat \cup {NotSet}
    <3>1. 8 * week \in Nat /\ 20 * week \in Nat
      OBVIOUS
    <3> QED
      BY <2>0, <3>1 DEF Secs
  <2>2. ASSUME tool = "call_tool"
        PROVE  args[2] \in Calls /\ args[3] \in BOOLEAN /\ args[4] \in Nat /\ answer = NoAnswer
    <3>1. /\ answer = NoAnswer
          /\ args \in [tasks : BOOLEAN, version : 0..3]
                      \X [tool : Tools, background : BOOLEAN, valid : BOOLEAN, timeout : Secs]
                      \X BOOLEAN \X (Secs \ {NotSet})
      BY <2>2 DEF Init, Asks
    <3>2. args[2] \in [tool : Tools, background : BOOLEAN, valid : BOOLEAN, timeout : Secs]
          /\ args[3] \in BOOLEAN /\ args[4] \in Secs \ {NotSet}
      BY <3>1
    <3>3. args[2] \in Calls
      BY <2>1, <3>2 DEF Calls
    <3> QED
      BY <2>1, <3>1, <3>2, <3>3
  <2>3. ASSUME tool = "serve_mcp"
        PROVE  /\ DOMAIN args[3] = {"parses", "url", "transport", "host", "port", "api", "debug"}
               /\ answer = NoAnswer
    <3>1. answer = NoAnswer /\ args \in DoorFlags \X DoorEnv \X DoorFile
      BY <2>3 DEF Init, Asks
    <3>2. args[3] \in DoorFile
      BY <3>1
    <3> QED
      BY <3>1, <3>2 DEF DoorFile
  <2> QED
    BY <2>2, <2>3 DEF GateAsked
<1>2. GateAsked /\ [Next]_vars => GateAsked'
  <2> SUFFICES ASSUME GateAsked, [Next]_vars PROVE GateAsked'
    OBVIOUS
  <2>1. CASE UNCHANGED vars
    BY <2>1 DEF GateAsked, vars
  <2>2. CASE Next
    <3>1. UNCHANGED <<tool, args>>
      BY <2>2 DEF Next, Answers
    <3>2. tool = "call_tool" => answer' = CallTool(args[1], args[2], args[3], args[4])
      BY <2>2 DEF Next, Answers
    <3>3. tool = "serve_mcp" => answer' = Door(args[1], args[2], args[3])
      BY <2>2 DEF Next, Answers
    <3> QED
      BY <3>1, <3>2, <3>3 DEF GateAsked
  <2> QED
    BY <2>1, <2>2
<1> QED
  BY <1>1, <1>2, PTL DEF Spec

\* call_tool and list_tools: a background task only for a session that can follow it,
\* nothing listed that cannot be called, and no time-out beyond the greatest, for
\* every greatest time-out of an hour and more.
THEOREM GateHeld == Spec => []GateKept
<1>1. GateAsked => GateKept
  <2> SUFFICES ASSUME GateAsked, Answered("call_tool") PROVE GateKept
    BY DEF GateKept
  <2>1. PICK call \in Calls, debug \in BOOLEAN, configured \in Nat :
            call = args[2] /\ debug = args[3] /\ configured = args[4]
    BY DEF GateAsked, Answered
  <2>2. PICK session : session = args[1]
    OBVIOUS
  <2>3. answer = CallTool(session, call, debug, configured)
    BY <2>1, <2>2 DEF GateAsked, Answered
  <2>4. LET a == CallTool(session, call, debug, configured)
        IN  /\ TasksKept(session, call, a)
            /\ ListedAreCallable(call, debug, a)
            /\ TimeoutsKept(call, configured, a)
    BY GateHolds
  <2> QED
    BY <2>1, <2>2, <2>3, <2>4 DEF GateKept
<1> QED
  BY <1>1, GateAskedAlways, PTL

\* rism mcp: the transport, the address and the switches are those that were asked
\* for, and HTTP is served beyond the machine only where that was said.
THEOREM DoorHeld == Spec => []DoorIsKept
<1>1. GateAsked => DoorIsKept
  <2> SUFFICES ASSUME GateAsked, Answered("serve_mcp") PROVE DoorIsKept
    BY DEF DoorIsKept
  <2>1. PICK flags, env, file : flags = args[1] /\ env = args[2] /\ file = args[3]
    OBVIOUS
  <2>2. /\ DOMAIN file = {"parses", "url", "transport", "host", "port", "api", "debug"}
        /\ answer = Door(flags, env, file)
    BY <2>1 DEF GateAsked, Answered
  <2>3. DoorKept(flags, env, file, Door(flags, env, file))
    BY <2>2, DoorHolds
  <2> QED
    BY <2>1, <2>2, <2>3 DEF DoorIsKept
<1> QED
  BY <1>1, GateAskedAlways, PTL

\* Names of documents and namespaces as IRIS allows them.
IsUriName(text) == text \in Seq(UriBytes) /\ Paired(text)

\* The names that are asked for.
LEMMA NamesOf ==
    /\ \A ns \in Namespaces : IsUriName(ns) /\ IsNamespace(ns)
    /\ \A doc \in Docs : IsUriName(doc)
<1>1. ASSUME NEW ns \in Namespaces PROVE IsUriName(ns) /\ IsNamespace(ns)
  <2>1. CASE ns = <<"x">>
    <3>1. ns \in Seq(UriBytes) /\ Len(ns) = 1 /\ ns[1] = "x"
      BY <2>1 DEF UriBytes
    <3> QED
      BY <3>1 DEF IsUriName, IsNamespace, Paired
  <2>2. CASE ns = <<"%", "C", "3">>
    <3>1. ns \in Seq(UriBytes) /\ Len(ns) = 3 /\ ns[1] = "%" /\ ns[2] = "C" /\ ns[3] = "3"
      BY <2>2 DEF UriBytes
    <3> QED
      BY <3>1 DEF IsUriName, IsNamespace, Paired
  <2>3. CASE ns = <<"x", "%">>
    <3>1. ns \in Seq(UriBytes) /\ Len(ns) = 2 /\ ns[1] = "x" /\ ns[2] = "%"
      BY <2>3 DEF UriBytes
    <3> QED
      BY <3>1 DEF IsUriName, IsNamespace, Paired
  <2> QED
    BY <2>1, <2>2, <2>3 DEF Namespaces
<1>2. ASSUME NEW doc \in Docs PROVE IsUriName(doc)
  <2>1. CASE doc \in BoundedSeq({"x", "7", "C", "%", "|"}, 3)
    <3>1. doc \in Seq({"x", "7", "C", "%", "|"})
      BY <2>1, BoundedSeqs
    <3>2. doc \in Seq(UriBytes)
      BY <3>1 DEF UriBytes
    <3>3. \A k \in 1..Len(doc) : doc[k] # "e1" /\ doc[k] # "e2"
      BY <3>1
    <3> QED
      BY <3>2, <3>3 DEF IsUriName, Paired
  <2>2. CASE doc = <<"%", "7", "e1", "e2">>
    <3>1. /\ doc \in Seq(UriBytes) /\ Len(doc) = 4
          /\ doc[1] = "%" /\ doc[2] = "7" /\ doc[3] = "e1" /\ doc[4] = "e2"
      BY <2>2 DEF UriBytes
    <3> QED
      BY <3>1 DEF IsUriName, Paired
  <2>3. CASE doc = <<"e1", "e2">>
    <3>1. doc \in Seq(UriBytes) /\ Len(doc) = 2 /\ doc[1] = "e1" /\ doc[2] = "e2"
      BY <2>3 DEF UriBytes
    <3> QED
      BY <3>1 DEF IsUriName, Paired
  <2> QED
    BY <2>1, <2>2, <2>3 DEF Docs
<1> QED
  BY <1>1, <1>2

\* Where IRIS says that a break is, the levels of its frames, and the starts.
BreaksAsked ==
    /\ tool = "debug_location" =>
          /\ IsUriName(args[1]) /\ IsNamespace(args[1]) /\ IsUriName(args[2])
          /\ args[3] \in {"uri", "encoded", "plain"}
          /\ answer = NoAnswer \/ answer = ParseFilename(Reported(args[1], args[2], args[3]))
    /\ tool = "break_context" =>
          /\ args \in Seq({0, 1, 2, 3, Unnamed})
          /\ answer = NoAnswer \/ answer = BreakContext(args)
    /\ tool = "debug_start" =>
          /\ args[1] \in Seq({"b", "c"}) /\ args[2] \in BOOLEAN /\ args[3] \in BOOLEAN
          /\ answer = NoAnswer \/ answer = StartInner(args[1], args[2], args[3], args[4])

\* Whatever break or start the debugger is asked about, it answers that.
LEMMA BreaksAskedAlways == Spec => []BreaksAsked
<1>1. Init => BreaksAsked
  <2> SUFFICES ASSUME Init PROVE BreaksAsked
    OBVIOUS
  <2>1. ASSUME tool = "debug_location"
        PROVE  /\ IsUriName(args[1]) /\ IsNamespace(args[1]) /\ IsUriName(args[2])
               /\ args[3] \in {"uri", "encoded", "plain"} /\ answer = NoAnswer
    <3>1. /\ answer = NoAnswer
          /\ args \in Namespaces \X (Docs \ {<<>>}) \X {"uri", "encoded", "plain"}
      BY <2>1 DEF Init, Asks
    <3>2. args[1] \in Namespaces /\ args[2] \in Docs /\ args[3] \in {"uri", "encoded", "plain"}
      BY <3>1
    <3> QED
      BY <3>1, <3>2, NamesOf
  <2>2. ASSUME tool = "break_context"
        PROVE  args \in Seq({0, 1, 2, 3, Unnamed}) /\ answer = NoAnswer
    <3>1. answer = NoAnswer /\ args \in BoundedSeq({0, 1, 2, 3, Unnamed}, 3)
      BY <2>2 DEF Init, Asks
    <3>2. 3 \in Nat
      OBVIOUS
    <3> QED
      BY <3>1, <3>2, BoundedSeqs
  <2>3. ASSUME tool = "debug_start"
        PROVE  args[1] \in Seq({"b", "c"}) /\ args[2] \in BOOLEAN /\ args[3] \in BOOLEAN /\ answer = NoAnswer
    <3>1. /\ answer = NoAnswer
          /\ args \in BoundedSeq({"b", "c"}, 2) \X BOOLEAN \X BOOLEAN
                      \X [1..3 -> {"set", "unmapped", "error"}]
      BY <2>3 DEF Init, Asks
    <3>2. args[1] \in BoundedSeq({"b", "c"}, 2) /\ args[2] \in BOOLEAN /\ args[3] \in BOOLEAN
      BY <3>1
    <3>3. 2 \in Nat
      OBVIOUS
    <3> QED
      BY <3>1, <3>2, <3>3, BoundedSeqs
  <2> QED
    BY <2>1, <2>2, <2>3 DEF BreaksAsked
<1>2. BreaksAsked /\ [Next]_vars => BreaksAsked'
  <2> SUFFICES ASSUME BreaksAsked, [Next]_vars PROVE BreaksAsked'
    OBVIOUS
  <2>1. CASE UNCHANGED vars
    BY <2>1 DEF BreaksAsked, vars
  <2>2. CASE Next
    <3>1. UNCHANGED <<tool, args>>
      BY <2>2 DEF Next, Answers
    <3>2. tool = "debug_location" => answer' = ParseFilename(Reported(args[1], args[2], args[3]))
      BY <2>2 DEF Next, Answers
    <3>3. tool = "break_context" => answer' = BreakContext(args)
      BY <2>2 DEF Next, Answers
    <3>4. tool = "debug_start" => answer' = StartInner(args[1], args[2], args[3], args[4])
      BY <2>2 DEF Next, Answers
    <3> QED
      BY <3>1, <3>2, <3>3, <3>4 DEF BreaksAsked
  <2> QED
    BY <2>1, <2>2
<1> QED
  BY <1>1, <1>2, PTL DEF Spec

\* Debugger: the document of a break is read back from each form in which IRIS reports
\* it, whatever of its characters URIs encode; the variables are those of the innermost
\* frame, which is the one shown if it is listed first; and a start that succeeds has set
\* every breakpoint it was asked for, but for an entry that is not one of a class method
\* or that IRIS cannot map.
THEOREM BreaksShown == Spec => []BreaksAreShown
<1>1. BreaksAsked => BreaksAreShown
  <2> SUFFICES ASSUME BreaksAsked, answer # NoAnswer PROVE BreaksAreShown
    BY DEF BreaksAreShown, Answered
  <2>1. ASSUME tool = "debug_location" PROVE ReadBackAs(args[1], args[2], args[3], answer)
    <3>1. PICK ns \in Seq(UriBytes), doc \in Seq(UriBytes), form \in {"uri", "encoded", "plain"} :
              /\ ns = args[1] /\ doc = args[2] /\ form = args[3]
              /\ Paired(ns) /\ IsNamespace(ns) /\ Paired(doc)
      BY <2>1 DEF BreaksAsked, IsUriName
    <3>2. answer = ParseFilename(Reported(ns, doc, form))
      BY <2>1, <3>1 DEF BreaksAsked
    <3>3. ByteSet(UriBytes) /\ "dbgp" \in UriBytes
      BY Encodings DEF ByteSet, UriBytes
    <3>4. ReadBackAs(ns, doc, form, ParseFilename(Reported(ns, doc, form)))
      BY <3>1, <3>3, UnreadAssumption, LocationsReadBack
    <3> QED
      BY <3>1, <3>2, <3>4
  <2>2. ASSUME tool = "break_context" PROVE SameFrame(args, answer)
    <3>1. args \in Seq({0, 1, 2, 3, Unnamed}) /\ answer = BreakContext(args)
      BY <2>2 DEF BreaksAsked
    <3>2. {0, 1, 2, 3, Unnamed} \subseteq Nat \cup {Unnamed}
      OBVIOUS
    <3>3. args \in Seq(Nat \cup {Unnamed})
      BY <3>1, <3>2, SeqMonotonic
    <3> QED
      BY <3>1, <3>3, BreakAtFrame
  <2>3. ASSUME tool = "debug_start" PROVE AllSet(args[1], args[2], args[3], args[4], answer)
    <3>1. PICK asked \in Seq({"b", "c"}), entry \in BOOLEAN, method \in BOOLEAN :
              asked = args[1] /\ entry = args[2] /\ method = args[3]
      BY <2>3 DEF BreaksAsked
    <3>2. PICK replies : replies = args[4]
      OBVIOUS
    <3>3. answer = StartInner(asked, entry, method, replies)
      BY <2>3, <3>1, <3>2 DEF BreaksAsked
    <3>4. "entry" \notin {"b", "c"}
      OBVIOUS
    <3>5. AllSet(asked, entry, method, replies, StartInner(asked, entry, method, replies))
      BY <3>4, BreakpointsAreSet
    <3> QED
      BY <3>1, <3>2, <3>3, <3>5
  <2> QED
    BY <2>1, <2>2, <2>3 DEF BreaksAreShown, Answered
<1> QED
  BY <1>1, BreaksAskedAlways, PTL

\* The characters of the lines and of the label values that are asked for.
MetricsChars == LineChars \cup {"n", "nl"}

\* A sample that a line can be written for.
IsSample(name, labels) ==
    /\ name \in Keys /\ name[1] # "1"
    /\ labels \in Seq(LabelPairs(MetricsChars)) /\ Distinct(labels)

\* They are enough for every line.
LEMMA MetricsCharsAre == IsAlphabet(MetricsChars)
  BY DEF IsAlphabet, MetricsChars, LineChars, NameChars

\* One label, and two.
LEMMA OneLabel ==
    ASSUME NEW C, NEW key \in Keys, NEW v \in Seq(C)
    PROVE  << <<key, v>> >> \in Seq(LabelPairs(C)) /\ Distinct(<< <<key, v>> >>)
<1>1. PICK p \in LabelPairs(C) : p = <<key, v>>
  BY DEF LabelPairs
<1>2. PICK s \in Seq(LabelPairs(C)) : s = <<p>> /\ Len(s) = 1
  <2>1. <<p>> \in Seq(LabelPairs(C)) /\ Len(<<p>>) = 1
    BY Single
  <2> QED
    BY <2>1, Zenon
<1>3. Distinct(s)
  BY <1>2 DEF Distinct
<1> QED
  BY <1>1, <1>2, <1>3

\* Two labels with keys of different lengths.
LEMMA TwoLabels ==
    ASSUME NEW C, NEW key \in Keys, NEW other \in Keys, Len(key) # Len(other),
           NEW v \in Seq(C), NEW w \in Seq(C)
    PROVE  /\ << <<key, v>>, <<other, w>> >> \in Seq(LabelPairs(C))
           /\ Distinct(<< <<key, v>>, <<other, w>> >>)
<1>1. PICK p \in LabelPairs(C), q \in LabelPairs(C) :
          p = <<key, v>> /\ q = <<other, w>> /\ p[1] = key /\ q[1] = other
  <2>1. PICK p \in LabelPairs(C) : p = <<key, v>> /\ p[1] = key
    <3>1. <<key, v>> \in LabelPairs(C)
      BY DEF LabelPairs
    <3>2. <<key, v>>[1] = key
      OBVIOUS
    <3> QED
      BY <3>1, <3>2, Zenon
  <2>2. PICK q \in LabelPairs(C) : q = <<other, w>> /\ q[1] = other
    <3>1. <<other, w>> \in LabelPairs(C)
      BY DEF LabelPairs
    <3>2. <<other, w>>[1] = other
      OBVIOUS
    <3> QED
      BY <3>1, <3>2, Zenon
  <2> QED
    BY <2>1, <2>2
<1>2. PICK s \in Seq(LabelPairs(C)) : s = <<p, q>> /\ Len(s) = 2 /\ s[1] = p /\ s[2] = q
  <2>1. <<p, q>> \in Seq(LabelPairs(C)) /\ Len(<<p, q>>) = 2 /\ <<p, q>>[1] = p /\ <<p, q>>[2] = q
    BY Double
  <2> QED
    BY <2>1, Zenon
<1>3. key # other
  OBVIOUS
<1>4. Distinct(s)
  <2> SUFFICES ASSUME NEW i \in 1..2, NEW j \in 1..2, s[i][1] = s[j][1] PROVE i = j
    BY <1>2 DEF Distinct
  <2>1. (i = 1 \/ i = 2) /\ (j = 1 \/ j = 2)
    OBVIOUS
  <2> QED
    BY <1>1, <1>2, <1>3, <2>1
<1> QED
  BY <1>1, <1>2, <1>4

\* A name of one character, and one of two.
LEMMA KeysOf ==
    /\ \A c \in NameChars : <<c>> \in Keys /\ Len(<<c>>) = 1 /\ <<c>>[1] = c
    /\ \A c, d \in NameChars : <<c, d>> \in Keys /\ Len(<<c, d>>) = 2 /\ <<c, d>>[1] = c
<1>1. ASSUME NEW c \in NameChars PROVE <<c>> \in Keys /\ Len(<<c>>) = 1 /\ <<c>>[1] = c
  <2>1. PICK s \in Seq(NameChars) : s = <<c>> /\ Len(s) = 1 /\ s[1] = c
    <3>1. <<c>> \in Seq(NameChars) /\ Len(<<c>>) = 1 /\ <<c>>[1] = c
      BY Single
    <3> QED
      BY <3>1, Zenon
  <2>2. s \in Keys
    BY <2>1 DEF Keys
  <2> QED
    BY <2>1, <2>2
<1>2. ASSUME NEW c \in NameChars, NEW d \in NameChars
      PROVE  <<c, d>> \in Keys /\ Len(<<c, d>>) = 2 /\ <<c, d>>[1] = c
  <2>1. PICK s \in Seq(NameChars) : s = <<c, d>> /\ Len(s) = 2 /\ s[1] = c
    <3>1. <<c, d>> \in Seq(NameChars) /\ Len(<<c, d>>) = 2 /\ <<c, d>>[1] = c
      BY Double
    <3> QED
      BY <3>1, Zenon
  <2>2. s \in Keys
    BY <2>1 DEF Keys
  <2> QED
    BY <2>1, <2>2
<1> QED
  BY <1>1, <1>2

\* The label sets that are asked for have different keys.
LEMMA LabelSetsAre ==
    ASSUME NEW labels \in LabelSets
    PROVE  labels \in Seq(LabelPairs(MetricsChars)) /\ Distinct(labels)
<1>0. "k" \in NameChars /\ "n" \in NameChars /\ "1" \in NameChars
  BY DEF NameChars
<1>1. \A v \in Values : v \in Seq(MetricsChars)
  <2>1. Values \subseteq Seq(MetricsChars)
    BY BoundedSeqs DEF Values, MetricsChars
  <2> QED
    BY <2>1
<1>2. \A w \in FewValues : w \in Seq(MetricsChars)
  <2>1. "q" \in MetricsChars /\ "b" \in MetricsChars /\ "," \in MetricsChars
    BY DEF MetricsChars, LineChars
  <2>2. /\ <<>> \in Seq(MetricsChars) /\ <<"q">> \in Seq(MetricsChars) /\ <<"b">> \in Seq(MetricsChars)
        /\ <<",">> \in Seq(MetricsChars)
    BY <2>1, EmptySeq, Single
  <2> QED
    BY <2>2, Zenon DEF FewValues
<1>3. CASE labels = <<>>
  <2>1. PICK s \in Seq(LabelPairs(MetricsChars)) : s = <<>> /\ Len(s) = 0
    BY EmptySeq
  <2>2. Distinct(s)
    BY <2>1 DEF Distinct
  <2> QED
    BY <1>3, <2>1, <2>2
<1>4. ASSUME NEW v \in Values, labels = << <<(<<"k">>), v>> >>
      PROVE  labels \in Seq(LabelPairs(MetricsChars)) /\ Distinct(labels)
  <2>1. PICK key \in Keys : key = <<"k">>
    BY <1>0, KeysOf
  <2>2. labels = << <<key, v>> >>
    BY <1>4, <2>1, Zenon
  <2> QED
    BY <1>1, <2>2, OneLabel
<1>5. ASSUME NEW v \in Values, NEW w \in FewValues,
             labels = << <<(<<"n", "k">>), v>>, <<(<<"1">>), w>> >>
      PROVE  labels \in Seq(LabelPairs(MetricsChars)) /\ Distinct(labels)
  <2>1. PICK key \in Keys : key = <<"n", "k">> /\ Len(key) = 2
    BY <1>0, KeysOf
  <2>2. PICK other \in Keys : other = <<"1">> /\ Len(other) = 1
    BY <1>0, KeysOf
  <2>3. labels = << <<key, v>>, <<other, w>> >>
    BY <1>5, <2>1, <2>2, Zenon
  <2>4. v \in Seq(MetricsChars) /\ w \in Seq(MetricsChars)
    BY <1>1, <1>2, Zenon
  <2>5. Len(key) # Len(other)
    <3>1. Len(key) = 2
      BY <2>1, Zenon
    <3>2. Len(other) = 1
      BY <2>2, Zenon
    <3> QED
      BY <3>1, <3>2
  <2> QED
    BY <2>3, <2>4, <2>5, TwoLabels
<1>6. labels \in {<<>>} \/ labels \in OneLabelSets \/ labels \in TwoLabelSets
  BY DEF LabelSets
<1>7. labels \in {<<>>} => labels = <<>>
  BY Zenon
<1>8. labels \in OneLabelSets => \E v \in Values : labels = << <<(<<"k">>), v>> >>
  BY Zenon DEF OneLabelSets
<1>9. labels \in TwoLabelSets => \E v \in Values, w \in FewValues :
            labels = << <<(<<"n", "k">>), v>>, <<(<<"1">>), w>> >>
  BY SMT DEF TwoLabelSets
<1> QED
  BY <1>3, <1>4, <1>5, <1>6, <1>7, <1>8, <1>9, Zenon

\* A line is a text.
LEMMA LineIsText ==
    ASSUME NEW name, NEW labels, IsSample(name, labels)
    PROVE  Line(name, labels) \in Seq(MetricsChars)
<1>1. PICK k \in Keys, ls \in Seq(LabelPairs(MetricsChars)) : k = name /\ ls = labels
  BY DEF IsSample
<1>2. k \in Seq(NameChars) /\ IsAlphabet(MetricsChars)
  BY MetricsCharsAre DEF Keys
<1>3. PICK head \in Seq(MetricsChars) : head = k \o Body(ls)
  BY <1>2, HeadIs
<1>4. PICK tail \in Seq(MetricsChars) : tail = <<"s", "1">>
  <2>1. "s" \in MetricsChars /\ "1" \in MetricsChars
    BY DEF MetricsChars, LineChars
  <2> QED
    BY <2>1, Double
<1>5. PICK line \in Seq(MetricsChars) : Joins(line, head, tail)
  BY Concatenation
<1>6. Line(name, labels) = line
  BY <1>1, <1>3, <1>4, <1>5, Zenon DEF Line, Body, Joins
<1> QED
  BY <1>6

\* What a line is asked for with.
LineAsked ==
    /\ args[3] \in Seq(MetricsChars)
    /\ IsName(args[1]) => IsSample(args[1], args[2]) /\ args[3] = Line(args[1], args[2])

\* The lines of metrics, the processes with the labels of them, and the samples of a
\* category.
MonitorAsked ==
    /\ tool = "metrics" =>
          /\ LineAsked
          /\ answer = NoAnswer \/ answer = ParseLine(args[3])
    /\ tool = "monitor_system" =>
          /\ args[1] \in Seq([id : 1..3, commands : Nat])
          /\ args[2] \in Seq([id : 1..2, routine : {"r", "t"}])
          /\ answer = NoAnswer \/ answer = TopProcesses(args[1], args[2])
    /\ tool = "score" =>
          /\ args[1] \in Seq(Measured) /\ args[2] \in Seq(Seq(Measured))
          /\ answer = NoAnswer \/ answer = ScoreCategory(args[1], args[2])

\* It is so for the lines that are no samples.
LEMMA LinesAsked ==
    ASSUME NEW line \in OtherLines, args = << <<>>, <<>>, line>>
    PROVE  LineAsked
<1>1. line \in Seq(MetricsChars)
  <2>1. line \in Seq(LineChars) /\ LineChars \subseteq MetricsChars
    BY SizesAssumption, BoundedSeqs DEF OtherLines, MetricsChars
  <2> QED
    BY <2>1, SeqMonotonic
<1>2. args[1] = <<>> /\ args[3] = line
  OBVIOUS
<1>3. ~IsName(args[1])
  BY <1>2, Zenon DEF IsName
<1> QED
  BY <1>1, <1>2, <1>3 DEF LineAsked

\* It is so for the lines of samples.
LEMMA SamplesAsked ==
    ASSUME NEW name \in {<<"k">>, <<"n", "1">>}, NEW labels \in LabelSets,
           args = <<name, labels, Line(name, labels)>>
    PROVE  LineAsked
<1>1. name \in Keys /\ name[1] # "1"
  <2>1. "k" \in NameChars /\ "n" \in NameChars /\ "1" \in NameChars
    BY DEF NameChars
  <2>2. /\ <<"k">> \in Keys /\ <<"k">>[1] = "k"
        /\ <<"n", "1">> \in Keys /\ <<"n", "1">>[1] = "n"
    BY <2>1, KeysOf
  <2>3. "k" # "1" /\ "n" # "1"
    OBVIOUS
  <2> QED
    BY <2>2, <2>3, Zenon
<1>2. IsSample(name, labels)
  BY <1>1, LabelSetsAre, Zenon DEF IsSample
<1>3. Line(name, labels) \in Seq(MetricsChars)
  BY <1>2, LineIsText
<1>4. args[1] = name /\ args[2] = labels /\ args[3] = Line(name, labels)
  OBVIOUS
<1> QED
  BY <1>2, <1>3, <1>4, Zenon DEF LineAsked

\* Whatever the monitor is asked about, it answers that.
LEMMA MonitorAskedAlways == Spec => []MonitorAsked
<1>1. Init => MonitorAsked
  <2> SUFFICES ASSUME Init PROVE MonitorAsked
    OBVIOUS
  <2>1. ASSUME tool = "metrics" PROVE LineAsked /\ answer = NoAnswer
    <3>1. /\ answer = NoAnswer
          /\ \/ args \in {<< <<>>, <<>>, line>> : line \in OtherLines}
             \/ \E name \in {<<"k">>, <<"n", "1">>} : \E labels \in LabelSets :
                   args \in {<<name, labels, Line(name, labels)>>}
      BY <2>1 DEF Init, Asks
    <3>2. CASE args \in {<< <<>>, <<>>, line>> : line \in OtherLines}
      <4>1. PICK line \in OtherLines : args = << <<>>, <<>>, line>>
        BY <3>2, Zenon
      <4> QED
        BY <3>1, <4>1, LinesAsked
    <3>3. ASSUME NEW name \in {<<"k">>, <<"n", "1">>}, NEW labels \in LabelSets,
                 args \in {<<name, labels, Line(name, labels)>>}
          PROVE  LineAsked
      <4>1. args = <<name, labels, Line(name, labels)>>
        BY <3>3, Zenon
      <4> QED
        BY <4>1, SamplesAsked, Zenon
    <3> QED
      BY <3>1, <3>2, <3>3, Zenon
  <2>2. ASSUME tool = "monitor_system"
        PROVE  /\ args[1] \in Seq([id : 1..3, commands : Nat])
               /\ args[2] \in Seq([id : 1..2, routine : {"r", "t"}]) /\ answer = NoAnswer
    <3>1. /\ answer = NoAnswer
          /\ args \in {procs \in BoundedSeq([id : 1..3, commands : 0..2], 3) :
                          \A j, k \in 1..Len(procs) : procs[j].id = procs[k].id => j = k}
                      \X BoundedSeq([id : 1..2, routine : {"r", "t"}], 2)
      BY <2>2 DEF Init, Asks
    <3>2. /\ args[1] \in BoundedSeq([id : 1..3, commands : 0..2], 3)
          /\ args[2] \in BoundedSeq([id : 1..2, routine : {"r", "t"}], 2)
      BY <3>1
    <3>3. 2 \in Nat /\ 3 \in Nat
      OBVIOUS
    <3>4. /\ args[1] \in Seq([id : 1..3, commands : 0..2])
          /\ args[2] \in Seq([id : 1..2, routine : {"r", "t"}])
      BY <3>2, <3>3, BoundedSeqs
    <3>5. Seq([id : 1..3, commands : 0..2]) \subseteq Seq([id : 1..3, commands : Nat])
      <4> DEFINE few == [id : 1..3, commands : 0..2]
                 all == [id : 1..3, commands : Nat]
      <4>1. few \subseteq all
        OBVIOUS
      <4> HIDE DEF few, all
      <4>2. Seq(few) \subseteq Seq(all)
        BY <4>1, SeqMonotonic
      <4> QED
        BY <4>2 DEF few, all
    <3> QED
      BY <3>1, <3>4, <3>5
  <2>3. ASSUME tool = "score"
        PROVE  args[1] \in Seq(Measured) /\ args[2] \in Seq(Seq(Measured)) /\ answer = NoAnswer
    <3>1. /\ answer = NoAnswer
          /\ args \in BoundedSeq({-1, 0, 2, 5, NaN}, 2) \X BoundedSeq(BoundedSeq({0, 3, NaN}, 2), 2)
      BY <2>3 DEF Init, Asks
    <3>2. args[1] \in BoundedSeq({-1, 0, 2, 5, NaN}, 2) /\ args[2] \in BoundedSeq(BoundedSeq({0, 3, NaN}, 2), 2)
      BY <3>1
    <3>3. 2 \in Nat /\ {-1, 0, 2, 5, NaN} \subseteq Measured /\ {0, 3, NaN} \subseteq Measured
      BY DEF Measured
    <3>4. args[1] \in Seq({-1, 0, 2, 5, NaN}) /\ args[2] \in Seq(BoundedSeq({0, 3, NaN}, 2))
      BY <3>2, <3>3, BoundedSeqs
    <3>5. BoundedSeq({0, 3, NaN}, 2) \subseteq Seq({0, 3, NaN}) /\ Seq({0, 3, NaN}) \subseteq Seq(Measured)
      BY <3>3, BoundedSeqs, SeqMonotonic
    <3>6. BoundedSeq({0, 3, NaN}, 2) \subseteq Seq(Measured)
      BY <3>5
    <3>7. /\ Seq({-1, 0, 2, 5, NaN}) \subseteq Seq(Measured)
          /\ Seq(BoundedSeq({0, 3, NaN}, 2)) \subseteq Seq(Seq(Measured))
      BY <3>3, <3>6, SeqMonotonic
    <3> QED
      BY <3>1, <3>4, <3>7
  <2> QED
    BY <2>1, <2>2, <2>3 DEF MonitorAsked
<1>2. MonitorAsked /\ [Next]_vars => MonitorAsked'
  <2> SUFFICES ASSUME MonitorAsked, [Next]_vars PROVE MonitorAsked'
    OBVIOUS
  <2>1. CASE UNCHANGED vars
    BY <2>1 DEF MonitorAsked, LineAsked, vars
  <2>2. CASE Next
    <3>1. UNCHANGED <<tool, args>>
      BY <2>2 DEF Next, Answers
    <3>2. tool = "metrics" => answer' = ParseLine(args[3])
      BY <2>2 DEF Next, Answers
    <3>3. tool = "monitor_system" => answer' = TopProcesses(args[1], args[2])
      BY <2>2 DEF Next, Answers
    <3>4. tool = "score" => answer' = ScoreCategory(args[1], args[2])
      BY <2>2 DEF Next, Answers
    <3> QED
      BY <3>1, <3>2, <3>3, <3>4 DEF MonitorAsked, LineAsked
  <2> QED
    BY <2>1, <2>2
<1> QED
  BY <1>1, <1>2, PTL DEF Spec

\* monitor_system: a line of metrics is read back as the sample it was written for,
\* whatever characters its label values hold; for every MaxLine, no line makes a sample
\* or a label without a name; the busiest processes are reported, for every TopSize; and
\* for every threshold the score lies within its bounds and never falls when a sample
\* grows.
THEOREM MonitorHonest == Spec => []MonitorIsHonest
<1>1. MonitorAsked => MonitorIsHonest
  <2> SUFFICES ASSUME MonitorAsked, answer # NoAnswer PROVE MonitorIsHonest
    BY DEF MonitorIsHonest, Answered
  <2>1. ASSUME tool = "metrics"
        PROVE  Named(answer) /\ (IsName(args[1]) => ReadBack(args[1], args[2], answer))
    <3>1. PICK line \in Seq(MetricsChars) : line = args[3] /\ answer = ParseLine(line)
      BY <2>1 DEF MonitorAsked, LineAsked
    <3>2. Named(ParseLine(line))
      BY MetricsCharsAre, LineNamed
    <3>3. ASSUME IsName(args[1]) PROVE ReadBack(args[1], args[2], answer)
      <4>1. IsSample(args[1], args[2]) /\ line = Line(args[1], args[2])
        BY <2>1, <3>1, <3>3 DEF MonitorAsked, LineAsked
      <4>2. PICK name \in Keys, labels \in Seq(LabelPairs(MetricsChars)) :
                name = args[1] /\ labels = args[2] /\ name[1] # "1" /\ Distinct(labels)
        BY <4>1 DEF IsSample
      <4>3. ReadBack(name, labels, ParseLine(Line(name, labels)))
        BY <4>2, MetricsCharsAre, LineReadBack
      <4> QED
        BY <3>1, <4>1, <4>2, <4>3
    <3> QED
      BY <3>1, <3>2, <3>3
  <2>2. ASSUME tool = "monitor_system" PROVE TopHonest(args[1], args[2], answer)
    <3>1. PICK procs \in Seq([id : 1..3, commands : Nat]), labels \in Seq([id : 1..2, routine : {"r", "t"}]) :
              procs = args[1] /\ labels = args[2]
      BY <2>2 DEF MonitorAsked
    <3>2. answer = TopProcesses(procs, labels)
      BY <2>2, <3>1 DEF MonitorAsked
    <3>3. TopHonest(procs, labels, TopProcesses(procs, labels))
      BY TopIsHonest
    <3> QED
      BY <3>1, <3>2, <3>3
  <2>3. ASSUME tool = "score" PROVE ScoreHonest(args[1], args[2], answer)
    <3>1. PICK special \in Seq(Measured), plain \in Seq(Seq(Measured)) :
              special = args[1] /\ plain = args[2]
      BY <2>3 DEF MonitorAsked
    <3>2. answer = ScoreCategory(special, plain)
      BY <2>3, <3>1 DEF MonitorAsked
    <3>3. ScoreHonest(special, plain, ScoreCategory(special, plain))
      BY ScoreIsHonest
    <3> QED
      BY <3>1, <3>2, <3>3
  <2> QED
    BY <2>1, <2>2, <2>3 DEF MonitorIsHonest, Answered
<1> QED
  BY <1>1, MonitorAskedAlways, PTL
=============================================================================
