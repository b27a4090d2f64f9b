----------------------------- MODULE HostTools ------------------------------
(***************************************************************************)
(* The tools that act on the machine rism runs on (src/src/tools/host.rs): *)
(* read_file, list_files and the result of run_shell.  They answer with a  *)
(* record; Panic is the answer that never comes.                           *)
(*                                                                         *)
(* The workspace has no symbolic links, so a path is the names on it, and  *)
(* canonicalizing is collapsing.                                           *)
(***************************************************************************)
EXTENDS Texts

CONSTANTS MaxFile,   \* MAX_FILE_CHARS, 100 000 (bytes, in fact)
          MaxOutput, \* MAX_OUTPUT_CHARS, 10 000
          Sample,    \* the bytes is_binary looks at, 8192
          MaxList,   \* the greatest max_results, 1000
          UsualList, \* max_results when it is not given, 200
          NotGiven,  \* an argument that is left out
          Root       \* the workspace root, a sequence of names

ASSUME HostAssumption ==
    /\ MaxFile \in Nat /\ MaxOutput \in Nat /\ Sample \in Nat
    /\ MaxList \in Nat \ {0} /\ UsualList \in 1..MaxList

Error(e) == [error |-> e]
Panic == Error("panic")
-----------------------------------------------------------------------------
(***************************************************************************)
(* Paths.                                                                  *)
(***************************************************************************)
Collapse(path) ==
    FoldLeft(LAMBDA out, name : IF name = ".." THEN IF out = <<>> THEN out ELSE Front(out)
                                ELSE IF name = "." THEN out ELSE Append(out, name),
             <<>>, path)

\* workspace_root canonicalizes the root, too.
ASSUME RootAssumption == Root \in Seq(ToSet(Root)) /\ Collapse(Root) = Root

\* resolve_safe: the place, if it is in the workspace. Joining an absolute path
\* replaces the root.
ResolveSafe(path) ==
    LET place == Collapse(IF path.absolute THEN path.names ELSE Root \o path.names)
    IN  IF IsPrefix(Root, place) THEN <<place>> ELSE <<>>
-----------------------------------------------------------------------------
(***************************************************************************)
(* Reading.                                                                *)
(***************************************************************************)
\* A zero byte, or more than a fifth of control bytes in the sample.
IsBinary(text) ==
    LET chunk   == Upto(text, Greatest({b \in Boundaries(text) : b <= Sample}))
        control == Len(Only(chunk, {"c", "z"}))
    IN  Contains(chunk, "z") \/ control * 5 > AtMost(Sample, Bytes(text))

\* Where truncate_file cuts: after half the limit at the last newline before it.
FileCut(text) ==
    LET newlines == {Bytes(SubSeq(text, 1, k - 1)) : k \in {i \in 1..Len(text) : text[i] = "n"}}
        usable   == {n \in newlines : n < MaxFile /\ n > MaxFile \div 2}
    IN  IF usable = {} THEN MaxFile ELSE Greatest(usable)

Uncut(text) == [content |-> text, truncated |-> FALSE, more |-> 0]

\* Seeded fault: the notice counts from the limit and not from the cut.
TruncateFileFaulty(text) ==
    IF Bytes(text) <= MaxFile THEN Uncut(text)
    ELSE IF MaxFile \notin Boundaries(text) THEN Panic
    ELSE [content |-> Upto(text, FileCut(text)), truncated |-> TRUE,
          more |-> Bytes(text) - MaxFile]

\* truncate_file: the slice up to the limit is taken first, boundary or not.
TruncateFile(text) ==
    IF Bytes(text) <= MaxFile THEN Uncut(text)
    ELSE IF MaxFile \notin Boundaries(text) THEN Panic
    ELSE [content |-> Upto(text, FileCut(text)), truncated |-> TRUE,
          more |-> Bytes(text) - FileCut(text)]

\* String::from_utf8_lossy: what is no UTF-8 becomes the replacement character.
FromUtf8Lossy(bytes) == [k \in 1..Len(bytes) |-> IF bytes[k] = "x" THEN "u" ELSE bytes[k]]

\* read_file of a file with these bytes, or of none (<<>> for no file at the place);
\* `rooted` says that a workspace is configured. The size is that of the bytes.
ReadFile(rooted, path, file) ==
    IF ~rooted THEN Error("noWorkspace")
    ELSE IF ResolveSafe(path) = <<>> THEN Error("escapes")
    ELSE IF file = <<>> THEN Error("notFound")
    ELSE IF IsBinary(file[1]) THEN Error("binary")
    ELSE IF TruncateFile(FromUtf8Lossy(file[1])) = Panic THEN Panic
    ELSE [text |-> TruncateFile(FromUtf8Lossy(file[1])), size |-> Bytes(file[1])]

\* truncate_at, for each of the two outputs of run_shell.
TruncateAt(text) ==
    IF Bytes(text) <= MaxOutput THEN Uncut(text)
    ELSE IF MaxOutput \notin Boundaries(text) THEN Panic
    ELSE [content |-> Upto(text, MaxOutput), truncated |-> TRUE,
          more |-> Bytes(text) - MaxOutput]

\* run_shell: a command that does not end within the clamped time-out is killed and
\* an error, not a result with exit code -1; a signal gives -1 (here "killed").
ShellTimeout(secs) == IF secs = NotGiven THEN 30 ELSE AtLeast(1, AtMost(secs, 3600))

RunShell(secs, takes, exit, bytes) ==
    IF takes > ShellTimeout(secs) THEN Error("timedOut")
    ELSE IF TruncateAt(FromUtf8Lossy(bytes)) = Panic THEN Panic
    ELSE [stdout |-> TruncateAt(FromUtf8Lossy(bytes)), exit |-> exit]
-----------------------------------------------------------------------------
(***************************************************************************)
(* Listing. A pattern is a sequence of names, each standing for the names  *)
(* of a kind, with at most one "**", not at its end, and ".." only at its  *)
(* beginning. A path a glob can walk is the names on it, from the top of   *)
(* the file system or from the directory, which it may leave by "..".      *)
(* Patterns are well-formed, and directories can be read.                  *)
(***************************************************************************)
Recursive(pattern) == Contains(pattern.parts, "**")

\* A pattern without "**" is searched for below itself: `format!` is given the
\* pattern for the directory, too. The slash of an absolute one then makes an empty
\* name, which no file has.
FullPattern(pattern) ==
    IF Recursive(pattern) THEN pattern.parts
    ELSE pattern.parts \o (IF pattern.absolute THEN <<"**", "">> ELSE <<"**">>) \o pattern.parts

\* Joining an absolute pattern replaces the directory.
FromTop(pattern) == pattern.absolute /\ Recursive(pattern)

\* The names before "**" are walked one by one, ".." among them; from there on the
\* glob reads directories, in which no ".." is found.
GlobMatches(full, names) ==
    \E at \in 1..Len(full) :
        LET dirs == Len(names) + 1 - Len(full)
        IN  /\ full[at] = "**" /\ Len(full) <= Len(names) + 1
            /\ \A k \in 1..at - 1 : names[k] = full[k]
            /\ \A k \in at + 1..Len(full) : names[k + dirs - 1] = full[k]
            /\ \A k \in at..Len(names) : names[k] # ".."

\* read_dir gives the entries of the directory itself.
IsEntry(f) == ~f.top /\ Len(f.names) = 1 /\ f.names[1] # ".."

\* What list_files goes through, of the sorted `paths`.
Found(paths, pattern) ==
    Only(paths, {f \in ToSet(paths) :
                   IF pattern = NotGiven THEN IsEntry(f)
                   ELSE (f.top <=> FromTop(pattern)) /\ GlobMatches(FullPattern(pattern), f.names)})

ListLimit(max) == IF max = NotGiven THEN UsualList ELSE AtLeast(1, AtMost(max, MaxList))

\* file_entry: metadata, and a path that begins with the root, name by name.
HasEntry(f) == f.readable /\ (f.top => IsPrefix(Root, f.names))

\* The loop over the sorted paths: those without an entry are skipped, and a path
\* more, with one or not, makes the list truncated.
Listed(found, max) ==
    FoldLeft(LAMBDA out, f :
               IF Len(out.files) >= ListLimit(max) THEN [out EXCEPT !.truncated = TRUE]
               ELSE IF HasEntry(f) THEN [out EXCEPT !.files = Append(@, f)] ELSE out,
             [files |-> <<>>, truncated |-> FALSE], found)

\* list_files, where `there` is what the path leads to.
ListFiles(rooted, path, there, paths, pattern, max) ==
    IF ~rooted THEN Error("noWorkspace")
    ELSE IF path # NotGiven /\ ResolveSafe(path) = <<>> THEN Error("escapes")
    ELSE IF there = "nothing" THEN Error("notFound")
    ELSE IF there = "file" THEN Error("notDirectory")
    ELSE Listed(Found(paths, pattern), max)
-----------------------------------------------------------------------------
(***************************************************************************)
(* What the answers promise.                                               *)
(***************************************************************************)

\* A cut text is the beginning of the text, and its notice counts what is missing
\* to the byte.
CutHonestly(text, cut) ==
    /\ IsPrefix(cut.content, text)
    /\ Bytes(cut.content) + cut.more = Bytes(text)
    /\ cut.truncated <=> cut.more > 0

\* A file is cut behind its last line that ends within the limit, unless that
\* would lose half of what fits.
CutAtLine(text, cut) ==
    cut.truncated =>
        /\ Bytes(cut.content) <= MaxFile
        /\ \A k \in 1..Len(text) :
              LET end == Bytes(SubSeq(text, 1, k - 1))
              IN  text[k] = "n" /\ end \in MaxFile \div 2 + 1 .. MaxFile - 1 =>
                     /\ end <= Bytes(cut.content)
                     /\ text[Len(cut.content) + 1] = "n"

InWorkspace(path) ==
    IsPrefix(Root, Collapse(IF path.absolute THEN path.names ELSE Root \o path.names))

\* What read_file returns is of a file below the root of a configured workspace,
\* has no zero byte in the sample, and is the beginning of the decoded text. The
\* notice counts in that: it adds up to the size if the file is UTF-8.
ReadHonestly(rooted, path, file, a) ==
    "text" \in DOMAIN a =>
        /\ rooted /\ InWorkspace(path)
        /\ \A k \in 1..Len(file[1]) :
              file[1][k] = "z" => Bytes(SubSeq(file[1], 1, k)) > Sample
        /\ CutHonestly(FromUtf8Lossy(file[1]), a.text) /\ CutAtLine(FromUtf8Lossy(file[1]), a.text)
        /\ ~Contains(file[1], "x") => (Bytes(a.text.content) + a.text.more = a.size)

\* A list has the first entries of `found` in order; if it does not say that it was
\* cut it has all of them, and if it does there was one more to look at.
ListedHonestly(found, max, a) ==
    \E k \in 0..Len(found) :
        /\ a.files = Only(SubSeq(found, 1, k), {f \in ToSet(found) : HasEntry(f)})
        /\ Len(a.files) <= ListLimit(max)
        /\ a.truncated <=> k < Len(found)
        /\ a.truncated => Len(a.files) = ListLimit(max)

\* What a pattern means to whoever reads that it is a glob filter (host.rs:185): a
\* path begins with what stands before the "**" and ends with what stands behind
\* it, with any names between; without "**" it is the pattern, name by name.
Means(parts, names) ==
    \/ ~Contains(parts, "**") /\ names = parts
    \/ \E k \in 1..Len(parts), i \in 0..Len(names), j \in 0..Len(names) :
          /\ parts[k] = "**" /\ i <= j
          /\ SubSeq(names, 1, i) = SubSeq(parts, 1, k - 1)
          /\ SubSeq(names, j + 1, Len(names)) = SubSeq(parts, k + 1, Len(parts))

\* The paths in the directory that are asked for.
Wanted(paths, pattern) ==
    Only(paths, {f \in ToSet(paths) :
                   IF pattern = NotGiven THEN IsEntry(f)
                   ELSE ~f.top /\ ~Contains(f.names, "..") /\ Means(pattern.parts, f.names)})

\* The patterns that list_files follows: `**/*.json`, but not `*.cls`.
Followed(pattern) ==
    \/ pattern = NotGiven
    \/ Recursive(pattern) /\ ~pattern.absolute /\ ~Contains(pattern.parts, "..")

\* Without a pattern, and with one that has a "**" and does not leave the directory,
\* a listing has what is wanted, in order, or says that it is cut. Any other pattern
\* is followed to where it leads (host.rs:259-264), and a relative one without "**"
\* leads to none of the paths it names.
ListsWhatIsWanted(rooted, path, paths, pattern, max, a) ==
    "files" \in DOMAIN a =>
        /\ rooted /\ (path # NotGiven => InWorkspace(path))
        /\ ListedHonestly(Found(paths, pattern), max, a)
        /\ Followed(pattern) => ListedHonestly(Wanted(paths, pattern), max, a)
        /\ (~Followed(pattern) /\ ~Recursive(pattern)) =>
              ToSet(a.files) \cap ToSet(Wanted(paths, pattern)) = {}
=============================================================================
