--------------------------- MODULE TerminalOutput ---------------------------
(***************************************************************************)
(* The output of one terminal command (src/src/iris/terminal.rs): its      *)
(* frames are streamed and kept until terminal_max_output_chars bytes are  *)
(* kept, the rest is counted, and what was kept is joined, cleaned and cut *)
(* at a character.  With bound 0 everything is kept.                       *)
(*                                                                         *)
(* An escape sequence stands for "c" like any control character: clean_text*)
(* removes it whole (unless it is split over two frames, when the newline  *)
(* between them tears it).                                                 *)
(***************************************************************************)
EXTENDS Texts

Fresh == [kept |-> <<>>, streamed |-> 0, dropped |-> 0]

\* Seeded fault: a dropped frame is counted in bytes (issue #16 F2).
AccountFrameFaulty(got, frame, bound) ==
    IF bound = 0 \/ got.streamed < bound
    THEN [got EXCEPT !.kept = Append(@, frame), !.streamed = @ + Bytes(frame)]
    ELSE [got EXCEPT !.dropped = @ + Bytes(frame)]

\* account_frame: bytes are kept and characters dropped. A frame is emitted, to
\* the job's output or the screen, when it is kept.
AccountFrame(got, frame, bound) ==
    IF bound = 0 \/ got.streamed < bound
    THEN [got EXCEPT !.kept = Append(@, frame),
                     !.streamed = @ + IF bound = 0 THEN Bytes(frame)
                                      ELSE AtMost(Bytes(frame), bound - @)]
    ELSE [got EXCEPT !.dropped = @ + Len(frame)]

Collect(frames, bound) ==
    FoldLeft(LAMBDA got, frame : AccountFrame(got, frame, bound), Fresh, frames)

Joined(frames) ==
    IF frames = <<>> THEN <<>>
    ELSE FoldLeft(LAMBDA text, frame : Append(text, "n") \o frame, Head(frames), Tail(frames))

CleanText(text) == Only(text, {"a", "e", "n"})

FloorCharBoundary(text, n) == Greatest({b \in Boundaries(text) : b <= n})

\* bound_outcome with the dropped frames that run_with_inner adds.
Outcome(frames, bound) ==
    LET got  == Collect(frames, bound)
        text == CleanText(Joined(got.kept))
        cut  == IF bound = 0 THEN Bytes(text) ELSE FloorCharBoundary(text, bound)
    IN  [output    |-> Upto(text, cut),
         truncated |-> cut < Bytes(text) \/ got.dropped > 0,
         omitted   |-> Len(From(text, cut)) + got.dropped,
         emitted   |-> got.kept]
-----------------------------------------------------------------------------
(***************************************************************************)
(* What an outcome o of the frames promises.                               *)
(***************************************************************************)
Whole(frames) == CleanText(Joined(frames))

\* The output fits the bound and is the beginning of the whole output, no part of
\* a character; it misses a character at most at the cut, of which it is short by
\* less than two bytes, if frames were dropped or cut.
Bounded(frames, bound, o) ==
    /\ bound > 0 => Bytes(o.output) <= bound
    /\ IsPrefix(o.output, Whole(frames))
    /\ ~o.truncated => o.output = Whole(frames)

\* Nothing is lost without being counted; and without control characters "the
\* whole payload is accounted for, char-for-char" (terminal.rs:743-748).
Accounted(frames, bound, o) ==
    LET lost == Len(Whole(frames)) - Len(o.output)
        seps == Len(frames) - Len(o.emitted)
    IN  /\ o.omitted + seps >= lost
        /\ (\A k \in 1..Len(frames) : frames[k] = CleanText(frames[k])) =>
              o.omitted + seps = lost

FrameBytes(frames) == FoldLeft(LAMBDA n, frame : n + Bytes(frame), 0, frames)

\* A caller that watched the frames of a running command has seen everything the
\* result shows, and at most one frame more than fits the bound.
Watched(frames, bound, o) ==
    LET seen == Whole(o.emitted)
    IN  /\ IsPrefix(o.output, seen)
        /\ bound > 0 /\ o.emitted # <<>> =>
              FrameBytes(Front(o.emitted)) < bound
=============================================================================
