------------------------------- MODULE Texts --------------------------------
(***************************************************************************)
(* Text as the tools of rism cut it: a Rust string is measured and sliced  *)
(* in bytes, and slicing it inside a character panics.                     *)
(*                                                                         *)
(* A text is a sequence of character classes: "a" takes one byte, "e" two  *)
(* and "u", the replacement character, three; "n" is a newline, "c" a      *)
(* control character, "z" a zero byte and "x" a byte that is no UTF-8.     *)
(***************************************************************************)
EXTENDS Naturals, SequencesExt

Width(char) == CASE char = "e" -> 2 [] char = "u" -> 3 [] OTHER -> 1

Bytes(text) == FoldLeft(LAMBDA n, char : n + Width(char), 0, text)

\* The offsets at which a text can be sliced.
Boundaries(text) == {Bytes(p) : p \in Prefixes(text)}

\* text[..n], for a boundary n.
Upto(text, n) == CHOOSE p \in Prefixes(text) : Bytes(p) = n

\* text[n..].
From(text, n) == SubSeq(text, Len(Upto(text, n)) + 1, Len(text))

Greatest(S) == CHOOSE n \in S : \A m \in S : m <= n

\* The elements of a sequence that are in S, in their order.
Only(seq, S) == FoldLeft(LAMBDA out, x : IF x \in S THEN Append(out, x) ELSE out, <<>>, seq)

AtMost(n, m) == IF n <= m THEN n ELSE m
AtLeast(n, m) == IF n <= m THEN m ELSE n
=============================================================================
