--------------------------- MODULE MCToolAnswers ----------------------------
(***************************************************************************)
(* ToolAnswers on small arguments.                                         *)
(***************************************************************************)
EXTENDS ToolAnswers

RootNames == <<"w">>

\* The root holds what Below says, and stands beside a file of its kind; from the
\* root the glob gets there by "..", and from the top of the file system.
Below == << <<"cls">>, <<"cls", "cls">>, <<"src">>, <<"src", "cls">>, <<"src", "sub">>,
            <<"src", "sub", "cls">> >>
All   == << <<"cls">>, <<"w">> >> \o [k \in 1..Len(Below) |-> <<"w">> \o Below[k]]

Walking(top, from, paths) ==
    [k \in 1..Len(paths) |-> [top |-> top, names |-> from \o paths[k]]]

RootWalks == Walking(FALSE, <<"..">>, All) \o Walking(FALSE, <<>>, Below)
             \o Walking(TRUE, <<>>, All)
=============================================================================
