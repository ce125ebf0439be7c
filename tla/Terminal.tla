------------------------------ MODULE Terminal ------------------------------
(***************************************************************************)
(* What a text terminal promises: the messages appear whole and one after  *)
(* the other, every glyph in its colour, and only what scrolls out at the  *)
(* top is lost.  Where lines are broken is left open; tabs are left out,   *)
(* and spaces may be.                                                      *)
(***************************************************************************)
EXTENDS Naturals, Sequences

CONSTANTS
    Rows,  \* lines that fit
    Texts  \* what is printed: sequences of <<character, colour>>

VARIABLES
    lines, \* the lines on the screen, from the top
    rest   \* what is missing of the message that is being printed

vars == <<lines, rest>>

Init == lines = << <<>> >> /\ rest = <<>>

Fresh == IF Len(lines) < Rows THEN Append(lines, <<>>) ELSE Append(Tail(lines), <<>>)

Begin == rest = <<>> /\ rest' \in Texts /\ UNCHANGED lines

Show ==
    /\ rest # <<>> /\ Head(rest)[1] \notin {"newline", "tab"}
    /\ lines' = [lines EXCEPT ![Len(lines)] = Append(@, Head(rest))]
    /\ rest' = Tail(rest)

LeaveOut ==
    /\ rest # <<>> /\ Head(rest)[1] \in {"space", "tab"}
    /\ rest' = Tail(rest) /\ UNCHANGED lines

NewLine ==
    /\ rest # <<>> /\ Head(rest)[1] = "newline"
    /\ lines' = Fresh /\ rest' = Tail(rest)

Wrap == rest # <<>> /\ lines' = Fresh /\ UNCHANGED rest

Next == Begin \/ Show \/ LeaveOut \/ NewLine \/ Wrap

Spec == Init /\ [][Next]_vars
=============================================================================
