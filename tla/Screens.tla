------------------------------ MODULE Screens ------------------------------
(***************************************************************************)
(* What the three terminals promise a user: every terminal has a screen of *)
(* its own, one of them is displayed, output changes one cell of the       *)
(* displayed screen, and Alt+Fn displays another screen exactly as it was  *)
(* left.  TerminalScreens implements this with one video memory, a backup  *)
(* page per terminal and a page table.                                     *)
(***************************************************************************)
EXTENDS Integers

CONSTANTS MAX_TERMINAL, Cells, Values

Terminals == 0 .. MAX_TERMINAL - 1

VARIABLES
    front,    \* the terminal displayed
    screen    \* [Terminals -> [Cells -> Values]]

Init ==
    /\ front = 0
    /\ screen \in [Terminals -> [Cells -> Values]]

Draw(c, v) ==
    /\ screen' = [screen EXCEPT ![front][c] = v]
    /\ UNCHANGED front

Display(t) ==
    /\ front' = t
    /\ UNCHANGED screen

Next ==
    \/ \E c \in Cells, v \in Values : Draw(c, v)
    \/ \E t \in Terminals : Display(t)

Spec == Init /\ [][Next]_<<front, screen>>
=============================================================================
