----------------------------- MODULE ScreenOps -----------------------------
(***************************************************************************)
(* The output functions of lib.c on the screen of one terminal, each as a  *)
(* function of the screen: where the next character goes (x, y) and what   *)
(* the cells of the video page hold.  A cell number is the offset the code *)
(* computes, NUM_COLS*y + x; the page is larger than the screen (2048      *)
(* cells for 80*25), and a store beyond it is a page fault (wild).         *)
(***************************************************************************)
EXTENDS Integers

CONSTANTS
    NUM_COLS,     \* 80 in the code
    NUM_ROWS,     \* 25 in the code
    PAGE_CELLS,   \* cells of the 4 KiB page at VIDEO, 2048 in the code
    Chars         \* printable characters; Blank is one of them

Blank == " "
NL    == "\n"

ASSUME ScreenSizes ==
    /\ NUM_COLS \in Nat \ {0}
    /\ NUM_ROWS \in Nat \ {0}
    /\ PAGE_CELLS \in Nat
    /\ NUM_COLS * NUM_ROWS <= PAGE_CELLS

ASSUME CharsAssumption == Blank \in Chars /\ NL \notin Chars

PageCells   == 0 .. PAGE_CELLS - 1
ScreenCells == 0 .. NUM_COLS * NUM_ROWS - 1

StoreAt(s, i, c) ==
    IF i \in PageCells THEN [s EXCEPT !.cell[i] = c] ELSE [s EXCEPT !.wild = TRUE]

\* clear: the page beyond the screen is left alone.
clear(s) ==
    [s EXCEPT !.x = 0, !.y = 0,
              !.cell = [i \in PageCells |-> IF i \in ScreenCells THEN Blank ELSE s.cell[i]]]

\* Every row takes the row below it, the last one is blanked.
ShiftUp(cell) ==
    [i \in PageCells |->
        IF i + NUM_COLS \in ScreenCells THEN cell[i + NUM_COLS]
        ELSE IF i \in ScreenCells THEN Blank ELSE cell[i]]

\* scroll: on the last row (or past it) the text moves up, above it the
\* cursor moves down, which is putc('\n') there.
scroll(s) ==
    IF s.y >= NUM_ROWS - 1
    THEN [s EXCEPT !.cell = ShiftUp(s.cell), !.x = 0]
    ELSE [s EXCEPT !.x = 0, !.y = s.y + 1]

\* The step to the next row that putc takes for '\n', '\r' and for a full row:
\* y++, x = 0, and, once y has reached NUM_ROWS, y-- and scroll.
NextRow(s) ==
    IF s.y + 1 >= NUM_ROWS THEN scroll([s EXCEPT !.x = 0])
    ELSE [s EXCEPT !.x = 0, !.y = s.y + 1]

\* Mutant of putc: the row is full one column too late.
putc_wrap_late(s, c) ==
    IF c = NL THEN NextRow(s)
    ELSE LET w == IF s.x > NUM_COLS THEN NextRow(s) ELSE s
         IN  [StoreAt(w, NUM_COLS * w.y + w.x, c) EXCEPT !.x = w.x + 1]

\* Mutant of putc: a full row is noticed after the character, not before.
putc_wrap_eager(s, c) ==
    IF c = NL THEN NextRow(s)
    ELSE LET w == [StoreAt(s, NUM_COLS * s.y + s.x, c) EXCEPT !.x = s.x + 1]
         IN  IF w.x >= NUM_COLS THEN NextRow(w) ELSE w

putc(s, c) ==
    IF c = NL THEN NextRow(s)
    ELSE LET w == IF s.x >= NUM_COLS THEN NextRow(s) ELSE s
         IN  [StoreAt(w, NUM_COLS * w.y + w.x, c) EXCEPT !.x = w.x + 1]

\* Mutant of backspace: no step back over the left edge.
backspace_stuck(s) ==
    IF s.x = 0 THEN s
    ELSE StoreAt([s EXCEPT !.x = s.x - 1], NUM_COLS * s.y + s.x - 1, Blank)

backspace(s) ==
    IF s.x = 0 /\ s.y = 0 THEN s
    ELSE LET b == IF s.x = 0 /\ s.y > 0 THEN [s EXCEPT !.y = s.y - 1, !.x = NUM_COLS - 1]
                  ELSE [s EXCEPT !.x = s.x - 1]
         IN  StoreAt(b, NUM_COLS * b.y + b.x, Blank)
=============================================================================
