----------------------------- MODULE ScreenRace -----------------------------
(***************************************************************************)
(* putc interrupted.  putc runs in system calls, which enter through a     *)
(* trap gate, so the keyboard interrupt may arrive between any two of its  *)
(* accesses to screen_x and screen_y; the handler's own output then runs   *)
(* to its end with interrupts off.  The Makefile compiles without          *)
(* optimisation: every y++ is a load and a store.  pc names the next       *)
(* access of the interrupted putc, reg is the register it loaded.  What    *)
(* the cells hold is of no concern here, only where stores go.             *)
(***************************************************************************)
EXTENDS ScreenOps

CONSTANTS
    KeyOps   \* what the handler may do: subset of {"echo", "bksp", "enter", "clear"}

VARIABLES
    rscr,   \* the screen of the terminal in front
    pc,    \* where the running thread's putc stands
    ret,   \* where its call of scroll, or its newline, returns to
    reg    \* the loaded value of y or x

racevars == <<rscr, pc, ret, reg>>

RaceInit ==
    /\ rscr = [x |-> 0, y |-> 0, wild |-> FALSE, cell |-> [i \in PageCells |-> Blank]]
    /\ pc = "idle" /\ ret = "cursor" /\ reg = 0

Load(from, to, v) ==
    ~rscr.wild /\ pc = from /\ pc' = to /\ reg' = v /\ UNCHANGED <<rscr, ret>>

Assign(from, to, s) ==
    ~rscr.wild /\ pc = from /\ pc' = to /\ rscr' = s /\ UNCHANGED <<ret, reg>>

Test(from, cond, yes, no) ==
    ~rscr.wild /\ pc = from /\ pc' = (IF cond THEN yes ELSE no) /\ UNCHANGED <<rscr, ret, reg>>

\* A call of putc: with '\n', or with a character.
CallPutc ==
    /\ pc = "idle" /\ ~rscr.wild
    /\ \/ pc' = "nl" /\ ret' = "cursor"
       \/ pc' = "row" /\ ret' = "store"
    /\ UNCHANGED <<rscr, reg>>

\* putc('\n'), also where scroll calls it
Newline ==
    \/ Load("nl", "nl_y", rscr.y)
    \/ Assign("nl_y", "nl_x", [rscr EXCEPT !.y = reg + 1])
    \/ Assign("nl_x", "nl_test", [rscr EXCEPT !.x = 0])
    \/ Test("nl_test", rscr.y >= NUM_ROWS, "dec", ret)

\* The full row
Wrap ==
    \/ Test("row", rscr.x >= NUM_COLS, "wrap_x", "store")
    \/ Assign("wrap_x", "wrap", [rscr EXCEPT !.x = 0])
    \/ Load("wrap", "wrap_y", rscr.y)
    \/ Assign("wrap_y", "wrap_test", [rscr EXCEPT !.y = reg + 1])
    \/ Test("wrap_test", rscr.y >= NUM_ROWS, "dec", "store")

\* Mutant of Back: y is not taken back before scroll.
Back_dropped ==
    \/ Load("dec", "dec_y", rscr.y)
    \/ Assign("dec_y", "scroll", rscr)

\* y--, before scroll
Back ==
    \/ Load("dec", "dec_y", rscr.y)
    \/ Assign("dec_y", "scroll", [rscr EXCEPT !.y = reg - 1])

\* scroll
Scroll ==
    \/ Test("scroll", rscr.y >= NUM_ROWS - 1, "shift", "nl")
    \/ Assign("shift", "home", [rscr EXCEPT !.cell = ShiftUp(rscr.cell)])
    \/ Assign("home", ret, [rscr EXCEPT !.x = 0])

\* The store, x++ and update_cursor
StoreChar ==
    \/ Load("store", "cell", rscr.y)
    \/ Assign("cell", "inc", StoreAt(rscr, NUM_COLS * reg + rscr.x, Blank))
    \/ Load("inc", "inc_x", rscr.x)
    \/ Assign("inc_x", "cursor", [rscr EXCEPT !.x = reg + 1])
    \/ Test("cursor", TRUE, "idle", "idle")

\* The keyboard handler, at any point of the above
KeyOp(op) ==
    /\ ~rscr.wild
    /\ rscr' = CASE op = "echo"  -> putc(rscr, Blank)
                [] op = "bksp"  -> backspace(rscr)
                [] op = "enter" -> scroll(rscr)
                [] op = "clear" -> clear(rscr)
    /\ UNCHANGED <<pc, ret, reg>>

\* After a store outside the page the kernel is in its page fault handler.
Faulted == rscr.wild /\ UNCHANGED racevars

RaceNext ==
    \/ CallPutc \/ Newline \/ Wrap \/ Back \/ Scroll \/ StoreChar
    \/ \E op \in KeyOps : KeyOp(op)
    \/ Faulted

RaceSpec == RaceInit /\ [][RaceNext]_racevars

-----------------------------------------------------------------------------
\* However keys and output interleave, when no putc is in progress the row is
\* a row of the screen again, and the column is at most one past the column
\* at which the next putc wraps.  This ends with a character stored outside the
\* video page, where a key inside putc can lead it although it keeps "screen_y
\* in bounds" (lib.c:176, lib.c:188).
RestsInBounds ==
    pc = "idle" /\ ~rscr.wild => rscr.y \in 0 .. NUM_ROWS - 1 /\ rscr.x \in 0 .. NUM_COLS + 1
=============================================================================
