-------------------------- MODULE TerminalScreens --------------------------
(***************************************************************************)
(* The memory behind the screens of the terminals: video memory, one       *)
(* backup page per terminal, the page table through which both are reached *)
(* (paging.c), the four lines of terminal_switch that exchange them, the   *)
(* vidmap call, and the hardware cursor.                                   *)
(*                                                                         *)
(* The kernel draws at VIDEO, whichever terminal is in front.  A program   *)
(* that called vidmap draws through VIRT_VID_TERM(t), a pointer it keeps   *)
(* across switches.  terminal_switch runs in the keyboard handler with     *)
(* interrupts off, so it is one step; a system call is interruptible, so   *)
(* putc and vidmap are cut where a switch can arrive.  Only the thread of  *)
(* curr_terminal runs.                                                     *)
(***************************************************************************)
EXTENDS Integers

CONSTANTS
    MAX_TERMINAL,   \* 3 in the code
    Cells,          \* the cells of a screen
    Values,         \* what a cell may show
    Positions       \* where the cursor may stand

ASSUME ScreensAssumption ==
    /\ MAX_TERMINAL \in Nat \ {0}
    /\ Positions # {}

Terminals == 0 .. MAX_TERMINAL - 1
VIDEO     == -1                         \* physical page 0xB8000
Pages     == Terminals \cup {VIDEO}     \* t stands for BACKUP_VID(t)
NoPtr     == -1

VARIABLES
    curr_terminal,
    mem,               \* [Pages -> [Cells -> Values]]: the physical pages
    user_page_table,   \* [Terminals -> entry]: where VIRT_VID_TERM(t) leads
    vidptr,            \* [Terminals -> ...]: the pointer its program was given
    vidcall,           \* [Terminals -> BOOLEAN]: inside vidmap, pointer stored
    position,          \* [Terminals -> Positions]: screen_y * NUM_COLS + screen_x
    drawing,           \* [Terminals -> BOOLEAN]: between a store and update_cursor
    cursor             \* the position in the VGA cursor registers

vars == <<curr_terminal, mem, user_page_table, vidptr, vidcall, position,
          drawing, cursor>>

Entry(p, u) == [phys |-> p, user |-> u]

TypeOK ==
    /\ curr_terminal \in Terminals
    /\ mem \in [Pages -> [Cells -> Values]]
    /\ user_page_table \in [Terminals -> [phys : Pages, user : BOOLEAN]]
    /\ vidptr \in [Terminals -> Terminals \cup {NoPtr}]
    /\ vidcall \in [Terminals -> BOOLEAN]
    /\ position \in [Terminals -> Positions]
    /\ drawing \in [Terminals -> BOOLEAN]
    /\ cursor \in Positions

\* paging_init maps every terminal's page, the front one's included, to its
\* backup, without the user bit.  The pages hold whatever the card holds.
Init ==
    /\ curr_terminal = 0
    /\ mem \in [Pages -> [Cells -> Values]]
    /\ user_page_table = [t \in Terminals |-> Entry(t, FALSE)]
    /\ vidptr = [t \in Terminals |-> NoPtr]
    /\ vidcall = [t \in Terminals |-> FALSE]
    /\ \E p \in Positions : position = [t \in Terminals |-> p] /\ cursor = p
    /\ drawing = [t \in Terminals |-> FALSE]

map_virt_to_phys(table, t, phys, user) == [table EXCEPT ![t] = Entry(phys, user)]

\* memcpy of one 4 KiB page
CopyPage(m, to, from) == [m EXCEPT ![to] = m[from]]

(***************************************************************************)
(* terminal_switch, lines 63 to 76.  The copies go through the virtual     *)
(* pages, so the order of the mappings and the copies matters.             *)
(***************************************************************************)
\* Mutant of terminal_switch: the new page is mapped before it is copied.
terminal_switch_map_first(new) ==
    LET old == curr_terminal
        t1  == map_virt_to_phys(user_page_table, old, old, TRUE)
        m1  == CopyPage(mem, t1[old].phys, VIDEO)
        t2  == map_virt_to_phys(t1, new, VIDEO, TRUE)
        m2  == CopyPage(m1, VIDEO, t2[new].phys)
    IN  /\ new # curr_terminal
        /\ curr_terminal' = new
        /\ mem' = m2
        /\ user_page_table' = t2
        /\ cursor' = position[new]
        /\ UNCHANGED <<vidptr, vidcall, position, drawing>>

\* Mutant of terminal_switch: without the trailing update_cursor.
terminal_switch_cursor_left(new) ==
    LET old == curr_terminal
        t1  == map_virt_to_phys(user_page_table, old, old, TRUE)
        m1  == CopyPage(mem, t1[old].phys, VIDEO)
        m2  == CopyPage(m1, VIDEO, t1[new].phys)
        t2  == map_virt_to_phys(t1, new, VIDEO, TRUE)
    IN  /\ new # curr_terminal
        /\ curr_terminal' = new
        /\ mem' = m2
        /\ user_page_table' = t2
        /\ UNCHANGED <<vidptr, vidcall, position, drawing, cursor>>

terminal_switch(new) ==
    LET old == curr_terminal
        t1  == map_virt_to_phys(user_page_table, old, old, TRUE)
        m1  == CopyPage(mem, t1[old].phys, VIDEO)
        m2  == CopyPage(m1, VIDEO, t1[new].phys)
        t2  == map_virt_to_phys(t1, new, VIDEO, TRUE)
    IN  /\ new # curr_terminal
        /\ curr_terminal' = new
        /\ mem' = m2
        /\ user_page_table' = t2
        /\ cursor' = position[new]
        /\ UNCHANGED <<vidptr, vidcall, position, drawing>>

(***************************************************************************)
(* Output by the kernel: putc, backspace, clear and scroll store cells at  *)
(* VIDEO and move the position of curr_terminal, then call update_cursor.  *)
(***************************************************************************)
KernelStore(c, v, p) ==
    /\ mem' = [mem EXCEPT ![VIDEO][c] = v]
    /\ position' = [position EXCEPT ![curr_terminal] = p]
    /\ drawing' = [drawing EXCEPT ![curr_terminal] = TRUE]
    /\ UNCHANGED <<curr_terminal, user_page_table, vidptr, vidcall, cursor>>

\* A key echoed by the keyboard handler: the whole putc, interrupts off.
Echo(c, v, p) ==
    /\ mem' = [mem EXCEPT ![VIDEO][c] = v]
    /\ position' = [position EXCEPT ![curr_terminal] = p]
    /\ cursor' = p
    /\ UNCHANGED <<curr_terminal, user_page_table, vidptr, vidcall, drawing>>

update_cursor ==
    /\ drawing[curr_terminal]
    /\ cursor' = position[curr_terminal]
    /\ drawing' = [drawing EXCEPT ![curr_terminal] = FALSE]
    /\ UNCHANGED <<curr_terminal, mem, user_page_table, vidptr, vidcall, position>>

(***************************************************************************)
(* vidmap, its two writes.  A NULL pointer or one outside the program page *)
(* returns -1 before either and changes nothing.                           *)
(***************************************************************************)
vidmap_pointer ==
    /\ ~vidcall[curr_terminal]
    /\ ~drawing[curr_terminal]
    /\ vidptr' = [vidptr EXCEPT ![curr_terminal] = curr_terminal]
    /\ vidcall' = [vidcall EXCEPT ![curr_terminal] = TRUE]
    /\ UNCHANGED <<curr_terminal, mem, user_page_table, position, drawing, cursor>>

vidmap_page ==
    /\ vidcall[curr_terminal]
    /\ user_page_table' =
          map_virt_to_phys(user_page_table, vidptr[curr_terminal], VIDEO, TRUE)
    /\ vidcall' = [vidcall EXCEPT ![curr_terminal] = FALSE]
    /\ UNCHANGED <<curr_terminal, mem, vidptr, position, drawing, cursor>>

\* The terminal's program, in user mode, stores through its pointer.
UserStore(c, v) ==
    /\ ~vidcall[curr_terminal]
    /\ ~drawing[curr_terminal]
    /\ vidptr[curr_terminal] # NoPtr
    /\ mem' = [mem EXCEPT ![user_page_table[vidptr[curr_terminal]].phys][c] = v]
    /\ UNCHANGED <<curr_terminal, user_page_table, vidptr, vidcall, position,
                   drawing, cursor>>

\* The terminal's program ends: the pointer dies with it, the page stays
\* mapped.
ProgramEnds ==
    /\ ~vidcall[curr_terminal]
    /\ vidptr[curr_terminal] # NoPtr
    /\ vidptr' = [vidptr EXCEPT ![curr_terminal] = NoPtr]
    /\ UNCHANGED <<curr_terminal, mem, user_page_table, vidcall, position,
                   drawing, cursor>>

Next ==
    \/ \E new \in Terminals : terminal_switch(new)
    \/ \E c \in Cells, v \in Values, p \in Positions : KernelStore(c, v, p)
    \/ \E c \in Cells, v \in Values, p \in Positions : Echo(c, v, p)
    \/ update_cursor
    \/ vidmap_pointer
    \/ vidmap_page
    \/ \E c \in Cells, v \in Values : UserStore(c, v)
    \/ ProgramEnds

Spec == Init /\ [][Next]_vars

-----------------------------------------------------------------------------
\* A virtual page never leads to another terminal's backup, and only the
\* front terminal's may lead to video memory (terminal_switch, line 68, takes
\* the old one back).  With it no copy of line 70 or 72 is a copy of video
\* memory onto itself, the fault BUGLOG describes for Checkpoint 5.
PagesOwned ==
    \A t \in Terminals :
        user_page_table[t].phys \in {t} \cup (IF t = curr_terminal THEN {VIDEO} ELSE {})

\* A program in front that completed vidmap draws on the display and may do
\* so from user mode, however often its terminal was switched away since.
PointerUsable ==
    LET t == curr_terminal
    IN  vidptr[t] # NoPtr /\ ~vidcall[t] =>
            user_page_table[vidptr[t]] = Entry(VIDEO, TRUE)

\* Outside an output call the hardware cursor stands at the position of the
\* terminal in front ("move the blinking cursor to match the current writing
\* position"), also right after a switch and when a parked output resumes.
CursorShown == ~drawing[curr_terminal] => cursor = position[curr_terminal]

\* The screen a terminal's user has: video memory for the one in front, the
\* backup page for the others.
ScreenOf(t) == IF t = curr_terminal THEN mem[VIDEO] ELSE mem[t]

Abstract == INSTANCE Screens WITH
    front  <- curr_terminal,
    screen <- [t \in Terminals |-> ScreenOf(t)]

\* terminal_switch, vidmap and the output calls implement one private screen
\* per terminal: drawing reaches the displayed screen only, and a switch
\* brings a screen back as it was left.
ImplementsScreens == Abstract!Spec
=============================================================================
