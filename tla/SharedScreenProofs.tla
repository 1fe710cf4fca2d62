------------------------- MODULE SharedScreenProofs -------------------------
(***************************************************************************)
(* What the terminals share of the screen, for any number of terminals and *)
(* any size of screen.                                                     *)
(*                                                                         *)
(* TerminalScreens: the refinement needs one inductive invariant,          *)
(* ScreenInv: the page table is what tells a store through a program's     *)
(* pointer, and a copy through a virtual page, where to go.                *)
(*                                                                         *)
(* ScreenRace: where the cursor of an interrupted putc can be, at each of  *)
(* its accesses, and why it is on the screen again between two calls.      *)
(* RestsInBounds is not inductive: between the test of y and y-- the       *)
(* handler may clear the screen, which takes y to -1, and between y++ and  *)
(* the test y may be a row too large.                                      *)
(***************************************************************************)
EXTENDS TerminalScreens, ScreenRace, TLAPS

\* A program's pointer is that of its own terminal, and a program inside
\* vidmap has it already.
PointersOwn ==
    \A t \in Terminals :
        /\ vidptr[t] \in {t, NoPtr}
        /\ vidcall[t] => vidptr[t] = t

ScreenInv == TypeOK /\ PagesOwned /\ PointersOwn /\ PointerUsable /\ CursorShown

\* VIDEO is the page of no terminal.
LEMMA VideoApart == VIDEO \notin Terminals /\ VIDEO \in Pages /\ Terminals \subseteq Pages
  BY DEF VIDEO, Pages, Terminals

\* What the four lines of terminal_switch do, in one formula: the old screen
\* goes to the old backup, the new backup to video memory, and the page table
\* follows.
LEMMA SwitchEffect ==
  ASSUME ScreenInv, NEW new \in Terminals, terminal_switch(new)
  PROVE  /\ new # curr_terminal
         /\ curr_terminal' = new
         /\ mem' = [[mem EXCEPT ![curr_terminal] = mem[VIDEO]]
                       EXCEPT ![VIDEO] = mem[new]]
         /\ user_page_table' =
               [[user_page_table EXCEPT ![curr_terminal] = Entry(curr_terminal, TRUE)]
                       EXCEPT ![new] = Entry(VIDEO, TRUE)]
         /\ cursor' = position[new]
         /\ UNCHANGED <<vidptr, vidcall, position, drawing>>
  <1> DEFINE old == curr_terminal
             t1 == map_virt_to_phys(user_page_table, old, old, TRUE)
             m1 == CopyPage(mem, t1[old].phys, VIDEO)
  <1>1. new # old /\ old \in Terminals
    BY DEF ScreenInv, TypeOK, terminal_switch
  <1>2. t1[old].phys = old
    BY <1>1 DEF ScreenInv, TypeOK, map_virt_to_phys, Entry
  <1>3. t1[new].phys = new
    <2>1. user_page_table[new].phys = new
      BY <1>1 DEF ScreenInv, PagesOwned
    <2>2. t1[new] = user_page_table[new]
      BY <1>1 DEF ScreenInv, TypeOK, map_virt_to_phys
    <2> QED BY <2>1, <2>2
  <1>4. m1[new] = mem[new]
    BY <1>1, <1>2, VideoApart DEF ScreenInv, TypeOK, CopyPage
  <1>5. mem' = [m1 EXCEPT ![VIDEO] = m1[new]]
    BY <1>3 DEF terminal_switch, CopyPage
  <1>6. mem' = [[mem EXCEPT ![old] = mem[VIDEO]] EXCEPT ![VIDEO] = mem[new]]
    BY <1>2, <1>4, <1>5 DEF CopyPage
  <1> QED
    BY <1>1, <1>6 DEF terminal_switch, map_virt_to_phys

\* A store through a program's pointer is a store into video memory.
LEMMA UserStoreEffect ==
  ASSUME ScreenInv, NEW c \in Cells, NEW v \in Values, UserStore(c, v)
  PROVE  /\ mem' = [mem EXCEPT ![VIDEO][c] = v]
         /\ UNCHANGED <<curr_terminal, user_page_table, vidptr, vidcall, position,
                        drawing, cursor>>
  <1>1. user_page_table[vidptr[curr_terminal]] = Entry(VIDEO, TRUE)
    BY DEF UserStore, ScreenInv, PointerUsable
  <1>2. user_page_table[vidptr[curr_terminal]].phys = VIDEO
    BY <1>1 DEF Entry
  <1> QED BY <1>2 DEF UserStore

\* paging_init and the first cursor update establish the invariant.
LEMMA ScreenInit == Init => ScreenInv
  <1> SUFFICES ASSUME Init PROVE ScreenInv
    OBVIOUS
  <1>0. 0 \in Terminals
    BY ScreensAssumption DEF Terminals
  <1>1. TypeOK
    <2>1. PICK p \in Positions : position = [t \in Terminals |-> p] /\ cursor = p
      BY DEF Init
    <2> QED BY <1>0, <2>1, VideoApart DEF Init, TypeOK, Entry
  <1>2. PagesOwned
    BY DEF Init, PagesOwned, Entry
  <1>3. PointersOwn /\ PointerUsable
    BY <1>0 DEF Init, PointersOwn, PointerUsable
  <1>4. CursorShown
    BY <1>0 DEF Init, CursorShown
  <1> QED BY <1>1, <1>2, <1>3, <1>4 DEF ScreenInv

\* Every step of the kernel, of the keyboard handler and of a program keeps
\* the invariant.
LEMMA ScreenStep == ScreenInv /\ [Next]_vars => ScreenInv'
  <1> SUFFICES ASSUME ScreenInv, [Next]_vars PROVE ScreenInv'
    OBVIOUS
  <1>0. curr_terminal \in Terminals
    BY DEF ScreenInv, TypeOK
  <1>1. ASSUME NEW new \in Terminals, terminal_switch(new) PROVE ScreenInv'
    <2>1. TypeOK'
      <3>1. mem' \in [Pages -> [Cells -> Values]]
        BY <1>0, <1>1, SwitchEffect, VideoApart DEF ScreenInv, TypeOK
      <3>2. user_page_table' \in [Terminals -> [phys : Pages, user : BOOLEAN]]
        <4>1. /\ Entry(curr_terminal, TRUE) \in [phys : Pages, user : BOOLEAN]
              /\ Entry(VIDEO, TRUE) \in [phys : Pages, user : BOOLEAN]
          BY <1>0, VideoApart DEF Entry
        <4> QED BY <4>1, <1>1, SwitchEffect DEF ScreenInv, TypeOK
      <3>3. cursor' \in Positions /\ curr_terminal' \in Terminals
        <4>1. cursor' = position[new] /\ curr_terminal' = new
          BY <1>1, SwitchEffect
        <4>2. position \in [Terminals -> Positions]
          BY DEF ScreenInv, TypeOK
        <4> QED BY <4>1, <4>2
      <3>4. UNCHANGED <<vidptr, vidcall, position, drawing>>
        BY <1>1, SwitchEffect
      <3> QED BY <3>1, <3>2, <3>3, <3>4 DEF ScreenInv, TypeOK
    <2>2. PagesOwned'
      <3> SUFFICES ASSUME NEW t \in Terminals
                   PROVE  user_page_table'[t].phys \in
                              {t} \cup (IF t = new THEN {VIDEO} ELSE {})
        BY <1>1, SwitchEffect DEF PagesOwned
      <3>1. CASE t = new
        BY <3>1, <1>0, <1>1, SwitchEffect DEF ScreenInv, TypeOK, Entry
      <3>2. CASE t = curr_terminal
        BY <3>2, <1>0, <1>1, SwitchEffect DEF ScreenInv, TypeOK, Entry
      <3>3. CASE t # new /\ t # curr_terminal
        <4>1. user_page_table'[t] = user_page_table[t]
          BY <3>3, <1>0, <1>1, SwitchEffect DEF ScreenInv, TypeOK
        <4> QED BY <4>1, <3>3 DEF ScreenInv, PagesOwned
      <3> QED BY <3>1, <3>2, <3>3
    <2>3. PointersOwn'
      BY <1>1, SwitchEffect DEF ScreenInv, PointersOwn
    <2>4. PointerUsable'
      <3>1. user_page_table'[new] = Entry(VIDEO, TRUE)
        BY <1>0, <1>1, SwitchEffect DEF ScreenInv, TypeOK
      <3>2. vidptr[new] \in {new, NoPtr} /\ vidptr' = vidptr /\ curr_terminal' = new
        BY <1>1, SwitchEffect DEF ScreenInv, PointersOwn
      <3> QED BY <3>1, <3>2 DEF PointerUsable
    <2>5. CursorShown'
      BY <1>1, SwitchEffect DEF CursorShown
    <2> QED BY <2>1, <2>2, <2>3, <2>4, <2>5 DEF ScreenInv
  <1>2. ASSUME NEW c \in Cells, NEW v \in Values, NEW p \in Positions, KernelStore(c, v, p)
        PROVE ScreenInv'
    BY <1>0, <1>2, VideoApart
    DEF KernelStore, ScreenInv, TypeOK, PagesOwned, PointersOwn, PointerUsable, CursorShown
  <1>3. ASSUME NEW c \in Cells, NEW v \in Values, NEW p \in Positions, Echo(c, v, p)
        PROVE ScreenInv'
    BY <1>0, <1>3, VideoApart
    DEF Echo, ScreenInv, TypeOK, PagesOwned, PointersOwn, PointerUsable, CursorShown
  <1>4. ASSUME update_cursor PROVE ScreenInv'
    BY <1>0, <1>4
    DEF update_cursor, ScreenInv, TypeOK, PagesOwned, PointersOwn, PointerUsable, CursorShown
  <1>5. ASSUME vidmap_pointer PROVE ScreenInv'
    BY <1>0, <1>5
    DEF vidmap_pointer, ScreenInv, TypeOK, PagesOwned, PointersOwn, PointerUsable, CursorShown
  <1>6. ASSUME vidmap_page PROVE ScreenInv'
    <2>1. vidptr[curr_terminal] = curr_terminal
      BY <1>0, <1>6 DEF vidmap_page, ScreenInv, PointersOwn
    <2>2. user_page_table' = [user_page_table EXCEPT ![curr_terminal] = Entry(VIDEO, TRUE)]
      BY <1>6, <2>1 DEF vidmap_page, map_virt_to_phys
    <2>3. UNCHANGED <<curr_terminal, mem, vidptr, position, drawing, cursor>>
      BY <1>6 DEF vidmap_page
    <2>4. vidcall' = [vidcall EXCEPT ![curr_terminal] = FALSE]
      BY <1>6 DEF vidmap_page
    <2>5. TypeOK'
      BY <1>0, <2>2, <2>3, <2>4, VideoApart DEF ScreenInv, TypeOK, Entry
    <2>6. PagesOwned'
      BY <1>0, <2>2, <2>3 DEF ScreenInv, TypeOK, PagesOwned, Entry
    <2>7. PointersOwn'
      BY <1>0, <2>3, <2>4 DEF ScreenInv, TypeOK, PointersOwn
    <2>8. PointerUsable' /\ CursorShown'
      BY <1>0, <2>1, <2>2, <2>3 DEF ScreenInv, TypeOK, PointerUsable, CursorShown
    <2> QED BY <2>5, <2>6, <2>7, <2>8 DEF ScreenInv
  <1>7. ASSUME NEW c \in Cells, NEW v \in Values, UserStore(c, v) PROVE ScreenInv'
    <2>1. /\ mem' = [mem EXCEPT ![VIDEO][c] = v]
          /\ UNCHANGED <<curr_terminal, user_page_table, vidptr, vidcall, position,
                         drawing, cursor>>
      BY <1>7, UserStoreEffect
    <2>2. TypeOK'
      BY <2>1, VideoApart DEF ScreenInv, TypeOK
    <2> QED
      BY <2>1, <2>2
      DEF ScreenInv, PagesOwned, PointersOwn, PointerUsable, CursorShown
  <1>8. ASSUME ProgramEnds PROVE ScreenInv'
    BY <1>0, <1>8
    DEF ProgramEnds, ScreenInv, TypeOK, PagesOwned, PointersOwn, PointerUsable, CursorShown
  <1>9. CASE UNCHANGED vars
    BY <1>9 DEF vars, ScreenInv, TypeOK, PagesOwned, PointersOwn, PointerUsable, CursorShown
  <1> QED BY <1>1, <1>2, <1>3, <1>4, <1>5, <1>6, <1>7, <1>8, <1>9 DEF Next

\* Every reachable state has the page table, the pointers and the cursor
\* that terminal_switch and vidmap mean to leave behind.
THEOREM ScreenInvariant == Spec => [](PagesOwned /\ PointerUsable /\ CursorShown)
  <1>1. ScreenInv => PagesOwned /\ PointerUsable /\ CursorShown
    BY DEF ScreenInv
  <1> QED BY ScreenInit, ScreenStep, <1>1, PTL DEF Spec

\* A store into video memory changes one cell of the front terminal's screen.
LEMMA StoreIsDraw ==
  ASSUME ScreenInv, NEW c \in Cells, NEW v \in Values,
         mem' = [mem EXCEPT ![VIDEO][c] = v], curr_terminal' = curr_terminal
  PROVE  Abstract!Draw(c, v)
  <1> DEFINE screens == [t \in Terminals |-> ScreenOf(t)]
  <1>1. curr_terminal \in Terminals
    BY DEF ScreenInv, TypeOK
  <1>2. screens[curr_terminal] = mem[VIDEO]
    BY <1>1 DEF ScreenOf
  <1>3. screens' = [screens EXCEPT ![curr_terminal] = [mem[VIDEO] EXCEPT ![c] = v]]
    <2>1. ASSUME NEW t \in Terminals
          PROVE  ScreenOf(t)' = IF t = curr_terminal
                                  THEN [mem[VIDEO] EXCEPT ![c] = v]
                                  ELSE ScreenOf(t)
      BY <2>1, VideoApart DEF ScreenInv, TypeOK, ScreenOf
    <2> QED BY <2>1
  <1>4. screens' = [screens EXCEPT ![curr_terminal][c] = v]
    BY <1>2, <1>3
  <1> QED BY <1>4 DEF Abstract!Draw, Abstract!Terminals, Terminals

\* terminal_switch and vidmap implement one private screen per terminal: for
\* every number of terminals and every screen size, each step of the kernel
\* or of a program draws on the displayed screen, displays another one
\* unchanged, or shows nothing at all.
THEOREM ScreensRefined == Spec => ImplementsScreens
  <1> DEFINE screens == [t \in Terminals |-> ScreenOf(t)]
             absvars == <<curr_terminal, screens>>
  <1>1. Init => Abstract!Init
    <2> SUFFICES ASSUME Init PROVE Abstract!Init
      OBVIOUS
    <2>1. ScreenInv
      BY ScreenInit
    <2>2. screens \in [Terminals -> [Cells -> Values]]
      BY <2>1, VideoApart DEF ScreenInv, TypeOK, ScreenOf
    <2> QED BY <2>2 DEF Init, Abstract!Init, Abstract!Terminals, Terminals
  <1>2. ScreenInv /\ [Next]_vars => [Abstract!Next]_absvars
    <2> SUFFICES ASSUME ScreenInv, [Next]_vars PROVE [Abstract!Next]_absvars
      OBVIOUS
    <2>0. ASSUME mem' = mem, curr_terminal' = curr_terminal PROVE absvars' = absvars
      BY <2>0 DEF ScreenOf
    <2>1. ASSUME NEW new \in Terminals, terminal_switch(new) PROVE Abstract!Next
      <3>1. ASSUME NEW t \in Terminals PROVE ScreenOf(t)' = ScreenOf(t)
        <4>1. /\ mem \in [Pages -> [Cells -> Values]]
              /\ curr_terminal \in Terminals
              /\ new # curr_terminal
              /\ curr_terminal' = new
              /\ mem' = [[mem EXCEPT ![curr_terminal] = mem[VIDEO]] EXCEPT ![VIDEO] = mem[new]]
          BY <2>1, SwitchEffect DEF ScreenInv, TypeOK
        <4>2. CASE t = new
          BY <4>1, <4>2, VideoApart DEF ScreenOf
        <4>3. CASE t = curr_terminal
          BY <4>1, <4>3, VideoApart DEF ScreenOf
        <4>4. CASE t # new /\ t # curr_terminal
          BY <4>1, <4>4, VideoApart DEF ScreenOf
        <4> QED BY <4>2, <4>3, <4>4
      <3>2. screens' = screens
        BY <3>1
      <3>3. Abstract!Display(new)
        BY <2>1, <3>2, SwitchEffect DEF Abstract!Display, Abstract!Terminals, Terminals
      <3> QED BY <3>3 DEF Abstract!Next, Abstract!Terminals, Terminals
    <2>2. ASSUME NEW c \in Cells, NEW v \in Values, NEW p \in Positions,
                 KernelStore(c, v, p) \/ Echo(c, v, p)
          PROVE Abstract!Next
      BY <2>2, StoreIsDraw DEF KernelStore, Echo, Abstract!Next
    <2>3. ASSUME NEW c \in Cells, NEW v \in Values, UserStore(c, v) PROVE Abstract!Next
      <3>1. mem' = [mem EXCEPT ![VIDEO][c] = v] /\ curr_terminal' = curr_terminal
        BY <2>3, UserStoreEffect
      <3> QED BY <3>1, StoreIsDraw DEF Abstract!Next
    <2>4. ASSUME update_cursor \/ vidmap_pointer \/ vidmap_page \/ ProgramEnds \/ UNCHANGED vars
          PROVE  absvars' = absvars
      BY <2>0, <2>4 DEF update_cursor, vidmap_pointer, vidmap_page, ProgramEnds, vars
    <2> QED BY <2>1, <2>2, <2>3, <2>4 DEF Next
  <1> QED
    BY <1>1, <1>2, ScreenInit, ScreenStep, PTL
    DEF Spec, ImplementsScreens, Abstract!Spec

-----------------------------------------------------------------------------
(***************************************************************************)
(* putc, interrupted by the keyboard handler.                              *)
(***************************************************************************)
KeyOpsAssumption == KeyOps \subseteq {"echo", "bksp", "enter", "clear"}

Labels == {"idle", "nl", "nl_y", "nl_x", "nl_test", "row", "wrap_x", "wrap", "wrap_y",
           "wrap_test", "dec", "dec_y", "scroll", "shift", "home", "store", "cell", "inc",
           "inc_x", "cursor"}

\* The least and the greatest row, and the greatest column, before the access l.
Low(l)  == IF l \in {"scroll", "nl", "nl_y"} THEN -1 ELSE 0
High(l) == IF l \in {"nl_x", "nl_test", "wrap_test", "dec", "dec_y"}
           THEN NUM_ROWS ELSE NUM_ROWS - 1
Wide(l) == IF l \in {"idle", "nl", "nl_y", "nl_x", "row", "wrap_x", "cursor"}
           THEN NUM_COLS + 1 ELSE NUM_COLS

ScreenType == [x : Int, y : Int, wild : BOOLEAN, cell : [PageCells -> Chars]]

Within(s, l) == ~s.wild => s.y \in Low(l) .. High(l) /\ s.x \in 0 .. Wide(l)

\* What the register may hold before it is stored back.
RegOK ==
    /\ reg \in Int
    /\ pc = "nl_y"   => reg \in -1 .. NUM_ROWS - 1
    /\ pc = "wrap_y" => reg \in 0 .. NUM_ROWS - 1
    /\ pc = "dec_y"  => reg \in 0 .. NUM_ROWS
    /\ pc = "inc_x"  => reg \in 0 .. NUM_COLS

BoundsInv ==
    /\ pc \in Labels
    /\ ret \in {"cursor", "store"}
    /\ rscr \in ScreenType
    /\ Within(rscr, pc)
    /\ RegOK

-----------------------------------------------------------------------------
\* A store moves no cursor, and faults exactly when it is outside the page.
LEMMA StoreFields ==
  ASSUME NEW s \in ScreenType, NEW i \in Int, NEW c \in Chars
  PROVE  /\ StoreAt(s, i, c) \in ScreenType
         /\ StoreAt(s, i, c).x = s.x
         /\ StoreAt(s, i, c).y = s.y
         /\ ~StoreAt(s, i, c).wild => i \in PageCells
<1>1. CASE i \in PageCells
  BY <1>1 DEF StoreAt, ScreenType
<1>2. CASE i \notin PageCells
  BY <1>2 DEF StoreAt, ScreenType
<1>3. QED
  BY <1>1, <1>2

\* Setting the column, or the row, of a screen.
LEMMA ColumnFields ==
  ASSUME NEW s \in ScreenType, NEW a \in Int
  PROVE  /\ [s EXCEPT !.x = a] \in ScreenType
         /\ [s EXCEPT !.x = a].x = a
         /\ [s EXCEPT !.x = a].y = s.y
         /\ [s EXCEPT !.x = a].wild = s.wild
  BY DEF ScreenType

LEMMA RowFields ==
  ASSUME NEW s \in ScreenType, NEW b \in Int
  PROVE  /\ [s EXCEPT !.y = b] \in ScreenType
         /\ [s EXCEPT !.y = b].x = s.x
         /\ [s EXCEPT !.y = b].y = b
         /\ [s EXCEPT !.y = b].wild = s.wild
  BY DEF ScreenType

\* Moving the text up leaves a page of characters.
LEMMA ShiftUpType ==
  ASSUME NEW cell \in [PageCells -> Chars]
  PROVE  ShiftUp(cell) \in [PageCells -> Chars]
<1>1. ASSUME NEW i \in PageCells, i + NUM_COLS \in ScreenCells
      PROVE  i + NUM_COLS \in PageCells
  BY <1>1, ScreenSizes DEF PageCells, ScreenCells
<1>2. QED
  BY <1>1, CharsAssumption DEF ShiftUp

\* scroll, from any cursor.
LEMMA ScrollFields ==
  ASSUME NEW s \in ScreenType
  PROVE  /\ scroll(s) \in ScreenType
         /\ scroll(s).x = 0
         /\ scroll(s).y = IF s.y >= NUM_ROWS - 1 THEN s.y ELSE s.y + 1
         /\ scroll(s).wild = s.wild
<1>1. ShiftUp(s.cell) \in [PageCells -> Chars]
  BY ShiftUpType DEF ScreenType
<1>2. CASE s.y >= NUM_ROWS - 1
  <2>1. scroll(s) = [x |-> 0, y |-> s.y, wild |-> s.wild, cell |-> ShiftUp(s.cell)]
    BY <1>2 DEF scroll, ScreenType
  <2>2. QED
    BY <1>1, <1>2, <2>1 DEF ScreenType
<1>3. CASE ~(s.y >= NUM_ROWS - 1)
  <2>1. scroll(s) = [x |-> 0, y |-> s.y + 1, wild |-> s.wild, cell |-> s.cell]
    BY <1>3 DEF scroll, ScreenType
  <2>2. QED
    BY <1>3, <2>1 DEF ScreenType
<1>4. QED
  BY <1>2, <1>3

\* The step to the next row, from any cursor.
LEMMA NextRowFields ==
  ASSUME NEW s \in ScreenType
  PROVE  /\ NextRow(s) \in ScreenType
         /\ NextRow(s).x = 0
         /\ NextRow(s).y = IF s.y >= NUM_ROWS - 1 THEN s.y ELSE s.y + 1
         /\ NextRow(s).wild = s.wild
<1>1. s.y \in Int /\ 0 \in Int
  BY DEF ScreenType
<1>2. CASE s.y + 1 >= NUM_ROWS
  <2> DEFINE h == [s EXCEPT !.x = 0]
  <2>1. h \in ScreenType /\ h.y = s.y /\ h.wild = s.wild
    BY ColumnFields
  <2>2. NextRow(s) = scroll(h)
    BY <1>2 DEF NextRow
  <2> HIDE DEF h
  <2>3. QED
    BY <1>1, <1>2, <2>1, <2>2, ScrollFields, ScreenSizes
<1>3. CASE ~(s.y + 1 >= NUM_ROWS)
  <2>1. NextRow(s) = [x |-> 0, y |-> s.y + 1, wild |-> s.wild, cell |-> s.cell]
    BY <1>3 DEF NextRow, ScreenType
  <2>2. ~(s.y >= NUM_ROWS - 1) /\ s.y + 1 \in Int
    BY <1>1, <1>3, ScreenSizes
  <2>3. QED
    BY <2>1, <2>2 DEF ScreenType
<1>4. QED
  BY <1>2, <1>3

-----------------------------------------------------------------------------
\* The output of the handler keeps the cursor within the bounds of the access
\* it interrupts, or faults.
LEMMA EchoKeeps ==
  ASSUME NEW s \in ScreenType, NEW l \in Labels, ~s.wild, Within(s, l)
  PROVE  putc(s, Blank) \in ScreenType /\ Within(putc(s, Blank), l)
<1> DEFINE w == IF s.x >= NUM_COLS THEN NextRow(s) ELSE s
           v == StoreAt(w, NUM_COLS * w.y + w.x, Blank)
<1>1. /\ w \in ScreenType /\ ~w.wild
      /\ w.y \in Low(l) .. High(l)
      /\ w.x \in 0 .. NUM_COLS - 1
  BY NextRowFields, ScreenSizes DEF Within, ScreenType, Low, High
<1>2. putc(s, Blank) = [v EXCEPT !.x = w.x + 1]
  BY CharsAssumption DEF putc
<1> HIDE DEF w
<1>3. NUM_COLS * w.y + w.x \in Int /\ w.x + 1 \in Int
  BY <1>1, ScreenSizes DEF ScreenType
<1>4. v \in ScreenType /\ v.x = w.x /\ v.y = w.y
  BY <1>1, <1>3, StoreFields, CharsAssumption
<1> HIDE DEF v
<1>5. /\ putc(s, Blank) \in ScreenType
      /\ putc(s, Blank).x = w.x + 1 /\ putc(s, Blank).y = w.y
  BY <1>2, <1>3, <1>4, ColumnFields
<1>6. QED
  BY <1>1, <1>5, ScreenSizes DEF Within, Wide

LEMMA BackspaceKeeps ==
  ASSUME NEW s \in ScreenType, NEW l \in Labels, ~s.wild, Within(s, l)
  PROVE  backspace(s) \in ScreenType /\ Within(backspace(s), l)
<1>1. s.x \in Int /\ s.y \in Int /\ s.y \in Low(l) .. High(l) /\ s.x \in 0 .. Wide(l)
  BY DEF Within, ScreenType
<1>2. CASE s.x = 0 /\ s.y = 0
  BY <1>2 DEF backspace
<1>3. CASE ~(s.x = 0 /\ s.y = 0)
  <2> DEFINE b == IF s.x = 0 /\ s.y > 0 THEN [s EXCEPT !.y = s.y - 1, !.x = NUM_COLS - 1]
                  ELSE [s EXCEPT !.x = s.x - 1]
  <2>1. backspace(s) = StoreAt(b, NUM_COLS * b.y + b.x, Blank)
    BY <1>3 DEF backspace
  <2>2. /\ b \in ScreenType
        /\ b.y = IF s.x = 0 /\ s.y > 0 THEN s.y - 1 ELSE s.y
        /\ b.x = IF s.x = 0 /\ s.y > 0 THEN NUM_COLS - 1 ELSE s.x - 1
    <3>1. CASE s.x = 0 /\ s.y > 0
      <4>1. b = [x |-> NUM_COLS - 1, y |-> s.y - 1, wild |-> s.wild, cell |-> s.cell]
        BY <3>1 DEF ScreenType
      <4>2. NUM_COLS - 1 \in Int /\ s.y - 1 \in Int
        BY <1>1, ScreenSizes
      <4>3. QED
        BY <3>1, <4>1, <4>2 DEF ScreenType
    <3>2. CASE ~(s.x = 0 /\ s.y > 0)
      <4>1. b = [s EXCEPT !.x = s.x - 1] /\ s.x - 1 \in Int
        BY <1>1, <3>2
      <4>2. QED
        BY <3>2, <4>1, ColumnFields
    <3>3. QED
      BY <3>1, <3>2
  <2> HIDE DEF b
  <2>3. b.y \in Int /\ b.x \in Int /\ NUM_COLS * b.y + b.x \in Int
    BY <1>1, <2>2, ScreenSizes
  <2>4. /\ backspace(s) \in ScreenType
        /\ backspace(s).x = b.x /\ backspace(s).y = b.y
        /\ ~backspace(s).wild => NUM_COLS * b.y + b.x >= 0
    BY <2>1, <2>2, <2>3, StoreFields, CharsAssumption DEF PageCells
  <2>5. CASE s.x = 0 /\ s.y > 0
    BY <1>1, <2>2, <2>4, <2>5, ScreenSizes DEF Within, Low, High, Wide
  <2>6. CASE s.x > 0
    <3>1. b.y = s.y /\ b.x = s.x - 1
      BY <2>2, <2>6, <1>1
    <3>2. b.y \in Low(l) .. High(l) /\ b.x \in 0 .. Wide(l)
      BY <1>1, <2>6, <3>1, ScreenSizes DEF Wide, High, Low
    <3>3. QED
      BY <2>4, <3>2 DEF Within
  <2>7. CASE s.x = 0 /\ s.y < 0
    <3>1. b.y = -1 /\ b.x = -1
      BY <1>1, <2>2, <2>7 DEF Low
    <3>2. NUM_COLS * b.y + b.x < 0
      BY <3>1, ScreenSizes
    <3>3. QED
      BY <2>3, <2>4, <3>2 DEF Within
  <2>8. QED
    BY <1>1, <1>3, <2>5, <2>6, <2>7 DEF Wide
<1>4. QED
  BY <1>2, <1>3

LEMMA EnterKeeps ==
  ASSUME NEW s \in ScreenType, NEW l \in Labels, ~s.wild, Within(s, l)
  PROVE  scroll(s) \in ScreenType /\ Within(scroll(s), l)
<1>1. s.y \in Int
  BY DEF ScreenType
<1>2. QED
  BY <1>1, ScrollFields, ScreenSizes DEF Within, Low, High, Wide

LEMMA ClearKeeps ==
  ASSUME NEW s \in ScreenType, NEW l \in Labels, ~s.wild, Within(s, l)
  PROVE  clear(s) \in ScreenType /\ Within(clear(s), l)
<1> DEFINE c == [i \in PageCells |-> IF i \in ScreenCells THEN Blank ELSE s.cell[i]]
<1>1. c \in [PageCells -> Chars]
  BY CharsAssumption DEF ScreenType
<1>2. clear(s) = [s EXCEPT !.x = 0, !.y = 0, !.cell = c]
  BY DEF clear
<1> HIDE DEF c
<1>3. clear(s) \in ScreenType /\ clear(s).x = 0 /\ clear(s).y = 0
  <2>1. clear(s) = [x |-> 0, y |-> 0, wild |-> s.wild, cell |-> c]
    BY <1>2 DEF ScreenType
  <2>2. QED
    BY <1>1, <2>1 DEF ScreenType
<1>4. QED
  BY <1>3, ScreenSizes DEF Within, Low, High, Wide
-----------------------------------------------------------------------------
\* The handler keeps the bounds of the access it interrupts.
LEMMA KeyOpKeeps ==
  ASSUME KeyOpsAssumption, BoundsInv, NEW op \in KeyOps, KeyOp(op)
  PROVE  BoundsInv'
<1>1. /\ rscr \in ScreenType /\ pc \in Labels /\ ~rscr.wild /\ Within(rscr, pc)
      /\ pc' = pc /\ ret' = ret /\ reg' = reg
  BY DEF BoundsInv, KeyOp
<1>2. rscr' \in ScreenType /\ Within(rscr', pc)
  <2>1. CASE op = "echo"
    BY <1>1, <2>1, EchoKeeps DEF KeyOp
  <2>2. CASE op = "bksp"
    BY <1>1, <2>2, BackspaceKeeps DEF KeyOp
  <2>3. CASE op = "enter"
    BY <1>1, <2>3, EnterKeeps DEF KeyOp
  <2>4. CASE op = "clear"
    BY <1>1, <2>4, ClearKeeps DEF KeyOp
  <2>5. QED
    BY <2>1, <2>2, <2>3, <2>4 DEF KeyOpsAssumption
<1>3. QED
  BY <1>1, <1>2 DEF BoundsInv, RegOK, Within

\* Neither a load nor a test moves the cursor: it is enough that the access
\* that comes next allows for the cursor where it is.
LEMMA LoadKeeps ==
  ASSUME BoundsInv, NEW from \in Labels, NEW to \in Labels, NEW v \in Int, Load(from, to, v),
         Within(rscr, to),
         to = "nl_y"   => v \in -1 .. NUM_ROWS - 1,
         to = "wrap_y" => v \in 0 .. NUM_ROWS - 1,
         to = "dec_y"  => v \in 0 .. NUM_ROWS,
         to = "inc_x"  => v \in 0 .. NUM_COLS
  PROVE  BoundsInv'
<1>1. pc' = to /\ reg' = v /\ rscr' = rscr /\ ret' = ret
  BY DEF Load
<1>2. RegOK'
  BY <1>1 DEF RegOK
<1>3. QED
  BY <1>1, <1>2 DEF BoundsInv, Within

Loaded == {"nl_y", "wrap_y", "dec_y", "inc_x"}

LEMMA TestKeeps ==
  ASSUME BoundsInv, NEW from \in Labels, NEW cond \in BOOLEAN,
         NEW yes \in Labels \ Loaded, NEW no \in Labels \ Loaded,
         Test(from, cond, yes, no),
         cond => Within(rscr, yes), ~cond => Within(rscr, no)
  PROVE  BoundsInv'
<1>1. rscr' = rscr /\ ret' = ret /\ reg' = reg
  BY DEF Test
<1>2. pc' \in Labels \ Loaded /\ Within(rscr, pc')
  BY DEF Test
<1>3. RegOK'
  BY <1>1, <1>2 DEF RegOK, BoundsInv, Loaded
<1>4. QED
  BY <1>1, <1>2, <1>3 DEF BoundsInv, Within

LEMMA AssignKeeps ==
  ASSUME BoundsInv, NEW from \in Labels, NEW to \in Labels \ Loaded, NEW s \in ScreenType,
         Assign(from, to, s), Within(s, to)
  PROVE  BoundsInv'
<1>1. rscr' = s /\ pc' = to /\ ret' = ret /\ reg' = reg
  BY DEF Assign
<1>2. RegOK'
  BY <1>1 DEF RegOK, BoundsInv, Loaded
<1>3. QED
  BY <1>1, <1>2 DEF BoundsInv, Within
-----------------------------------------------------------------------------
\* What the invariant says of the cursor while nothing has faulted.
LEMMA CursorWithin ==
  ASSUME BoundsInv, ~rscr.wild
  PROVE  /\ rscr \in ScreenType /\ rscr.x \in Int /\ rscr.y \in Int
         /\ rscr.y \in Low(pc) .. High(pc) /\ rscr.x \in 0 .. Wide(pc)
         /\ reg \in Int
  BY DEF BoundsInv, Within, ScreenType, RegOK

\* y++ and x = 0 of putc('\n'), and the test of y.
LEMMA NewlineKeeps ==
  ASSUME BoundsInv, Newline
  PROVE  BoundsInv'
<1>1. CASE Load("nl", "nl_y", rscr.y)
  <2>1. ~rscr.wild /\ pc = "nl"
    BY <1>1 DEF Load
  <2>2. rscr.y \in -1 .. NUM_ROWS - 1 /\ Within(rscr, "nl_y")
    BY <2>1, CursorWithin DEF Within, Low, High, Wide
  <2>3. QED
    BY <1>1, <2>1, <2>2, CursorWithin, LoadKeeps DEF Labels
<1>2. CASE Assign("nl_y", "nl_x", [rscr EXCEPT !.y = reg + 1])
  <2>1. ~rscr.wild /\ pc = "nl_y" /\ reg \in -1 .. NUM_ROWS - 1
    BY <1>2 DEF Assign, BoundsInv, RegOK
  <2> DEFINE s == [rscr EXCEPT !.y = reg + 1]
  <2>2. s \in ScreenType /\ s.x = rscr.x /\ s.y = reg + 1
    BY <2>1, CursorWithin, RowFields
  <2> HIDE DEF s
  <2>3. Within(s, "nl_x")
    BY <2>1, <2>2, CursorWithin, ScreenSizes DEF Within, Low, High, Wide
  <2>4. QED
    BY <1>2, <2>2, <2>3, AssignKeeps DEF Labels, Loaded, s
<1>3. CASE Assign("nl_x", "nl_test", [rscr EXCEPT !.x = 0])
  <2>1. ~rscr.wild /\ pc = "nl_x"
    BY <1>3 DEF Assign
  <2> DEFINE s == [rscr EXCEPT !.x = 0]
  <2>2. s \in ScreenType /\ s.x = 0 /\ s.y = rscr.y
    BY <2>1, CursorWithin, ColumnFields
  <2> HIDE DEF s
  <2>3. Within(s, "nl_test")
    BY <2>1, <2>2, CursorWithin, ScreenSizes DEF Within, Low, High, Wide
  <2>4. QED
    BY <1>3, <2>2, <2>3, AssignKeeps DEF Labels, Loaded, s
<1>4. CASE Test("nl_test", rscr.y >= NUM_ROWS, "dec", ret)
  <2>1. ~rscr.wild /\ pc = "nl_test" /\ ret \in {"cursor", "store"}
    BY <1>4 DEF Test, BoundsInv
  <2>2. rscr.y >= NUM_ROWS => Within(rscr, "dec")
    BY <2>1, CursorWithin DEF Within, Low, High, Wide
  <2>3. ~(rscr.y >= NUM_ROWS) => Within(rscr, ret)
    BY <2>1, CursorWithin, ScreenSizes DEF Within, Low, High, Wide
  <2>4. (rscr.y >= NUM_ROWS) \in BOOLEAN /\ ret \in Labels \ Loaded
    BY <2>1 DEF Labels, Loaded
  <2>5. QED
    BY <1>4, <2>2, <2>3, <2>4, TestKeeps DEF Labels, Loaded
<1>5. QED
  BY <1>1, <1>2, <1>3, <1>4 DEF Newline

\* The same for a full row.
LEMMA WrapKeeps ==
  ASSUME BoundsInv, Wrap
  PROVE  BoundsInv'
<1>1. CASE Test("row", rscr.x >= NUM_COLS, "wrap_x", "store")
  <2>1. ~rscr.wild /\ pc = "row"
    BY <1>1 DEF Test
  <2>2. rscr.x >= NUM_COLS => Within(rscr, "wrap_x")
    BY <2>1, CursorWithin DEF Within, Low, High, Wide
  <2>3. ~(rscr.x >= NUM_COLS) => Within(rscr, "store")
    BY <2>1, CursorWithin, ScreenSizes DEF Within, Low, High, Wide
  <2>4. (rscr.x >= NUM_COLS) \in BOOLEAN
    OBVIOUS
  <2>5. QED
    BY <1>1, <2>2, <2>3, <2>4, TestKeeps DEF Labels, Loaded
<1>2. CASE Assign("wrap_x", "wrap", [rscr EXCEPT !.x = 0])
  <2>1. ~rscr.wild /\ pc = "wrap_x"
    BY <1>2 DEF Assign
  <2> DEFINE s == [rscr EXCEPT !.x = 0]
  <2>2. s \in ScreenType /\ s.x = 0 /\ s.y = rscr.y
    BY <2>1, CursorWithin, ColumnFields
  <2> HIDE DEF s
  <2>3. Within(s, "wrap")
    BY <2>1, <2>2, CursorWithin, ScreenSizes DEF Within, Low, High, Wide
  <2>4. QED
    BY <1>2, <2>2, <2>3, AssignKeeps DEF Labels, Loaded, s
<1>3. CASE Load("wrap", "wrap_y", rscr.y)
  <2>1. ~rscr.wild /\ pc = "wrap"
    BY <1>3 DEF Load
  <2>2. rscr.y \in 0 .. NUM_ROWS - 1 /\ Within(rscr, "wrap_y")
    BY <2>1, CursorWithin DEF Within, Low, High, Wide
  <2>3. QED
    BY <1>3, <2>1, <2>2, CursorWithin, LoadKeeps DEF Labels
<1>4. CASE Assign("wrap_y", "wrap_test", [rscr EXCEPT !.y = reg + 1])
  <2>1. ~rscr.wild /\ pc = "wrap_y" /\ reg \in 0 .. NUM_ROWS - 1
    BY <1>4 DEF Assign, BoundsInv, RegOK
  <2> DEFINE s == [rscr EXCEPT !.y = reg + 1]
  <2>2. s \in ScreenType /\ s.x = rscr.x /\ s.y = reg + 1
    BY <2>1, CursorWithin, RowFields
  <2> HIDE DEF s
  <2>3. Within(s, "wrap_test")
    BY <2>1, <2>2, CursorWithin, ScreenSizes DEF Within, Low, High, Wide
  <2>4. QED
    BY <1>4, <2>2, <2>3, AssignKeeps DEF Labels, Loaded, s
<1>5. CASE Test("wrap_test", rscr.y >= NUM_ROWS, "dec", "store")
  <2>1. ~rscr.wild /\ pc = "wrap_test"
    BY <1>5 DEF Test
  <2>2. rscr.y >= NUM_ROWS => Within(rscr, "dec")
    BY <2>1, CursorWithin DEF Within, Low, High, Wide
  <2>3. ~(rscr.y >= NUM_ROWS) => Within(rscr, "store")
    BY <2>1, CursorWithin, ScreenSizes DEF Within, Low, High, Wide
  <2>4. (rscr.y >= NUM_ROWS) \in BOOLEAN
    OBVIOUS
  <2>5. QED
    BY <1>5, <2>2, <2>3, <2>4, TestKeeps DEF Labels, Loaded
<1>6. QED
  BY <1>1, <1>2, <1>3, <1>4, <1>5 DEF Wrap
\* y--.  The handler may have cleared the screen since y was tested: y can be
\* one row above the screen until scroll has looked at it.
LEMMA BackKeeps ==
  ASSUME BoundsInv, Back
  PROVE  BoundsInv'
<1>1. CASE Load("dec", "dec_y", rscr.y)
  <2>1. ~rscr.wild /\ pc = "dec"
    BY <1>1 DEF Load
  <2>2. rscr.y \in 0 .. NUM_ROWS /\ Within(rscr, "dec_y")
    BY <2>1, CursorWithin DEF Within, Low, High, Wide
  <2>3. QED
    BY <1>1, <2>1, <2>2, CursorWithin, LoadKeeps DEF Labels
<1>2. CASE Assign("dec_y", "scroll", [rscr EXCEPT !.y = reg - 1])
  <2>1. ~rscr.wild /\ pc = "dec_y" /\ reg \in 0 .. NUM_ROWS
    BY <1>2 DEF Assign, BoundsInv, RegOK
  <2> DEFINE s == [rscr EXCEPT !.y = reg - 1]
  <2>2. s \in ScreenType /\ s.x = rscr.x /\ s.y = reg - 1
    BY <2>1, CursorWithin, RowFields
  <2> HIDE DEF s
  <2>3. Within(s, "scroll")
    BY <2>1, <2>2, CursorWithin, ScreenSizes DEF Within, Low, High, Wide
  <2>4. QED
    BY <1>2, <2>2, <2>3, AssignKeeps DEF Labels, Loaded, s
<1>3. QED
  BY <1>1, <1>2 DEF Back

\* scroll, which shifts on the last row and goes to putc('\n') above it.
LEMMA ScrollKeeps ==
  ASSUME BoundsInv, Scroll
  PROVE  BoundsInv'
<1>1. CASE Test("scroll", rscr.y >= NUM_ROWS - 1, "shift", "nl")
  <2>1. ~rscr.wild /\ pc = "scroll"
    BY <1>1 DEF Test
  <2>2. rscr.y >= NUM_ROWS - 1 => Within(rscr, "shift")
    BY <2>1, CursorWithin, ScreenSizes DEF Within, Low, High, Wide
  <2>3. ~(rscr.y >= NUM_ROWS - 1) => Within(rscr, "nl")
    BY <2>1, CursorWithin, ScreenSizes DEF Within, Low, High, Wide
  <2>4. (rscr.y >= NUM_ROWS - 1) \in BOOLEAN
    OBVIOUS
  <2>5. QED
    BY <1>1, <2>2, <2>3, <2>4, TestKeeps DEF Labels, Loaded
<1>2. CASE Assign("shift", "home", [rscr EXCEPT !.cell = ShiftUp(rscr.cell)])
  <2>1. ~rscr.wild /\ pc = "shift"
    BY <1>2 DEF Assign
  <2> DEFINE s == [rscr EXCEPT !.cell = ShiftUp(rscr.cell)]
  <2>2. rscr \in ScreenType /\ ShiftUp(rscr.cell) \in [PageCells -> Chars]
    BY ShiftUpType DEF BoundsInv, ScreenType
  <2>3. s \in ScreenType /\ s.x = rscr.x /\ s.y = rscr.y
    BY <2>2 DEF ScreenType
  <2> HIDE DEF s
  <2>4. Within(s, "home")
    BY <2>1, <2>3, CursorWithin, ScreenSizes DEF Within, Low, High, Wide
  <2>5. QED
    BY <1>2, <2>3, <2>4, AssignKeeps DEF Labels, Loaded, s
<1>3. CASE Assign("home", ret, [rscr EXCEPT !.x = 0])
  <2>1. ~rscr.wild /\ pc = "home" /\ ret \in {"cursor", "store"}
    BY <1>3 DEF Assign, BoundsInv
  <2> DEFINE s == [rscr EXCEPT !.x = 0]
  <2>2. s \in ScreenType /\ s.x = 0 /\ s.y = rscr.y
    BY <2>1, CursorWithin, ColumnFields
  <2> HIDE DEF s
  <2>3. Within(s, ret)
    BY <2>1, <2>2, CursorWithin, ScreenSizes DEF Within, Low, High, Wide
  <2>4. ret \in Labels \ Loaded
    BY <2>1 DEF Labels, Loaded
  <2>5. QED
    BY <1>3, <2>2, <2>3, <2>4, AssignKeeps DEF Labels, s
<1>4. QED
  BY <1>1, <1>2, <1>3 DEF Scroll

\* The store, x++ and update_cursor.
LEMMA StoreCharKeeps ==
  ASSUME BoundsInv, StoreChar
  PROVE  BoundsInv'
<1>1. CASE Load("store", "cell", rscr.y)
  <2>1. ~rscr.wild /\ pc = "store"
    BY <1>1 DEF Load
  <2>2. Within(rscr, "cell")
    BY <2>1, CursorWithin DEF Within, Low, High, Wide
  <2>3. QED
    BY <1>1, <2>1, <2>2, CursorWithin, LoadKeeps DEF Labels
<1>2. CASE Assign("cell", "inc", StoreAt(rscr, NUM_COLS * reg + rscr.x, Blank))
  <2>1. ~rscr.wild /\ pc = "cell"
    BY <1>2 DEF Assign
  <2>2. NUM_COLS * reg + rscr.x \in Int
    BY <2>1, CursorWithin, ScreenSizes
  <2> DEFINE s == StoreAt(rscr, NUM_COLS * reg + rscr.x, Blank)
  <2>3. s \in ScreenType /\ s.x = rscr.x /\ s.y = rscr.y
    BY <2>1, <2>2, CursorWithin, StoreFields, CharsAssumption
  <2> HIDE DEF s
  <2>4. Within(s, "inc")
    BY <2>1, <2>3, CursorWithin DEF Within, Low, High, Wide
  <2>5. QED
    BY <1>2, <2>3, <2>4, AssignKeeps DEF Labels, Loaded, s
<1>3. CASE Load("inc", "inc_x", rscr.x)
  <2>1. ~rscr.wild /\ pc = "inc"
    BY <1>3 DEF Load
  <2>2. rscr.x \in 0 .. NUM_COLS /\ Within(rscr, "inc_x")
    BY <2>1, CursorWithin DEF Within, Low, High, Wide
  <2>3. QED
    BY <1>3, <2>1, <2>2, CursorWithin, LoadKeeps DEF Labels
<1>4. CASE Assign("inc_x", "cursor", [rscr EXCEPT !.x = reg + 1])
  <2>1. ~rscr.wild /\ pc = "inc_x" /\ reg \in 0 .. NUM_COLS
    BY <1>4 DEF Assign, BoundsInv, RegOK
  <2> DEFINE s == [rscr EXCEPT !.x = reg + 1]
  <2>2. s \in ScreenType /\ s.x = reg + 1 /\ s.y = rscr.y
    BY <2>1, CursorWithin, ColumnFields
  <2> HIDE DEF s
  <2>3. Within(s, "cursor")
    BY <2>1, <2>2, CursorWithin, ScreenSizes DEF Within, Low, High, Wide
  <2>4. QED
    BY <1>4, <2>2, <2>3, AssignKeeps DEF Labels, Loaded, s
<1>5. CASE Test("cursor", TRUE, "idle", "idle")
  <2>1. ~rscr.wild /\ pc = "cursor"
    BY <1>5 DEF Test
  <2>2. Within(rscr, "idle")
    BY <2>1, CursorWithin DEF Within, Low, High, Wide
  <2>3. QED
    BY <1>5, <2>2, TestKeeps DEF Labels, Loaded
<1>6. QED
  BY <1>1, <1>2, <1>3, <1>4, <1>5 DEF StoreChar

\* A call of putc starts between two calls.
LEMMA CallKeeps ==
  ASSUME BoundsInv, CallPutc
  PROVE  BoundsInv'
<1>1. /\ pc = "idle" /\ ~rscr.wild /\ rscr' = rscr /\ reg' = reg
      /\ pc' \in {"nl", "row"} /\ ret' \in {"cursor", "store"}
  BY DEF CallPutc
<1>2. Within(rscr, pc')
  BY <1>1, CursorWithin DEF Within, Low, High, Wide
<1>3. RegOK'
  BY <1>1 DEF RegOK, BoundsInv
<1>4. QED
  BY <1>1, <1>2, <1>3 DEF BoundsInv, Within, Labels

LEMMA BoundsInit ==
  ASSUME RaceInit
  PROVE  BoundsInv
<1>1. [i \in PageCells |-> Blank] \in [PageCells -> Chars]
  BY CharsAssumption
<1>2. rscr \in ScreenType /\ rscr.x = 0 /\ rscr.y = 0
  BY <1>1 DEF RaceInit, ScreenType
<1>3. QED
  BY <1>2, ScreenSizes DEF RaceInit, BoundsInv, Within, RegOK, Labels, Low, High, Wide

LEMMA BoundsStep ==
  ASSUME KeyOpsAssumption, BoundsInv, [RaceNext]_racevars
  PROVE  BoundsInv'
<1>1. CASE UNCHANGED racevars
  BY <1>1 DEF racevars, BoundsInv, RegOK, Within
<1>2. ASSUME NEW op \in KeyOps, KeyOp(op)
      PROVE  BoundsInv'
  BY <1>2, KeyOpKeeps
<1>3. QED
  BY <1>1, <1>2, CallKeeps, NewlineKeeps, WrapKeeps, BackKeeps, ScrollKeeps, StoreCharKeeps
     DEF RaceNext, Faulted

-----------------------------------------------------------------------------
\* Whatever the size of the screen, whatever keys the handler echoes, and
\* between whichever two accesses of putc: once putc is through, screen_y is a
\* row of the screen and screen_x at most one past the column of the wrap
\* ("keep screen_y in bounds", lib.c:176 and lib.c:188).
THEOREM RaceRestsInBounds ==
  ASSUME KeyOpsAssumption
  PROVE  RaceSpec => []RestsInBounds
<1>1. RaceInit => BoundsInv
  BY BoundsInit
<1>2. BoundsInv /\ [RaceNext]_racevars => BoundsInv'
  BY BoundsStep
<1>3. BoundsInv => RestsInBounds
  BY DEF BoundsInv, Within, RestsInBounds, Low, High, Wide
<1>4. QED
  BY <1>1, <1>2, <1>3, PTL DEF RaceSpec
=============================================================================
