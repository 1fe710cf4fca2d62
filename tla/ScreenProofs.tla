---------------------------- MODULE ScreenProofs ----------------------------
(***************************************************************************)
(* For every size of the screen, of the page and of the line buffer: no    *)
(* sequence of output, echo, backspace, Enter and Ctrl+L moves the cursor  *)
(* or a store off the screen; the line being edited is what stands in      *)
(* front of the cursor; and the screen shows the last rows of the text.    *)
(***************************************************************************)
EXTENDS Screen, WellFoundedInduction, TLAPS

\* A screen whose cursor and contents are in bounds.
InBounds(s) ==
    /\ s = [x |-> s.x, y |-> s.y, wild |-> s.wild, cell |-> s.cell]
    /\ s.x \in 0 .. NUM_COLS
    /\ s.y \in 0 .. NUM_ROWS - 1
    /\ s.wild = FALSE
    /\ s.cell = [i \in PageCells |-> s.cell[i]]
    /\ \A i \in PageCells \ ScreenCells : s.cell[i] = Blank

\* The inductive invariant.
SInv == InBounds(scr) /\ line \in Seq(Chars \cup {NUL})

-----------------------------------------------------------------------------
\* A set of natural numbers has a least element.
LEMMA LeastNatural ==
    ASSUME NEW S, S \subseteq Nat, S # {}
    PROVE  \E x \in S : \A y \in S : x =< y
<1> DEFINE R == {ss \in Nat \X Nat : ss[1] < ss[2]}
<1>1. IsWellFoundedOn(R, Nat)
  BY NatLessThanWellFounded DEF OpToRel
<1>2. PICK x \in S : \A y \in S : ~(<<y, x>> \in R)
  <2> HIDE DEF R
  <2> QED BY Zenon, <1>1, WFMin
<1>3. ASSUME NEW y \in S PROVE x =< y
  <2>1. y \in Nat /\ x \in Nat
    OBVIOUS
  <2>2. y < x => <<y, x>> \in R
    BY <2>1
  <2> QED
    <3> HIDE DEF R
    <3> QED BY <1>2, <2>1, <2>2
<1> QED BY <1>3

\* The offset of a place of the screen is a cell of the screen and of the page.
LEMMA PlaceOnScreen ==
    ASSUME NEW x \in 0 .. NUM_COLS - 1, NEW y \in 0 .. NUM_ROWS - 1
    PROVE  NUM_COLS * y + x \in ScreenCells /\ NUM_COLS * y + x \in PageCells
<1>1. NUM_COLS \in Nat /\ NUM_ROWS \in Nat /\ NUM_COLS * NUM_ROWS <= PAGE_CELLS /\ PAGE_CELLS \in Nat
  BY ScreenSizes
<1>2. x \in Nat /\ y \in Nat /\ x + 1 <= NUM_COLS /\ NUM_ROWS - (y + 1) \in Nat
  BY <1>1
<1>3. NUM_COLS * NUM_ROWS = NUM_COLS * y + NUM_COLS + NUM_COLS * (NUM_ROWS - (y + 1))
  BY <1>1, <1>2
<1>4. NUM_COLS * y \in Nat /\ NUM_COLS * (NUM_ROWS - (y + 1)) \in Nat
  BY <1>1, <1>2
<1>5. NUM_COLS * y + x \in Nat /\ NUM_COLS * y + x < NUM_COLS * NUM_ROWS
  BY SMTT(30), <1>1, <1>2, <1>3, <1>4
<1>6. NUM_COLS * NUM_ROWS \in Nat
  BY <1>1
<1> QED BY <1>1, <1>5, <1>6 DEF ScreenCells, PageCells

LEMMA StoreKeeps ==
    ASSUME NEW s, InBounds(s), s.x < NUM_COLS, NEW c
    PROVE  InBounds(StoreAt(s, NUM_COLS * s.y + s.x, c))
<1> DEFINE i == NUM_COLS * s.y + s.x
<1>1. i \in ScreenCells /\ i \in PageCells
  BY PlaceOnScreen, ScreenSizes DEF InBounds
<1> HIDE DEF i
<1>2. StoreAt(s, i, c) = [s EXCEPT !.cell = [s.cell EXCEPT ![i] = c]]
  BY <1>1 DEF StoreAt
<1>3. StoreAt(s, i, c) = [x |-> s.x, y |-> s.y, wild |-> FALSE,
                          cell |-> [k \in PageCells |-> IF k = i THEN c ELSE s.cell[k]]]
  BY Zenon, <1>2 DEF InBounds
<1>4. InBounds(StoreAt(s, i, c))
  BY <1>1, <1>3 DEF InBounds
<1> QED BY <1>4 DEF i

LEMMA clearKeeps ==
    ASSUME NEW s, InBounds(s)
    PROVE  InBounds(clear(s))
<1> DEFINE c == [i \in PageCells |-> IF i \in ScreenCells THEN Blank ELSE s.cell[i]]
<1>1. clear(s) = [s EXCEPT !.x = 0, !.y = 0, !.cell = c]
  BY DEF clear
<1>2. c = [i \in PageCells |-> c[i]] /\ \A i \in PageCells \ ScreenCells : c[i] = Blank
  BY DEF InBounds
<1> HIDE DEF c
<1>3. clear(s) = [x |-> 0, y |-> 0, wild |-> FALSE, cell |-> c]
  BY Zenon, <1>1 DEF InBounds
<1> QED BY <1>2, <1>3, ScreenSizes DEF InBounds

LEMMA scrollKeeps ==
    ASSUME NEW s, InBounds(s)
    PROVE  InBounds(scroll(s)) /\ scroll(s).x = 0
<1>1. CASE s.y >= NUM_ROWS - 1
  <2>1. scroll(s) = [x |-> 0, y |-> s.y, wild |-> FALSE, cell |-> ShiftUp(s.cell)]
    BY Zenon, <1>1 DEF scroll, InBounds
  <2>2. \A i \in PageCells \ ScreenCells : ShiftUp(s.cell)[i] = Blank
    BY ScreenSizes DEF ShiftUp, InBounds, ScreenCells, PageCells
  <2>3. ShiftUp(s.cell) = [i \in PageCells |-> ShiftUp(s.cell)[i]]
    BY DEF ShiftUp
  <2> HIDE DEF ShiftUp
  <2> QED BY <2>1, <2>2, <2>3, ScreenSizes DEF InBounds
<1>2. CASE ~(s.y >= NUM_ROWS - 1)
  <2>1. scroll(s) = [x |-> 0, y |-> s.y + 1, wild |-> FALSE, cell |-> s.cell]
    BY Zenon, <1>2 DEF scroll, InBounds
  <2> QED BY <2>1, <1>2, ScreenSizes DEF InBounds
<1> QED BY <1>1, <1>2

LEMMA MoveKeeps ==
    ASSUME NEW s, InBounds(s), NEW h \in 0 .. NUM_COLS
    PROVE  InBounds([s EXCEPT !.x = h])
<1>1. [s EXCEPT !.x = h] = [x |-> h, y |-> s.y, wild |-> s.wild, cell |-> s.cell]
  BY DEF InBounds
<1> QED BY <1>1 DEF InBounds

LEMMA NextRowKeeps ==
    ASSUME NEW s, InBounds(s)
    PROVE  InBounds(NextRow(s)) /\ NextRow(s).x = 0
<1> DEFINE z == [s EXCEPT !.x = 0]
<1>2. InBounds(z)
  BY MoveKeeps, ScreenSizes
<1>3. CASE s.y + 1 >= NUM_ROWS
  <2>1. NextRow(s) = scroll(z)
    BY <1>3 DEF NextRow
  <2> HIDE DEF z
  <2> QED BY <2>1, <1>2, scrollKeeps
<1>4. CASE ~(s.y + 1 >= NUM_ROWS)
  <2>1. NextRow(s) = [x |-> 0, y |-> s.y + 1, wild |-> FALSE, cell |-> s.cell]
    BY Zenon, <1>4 DEF NextRow, InBounds
  <2> QED BY SMTT(30), <2>1, <1>4, ScreenSizes DEF InBounds
<1> QED BY <1>3, <1>4

\* putc of any character, also on a full row and on the last row.
LEMMA putcKeeps ==
    ASSUME NEW s, InBounds(s), NEW c
    PROVE  InBounds(putc(s, c))
<1> DEFINE w == IF s.x >= NUM_COLS THEN NextRow(s) ELSE s
           i == NUM_COLS * w.y + w.x
           t == StoreAt(w, i, c)
<1>1. CASE c = NL
  BY <1>1, NextRowKeeps DEF putc
<1>2. CASE c # NL
  <2>1. putc(s, c) = [t EXCEPT !.x = w.x + 1]
    BY <1>2 DEF putc
  <2>2. InBounds(w) /\ w.x < NUM_COLS
    <3>1. CASE s.x >= NUM_COLS
      BY SMTT(30), <3>1, NextRowKeeps, ScreenSizes
    <3>2. CASE ~(s.x >= NUM_COLS)
      BY <3>2, ScreenSizes DEF InBounds
    <3> QED BY Zenon, <3>1, <3>2
  <2> HIDE DEF w
  <2>3. InBounds(t)
    BY Zenon, <2>2, StoreKeeps
  <2>4. w.x + 1 \in 0 .. NUM_COLS
    BY <2>2, ScreenSizes DEF InBounds
  <2> HIDE DEF t
  <2>5. putc(s, c) = [x |-> w.x + 1, y |-> t.y, wild |-> t.wild, cell |-> t.cell]
    BY <2>1, <2>3 DEF InBounds
  <2> QED BY <2>3, <2>4, <2>5 DEF InBounds
<1> QED BY <1>1, <1>2

\* backspace, also over the left edge.
LEMMA backspaceKeeps ==
    ASSUME NEW s, InBounds(s)
    PROVE  InBounds(backspace(s))
<1> DEFINE b == IF s.x = 0 /\ s.y > 0 THEN [s EXCEPT !.y = s.y - 1, !.x = NUM_COLS - 1]
                ELSE [s EXCEPT !.x = s.x - 1]
<1>1. CASE s.x = 0 /\ s.y = 0
  BY <1>1 DEF backspace
<1>2. CASE ~(s.x = 0 /\ s.y = 0)
  <2>1. backspace(s) = StoreAt(b, NUM_COLS * b.y + b.x, Blank)
    BY <1>2 DEF backspace
  <2>2. InBounds(b) /\ b.x < NUM_COLS
    <3>1. CASE s.x = 0 /\ s.y > 0
      <4>1. b = [x |-> NUM_COLS - 1, y |-> s.y - 1, wild |-> FALSE, cell |-> s.cell]
        BY Zenon, <3>1 DEF InBounds
      <4>2. /\ NUM_COLS - 1 \in 0 .. NUM_COLS /\ NUM_COLS - 1 < NUM_COLS
            /\ s.y - 1 \in 0 .. NUM_ROWS - 1
        BY <3>1, ScreenSizes DEF InBounds
      <4>3. InBounds(b)
        BY Zenon, <4>1, <4>2 DEF InBounds
      <4> QED BY Zenon, <4>1, <4>2, <4>3
    <3>2. CASE ~(s.x = 0 /\ s.y > 0)
      <4>1. b = [x |-> s.x - 1, y |-> s.y, wild |-> FALSE, cell |-> s.cell]
        BY Zenon, <3>2 DEF InBounds
      <4>2. s.x > 0
        BY <1>2, <3>2, ScreenSizes DEF InBounds
      <4> QED BY <4>1, <4>2, ScreenSizes DEF InBounds
    <3> QED BY <3>1, <3>2
  <2> HIDE DEF b
  <2> QED BY Zenon, <2>1, <2>2, StoreKeeps
<1> QED BY <1>1, <1>2

-----------------------------------------------------------------------------
(* A string of any length: the induction behind puts. *)

\* f is the sequence of screens while the first n characters of str are printed.
Printing(f, s, str, n) ==
    f = [k \in 0 .. n |-> IF k = 0 THEN s ELSE putc(f[k - 1], str[k])]

LEMMA PrintingExists ==
    ASSUME NEW s, NEW str, NEW n \in Nat
    PROVE  \E f : Printing(f, s, str, n)
<1> DEFINE S == {m \in Nat : ~\E f : Printing(f, s, str, m)}
<1> SUFFICES ASSUME S # {} PROVE FALSE
  OBVIOUS
<1>1. PICK m \in S : \A y \in S : m =< y
  <2>1. S \subseteq Nat
    OBVIOUS
  <2> HIDE DEF S
  <2> QED BY Zenon, <2>1, LeastNatural
<1>2. CASE m = 0
  <2> DEFINE f == [k \in 0 .. 0 |-> s]
  <2>1. f = [k \in 0 .. 0 |-> IF k = 0 THEN s ELSE putc(f[k - 1], str[k])]
    OBVIOUS
  <2>2. Printing(f, s, str, 0)
    BY <2>1 DEF Printing
  <2> QED BY <2>2, <1>2
<1>3. CASE m # 0
  <2>1. m - 1 \in Nat /\ m - 1 \notin S
    <3>1. m \in Nat
      OBVIOUS
    <3>2. m - 1 \in Nat /\ ~(m =< m - 1)
      BY SMTT(30), <3>1, <1>3
    <3> HIDE DEF S
    <3> QED BY Zenon, <3>2, <1>1
  <2>2. PICK g : Printing(g, s, str, m - 1)
    BY <2>1
  <2>3. m \in Nat \ {0}
    BY <1>3
  <2> DEFINE f == [k \in 0 .. m |-> IF k = m THEN putc(g[m - 1], str[m]) ELSE g[k]]
  <2>4. \A k \in 0 .. m : f[k] = IF k = 0 THEN s ELSE putc(f[k - 1], str[k])
    <3>1. \A k \in 0 .. m - 1 : g[k] = IF k = 0 THEN s ELSE putc(g[k - 1], str[k])
      BY Zenon, <2>2, <2>3 DEF Printing
    <3>2. \A k \in 0 .. m - 1 : f[k] = g[k]
      BY <2>3
    <3>3. f[m] = putc(g[m - 1], str[m])
      BY <2>3
    <3> HIDE DEF f
    <3>4. ASSUME NEW k \in 0 .. m PROVE f[k] = IF k = 0 THEN s ELSE putc(f[k - 1], str[k])
      <4>1. CASE k = m
        BY SMTT(30), <4>1, <3>2, <3>3, <2>3
      <4>2. CASE k = 0
        BY SMTT(30), <4>2, <3>1, <3>2, <2>3
      <4>3. CASE k # m /\ k # 0
        <5>1. k \in 0 .. m - 1 /\ k - 1 \in 0 .. m - 1
          BY SMTT(30), <4>3, <2>3
        <5> QED BY Zenon, <5>1, <4>3, <3>1, <3>2
      <4> QED BY Zenon, <4>1, <4>2, <4>3
    <3> QED BY <3>4
  <2>5. f = [k \in 0 .. m |-> f[k]]
    OBVIOUS
  <2> HIDE DEF f
  <2>6. Printing(f, s, str, m)
    BY Zenon, <2>4, <2>5 DEF Printing
  <2> QED BY <2>6
<1> QED BY <1>2, <1>3

\* puts is putc after putc, and every screen on the way is in bounds.
LEMMA putsRuns ==
    ASSUME NEW s, InBounds(s), NEW str, Len(str) \in Nat
    PROVE  \E f : /\ f[0] = s /\ f[Len(str)] = puts(s, str)
                  /\ \A k \in 1 .. Len(str) : f[k] = putc(f[k - 1], str[k])
                  /\ \A k \in 0 .. Len(str) : InBounds(f[k])
<1> DEFINE n == Len(str)
           f == CHOOSE g : Printing(g, s, str, n)
           S == {k \in 0 .. n : ~InBounds(f[k])}
<1>1. puts(s, str) = f[n]
  BY DEF puts, Printing
<1>2. Printing(f, s, str, n)
  <2> HIDE DEF n
  <2> QED BY PrintingExists DEF n
<1> HIDE DEF f
<1>3. \A k \in 0 .. n : f[k] = IF k = 0 THEN s ELSE putc(f[k - 1], str[k])
  BY <1>2 DEF Printing
<1>4. S = {}
  <2> SUFFICES ASSUME S # {} PROVE FALSE
    OBVIOUS
  <2>1. PICK k \in S : \A y \in S : k =< y
    <3>1. S \subseteq Nat
      OBVIOUS
    <3> HIDE DEF S
    <3> QED BY Zenon, <3>1, LeastNatural
  <2>2. k \in 0 .. n /\ ~InBounds(f[k])
    OBVIOUS
  <2>3. k # 0
    BY <2>2, <1>3
  <2>4. k - 1 \in 0 .. n /\ ~(k =< k - 1)
    BY <2>2, <2>3
  <2>5. InBounds(f[k - 1])
    BY Zenon, <2>1, <2>4
  <2>6. f[k] = putc(f[k - 1], str[k])
    BY Zenon, <1>3, <2>2, <2>3
  <2> QED BY Zenon, <2>2, <2>5, <2>6, putcKeeps
<1>5. \A k \in 0 .. n : InBounds(f[k])
  BY <1>4
<1>6. f[0] = s /\ \A k \in 1 .. n : f[k] = putc(f[k - 1], str[k])
  BY <1>3
<1> QED BY <1>1, <1>5, <1>6

LEMMA putsKeeps ==
    ASSUME NEW s, InBounds(s), NEW str, Len(str) \in Nat
    PROVE  InBounds(puts(s, str))
<1>1. PICK f : f[Len(str)] = puts(s, str) /\ \A k \in 0 .. Len(str) : InBounds(f[k])
  BY putsRuns
<1>2. Len(str) \in 0 .. Len(str)
  OBVIOUS
<1> QED BY Zenon, <1>1, <1>2

-----------------------------------------------------------------------------
\* What programs, echo and Ctrl+L print.
Printed == Chars \cup {NL, NUL, Prompt[1]}

\* What Ctrl+L prints is a sequence, whatever the line holds.
LEMMA ShownLine ==
    ASSUME NEW str \in Seq(Chars \cup {NUL})
    PROVE  /\ Len(Prompt \o ToNul(str)) \in Nat
           /\ Prompt \o ToNul(str) \in Seq(Printed)
<1> DEFINE I == {i \in 1 .. Len(str) : str[i] = NUL}
           n == IF I # {} THEN Min(I) ELSE 0
<1>1. n \in 0 .. Len(str)
  <2>1. I \subseteq Nat /\ I \subseteq 1 .. Len(str)
    OBVIOUS
  <2> HIDE DEF I
  <2>2. I # {} => Min(I) \in I
    BY Zenon, <2>1, LeastNatural DEF Min
  <2>3. Len(str) \in Nat
    OBVIOUS
  <2>4. I # {} => Min(I) \in 1 .. Len(str)
    BY Zenon, <2>1, <2>2
  <2> HIDE DEF Min
  <2> QED BY SMTT(30), <2>3, <2>4
<1>2. ToNul(str) = IF n = 0 THEN str ELSE SubSeq(str, 1, n - 1)
  BY DEF ToNul, SelectInSeq
<1> HIDE DEF n
<1>3. ToNul(str) \in Seq(Chars \cup {NUL})
  BY <1>1, <1>2
<1>4. Prompt \in Seq({Prompt[1]})
  BY DEF Prompt
<1>5. Prompt \in Seq(Printed) /\ ToNul(str) \in Seq(Printed)
  <2> HIDE DEF Prompt
  <2> QED BY SMTT(30), <1>3, <1>4 DEF Printed
<1> HIDE DEF Prompt, ToNul
<1> QED BY <1>5

-----------------------------------------------------------------------------
(* The line on the screen. *)

\* The offset of the cursor.
Pos(s) == NUM_COLS * s.y + s.x

\* The n characters in front of the cursor are the first n of str.
LineAt(s, str, n) ==
    /\ n <= Pos(s)
    /\ \A k \in 1 .. n : s.cell[Pos(s) - n + k - 1] = str[k]

\* What the step to the next row does, spelled out.
LEMMA NextRowIs ==
    ASSUME NEW s, InBounds(s)
    PROVE  /\ NextRow(s) = [x |-> 0,
                            y |-> IF s.y = NUM_ROWS - 1 THEN s.y ELSE s.y + 1,
                            wild |-> FALSE,
                            cell |-> IF s.y = NUM_ROWS - 1 THEN ShiftUp(s.cell) ELSE s.cell]
           /\ scroll(s) = NextRow(s)
<1>1. s.y \in Int /\ NUM_ROWS \in Nat /\ s.y <= NUM_ROWS - 1
  BY ScreenSizes DEF InBounds
<1>2. s.y >= NUM_ROWS - 1 <=> s.y = NUM_ROWS - 1
  BY <1>1
<1>3. s.y + 1 >= NUM_ROWS <=> s.y = NUM_ROWS - 1
  BY <1>1
<1>4. CASE s.y = NUM_ROWS - 1
  <2>1. scroll(s) = [x |-> 0, y |-> s.y, wild |-> FALSE, cell |-> ShiftUp(s.cell)]
    BY Zenon, <1>2, <1>4 DEF scroll, InBounds
  <2>2. [s EXCEPT !.x = 0] = [x |-> 0, y |-> s.y, wild |-> s.wild, cell |-> s.cell]
    BY DEF InBounds
  <2>3. s.wild = FALSE
    BY DEF InBounds
  <2>4. NextRow(s) = [x |-> 0, y |-> s.y, wild |-> FALSE, cell |-> ShiftUp(s.cell)]
    BY Zenon, <1>2, <1>3, <1>4, <2>2, <2>3 DEF scroll, NextRow
  <2> QED BY Zenon, <1>4, <2>1, <2>4
<1>5. CASE s.y # NUM_ROWS - 1
  <2>1. scroll(s) = [x |-> 0, y |-> s.y + 1, wild |-> FALSE, cell |-> s.cell]
    BY Zenon, <1>2, <1>5 DEF scroll, InBounds
  <2>2. NextRow(s) = [x |-> 0, y |-> s.y + 1, wild |-> FALSE, cell |-> s.cell]
    BY Zenon, <1>3, <1>5 DEF NextRow, InBounds
  <2> QED BY <1>5, <2>1, <2>2
<1> QED BY Zenon, <1>4, <1>5

\* The screen a character is stored on: a full row is left first.
Room(s) == IF s.x >= NUM_COLS THEN NextRow(s) ELSE s

LEMMA RoomKeeps ==
    ASSUME NEW s, InBounds(s)
    PROVE  InBounds(Room(s)) /\ Room(s).x \in 0 .. NUM_COLS - 1
<1>1. CASE s.x >= NUM_COLS
  BY SMTT(30), <1>1, NextRowKeeps, ScreenSizes DEF Room
<1>2. CASE ~(s.x >= NUM_COLS)
  BY SMTT(30), <1>2, ScreenSizes DEF InBounds, Room
<1> QED BY <1>1, <1>2

\* What putc of a character does, spelled out.
LEMMA putcIs ==
    ASSUME NEW s, InBounds(s), NEW c, c # NL
    PROVE  /\ putc(s, c).x = Room(s).x + 1 /\ putc(s, c).y = Room(s).y
           /\ putc(s, c).cell =
                  [i \in PageCells |-> IF i = Pos(Room(s)) THEN c ELSE Room(s).cell[i]]
           /\ Pos(Room(s)) \in PageCells
<1> DEFINE w == Room(s)
           i == NUM_COLS * w.y + w.x
           d == [k \in PageCells |-> IF k = i THEN c ELSE w.cell[k]]
<1>1. InBounds(w) /\ w.x \in 0 .. NUM_COLS - 1
  BY Zenon, RoomKeeps
<1>2. i \in PageCells
  BY Zenon, <1>1, PlaceOnScreen DEF InBounds
<1>3. putc(s, c) = [StoreAt(w, i, c) EXCEPT !.x = w.x + 1]
  BY DEF putc, Room
<1> HIDE DEF w
<1>4. StoreAt(w, i, c) = [x |-> w.x, y |-> w.y, wild |-> FALSE, cell |-> d]
  BY Zenon, <1>1, <1>2 DEF StoreAt, InBounds
<1>5. putc(s, c).x = w.x + 1 /\ putc(s, c).y = w.y /\ putc(s, c).cell = d
  <2> HIDE DEF d, i
  <2> QED BY <1>3, <1>4
<1> QED BY Zenon, <1>2, <1>5 DEF w, Pos

\* Room for the next character moves the line along.
LEMMA RoomLine ==
    ASSUME NEW s, InBounds(s), NEW str, NEW n \in Nat, LineAt(s, str, n),
           n + NUM_COLS <= NUM_COLS * NUM_ROWS
    PROVE  LineAt(Room(s), str, n)
<1> DEFINE N == NUM_COLS * NUM_ROWS
<1>1. /\ NUM_COLS \in Nat \ {0} /\ NUM_ROWS \in Nat \ {0} /\ s.x \in 0 .. NUM_COLS
      /\ s.y \in 0 .. NUM_ROWS - 1 /\ PAGE_CELLS \in Nat /\ N <= PAGE_CELLS /\ N \in Nat
  BY ScreenSizes DEF InBounds
<1>2. CASE ~(s.x >= NUM_COLS)
  BY Zenon, <1>2 DEF Room
<1>3. CASE s.x >= NUM_COLS /\ s.y # NUM_ROWS - 1
  <2>1. Room(s) = [x |-> 0, y |-> s.y + 1, wild |-> FALSE, cell |-> s.cell]
    BY Zenon, <1>3, NextRowIs DEF Room
  <2>2. s.x = NUM_COLS
    BY <1>1, <1>3
  <2>3. Pos(Room(s)) = NUM_COLS * (s.y + 1)
    BY <1>1, <2>1 DEF Pos
  <2>4. Pos(s) = NUM_COLS * s.y + NUM_COLS
    BY <2>2 DEF Pos
  <2>5. NUM_COLS * (s.y + 1) = NUM_COLS * s.y + NUM_COLS
    BY SMTT(30), <1>1
  <2>6. Pos(Room(s)) = Pos(s) /\ Room(s).cell = s.cell
    BY SMTT(30), <2>1, <2>3, <2>4, <2>5
  <2> QED BY Zenon, <2>6 DEF LineAt
<1>4. CASE s.x >= NUM_COLS /\ s.y = NUM_ROWS - 1
  <2>1. Room(s) = [x |-> 0, y |-> s.y, wild |-> FALSE, cell |-> ShiftUp(s.cell)]
    BY Zenon, <1>4, NextRowIs DEF Room
  <2>2. s.x = NUM_COLS
    BY <1>1, <1>4
  <2>3. Pos(s) = NUM_COLS * s.y + NUM_COLS /\ Pos(Room(s)) = NUM_COLS * s.y + 0
    BY <2>1, <2>2 DEF Pos
  <2>4. NUM_COLS * s.y \in Nat /\ NUM_COLS * s.y + NUM_COLS = N
    BY <1>1, <1>4
  <2>5. Pos(s) = N /\ Pos(Room(s)) = N - NUM_COLS /\ Room(s).cell = ShiftUp(s.cell)
    BY SMTT(30), <1>1, <2>1, <2>3, <2>4
  <2> HIDE DEF N
  <2>6. ASSUME NEW k \in 1 .. n
        PROVE  Room(s).cell[Pos(Room(s)) - n + k - 1] = str[k]
    <3> DEFINE i == N - NUM_COLS - n + k - 1
    <3>1. i \in 0 .. PAGE_CELLS - 1 /\ i + NUM_COLS \in 0 .. N - 1
      BY <1>1 DEF N
    <3>2. ShiftUp(s.cell)[i] = s.cell[i + NUM_COLS]
      <4> HIDE DEF i
      <4> QED BY Zenon, <3>1 DEF ShiftUp, PageCells, ScreenCells, N
    <3>3. i + NUM_COLS = Pos(s) - n + k - 1
      BY SMTT(30), <1>1, <2>5
    <3> QED BY Zenon, <2>5, <3>2, <3>3 DEF LineAt
  <2>7. n <= Pos(Room(s))
    BY SMTT(30), <1>1, <2>5 DEF N
  <2> QED BY Zenon, <2>6, <2>7 DEF LineAt
<1> QED BY <1>2, <1>3, <1>4

\* putc of a character puts it behind the line.
LEMMA putcLine ==
    ASSUME NEW s, InBounds(s), NEW str, NEW n \in Nat, LineAt(s, str, n),
           n + NUM_COLS <= NUM_COLS * NUM_ROWS, str[n + 1] # NL
    PROVE  LineAt(putc(s, str[n + 1]), str, n + 1)
<1> DEFINE w == Room(s)
           t == putc(s, str[n + 1])
           P == Pos(w)
<1>1. LineAt(w, str, n) /\ P \in PageCells
  BY Zenon, RoomLine, putcIs
<1>2. /\ t.x = w.x + 1 /\ t.y = w.y
      /\ t.cell = [i \in PageCells |-> IF i = P THEN str[n + 1] ELSE w.cell[i]]
  BY putcIs
<1>3. w.x \in Nat /\ w.y \in Nat /\ NUM_COLS \in Nat
  <2>1. InBounds(w)
    BY Zenon, RoomKeeps
  <2> HIDE DEF w
  <2> QED BY <2>1, ScreenSizes DEF InBounds
<1>4. Pos(t) = P + 1
  <2>1. NUM_COLS * w.y \in Nat
    BY <1>3
  <2> QED BY SMTT(30), <1>2, <1>3, <2>1 DEF Pos
<1>5. n <= P /\ \A k \in 1 .. n : w.cell[P - n + k - 1] = str[k]
  BY <1>1 DEF LineAt
<1>6. P \in 0 .. PAGE_CELLS - 1 /\ PAGE_CELLS \in Nat
  BY Zenon, <1>1, ScreenSizes DEF PageCells
<1> HIDE DEF P, w, t
<1>7. ASSUME NEW k \in 1 .. n + 1 PROVE t.cell[P + 1 - (n + 1) + k - 1] = str[k]
  <2>1. CASE k = n + 1
    <3>1. P + 1 - (n + 1) + k - 1 = P
      BY SMTT(30), <1>6, <2>1
    <3> QED BY Zenon, <1>1, <1>2, <2>1, <3>1
  <2>2. CASE k # n + 1
    <3> DEFINE i == P - n + k - 1
    <3>1. k \in 1 .. n /\ i \in PageCells /\ i # P /\ P + 1 - (n + 1) + k - 1 = i
      BY SMTT(30), <1>5, <1>6, <2>2 DEF PageCells
    <3>2. w.cell[i] = str[k]
      BY Zenon, <1>5, <3>1
    <3> HIDE DEF i
    <3> QED BY Zenon, <1>2, <3>1, <3>2
  <2> QED BY Zenon, <2>1, <2>2
<1> QED BY SMTT(30), <1>4, <1>5, <1>6, <1>7 DEF LineAt, t

\* puts on a clear screen shows the whole string, if it fits.
LEMMA putsLine ==
    ASSUME NEW s, InBounds(s), NEW str, Len(str) \in Nat,
           Len(str) + NUM_COLS <= NUM_COLS * NUM_ROWS + 1,
           \A k \in 1 .. Len(str) : str[k] # NL
    PROVE  LineAt(puts(s, str), str, Len(str))
<1> DEFINE n == Len(str)
           N == NUM_COLS * NUM_ROWS
<1>1. PICK f : /\ f[0] = s /\ f[n] = puts(s, str)
               /\ \A k \in 1 .. n : f[k] = putc(f[k - 1], str[k])
               /\ \A k \in 0 .. n : InBounds(f[k])
  BY putsRuns
<1>2. n \in Nat /\ n + NUM_COLS <= N + 1 /\ N \in Nat /\ NUM_COLS \in Nat
  BY SMTT(30), ScreenSizes
<1> DEFINE S == {k \in 0 .. n : ~LineAt(f[k], str, k)}
<1>3. LineAt(s, str, 0)
  <2>1. s.x \in Nat /\ s.y \in Nat /\ NUM_COLS * s.y \in Nat
    BY SMTT(30), ScreenSizes DEF InBounds
  <2> QED BY SMTT(30), <2>1 DEF LineAt, Pos
<1>4. S = {}
  <2> SUFFICES ASSUME S # {} PROVE FALSE
    OBVIOUS
  <2>1. PICK k \in S : \A y \in S : k =< y
    <3>1. S \subseteq Nat
      BY <1>2
    <3> HIDE DEF S
    <3> QED BY Zenon, <3>1, LeastNatural
  <2>2. k \in 0 .. n /\ ~LineAt(f[k], str, k)
    OBVIOUS
  <2>3. k # 0
    BY <1>1, <1>3, <2>2
  <2> DEFINE m == k - 1
  <2>4. m \in Nat /\ m \in 0 .. n /\ k \in 1 .. n /\ m + 1 = k /\ ~(k =< m)
    BY SMTT(30), <1>2, <2>2, <2>3
  <2>5. LineAt(f[m], str, m) /\ InBounds(f[m])
    BY Zenon, <1>1, <2>1, <2>4
  <2>6. f[k] = putc(f[m], str[k]) /\ str[k] # NL
    BY Zenon, <1>1, <2>4
  <2>7. m + NUM_COLS <= NUM_COLS * NUM_ROWS
    <3> HIDE DEF N
    <3>1. m + NUM_COLS <= N
      BY SMTT(30), <1>2, <2>4
    <3> QED BY Zenon, <3>1 DEF N
  <2> HIDE DEF m, S
  <2>8. LineAt(putc(f[m], str[m + 1]), str, m + 1)
    BY Zenon, <2>4, <2>5, <2>6, <2>7, putcLine
  <2> QED BY Zenon, <2>2, <2>4, <2>6, <2>8
<1>5. LineAt(f[n], str, n)
  BY SMTT(30), <1>2, <1>4
<1> QED BY Zenon, <1>1, <1>5

\* backspace takes the last character of the line off the screen.
LEMMA backspaceLine ==
    ASSUME NEW s, InBounds(s), NEW str, NEW n \in Nat \ {0}, LineAt(s, str, n)
    PROVE  LineAt(backspace(s), str, n - 1)
<1> DEFINE b == IF s.x = 0 /\ s.y > 0 THEN [s EXCEPT !.y = s.y - 1, !.x = NUM_COLS - 1]
                ELSE [s EXCEPT !.x = s.x - 1]
           P == Pos(s) - 1
           t == backspace(s)
<1>1. /\ NUM_COLS \in Nat \ {0} /\ s.x \in 0 .. NUM_COLS /\ s.y \in 0 .. NUM_ROWS - 1
      /\ NUM_COLS * s.y \in Nat /\ NUM_ROWS \in Nat
  BY SMTT(30), ScreenSizes DEF InBounds
<1>2. n <= Pos(s) /\ Pos(s) = NUM_COLS * s.y + s.x
  BY DEF LineAt, Pos
<1>3. ~(s.x = 0 /\ s.y = 0)
  <2> SUFFICES ASSUME s.x = 0, s.y = 0 PROVE FALSE
    OBVIOUS
  <2>1. Pos(s) = 0
    BY SMTT(30), <1>1, <1>2
  <2> QED BY SMTT(30), <1>2, <2>1
<1>4. /\ b.x \in 0 .. NUM_COLS - 1 /\ b.y \in 0 .. NUM_ROWS - 1 /\ b.cell = s.cell
      /\ NUM_COLS * b.y + b.x = P
      /\ b = [x |-> b.x, y |-> b.y, wild |-> s.wild, cell |-> s.cell]
  <2>1. CASE s.x = 0 /\ s.y > 0
    <3>1. b = [x |-> NUM_COLS - 1, y |-> s.y - 1, wild |-> s.wild, cell |-> s.cell]
      BY Zenon, <2>1 DEF InBounds
    <3>2. NUM_COLS * (s.y - 1) + (NUM_COLS - 1) = NUM_COLS * s.y - 1
      BY <1>1
    <3>3. NUM_COLS * (s.y - 1) + (NUM_COLS - 1) = P
      BY <1>1, <1>2, <2>1, <3>2
    <3> HIDE DEF b
    <3> QED BY SMTT(30), <1>1, <2>1, <3>1, <3>3
  <2>2. CASE ~(s.x = 0 /\ s.y > 0)
    <3>1. b = [x |-> s.x - 1, y |-> s.y, wild |-> s.wild, cell |-> s.cell]
      BY Zenon, <2>2 DEF InBounds
    <3>2. s.x > 0
      BY SMTT(30), <1>1, <1>3, <2>2
    <3>3. NUM_COLS * s.y + (s.x - 1) = P
      BY SMTT(30), <1>1, <1>2
    <3> HIDE DEF b
    <3> QED BY <1>1, <3>1, <3>2, <3>3
  <2> QED BY Zenon, <2>1, <2>2
<1>5. t = StoreAt(b, NUM_COLS * b.y + b.x, Blank)
  BY Zenon, <1>3 DEF backspace
<1> HIDE DEF b
<1>6. P \in PageCells
  BY Zenon, <1>4, PlaceOnScreen
<1>7. P \in 0 .. PAGE_CELLS - 1 /\ PAGE_CELLS \in Nat
  BY Zenon, <1>6, ScreenSizes DEF PageCells
<1>8. t = [b EXCEPT !.cell[P] = Blank]
  BY Zenon, <1>4, <1>5, <1>6 DEF StoreAt
<1>9. s.cell = [i \in PageCells |-> s.cell[i]]
  BY DEF InBounds
<1>10. t.x = b.x /\ t.y = b.y /\ \A i \in PageCells : i # P => t.cell[i] = s.cell[i]
  <2> HIDE DEF P, t
  <2> QED BY Zenon, <1>4, <1>8, <1>9
<1>11. Pos(t) = P
  BY Zenon, <1>4, <1>10 DEF Pos
<1>12. ASSUME NEW k \in 1 .. n - 1 PROVE t.cell[P - (n - 1) + k - 1] = str[k]
  <2> DEFINE i == Pos(s) - n + k - 1
  <2>1. s.cell[i] = str[k]
    BY DEF LineAt
  <2>2. Pos(s) \in Int
    BY SMTT(30), <1>1, <1>2
  <2>3. i \in PageCells /\ i # P /\ i = P - (n - 1) + k - 1
    <3> HIDE DEF LineAt
    <3> QED BY SMTT(30), <1>2, <1>7, <2>2 DEF PageCells
  <2> QED BY Zenon, <1>10, <2>1, <2>3
<1>13. n - 1 <= P
  BY SMTT(30), <1>1, <1>2
<1> QED BY Zenon, <1>11, <1>12, <1>13 DEF LineAt

LEMMA InitSInv == EditInit => SInv
<1> SUFFICES ASSUME EditInit PROVE SInv
  OBVIOUS
<1>1. scr = [x |-> 0, y |-> 0, wild |-> FALSE, cell |-> [i \in PageCells |-> Blank]] /\ line = <<>>
  BY DEF EditInit
<1>2. InBounds(scr)
  BY SMTT(30), <1>1, ScreenSizes DEF InBounds
<1> QED BY <1>1, <1>2 DEF SInv

LEMMA StepSInv == SInv /\ [EditNext]_editvars => SInv'
<1> SUFFICES ASSUME SInv, [EditNext]_editvars PROVE SInv'
  OBVIOUS
<1>0. InBounds(scr) /\ line \in Seq(Chars \cup {NUL})
  BY DEF SInv
<1> SUFFICES InBounds(scr') /\ line' \in Seq(Chars \cup {NUL})
  BY DEF SInv, InBounds
<1>1. ASSUME NEW c \in Chars \cup {NL}, ProgramPutc(c)
      PROVE  InBounds(scr') /\ line' \in Seq(Chars \cup {NUL})
  BY Zenon, <1>0, <1>1, putcKeeps DEF ProgramPutc
<1>2. ASSUME NEW c \in Chars \cup DeadKeys, process_key(c)
      PROVE  InBounds(scr') /\ line' \in Seq(Chars \cup {NUL})
  <2>1. InBounds(scr')
    BY Zenon, <1>0, <1>2, putcKeeps DEF process_key
  <2>2. line' = Append(line, c) /\ c \in Chars \cup {NUL}
    BY Zenon, <1>2, EditorAssumption DEF process_key
  <2> QED BY SMTT(30), <1>0, <2>1, <2>2
<1>3. CASE handle_backspace
  <2>1. InBounds(scr')
    BY Zenon, <1>0, <1>3, backspaceKeeps DEF handle_backspace
  <2>2. line # <<>> /\ line' = SubSeq(line, 1, Len(line) - 1)
    BY Zenon, <1>3 DEF handle_backspace, Front
  <2> QED BY SMTT(30), <1>0, <2>1, <2>2
<1>4. CASE handle_enter
  BY SMTT(30), <1>0, <1>4, scrollKeeps DEF handle_enter
<1>5. CASE ctrl_l
  <2>1. scr' = puts(clear(scr), Prompt \o ToNul(line)) /\ line' = line
    BY Zenon, <1>5 DEF ctrl_l
  <2> QED BY Zenon, <2>1, <1>0, clearKeeps, putsKeeps, ShownLine
<1>6. CASE UNCHANGED editvars
  BY Zenon, <1>0, <1>6 DEF editvars
<1> QED BY Zenon, <1>1, <1>2, <1>3, <1>4, <1>5, <1>6 DEF EditNext

LEMMA SInvImplies == SInv => CursorInBounds
BY DEF SInv, InBounds, CursorInBounds

\* For every size of the screen, the page and the line buffer: the cursor stays
\* on the screen, or behind the end of a full row, no output call stores outside
\* the page, and the cells behind the screen are never written.
THEOREM CursorSafe == EditSpec => []CursorInBounds
BY InitSInv, StepSInv, SInvImplies, PTL DEF EditSpec

-----------------------------------------------------------------------------
\* With SInv, what LineShown needs to be inductive.
LineInv ==
    /\ line \in Seq(Chars) /\ Len(line) < BUFFER_SIZE
    /\ typed => LineAt(scr, line, Len(line))

\* Without a '\0' in the line Ctrl+L prints all of it.
LEMMA NoNul ==
    ASSUME NEW str \in Seq(Chars)
    PROVE  ToNul(str) = str
<1>1. {i \in 1 .. Len(str) : str[i] = NUL} = {}
  BY SMTT(30), EditorAssumption
<1> QED BY <1>1 DEF ToNul, SelectInSeq

\* Every step keeps it, while the line is shorter than the screen without one
\* row and no key stores a '\0'.
LEMMA LineStep ==
    ASSUME DeadKeys = {}, BUFFER_SIZE + NUM_COLS <= NUM_COLS * NUM_ROWS,
           SInv, LineInv, [EditNext]_editvars
    PROVE  LineInv'
<1> DEFINE n == Len(line)
<1>1. /\ InBounds(scr) /\ line \in Seq(Chars) /\ n \in Nat /\ n < BUFFER_SIZE
      /\ BUFFER_SIZE \in Nat \ {0} /\ NUM_COLS \in Nat
      /\ \A k \in 1 .. n : line[k] \in Chars
  BY SMTT(30), EditorAssumption, ScreenSizes DEF SInv, LineInv
<1>2. NUM_COLS * NUM_ROWS \in Nat
  BY ScreenSizes
<1>3. n + NUM_COLS <= NUM_COLS * NUM_ROWS /\ (n + 1) + NUM_COLS <= NUM_COLS * NUM_ROWS + 1
  BY SMTT(30), <1>1, <1>2
<1>4. ASSUME NEW u, InBounds(u), NEW str PROVE LineAt(u, str, 0)
  <2>1. u.x \in Nat /\ u.y \in Nat /\ NUM_COLS * u.y \in Nat
    BY SMTT(30), <1>4, ScreenSizes DEF InBounds
  <2> QED BY <2>1 DEF LineAt, Pos
<1>5. ASSUME NEW c \in Chars \cup {NL}, ProgramPutc(c) PROVE LineInv'
  <2>1. line' = line /\ typed' = (line = <<>>) /\ scr' = putc(scr, c)
    BY <1>5 DEF ProgramPutc
  <2>2. line = <<>> => LineAt(scr', line', Len(line'))
    <3> SUFFICES ASSUME line = <<>> PROVE LineAt(scr', line', 0)
      BY <2>1
    <3>1. InBounds(scr')
      BY <1>1, <2>1, putcKeeps
    <3> QED BY <1>4, <3>1
  <2> QED BY Zenon, <1>1, <2>1, <2>2 DEF LineInv, LineAt, Pos
<1>6. ASSUME NEW c \in Chars \cup DeadKeys, process_key(c) PROVE LineInv'
  <2>1. /\ line' = Append(line, c) /\ scr' = putc(scr, c) /\ typed' = typed
        /\ n + 1 < BUFFER_SIZE /\ c \in Chars /\ c # NL
    BY Zenon, <1>6, CharsAssumption DEF process_key
  <2>2. /\ line' \in Seq(Chars) /\ Len(line') = n + 1 /\ line'[n + 1] = c
        /\ \A k \in 1 .. n : line'[k] = line[k]
    BY SMTT(30), <1>1, <2>1
  <2>3. ASSUME typed PROVE LineAt(scr', line', n + 1)
    <3>1. LineAt(scr, line, n)
      BY <2>3 DEF LineInv
    <3>2. LineAt(scr, line', n)
      BY <2>2, <3>1 DEF LineAt
    <3> QED BY Zenon, <1>1, <1>3, <2>1, <2>2, <3>2, putcLine
  <2> QED BY Zenon, <2>1, <2>2, <2>3 DEF LineInv, LineAt, Pos
<1>7. CASE handle_backspace
  <2>1. /\ line # <<>> /\ line' = SubSeq(line, 1, n - 1) /\ typed' = typed
        /\ scr' = backspace(scr)
    BY <1>7 DEF handle_backspace, Front
  <2>2. n # 0 /\ n - 1 \in Nat
    BY SMTT(30), <1>1, <2>1
  <2>3. /\ line' \in Seq(Chars) /\ Len(line') = n - 1
        /\ \A k \in 1 .. n - 1 : line'[k] = line[k]
    <3> DEFINE m == n - 1
    <3>1. m \in Nat /\ m <= Len(line)
      BY SMTT(30), <1>1, <2>2
    <3> HIDE DEF m
    <3>2. SubSeq(line, 1, m) \in Seq(Chars) /\ Len(SubSeq(line, 1, m)) = m
      BY SMTT(30), <1>1, <3>1
    <3>3. \A k \in 1 .. m : SubSeq(line, 1, m)[k] = line[k]
      BY SMTT(30), <1>1, <3>1
    <3> QED BY Zenon, <2>1, <3>2, <3>3 DEF m
  <2>4. ASSUME typed PROVE LineAt(scr', line', n - 1)
    <3>1. LineAt(scr, line, n)
      BY Zenon, <2>4 DEF LineInv
    <3>2. LineAt(scr', line, n - 1)
      BY Zenon, <1>1, <2>1, <2>2, <3>1, backspaceLine
    <3> QED BY Zenon, <2>3, <3>2 DEF LineAt
  <2> QED BY SMTT(30), <1>1, <2>1, <2>2, <2>3, <2>4 DEF LineInv, LineAt, Pos
<1>8. CASE handle_enter
  <2>1. line' = <<>> /\ scr' = scroll(scr) /\ InBounds(scroll(scr))
    BY Zenon, <1>1, <1>8, scrollKeeps DEF handle_enter
  <2>2. LineAt(scr', line', 0)
    BY Zenon, <1>4, <2>1
  <2>3. line' \in Seq(Chars) /\ Len(line') = 0
    BY SMTT(30), <2>1
  <2> QED BY SMTT(30), <1>1, <2>2, <2>3 DEF LineInv, LineAt, Pos
<1>9. CASE ctrl_l
  <2> DEFINE out == Prompt \o line
  <2>1. line' = line /\ scr' = puts(clear(scr), out)
    BY Zenon, <1>1, <1>9, NoNul DEF ctrl_l
  <2>2. /\ Len(out) = n + 1 /\ \A k \in 1 .. n : out[k + 1] = line[k]
        /\ \A k \in 1 .. n + 1 : out[k] # NL
    <3>1. Prompt = <<"$">> /\ Prompt \in Seq({"$"}) /\ Len(Prompt) = 1 /\ Prompt[1] # NL
      BY DEF Prompt, NL
    <3>2. Len(out) = n + 1 /\ out[1] = Prompt[1] /\ \A k \in 1 .. n : out[k + 1] = line[k]
      <4> HIDE DEF Prompt
      <4> QED BY SMTT(30), <1>1, <3>1
    <3>3. \A k \in 1 .. n : line[k] # NL
      BY Zenon, <1>1, CharsAssumption
    <3>4. ASSUME NEW k \in 1 .. n + 1 PROVE out[k] # NL
      <4>1. CASE k = 1
        BY <3>1, <3>2, <4>1
      <4>2. CASE k # 1
        <5>1. k - 1 \in 1 .. n /\ (k - 1) + 1 = k
          BY <1>1, <4>2
        <5> HIDE DEF out
        <5> QED BY Zenon, <3>2, <3>3, <5>1
      <4> QED BY Zenon, <4>1, <4>2
    <3> QED BY Zenon, <3>2, <3>4
  <2> HIDE DEF out
  <2>3. LineAt(scr', out, n + 1)
    <3>1. InBounds(clear(scr))
      BY <1>1, clearKeeps
    <3>2. /\ Len(out) \in Nat /\ Len(out) + NUM_COLS <= NUM_COLS * NUM_ROWS + 1
          /\ \A k \in 1 .. Len(out) : out[k] # NL
      BY SMTT(30), <1>1, <1>3, <2>2
    <3>3. LineAt(puts(clear(scr), out), out, Len(out))
      BY Zenon, <3>1, <3>2, putsLine
    <3> QED BY <2>1, <2>2, <3>3
  <2>4. LineAt(scr', line, n)
    <3> DEFINE P == Pos(scr')
    <3>1. InBounds(scr')
      BY SMTT(30), <1>1, <2>1, <2>2, clearKeeps, putsKeeps
    <3>2. P \in Nat
      BY SMTT(30), <3>1, ScreenSizes DEF InBounds, Pos
    <3>3. n + 1 <= P /\ \A k \in 1 .. n + 1 : scr'.cell[P - (n + 1) + k - 1] = out[k]
      BY Zenon, <2>3 DEF LineAt
    <3> HIDE DEF P
    <3>4. ASSUME NEW k \in 1 .. n PROVE scr'.cell[P - n + k - 1] = line[k]
      <4>1. k + 1 \in 1 .. n + 1 /\ P - (n + 1) + (k + 1) - 1 = P - n + k - 1
        BY SMTT(30), <1>1, <3>2
      <4>2. scr'.cell[P - (n + 1) + (k + 1) - 1] = out[k + 1]
        BY Zenon, <3>3, <4>1
      <4> QED BY Zenon, <2>2, <4>1, <4>2
    <3>5. n <= P
      BY SMTT(30), <1>1, <3>2, <3>3
    <3> QED BY Zenon, <3>4, <3>5 DEF LineAt, P
  <2> QED BY Zenon, <1>1, <2>1, <2>4 DEF LineInv, LineAt, Pos
<1>10. CASE UNCHANGED editvars
  BY Zenon, <1>10 DEF editvars, LineInv, LineAt, Pos
<1> QED BY Zenon, <1>5, <1>6, <1>7, <1>8, <1>9, <1>10 DEF EditNext

\* The line in front of the cursor is the one Enter will submit, for every size
\* of the screen that holds the longest line with a row to spare (128 characters
\* on 80 * 25 in the code) and without dead keys, whose '\0' Ctrl+L stops at.
THEOREM LineSafe ==
    ASSUME DeadKeys = {}, BUFFER_SIZE + NUM_COLS <= NUM_COLS * NUM_ROWS
    PROVE  EditSpec => []LineShown
<1>1. EditInit => LineInv
  <2> SUFFICES ASSUME EditInit PROVE LineInv
    OBVIOUS
  <2>1. line = <<>> /\ scr.x = 0 /\ scr.y = 0
    BY DEF EditInit
  <2>2. LineAt(scr, line, 0)
    BY SMTT(30), <2>1, ScreenSizes DEF LineAt, Pos
  <2> QED BY SMTT(30), <2>1, <2>2, EditorAssumption DEF LineInv
<1>2. LineInv => LineShown
  BY DEF LineInv, LineShown, LineAt, Pos
<1> QED BY InitSInv, StepSInv, LineStep, <1>1, <1>2, PTL DEF EditSpec

-----------------------------------------------------------------------------
(* The layout of a text. *)

Pens == [row : Nat, col : 0 .. NUM_COLS]

\* One step of Place: where the pen is after character c.
PenStep(p, c) ==
    IF c = NL THEN [row |-> p.row + 1, col |-> 0]
    ELSE IF p.col = NUM_COLS THEN [row |-> p.row + 1, col |-> 1]
    ELSE [row |-> p.row, col |-> p.col + 1]

\* f is the walk of the pen over the first n characters of str.
Walk(f, str, n) ==
    f = [k \in 0 .. n |->
            IF k = 0 THEN [row |-> 0, col |-> 0] ELSE PenStep(f[k - 1], str[k])]

LEMMA WalkExists ==
    ASSUME NEW str, NEW n \in Nat
    PROVE  \E f : Walk(f, str, n)
<1> DEFINE S == {m \in Nat : ~\E f : Walk(f, str, m)}
<1> SUFFICES ASSUME S # {} PROVE FALSE
  OBVIOUS
<1>1. PICK m \in S : \A y \in S : m =< y
  <2>1. S \subseteq Nat
    OBVIOUS
  <2> HIDE DEF S
  <2> QED BY Zenon, <2>1, LeastNatural
<1> DEFINE start == [row |-> 0, col |-> 0]
<1> HIDE DEF start
<1>2. CASE m = 0
  <2> DEFINE f == [k \in 0 .. 0 |-> start]
  <2>1. f = [k \in 0 .. 0 |-> IF k = 0 THEN start ELSE PenStep(f[k - 1], str[k])]
    OBVIOUS
  <2>2. Walk(f, str, 0)
    BY Zenon, <2>1 DEF Walk, start
  <2> QED BY Zenon, <2>2, <1>2
<1>3. CASE m # 0
  <2>1. m - 1 \in Nat /\ m - 1 \notin S
    <3>1. m \in Nat
      OBVIOUS
    <3>2. m - 1 \in Nat /\ ~(m =< m - 1)
      BY SMTT(30), <3>1, <1>3
    <3> HIDE DEF S
    <3> QED BY <3>2, <1>1
  <2>2. PICK g : Walk(g, str, m - 1)
    BY <2>1
  <2>3. m \in Nat \ {0}
    BY <1>3
  <2> DEFINE f == [k \in 0 .. m |-> IF k = m THEN PenStep(g[m - 1], str[m]) ELSE g[k]]
  <2>4. \A k \in 0 .. m : f[k] = IF k = 0 THEN start ELSE PenStep(f[k - 1], str[k])
    <3>1. \A k \in 0 .. m - 1 : g[k] = IF k = 0 THEN start ELSE PenStep(g[k - 1], str[k])
      BY Zenon, <2>2, <2>3 DEF Walk, start
    <3>2. \A k \in 0 .. m - 1 : f[k] = g[k]
      BY SMTT(30), <2>3
    <3>3. f[m] = PenStep(g[m - 1], str[m])
      BY SMTT(30), <2>3
    <3> HIDE DEF f
    <3>4. ASSUME NEW k \in 0 .. m
          PROVE f[k] = IF k = 0 THEN start ELSE PenStep(f[k - 1], str[k])
      <4>1. CASE k = m
        BY SMTT(30), <4>1, <3>2, <3>3, <2>3
      <4>2. CASE k = 0
        BY SMTT(30), <4>2, <3>1, <3>2, <2>3
      <4>3. CASE k # m /\ k # 0
        <5>1. k \in 0 .. m - 1 /\ k - 1 \in 0 .. m - 1
          BY SMTT(30), <4>3, <2>3
        <5> QED BY Zenon, <5>1, <4>3, <3>1, <3>2
      <4> QED BY Zenon, <4>1, <4>2, <4>3
    <3> QED BY Zenon, <3>4
  <2>5. f = [k \in 0 .. m |-> f[k]]
    OBVIOUS
  <2> HIDE DEF f
  <2>6. Walk(f, str, m)
    BY Zenon, <2>4, <2>5 DEF Walk, start
  <2> QED BY Zenon, <2>6
<1> QED BY Zenon, <1>2, <1>3

\* Place(str) is that walk, and every stop of it is a place of the sheet.
LEMMA PlaceWalks ==
    ASSUME NEW str, Len(str) \in Nat
    PROVE  /\ Place(str)[0] = [row |-> 0, col |-> 0]
           /\ \A k \in 1 .. Len(str) :
                  Place(str)[k] = PenStep(Place(str)[k - 1], str[k])
           /\ \A k \in 0 .. Len(str) : Place(str)[k] \in Pens
<1> DEFINE n == Len(str)
           f == CHOOSE g : Walk(g, str, n)
           S == {k \in 0 .. n : f[k] \notin Pens}
<1>1. Place(str) = f
  BY DEF Place, Walk, PenStep
<1>2. Walk(f, str, n)
  <2> HIDE DEF n
  <2> QED BY WalkExists DEF n
<1> HIDE DEF f
<1>3. \A k \in 0 .. n :
          f[k] = IF k = 0 THEN [row |-> 0, col |-> 0] ELSE PenStep(f[k - 1], str[k])
  BY Zenon, <1>2 DEF Walk
<1>4. f[0] = [row |-> 0, col |-> 0] /\ \A k \in 1 .. n : f[k] = PenStep(f[k - 1], str[k])
  BY SMTT(30), <1>3
<1>5. S = {}
  <2> SUFFICES ASSUME S # {} PROVE FALSE
    OBVIOUS
  <2>1. PICK k \in S : \A y \in S : k =< y
    <3>1. S \subseteq Nat
      OBVIOUS
    <3> HIDE DEF S
    <3> QED BY Zenon, <3>1, LeastNatural
  <2>2. k \in 0 .. n /\ f[k] \notin Pens
    OBVIOUS
  <2>3. k # 0
    BY <1>4, <2>2, ScreenSizes DEF Pens
  <2>4. k \in 1 .. n /\ k - 1 \in 0 .. n /\ ~(k =< k - 1)
    BY SMTT(30), <2>2, <2>3
  <2>5. f[k - 1] \in Pens
    BY Zenon, <2>1, <2>4
  <2>6. PenStep(f[k - 1], str[k]) \in Pens
    BY SMTT(30), <2>5, ScreenSizes DEF PenStep, Pens
  <2> QED BY Zenon, <1>4, <2>2, <2>4, <2>6
<1> QED BY <1>1, <1>4, <1>5

\* The first stops of the walk depend on the first characters only.
LEMMA PlacePrefix ==
    ASSUME NEW a, NEW b, Len(a) \in Nat, Len(b) \in Nat, Len(a) <= Len(b),
           \A k \in 1 .. Len(a) : a[k] = b[k]
    PROVE  \A k \in 0 .. Len(a) : Place(a)[k] = Place(b)[k]
<1> DEFINE n == Len(a)
           f == Place(a)
           g == Place(b)
           S == {k \in 0 .. n : f[k] # g[k]}
<1>1. /\ f[0] = [row |-> 0, col |-> 0] /\ \A k \in 1 .. n : f[k] = PenStep(f[k - 1], a[k])
      /\ g[0] = [row |-> 0, col |-> 0] /\ \A k \in 1 .. n : g[k] = PenStep(g[k - 1], b[k])
  <2>1. \A k \in 1 .. n : k \in 1 .. Len(b)
    OBVIOUS
  <2> QED BY <2>1, PlaceWalks
<1> HIDE DEF f, g
<1>2. S = {}
  <2> SUFFICES ASSUME S # {} PROVE FALSE
    OBVIOUS
  <2>1. PICK k \in S : \A y \in S : k =< y
    <3>1. S \subseteq Nat
      OBVIOUS
    <3> HIDE DEF S
    <3> QED BY Zenon, <3>1, LeastNatural
  <2>2. k \in 0 .. n /\ f[k] # g[k]
    OBVIOUS
  <2>3. k # 0
    BY <1>1, <2>2
  <2>4. k \in 1 .. n /\ k - 1 \in 0 .. n /\ ~(k =< k - 1)
    BY SMTT(30), <2>2, <2>3
  <2>5. f[k - 1] = g[k - 1]
    BY Zenon, <2>1, <2>4
  <2> QED BY Zenon, <1>1, <2>2, <2>4, <2>5
<1> QED BY <1>2 DEF f, g

\* The first row of the sheet that is on the screen when the pen is in row R.
Top(R) == IF R < NUM_ROWS THEN 0 ELSE R - NUM_ROWS + 1

\* Character k of str is the one at column c of row r of the screen.
Shows(str, pen, k, R, r, c) ==
    str[k] # NL /\ pen[k].row = Top(R) + r /\ pen[k].col = c + 1

\* The cell there holds the character that belongs there, or is blank.
CellLaid(s, str, pen, n, R, r, c) ==
    /\ \A k \in 1 .. n : Shows(str, pen, k, R, r, c) => s.cell[NUM_COLS * r + c] = str[k]
    /\ (\A k \in 1 .. n : ~Shows(str, pen, k, R, r, c)) => s.cell[NUM_COLS * r + c] = Blank

\* The screen shows the first n characters of str where the walk pen puts them,
\* and nothing else; the cursor is at row R and column C of the sheet, which no
\* character is behind.
LaidAt(s, str, pen, n, R, C) ==
    /\ s.x = C /\ s.y = R - Top(R)
    /\ \A k \in 1 .. n : pen[k].row < R \/ (pen[k].row = R /\ pen[k].col <= C)
    /\ \A r \in 0 .. NUM_ROWS - 1, c \in 0 .. NUM_COLS - 1 : CellLaid(s, str, pen, n, R, r, c)

\* Two places of the screen are two cells.
LEMMA PlacesApart ==
    ASSUME NEW r \in 0 .. NUM_ROWS - 1, NEW c \in 0 .. NUM_COLS - 1,
           NEW q \in 0 .. NUM_ROWS - 1, NEW d \in 0 .. NUM_COLS - 1,
           NUM_COLS * r + c = NUM_COLS * q + d
    PROVE  r = q /\ c = d
<1>1. NUM_COLS \in Nat \ {0} /\ NUM_ROWS \in Nat
  BY ScreenSizes
<1>2. r \in Nat /\ c \in Nat /\ q \in Nat /\ d \in Nat /\ c < NUM_COLS /\ d < NUM_COLS
  BY SMTT(30), <1>1
<1>3. ASSUME NEW u \in Nat, NEW v \in Nat, u < v PROVE NUM_COLS * u + NUM_COLS <= NUM_COLS * v
  <2>1. v - u - 1 \in Nat
    BY SMTT(30), <1>3
  <2>2. NUM_COLS * (v - u - 1) \in Nat
    BY SMTT(30), <1>1, <2>1
  <2>3. NUM_COLS * v = NUM_COLS * u + NUM_COLS + NUM_COLS * (v - u - 1)
    BY <1>1
  <2>4. NUM_COLS * u \in Nat /\ NUM_COLS * v \in Nat
    BY SMTT(30), <1>1
  <2> QED BY SMTT(30), <1>1, <2>2, <2>3, <2>4
<1>4. NUM_COLS * r \in Nat /\ NUM_COLS * q \in Nat
  BY SMTT(30), <1>1, <1>2
<1>5. ~(r < q)
  <2> SUFFICES ASSUME r < q PROVE FALSE
    OBVIOUS
  <2>1. NUM_COLS * r + NUM_COLS <= NUM_COLS * q
    BY Zenon, <1>2, <1>3
  <2> QED BY SMTT(30), <1>1, <1>2, <1>4, <2>1
<1>6. ~(q < r)
  <2> SUFFICES ASSUME q < r PROVE FALSE
    OBVIOUS
  <2>1. NUM_COLS * q + NUM_COLS <= NUM_COLS * r
    BY Zenon, <1>2, <1>3
  <2> QED BY SMTT(30), <1>1, <1>2, <1>4, <2>1
<1>7. r = q
  BY SMTT(30), <1>2, <1>5, <1>6
<1> QED BY SMTT(30), <1>2, <1>4, <1>7

\* Where the rows go when the screen moves up.
LEMMA ShiftUpRows ==
    ASSUME NEW cell, NEW r \in 0 .. NUM_ROWS - 1, NEW c \in 0 .. NUM_COLS - 1
    PROVE  ShiftUp(cell)[NUM_COLS * r + c] =
               IF r = NUM_ROWS - 1 THEN Blank ELSE cell[NUM_COLS * (r + 1) + c]
<1> DEFINE i == NUM_COLS * r + c
           j == NUM_COLS * (r + 1) + c
           N == NUM_COLS * NUM_ROWS
<1>1. NUM_COLS \in Nat \ {0} /\ NUM_ROWS \in Nat \ {0} /\ N \in Nat
  BY SMTT(30), ScreenSizes
<1>2. i \in ScreenCells /\ i \in PageCells
  BY Zenon, PlaceOnScreen
<1>3. i \in Nat /\ i + NUM_COLS = j
  BY SMTT(30), <1>1
<1>4. CASE r = NUM_ROWS - 1
  <2>1. j = N + c
    BY SMTT(30), <1>1, <1>4
  <2>2. i + NUM_COLS \notin ScreenCells
    <3> HIDE DEF j, N
    <3>1. i + NUM_COLS = N + c /\ c \in Nat
      BY SMTT(30), <1>1, <1>3, <2>1
    <3>2. ScreenCells = 0 .. N - 1
      BY DEF ScreenCells, N
    <3> HIDE DEF i
    <3> QED BY SMTT(30), <1>1, <3>1, <3>2
  <2> HIDE DEF i
  <2> QED BY Zenon, <1>2, <1>4, <2>2 DEF ShiftUp, i
<1>5. CASE r # NUM_ROWS - 1
  <2>1. r + 1 \in 0 .. NUM_ROWS - 1
    BY SMTT(30), <1>1, <1>5
  <2>2. j \in ScreenCells
    BY Zenon, <2>1, PlaceOnScreen
  <2> HIDE DEF i, j
  <2>3. ShiftUp(cell)[i] = cell[j]
    BY Zenon, <1>2, <1>3, <2>2 DEF ShiftUp
  <2> QED BY Zenon, <1>5, <2>3 DEF i, j
<1> QED BY Zenon, <1>4, <1>5

\* The step to the next row moves the pen to the next row of the sheet.
LEMMA NextRowLaid ==
    ASSUME NEW s, InBounds(s), NEW str, NEW pen, NEW n \in Nat,
           \A k \in 1 .. n : pen[k] \in Pens,
           NEW R \in Nat, NEW C \in 0 .. NUM_COLS, LaidAt(s, str, pen, n, R, C)
    PROVE  LaidAt(NextRow(s), str, pen, n, R + 1, 0)
<1> DEFINE t == NextRow(s)
<1>1. /\ t = [x |-> 0, y |-> IF s.y = NUM_ROWS - 1 THEN s.y ELSE s.y + 1, wild |-> FALSE,
              cell |-> IF s.y = NUM_ROWS - 1 THEN ShiftUp(s.cell) ELSE s.cell]
  BY Zenon, NextRowIs
<1>2. /\ NUM_ROWS \in Nat \ {0} /\ NUM_COLS \in Nat \ {0}
      /\ \A k \in 1 .. n : pen[k].row \in Nat /\ pen[k].col \in 0 .. NUM_COLS
  BY Zenon, ScreenSizes DEF Pens
<1>3. /\ s.y = R - Top(R) /\ Top(R) \in Nat
      /\ \A k \in 1 .. n : pen[k].row < R + 1
  BY <1>2 DEF LaidAt, Top
<1> HIDE DEF t
<1>4. CASE s.y = NUM_ROWS - 1
  <2>1. Top(R + 1) = Top(R) + 1 /\ R - Top(R) = NUM_ROWS - 1
    BY SMTT(30), <1>2, <1>3, <1>4 DEF Top
  <2>2. t.x = 0 /\ t.y = s.y /\ t.cell = ShiftUp(s.cell)
    BY Zenon, <1>1, <1>4
  <2>3. t.y = (R + 1) - Top(R + 1)
    BY SMTT(30), <1>3, <2>1, <2>2
  <2>4. ASSUME NEW r \in 0 .. NUM_ROWS - 1, NEW c \in 0 .. NUM_COLS - 1
        PROVE  CellLaid(t, str, pen, n, R + 1, r, c)
    <3>1. CASE r = NUM_ROWS - 1
      <4>1. t.cell[NUM_COLS * r + c] = Blank
        BY SMTT(30), <2>2, <3>1, ShiftUpRows
      <4>2. \A k \in 1 .. n : ~Shows(str, pen, k, R + 1, r, c)
        BY SMTT(30), <1>2, <1>3, <2>1, <3>1 DEF Shows
      <4> QED BY Zenon, <4>1, <4>2 DEF CellLaid
    <3>2. CASE r # NUM_ROWS - 1
      <4> DEFINE q == r + 1
      <4>1. q \in 0 .. NUM_ROWS - 1 /\ Top(R + 1) + r = Top(R) + q
        BY SMTT(30), <1>2, <1>3, <2>1, <3>2
      <4>2. t.cell[NUM_COLS * r + c] = s.cell[NUM_COLS * q + c]
        BY SMTT(30), <2>2, <3>2, ShiftUpRows
      <4>3. \A k \in 1 .. n : Shows(str, pen, k, R + 1, r, c) <=> Shows(str, pen, k, R, q, c)
        BY Zenon, <4>1 DEF Shows
      <4> HIDE DEF q
      <4>4. CellLaid(s, str, pen, n, R, q, c)
        BY Zenon, <4>1 DEF LaidAt
      <4> QED BY Zenon, <4>2, <4>3, <4>4 DEF CellLaid
    <3> QED BY Zenon, <3>1, <3>2
  <2>5. LaidAt(t, str, pen, n, R + 1, 0)
    BY Zenon, <1>3, <2>2, <2>3, <2>4 DEF LaidAt
  <2> QED BY Zenon, <2>5 DEF t
<1>5. CASE s.y # NUM_ROWS - 1
  <2>1. Top(R + 1) = Top(R)
    BY SMTT(30), <1>2, <1>3, <1>5 DEF Top, InBounds
  <2>2. t.x = 0 /\ t.y = s.y + 1 /\ t.cell = s.cell
    BY Zenon, <1>1, <1>5
  <2>3. t.y = (R + 1) - Top(R + 1)
    BY SMTT(30), <1>3, <2>1, <2>2
  <2>4. \A k, r, c : Shows(str, pen, k, R + 1, r, c) <=> Shows(str, pen, k, R, r, c)
    BY Zenon, <2>1 DEF Shows
  <2>5. ASSUME NEW r \in 0 .. NUM_ROWS - 1, NEW c \in 0 .. NUM_COLS - 1
        PROVE  CellLaid(t, str, pen, n, R + 1, r, c)
    <3>1. CellLaid(s, str, pen, n, R, r, c)
      BY Zenon DEF LaidAt
    <3> QED BY Zenon, <2>2, <2>4, <3>1 DEF CellLaid
  <2>6. LaidAt(t, str, pen, n, R + 1, 0)
    BY Zenon, <1>3, <2>2, <2>3, <2>5 DEF LaidAt
  <2> QED BY <2>6 DEF t
<1> QED BY Zenon, <1>4, <1>5

\* A character stored at the cursor is the next one of the sheet.
LEMMA StoreLaid ==
    ASSUME NEW w, InBounds(w), w.x \in 0 .. NUM_COLS - 1, NEW str, NEW pen, NEW n \in Nat,
           \A k \in 1 .. n + 1 : pen[k] \in Pens,
           NEW R \in Nat, LaidAt(w, str, pen, n, R, w.x),
           str[n + 1] # NL, pen[n + 1].row = R, pen[n + 1].col = w.x + 1,
           NEW t, t.x = w.x + 1, t.y = w.y,
           t.cell = [i \in PageCells |-> IF i = Pos(w) THEN str[n + 1] ELSE w.cell[i]]
    PROVE  LaidAt(t, str, pen, n + 1, R, w.x + 1)
<1> DEFINE C == w.x
<1>1. /\ NUM_ROWS \in Nat \ {0} /\ NUM_COLS \in Nat \ {0} /\ C \in 0 .. NUM_COLS - 1
      /\ w.y \in 0 .. NUM_ROWS - 1 /\ w.y = R - Top(R) /\ Top(R) \in Nat
      /\ \A k \in 1 .. n : pen[k].row \in Nat /\ pen[k].col \in 0 .. NUM_COLS
  BY SMTT(30), ScreenSizes DEF Pens, InBounds, LaidAt, Top
<1>2. \A k \in 1 .. n : pen[k].row < R \/ (pen[k].row = R /\ pen[k].col <= C)
  BY DEF LaidAt
<1>3. Pos(w) = NUM_COLS * w.y + C
  BY Zenon DEF Pos
<1> HIDE DEF C
<1>4. ASSUME NEW k \in 1 .. n + 1
      PROVE  pen[k].row < R \/ (pen[k].row = R /\ pen[k].col <= C + 1)
  <2>1. CASE k = n + 1
    BY SMTT(30), <1>1, <2>1 DEF C
  <2>2. CASE k # n + 1
    <3>1. k \in 1 .. n
      BY SMTT(30), <2>2
    <3> QED BY SMTT(30), <1>1, <1>2, <3>1
  <2> QED BY Zenon, <2>1, <2>2
<1>5. ASSUME NEW r \in 0 .. NUM_ROWS - 1, NEW c \in 0 .. NUM_COLS - 1
      PROVE  CellLaid(t, str, pen, n + 1, R, r, c)
  <2> DEFINE i == NUM_COLS * r + c
  <2>1. i \in PageCells
    BY Zenon, PlaceOnScreen
  <2>2. CASE r = w.y /\ c = C
    <3>1. t.cell[i] = str[n + 1]
      BY Zenon, <1>3, <2>1, <2>2
    <3>2. Shows(str, pen, n + 1, R, r, c)
      BY SMTT(30), <1>1, <2>2 DEF Shows, C
    <3>3. \A k \in 1 .. n : ~Shows(str, pen, k, R, r, c)
      BY SMTT(30), <1>1, <1>2, <2>2 DEF Shows
    <3>4. \A k \in 1 .. n + 1 : k \in 1 .. n \/ k = n + 1
      OBVIOUS
    <3>5. n + 1 \in 1 .. n + 1
      OBVIOUS
    <3> QED BY Zenon, <3>1, <3>2, <3>3, <3>4, <3>5 DEF CellLaid
  <2>3. CASE ~(r = w.y /\ c = C)
    <3>1. i # Pos(w)
      <4> SUFFICES ASSUME i = Pos(w) PROVE FALSE
        OBVIOUS
      <4>1. NUM_COLS * r + c = NUM_COLS * w.y + C
        BY Zenon, <1>3
      <4>2. r = w.y /\ c = C
        <5>1. w.y \in 0 .. NUM_ROWS - 1 /\ C \in 0 .. NUM_COLS - 1
          BY Zenon, <1>1
        <5> HIDE DEF i
        <5>2. \A q \in 0 .. NUM_ROWS - 1, d \in 0 .. NUM_COLS - 1 :
                  NUM_COLS * r + c = NUM_COLS * q + d => r = q /\ c = d
          BY Zenon, PlacesApart
        <5> QED BY Zenon, <4>1, <5>1, <5>2
      <4> QED BY Zenon, <2>3, <4>2
    <3>2. t.cell[i] = w.cell[i]
      BY Zenon, <2>1, <3>1
    <3>3. ~Shows(str, pen, n + 1, R, r, c)
      <4>1. (R = Top(R) + r => r = w.y) /\ (C + 1 = c + 1 => c = C)
        BY SMTT(30), <1>1
      <4> QED BY Zenon, <2>3, <4>1 DEF Shows, C
    <3>4. \A k \in 1 .. n + 1 : k \in 1 .. n \/ k = n + 1
      OBVIOUS
    <3>5. \A k \in 1 .. n : k \in 1 .. n + 1
      OBVIOUS
    <3>6. /\ \A k \in 1 .. n : Shows(str, pen, k, R, r, c) => w.cell[i] = str[k]
          /\ (\A k \in 1 .. n : ~Shows(str, pen, k, R, r, c)) => w.cell[i] = Blank
      <4>1. CellLaid(w, str, pen, n, R, r, c)
        BY Zenon DEF LaidAt
      <4> QED BY Zenon, <4>1 DEF CellLaid
    <3> HIDE DEF i
    <3>7. /\ \A k \in 1 .. n + 1 : Shows(str, pen, k, R, r, c) => t.cell[i] = str[k]
          /\ (\A k \in 1 .. n + 1 : ~Shows(str, pen, k, R, r, c)) => t.cell[i] = Blank
      BY Zenon, <3>2, <3>3, <3>4, <3>5, <3>6
    <3> QED BY Zenon, <3>7 DEF i, CellLaid
  <2> QED BY Zenon, <2>2, <2>3
<1> QED BY Zenon, <1>1, <1>4, <1>5 DEF LaidAt, C

\* The screen shows the first n characters of str, the cursor behind them.
Laid(s, str, pen, n) == LaidAt(s, str, pen, n, pen[n].row, pen[n].col)

\* putc of the next character continues the layout.
LEMMA putcLaid ==
    ASSUME NEW s, InBounds(s), NEW str, NEW pen, NEW n \in Nat,
           \A k \in 0 .. n + 1 : pen[k] \in Pens, Laid(s, str, pen, n),
           pen[n + 1] = PenStep(pen[n], str[n + 1])
    PROVE  Laid(putc(s, str[n + 1]), str, pen, n + 1)
<1> DEFINE R == pen[n].row
           C == pen[n].col
<1>1. /\ R \in Nat /\ C \in 0 .. NUM_COLS /\ NUM_COLS \in Nat \ {0}
      /\ \A k \in 1 .. n : pen[k] \in Pens
      /\ \A k \in 1 .. n + 1 : pen[k] \in Pens
  BY SMTT(30), ScreenSizes DEF Pens
<1>2. LaidAt(s, str, pen, n, R, C) /\ s.x = C
  BY Zenon DEF Laid, LaidAt
<1>3. CASE str[n + 1] = NL
  <2>1. pen[n + 1].row = R + 1 /\ pen[n + 1].col = 0
    BY <1>3 DEF PenStep
  <2>2. putc(s, str[n + 1]) = NextRow(s)
    BY Zenon, <1>3 DEF putc
  <2> HIDE DEF R, C
  <2>3. LaidAt(NextRow(s), str, pen, n, R + 1, 0)
    BY Zenon, <1>1, <1>2, NextRowLaid
  <2>4. \A k \in 1 .. n + 1 : k \in 1 .. n \/ k = n + 1
    OBVIOUS
  <2>5. \A k \in 1 .. n : k \in 1 .. n + 1
    OBVIOUS
  <2>6. \A q, r, c : ~Shows(str, pen, n + 1, q, r, c)
    BY Zenon, <1>3 DEF Shows
  <2>7. LaidAt(NextRow(s), str, pen, n + 1, R + 1, 0)
    BY SMTT(30), <2>1, <2>3, <2>4, <2>5, <2>6 DEF LaidAt, CellLaid
  <2> QED BY Zenon, <2>1, <2>2, <2>7 DEF Laid
<1>4. CASE str[n + 1] # NL
  <2> DEFINE w == Room(s)
             Q == IF C = NUM_COLS THEN R + 1 ELSE R
             t == putc(s, str[n + 1])
  <2>1. InBounds(w) /\ w.x \in 0 .. NUM_COLS - 1
    BY Zenon, RoomKeeps
  <2>2. LaidAt(w, str, pen, n, Q, w.x) /\ w.x = IF C = NUM_COLS THEN 0 ELSE C
    <3>1. CASE C = NUM_COLS
      <4>1. w = NextRow(s)
        BY SMTT(30), <1>1, <1>2, <3>1 DEF Room
      <4>2. w.x = 0
        BY Zenon, <4>1, NextRowKeeps
      <4> HIDE DEF R, C, w
      <4>3. LaidAt(NextRow(s), str, pen, n, R + 1, 0)
        BY <1>1, <1>2, NextRowLaid
      <4> QED BY Zenon, <3>1, <4>1, <4>2, <4>3
    <3>2. CASE C # NUM_COLS
      <4>1. w = s
        BY SMTT(30), <1>1, <1>2, <3>2 DEF Room
      <4> QED BY Zenon, <1>2, <3>2, <4>1
    <3> QED BY Zenon, <3>1, <3>2
  <2>3. pen[n + 1].row = Q /\ pen[n + 1].col = w.x + 1 /\ Q \in Nat
    <3>1. CASE C = NUM_COLS
      <4> HIDE DEF w
      <4> QED BY SMTT(30), <1>1, <1>4, <2>2, <3>1 DEF PenStep
    <3>2. CASE C # NUM_COLS
      <4> HIDE DEF w
      <4> QED BY SMTT(30), <1>1, <1>4, <2>2, <3>2 DEF PenStep
    <3> QED BY Zenon, <3>1, <3>2
  <2>4. /\ t.x = w.x + 1 /\ t.y = w.y
        /\ t.cell = [i \in PageCells |-> IF i = Pos(w) THEN str[n + 1] ELSE w.cell[i]]
    BY ZenonT(30), <1>4, putcIs
  <2> HIDE DEF w, Q, t
  <2>5. LaidAt(t, str, pen, n + 1, Q, w.x + 1)
    BY Zenon, <1>1, <1>4, <2>1, <2>2, <2>3, <2>4, StoreLaid
  <2> QED BY Zenon, <2>3, <2>5 DEF Laid, t
<1> QED BY Zenon, <1>3, <1>4

\* putc continues the layout of the text printed so far.
LEMMA AppendLaid ==
    ASSUME NEW s, InBounds(s), NEW str \in Seq(Printed), NEW c,
           Laid(s, str, Place(str), Len(str))
    PROVE  Laid(putc(s, c), Append(str, c), Place(Append(str, c)), Len(str) + 1)
<1> DEFINE n == Len(str)
           b == Append(str, c)
           f == Place(str)
           g == Place(b)
<1>1. /\ n \in Nat /\ Len(b) = n + 1 /\ b[n + 1] = c
      /\ \A k \in 1 .. n : str[k] = b[k]
  BY SMTT(30) DEF Printed
<1> HIDE DEF b
<1>2. /\ g[n + 1] = PenStep(g[n], b[n + 1])
      /\ \A k \in 0 .. n + 1 : g[k] \in Pens
  <2>1. n + 1 \in 1 .. n + 1 /\ (n + 1) - 1 = n
    BY SMTT(30), <1>1
  <2> QED BY SMTT(30), <1>1, <2>1, PlaceWalks
<1>3. \A k \in 0 .. n : f[k] = g[k]
  BY SMTT(30), <1>1, PlacePrefix
<1> HIDE DEF f, g
<1>4. Laid(s, b, g, n)
  <2>1. n \in 0 .. n /\ \A k \in 1 .. n : k \in 0 .. n
    BY <1>1
  <2>2. f[n] = g[n] /\ \A k \in 1 .. n : f[k] = g[k] /\ str[k] = b[k]
    BY Zenon, <1>1, <1>3, <2>1
  <2>3. LaidAt(s, str, f, n, g[n].row, g[n].col)
    BY Zenon, <2>2 DEF Laid, f
  <2>4. LaidAt(s, b, g, n, g[n].row, g[n].col)
    BY SMTT(30), <2>2, <2>3 DEF LaidAt, CellLaid, Shows
  <2> QED BY <2>4 DEF Laid
<1>5. Laid(putc(s, b[n + 1]), b, g, n + 1)
  BY <1>1, <1>2, <1>4, putcLaid
<1> QED BY Zenon, <1>1, <1>5 DEF b, g

\* On a clear screen puts lays out the string.
LEMMA putsLaid ==
    ASSUME NEW s, InBounds(s), NEW str \in Seq(Printed)
    PROVE  Laid(puts(clear(s), str), str, Place(str), Len(str))
<1> DEFINE n == Len(str)
           z == clear(s)
           pen == Place(str)
<1>1. n \in Nat /\ InBounds(z)
  BY SMTT(30), clearKeeps
<1>2. /\ pen[0] = [row |-> 0, col |-> 0]
      /\ \A k \in 1 .. n : pen[k] = PenStep(pen[k - 1], str[k])
      /\ \A k \in 0 .. n : pen[k] \in Pens
  BY Zenon, <1>1, PlaceWalks
<1>3. Laid(z, str, pen, 0)
  <2>1. z.x = 0 /\ z.y = 0 /\ pen[0].row = 0 /\ pen[0].col = 0
    BY SMTT(30), <1>2 DEF clear, InBounds
  <2>2. ASSUME NEW r \in 0 .. NUM_ROWS - 1, NEW c \in 0 .. NUM_COLS - 1
        PROVE  CellLaid(z, str, pen, 0, 0, r, c)
    <3> DEFINE i == NUM_COLS * r + c
    <3>1. i \in ScreenCells /\ i \in PageCells
      BY PlaceOnScreen
    <3> HIDE DEF i
    <3>2. z.cell[i] = Blank
      BY <3>1 DEF clear, InBounds
    <3> QED BY SMTT(30), <3>2 DEF CellLaid, i
  <2>3. Top(0) = 0
    BY SMTT(30), ScreenSizes DEF Top
  <2> HIDE DEF z, pen
  <2>4. LaidAt(z, str, pen, 0, 0, 0)
    BY SMTT(30), <2>1, <2>2, <2>3 DEF LaidAt
  <2> QED BY Zenon, <2>1, <2>4 DEF Laid
<1> HIDE DEF z, pen
<1>4. PICK f : /\ f[0] = z /\ f[n] = puts(z, str)
               /\ \A k \in 1 .. n : f[k] = putc(f[k - 1], str[k])
               /\ \A k \in 0 .. n : InBounds(f[k])
  BY Zenon, <1>1, putsRuns
<1> DEFINE S == {k \in 0 .. n : ~Laid(f[k], str, pen, k)}
<1>5. S = {}
  <2> SUFFICES ASSUME S # {} PROVE FALSE
    OBVIOUS
  <2>1. PICK k \in S : \A y \in S : k =< y
    <3>1. S \subseteq Nat
      BY <1>1
    <3> HIDE DEF S
    <3> QED BY Zenon, <3>1, LeastNatural
  <2>2. k \in 0 .. n /\ ~Laid(f[k], str, pen, k)
    OBVIOUS
  <2>3. k # 0
    BY <1>3, <1>4, <2>2
  <2> DEFINE m == k - 1
  <2>4. /\ m \in Nat /\ m \in 0 .. n /\ k \in 1 .. n /\ m + 1 = k /\ ~(k =< m)
        /\ \A j \in 0 .. m + 1 : j \in 0 .. n
    BY SMTT(30), <1>1, <2>2, <2>3
  <2>5. Laid(f[m], str, pen, m) /\ InBounds(f[m])
    BY Zenon, <1>4, <2>1, <2>4
  <2>6. f[k] = putc(f[m], str[k]) /\ pen[k] = PenStep(pen[m], str[k])
    BY Zenon, <1>2, <1>4, <2>4
  <2>7. \A j \in 0 .. m + 1 : pen[j] \in Pens
    BY <1>2, <2>4
  <2> HIDE DEF m, S
  <2>8. Laid(putc(f[m], str[m + 1]), str, pen, m + 1)
    BY Zenon, <2>4, <2>5, <2>6, <2>7, putcLaid
  <2> QED BY <2>2, <2>4, <2>6, <2>8
<1>6. Laid(f[n], str, pen, n)
  BY SMTT(30), <1>1, <1>5
<1> QED BY Zenon, <1>4, <1>6 DEF z, pen

\* With SInv, what TextLaidOut needs to be inductive: also where the cursor is.
TextInv ==
    /\ text \in Seq(Printed)
    /\ followed => Laid(scr, text, Place(text), Len(text))

LEMMA TextInit == EditInit => TextInv
<1> SUFFICES ASSUME EditInit PROVE TextInv
  OBVIOUS
<1>1. text = <<>> /\ scr = [x |-> 0, y |-> 0, wild |-> FALSE, cell |-> [i \in PageCells |-> Blank]]
  BY Zenon DEF EditInit
<1>2. Place(text)[0] = [row |-> 0, col |-> 0]
  BY Zenon, <1>1, PlaceWalks
<1>3. ASSUME NEW r \in 0 .. NUM_ROWS - 1, NEW c \in 0 .. NUM_COLS - 1
      PROVE  CellLaid(scr, text, Place(text), 0, 0, r, c)
  <2> DEFINE i == NUM_COLS * r + c
  <2>1. i \in PageCells
    BY PlaceOnScreen
  <2> HIDE DEF i
  <2> QED BY SMTT(30), <1>1, <2>1 DEF CellLaid, i
<1>4. Top(0) = 0
  BY SMTT(30), ScreenSizes DEF Top
<1>5. LaidAt(scr, text, Place(text), 0, 0, 0)
  <2>1. scr.x = 0 /\ scr.y = 0
    BY <1>1
  <2> QED BY SMTT(30), <2>1, <1>3, <1>4 DEF LaidAt
<1> QED BY SMTT(30), <1>1, <1>2, <1>5 DEF TextInv, Laid

\* Every step keeps it.
LEMMA TextStep ==
    ASSUME SInv, TextInv, [EditNext]_editvars
    PROVE  TextInv'
<1>0. /\ InBounds(scr) /\ line \in Seq(Chars \cup {NUL}) /\ text \in Seq(Printed)
      /\ followed => Laid(scr, text, Place(text), Len(text))
  BY Zenon DEF SInv, TextInv
<1>1. ASSUME NEW c \in Printed, scr' = putc(scr, c), text' = Append(text, c), followed' = followed
      PROVE  TextInv'
  <2>1. text' \in Seq(Printed) /\ Len(text') = Len(text) + 1
    BY SMTT(30), <1>0, <1>1
  <2>2. ASSUME followed
        PROVE  Laid(putc(scr, c), Append(text, c), Place(Append(text, c)), Len(text) + 1)
    BY Zenon, <1>0, <2>2, AppendLaid
  <2> QED BY SMTT(30), <1>1, <2>1, <2>2 DEF TextInv, Laid, LaidAt, CellLaid, Shows
<1>2. ASSUME NEW c \in Chars \cup {NL}, ProgramPutc(c) PROVE TextInv'
  BY Zenon, <1>1, <1>2 DEF ProgramPutc, Printed
<1>3. ASSUME NEW c \in Chars \cup DeadKeys, process_key(c) PROVE TextInv'
  <2>1. c \in Printed
    BY Zenon, EditorAssumption DEF Printed
  <2> QED BY Zenon, <1>1, <1>3, <2>1 DEF process_key
<1>4. CASE handle_backspace
  BY Zenon, <1>0, <1>4 DEF handle_backspace, TextInv
<1>5. CASE handle_enter
  <2>1. scroll(scr) = putc(scr, NL) /\ NL \in Printed
    BY Zenon, <1>0, NextRowIs DEF putc, Printed
  <2> QED BY Zenon, <1>1, <1>5, <2>1 DEF handle_enter
<1>6. CASE ctrl_l
  <2> DEFINE out == Prompt \o ToNul(line)
  <2>1. scr' = puts(clear(scr), out) /\ text' = out
    BY <1>6 DEF ctrl_l
  <2>2. out \in Seq(Printed)
    BY Zenon, <1>0, ShownLine
  <2> HIDE DEF out
  <2>3. Laid(puts(clear(scr), out), out, Place(out), Len(out))
    BY Zenon, <1>0, <2>2, putsLaid
  <2> QED BY Zenon, <2>1, <2>2, <2>3 DEF TextInv, Laid, LaidAt, CellLaid, Shows
<1>7. CASE UNCHANGED editvars
  BY Zenon, <1>0, <1>7 DEF editvars, TextInv, Laid, LaidAt, CellLaid, Shows
<1> QED BY Zenon, <1>2, <1>3, <1>4, <1>5, <1>6, <1>7 DEF EditNext

\* The layout says what each cell shows.
LEMMA LaidShows == TextInv => TextLaidOut
<1> SUFFICES ASSUME TextInv, followed PROVE TextLaidOut
  BY Zenon DEF TextLaidOut
<1> DEFINE pen == Place(text)
           n == Len(text)
           R == pen[n].row
           top == IF pen[Len(text)].row < NUM_ROWS THEN 0
                  ELSE pen[Len(text)].row - NUM_ROWS + 1
           At(r, c) == {k \in 1 .. Len(text) :
                           text[k] # NL /\ pen[k] = [row |-> top + r, col |-> c + 1]}
<1>1. n \in Nat /\ LaidAt(scr, text, pen, n, R, pen[n].col)
  BY DEF TextInv, Laid
<1>2. \A k \in 1 .. n : pen[k] \in Pens
  BY <1>1, PlaceWalks
<1> HIDE DEF pen
<1>3. top = Top(R)
  BY DEF Top
<1> HIDE DEF top
<1>4. ASSUME NEW r \in 0 .. NUM_ROWS - 1, NEW c \in 0 .. NUM_COLS - 1
      PROVE  scr.cell[NUM_COLS * r + c] =
                 IF At(r, c) = {} THEN Blank ELSE text[CHOOSE k \in At(r, c) : TRUE]
  <2> DEFINE A == At(r, c)
             i == NUM_COLS * r + c
  <2>1. CellLaid(scr, text, pen, n, R, r, c)
    BY <1>1 DEF LaidAt
  <2>2. \A k \in 1 .. n : k \in A <=> Shows(text, pen, k, R, r, c)
    BY SMTT(30), <1>2, <1>3 DEF Shows, Pens
  <2>3. A \subseteq 1 .. n
    OBVIOUS
  <2> HIDE DEF A, i
  <2>4. /\ \A k \in A : scr.cell[i] = text[k]
        /\ A = {} => scr.cell[i] = Blank
    BY Zenon, <2>1, <2>2, <2>3 DEF CellLaid, i
  <2>5. scr.cell[i] = IF A = {} THEN Blank ELSE text[CHOOSE k \in A : TRUE]
    BY <2>4
  <2> QED BY <2>5 DEF A, i
<1> QED BY Zenon, <1>4 DEF TextLaidOut, pen, top

\* For every size of the screen and every text, with backspaces only before the
\* last Ctrl+L: the screen shows the last rows of the text, wrapped at the right
\* edge, each character once and in its place.
THEOREM TextSafe == EditSpec => []TextLaidOut
BY InitSInv, StepSInv, TextInit, TextStep, LaidShows, PTL DEF EditSpec
=============================================================================
