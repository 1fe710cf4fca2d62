---------------------------- MODULE FilesProofs -----------------------------
(***************************************************************************)
(* Descriptors and what they read, for every number of descriptors and     *)
(* processes, every file system image and every point at which a test key  *)
(* is pressed.                                                             *)
(*                                                                         *)
(* The standard descriptors stay, a child leaves its parents' tables       *)
(* alone, a test key leaves the table as it found it but for the slot an   *)
(* open is filling, and open fills a free slot while there is one, less    *)
(* the stores a test key came after, and refuses only when there is none.  *)
(*                                                                         *)
(* The name of an entry, as the directory lists it, and no other string    *)
(* leads read_dentry_by_name to it.                                        *)
(*                                                                         *)
(* read_data gives the bytes of the file, whatever the sizes of blocks and *)
(* files, and reads follow each other: what a descriptor delivers is the   *)
(* file or the directory from its start.                                   *)
(***************************************************************************)
EXTENDS FdTable, WellFoundedInduction, TLAPS

Given == Fds \ {0, 1}

Good(tab) ==
    /\ tab = [fd \in Fds |-> tab[fd]]
    /\ tab[0] = fd_table_init[0]
    /\ tab[1] = fd_table_init[1]

StackInv ==
    /\ \E X : tables \in Seq(X)
    /\ Depth >= 1
    /\ \A d \in 1 .. Depth : Good(tables[d])

\* An open in progress and the test keys own slots above the standard ones;
\* while Ctrl+1 reads the directory the table differs from what the handler
\* found only in the slot it took, the first that was free.
OwnerInv ==
    /\ pc # "user" => opening.index \in Given
    /\ key # "none" => Good(seen)
    /\ key \in {"ctrl1", "ctrl3", "ctrl4"} => seen = Table
    /\ key = "ctrl1 read" =>
          /\ dir_fd \in Given \cup {-1} /\ dir_fd = get_fd_index(seen)
          /\ \A fd \in Fds : fd # dir_fd => Table[fd] = seen[fd]
          /\ dir_fd # -1 => seen[dir_fd].flags = 0

\* The inductive invariant.
DInv == StackInv /\ OwnerInv

-----------------------------------------------------------------------------
\* A set of natural numbers has a least element.
LEMMA LeastOf ==
    ASSUME NEW S, S \subseteq Nat, S # {}
    PROVE  \E x \in S : \A y \in S : x =< y
<1> DEFINE R == {ss \in Nat \X Nat : ss[1] < ss[2]}
<1>1. IsWellFoundedOn(R, Nat)
  BY NatLessThanWellFounded DEF OpToRel
<1>2. PICK x \in S : \A y \in S : ~(<<y, x>> \in R)
  <2> HIDE DEF R
  <2> QED BY Zenon, <1>1, WFMin
<1>3. ASSUME NEW y \in S PROVE x =< y
  <2>1. y \in Nat /\ x \in Nat
    OBVIOUS
  <2>2. y < x => <<y, x>> \in R
    BY <2>1
  <2> QED
    <3> HIDE DEF R
    <3> QED BY <1>2, <2>1, <2>2
<1> QED BY <1>3

\* Min of get_fd_index is one.
LEMMA LeastNatural ==
    ASSUME NEW S, S \subseteq Nat, S # {}
    PROVE  Min(S) \in S
BY Zenon, LeastOf DEF Min

\* get_fd_index gives -1 or a slot above the standard ones that is off.
LEMMA FreeIndex ==
    ASSUME NEW tab
    PROVE  \/ get_fd_index(tab) = -1
           \/ get_fd_index(tab) \in Given /\ tab[get_fd_index(tab)].flags = 0
<1> DEFINE free == {fd \in FIRST_VALID_INDEX .. MAX_OPEN_FILES - 1 : tab[fd].flags = 0}
<1>1. free \subseteq Nat
  BY FdAssumption DEF FIRST_VALID_INDEX
<1>2. free # {} => Min(free) \in free
  <2> HIDE DEF free
  <2> QED BY Zenon, <1>1, LeastNatural
<1>3. \A fd \in free : fd \in Given /\ tab[fd].flags = 0
  BY FdAssumption DEF FIRST_VALID_INDEX, Given, Fds
<1>4. get_fd_index(tab) = IF free = {} THEN -1 ELSE Min(free)
  BY DEF get_fd_index
<1> QED
  <2> HIDE DEF free
  <2> QED BY <1>2, <1>3, <1>4

LEMMA StandardSlots == 0 \in Fds /\ 1 \in Fds /\ -1 \notin Fds /\ Given \subseteq Fds
BY FdAssumption DEF Fds, FIRST_VALID_INDEX, Given

LEMMA InitGood == Good(fd_table_init)
BY StandardSlots DEF Good, fd_table_init

\* A store into a slot above the standard ones.
LEMMA PutGood ==
    ASSUME NEW tab, Good(tab), NEW fd \in Given, NEW e
    PROVE  Good([tab EXCEPT ![fd] = e])
<1>1. fd \in Fds /\ fd # 0 /\ fd # 1
  BY StandardSlots DEF Given
<1> QED BY <1>1, StandardSlots DEF Good

-----------------------------------------------------------------------------
(* What an action does to the stack of tables. *)

Kept == \/ tables' = tables
        \/ \E tab : Good(tab) /\ tables' = [tables EXCEPT ![Depth] = tab]
        \/ tables' = Append(tables, fd_table_init)
        \/ Depth = 1 /\ tables' = <<fd_table_init>>
        \/ Depth > 1 /\ tables' = SubSeq([tables EXCEPT ![Depth] = close_all_fd], 1, Depth - 1)

ParentsKept == \A d \in 1 .. Depth - 1 : d <= Len(tables') /\ tables'[d] = tables[d]

\* Whatever of these an action does, every table stays good and the tables of
\* the waiting parents stay as they are.
LEMMA StackKept ==
    ASSUME StackInv, Kept
    PROVE  StackInv' /\ ParentsKept
<1>1. PICK X : tables \in Seq(X)
  BY DEF StackInv
<1>2. Depth \in Nat /\ Depth >= 1 /\ \A d \in 1 .. Depth : Good(tables[d])
  BY <1>1 DEF StackInv, Depth
<1>3. CASE tables' = tables
  <2>1. StackInv'
    BY <1>3 DEF StackInv, Depth, Good
  <2>2. ParentsKept
    BY <1>2, <1>3 DEF ParentsKept, Depth
  <2> QED BY <2>1, <2>2
<1>4. ASSUME NEW tab, Good(tab), tables' = [tables EXCEPT ![Depth] = tab]
      PROVE  StackInv' /\ ParentsKept
  <2>1. tables' \in Seq(X \cup {tab}) /\ Len(tables') = Depth
    BY <1>1, <1>2, <1>4 DEF Depth
  <2>2. \A d \in 1 .. Depth : tables'[d] = IF d = Depth THEN tab ELSE tables[d]
    BY <1>1, <1>2, <1>4 DEF Depth
  <2>3. \A d \in 1 .. Depth : Good(tables'[d])
    BY <2>2, <1>2, <1>4
  <2> QED BY <2>1, <2>2, <2>3, <1>2 DEF StackInv, ParentsKept, Depth, Good
<1>5. CASE tables' = Append(tables, fd_table_init)
  <2>1. tables' \in Seq(X \cup {fd_table_init}) /\ Len(tables') = Depth + 1
    BY <1>1, <1>2, <1>5 DEF Depth
  <2>2. \A d \in 1 .. Depth + 1 :
           tables'[d] = IF d = Depth + 1 THEN fd_table_init ELSE tables[d]
    BY <1>1, <1>2, <1>5 DEF Depth
  <2>3. \A d \in 1 .. Depth + 1 : Good(tables'[d])
    BY <2>2, <1>2, InitGood
  <2> QED BY <2>1, <2>2, <2>3, <1>2 DEF StackInv, ParentsKept, Depth, Good
<1>6. CASE Depth = 1 /\ tables' = <<fd_table_init>>
  <2>1. tables' \in Seq({fd_table_init}) /\ Len(tables') = 1 /\ tables'[1] = fd_table_init
    BY <1>6
  <2>2. \A d \in 1 .. 1 : Good(tables'[d])
    BY <2>1, InitGood
  <2>3. StackInv'
    BY <2>1, <2>2 DEF StackInv, Depth, Good
  <2>4. ParentsKept
    BY <1>6 DEF ParentsKept
  <2> QED BY <2>3, <2>4
<1>7. CASE Depth > 1 /\ tables' = SubSeq([tables EXCEPT ![Depth] = close_all_fd], 1, Depth - 1)
  <2> DEFINE t == [tables EXCEPT ![Depth] = close_all_fd]
  <2>1. t \in Seq(X \cup {close_all_fd}) /\ Len(t) = Depth
    BY <1>1, <1>2 DEF Depth
  <2>2. \A d \in 1 .. Depth - 1 : t[d] = tables[d]
    BY <1>1, <1>2 DEF Depth
  <2> HIDE DEF t
  <2>3. tables' = SubSeq(t, 1, Depth - 1)
    BY <1>7 DEF t
  <2>4. tables' \in Seq(X \cup {close_all_fd}) /\ Len(tables') = Depth - 1
    BY <2>1, <2>3, <1>2, <1>7
  <2>5. \A d \in 1 .. Depth - 1 : tables'[d] = t[d]
    BY <2>1, <2>3, <1>2, <1>7
  <2>6. \A d \in 1 .. Depth - 1 : Good(tables'[d])
    BY <2>2, <2>5, <1>2
  <2>7. StackInv'
    <3>1. Len(tables') >= 1
      BY <2>4, <1>2, <1>7
    <3>2. \A d \in 1 .. Len(tables') : Good(tables'[d])
      BY <2>4, <2>6
    <3> QED BY <3>1, <3>2, <2>4 DEF StackInv, Depth, Good
  <2>8. ParentsKept
    BY <2>2, <2>4, <2>5, <1>2 DEF ParentsKept
  <2> QED BY <2>7, <2>8
<1> QED BY <1>3, <1>4, <1>5, <1>6, <1>7 DEF Kept

\* The running process's table, before and after a store into it.
LEMMA TableGood == ASSUME StackInv PROVE Good(Table) /\ Depth \in Nat \ {0}
BY DEF StackInv, Table, Depth

LEMMA TableAfter ==
    ASSUME StackInv, NEW tab, tables' = [tables EXCEPT ![Depth] = tab]
    PROVE  Table' = tab
<1>1. PICK X : tables \in Seq(X)
  BY DEF StackInv
<1>2. Depth \in 1 .. Len(tables)
  BY TableGood, <1>1 DEF Depth
<1>3. Len(tables') = Len(tables) /\ tables'[Depth] = tab
  BY <1>1, <1>2
<1> QED BY <1>3 DEF Table, Depth

-----------------------------------------------------------------------------
(* The calls of programs: the handler is not at work. *)

LEMMA OwnerKept ==
    ASSUME key = "none", key' = key, pc' # "user" => opening'.index \in Given
    PROVE  OwnerInv'
BY DEF OwnerInv

LEMMA LeaveKept ==
    ASSUME StackInv, NEW status, Leave(status)
    PROVE  Kept /\ UNCHANGED <<pc, opening, key>>
<1>1. Depth = 1 \/ Depth > 1
  BY TableGood
<1> QED BY Zenon, <1>1 DEF Leave, Kept, handler

LEMMA OpenKept ==
    ASSUME DInv, NEW name, Open(name)
    PROVE  Kept /\ OwnerInv'
<1> DEFINE index == get_fd_index(Table)
<1>1. tables' = tables /\ key = "none" /\ key' = key /\ pc = "user"
  BY DEF Open, Calling, handler
<1>2. \/ pc' = pc
      \/ index # -1 /\ opening'.index = index
  BY DEF Open, Return, Opening
<1>3. index # -1 => index \in Given
  BY FreeIndex
<1> HIDE DEF index
<1> QED BY <1>1, <1>2, <1>3, OwnerKept DEF Kept

LEMMA StoreKept ==
    ASSUME DInv, NEW field \in Points \ {"user"}, Store(field)
    PROVE  Kept /\ OwnerInv'
<1> DEFINE i == opening.index
           e == [Table[i] EXCEPT ![field] = opening.info[field]]
<1>1. pc = field /\ key = "none" /\ key' = key /\ i \in Given
  BY DEF Store, handler, DInv, OwnerInv
<1>2. tables' = [tables EXCEPT ![Depth] = [Table EXCEPT ![i] = e]]
  BY DEF Store, PutTable
<1>3. Good([Table EXCEPT ![i] = e])
  <2> HIDE DEF e, i
  <2> QED BY <1>1, TableGood, PutGood DEF DInv
<1>4. pc' = "user" \/ opening' = opening
  BY DEF Store
<1>5. Kept
  BY Zenon, <1>2, <1>3 DEF Kept
<1>6. OwnerInv'
  BY <1>1, <1>4, OwnerKept
<1> QED BY <1>5, <1>6

\* A descriptor of a file, a directory or the RTC is not a standard one.
LEMMA NotStandard ==
    ASSUME StackInv, NEW fd, check_valid_fd(Table, fd),
           Table[fd].fd_jump \in {"dir", "file", "rtc"}
    PROVE  fd \in Given
BY Zenon, TableGood, StandardSlots DEF Good, check_valid_fd, Given, fd_table_init, Closed

LEMMA ReadKept ==
    ASSUME DInv, NEW fd, NEW n, Read(fd, n)
    PROVE  Kept /\ OwnerInv'
<1>1. key = "none" /\ pc = "user" /\ StackInv
  BY DEF Read, Calling, DInv
<1>2. CASE Fault
  <2>1. Kept /\ UNCHANGED <<pc, opening, key>>
    BY <1>1, <1>2, LeaveKept DEF Fault
  <2> QED BY <2>1, <1>1, OwnerKept
<1>3. CASE tables' = tables /\ pc' = pc /\ key' = key
  BY <1>1, <1>3, OwnerKept DEF Kept
<1>4. ASSUME NEW amt, check_valid_fd(Table, fd), Table[fd].fd_jump \in {"dir", "file"},
             tables' = [tables EXCEPT ![Depth] = add_offset(Table, fd, amt)],
             pc' = pc, key' = key
      PROVE  Kept /\ OwnerInv'
  <2>1. fd \in Given
    BY <1>1, <1>4, NotStandard
  <2> DEFINE e == [Table[fd] EXCEPT !.file_position = (@ + amt) % WORD]
  <2>2. add_offset(Table, fd, amt) = [Table EXCEPT ![fd] = e]
    BY <2>1, StandardSlots DEF add_offset
  <2> HIDE DEF e
  <2>3. Good([Table EXCEPT ![fd] = e])
    BY <2>1, <1>1, TableGood, PutGood
  <2>4. Kept
    BY Zenon, <2>2, <2>3, <1>4 DEF Kept
  <2> QED BY <2>4, <1>1, <1>4, OwnerKept
<1> QED
  <2> DEFINE jump == Table[fd].fd_jump
             r == CASE jump = "dir"  -> dir_read(Table, fd, n)
                    [] jump = "file" -> file_read(Table, fd, n)
  <2>1. \/ Fault
        \/ tables' = tables /\ pc' = pc /\ key' = key
        \/ /\ check_valid_fd(Table, fd) /\ jump \in {"dir", "file"}
           /\ tables' = [tables EXCEPT ![Depth] = add_offset(Table, fd, Amount(Table, fd, r))]
           /\ pc' = pc /\ key' = key
    <3> HIDE DEF r
    <3> QED BY Zenon DEF Read, Return, handler, PutTable, r
  <2> HIDE DEF r
  <2> QED BY <2>1, <1>2, <1>3, <1>4

LEMMA WriteKept ==
    ASSUME DInv, NEW fd, NEW n, NEW f, Write(fd, n, f)
    PROVE  Kept /\ OwnerInv'
<1>1. key = "none" /\ pc = "user" /\ StackInv
  BY DEF Write, Calling, DInv
<1>2. Fault \/ (tables' = tables /\ pc' = pc /\ key' = key)
  BY DEF Write, Return, handler
<1>3. CASE Fault
  <2>1. Kept /\ UNCHANGED <<pc, opening, key>>
    BY <1>1, <1>3, LeaveKept DEF Fault
  <2> QED BY <2>1, <1>1, OwnerKept
<1>4. CASE tables' = tables /\ pc' = pc /\ key' = key
  BY <1>1, <1>4, OwnerKept DEF Kept
<1> QED BY <1>2, <1>3, <1>4

LEMMA CloseKept ==
    ASSUME DInv, NEW fd, Close(fd)
    PROVE  Kept /\ OwnerInv'
<1> DEFINE jump == Table[fd].fd_jump
           ok   == check_valid_fd(Table, fd)
           tab  == CASE ok /\ jump = "rtc"  -> rtc_close(Table, fd)
                     [] ok /\ jump = "dir"  -> dir_close(Table, fd)
                     [] ok /\ jump = "file" -> file_close(Table, fd)
                     [] OTHER -> Table
<1>1. key = "none" /\ pc = "user" /\ StackInv
  BY DEF Close, Calling, DInv
<1>2. \/ Fault
      \/ /\ tables' = [tables EXCEPT ![Depth] = tab]
         /\ pc' = pc /\ key' = key
  BY DEF Close, Return, handler, PutTable
<1>3. CASE Fault
  <2>1. Kept /\ UNCHANGED <<pc, opening, key>>
    BY <1>1, <1>3, LeaveKept DEF Fault
  <2> QED BY <2>1, <1>1, OwnerKept
<1>4. CASE tables' = [tables EXCEPT ![Depth] = tab] /\ pc' = pc /\ key' = key
  <2>1. tab = Table \/ (fd \in Given /\ tab = [Table EXCEPT ![fd] = Closed])
    <3>1. CASE ok /\ jump \in {"dir", "file", "rtc"}
      <4>1. fd \in Given /\ fd \in Fds
        BY <1>1, <3>1, NotStandard, StandardSlots
      <4>2. close_fd(Table, fd) = [Table EXCEPT ![fd] = Closed]
        BY <4>1 DEF close_fd
      <4>3. tab = Table \/ tab = close_fd(Table, fd)
        BY DEF rtc_close, dir_close, file_close
      <4> QED BY <4>1, <4>2, <4>3
    <3>2. CASE ~(ok /\ jump \in {"dir", "file", "rtc"})
      BY <3>2
    <3> QED BY <3>1, <3>2
  <2>2. Good(tab)
    BY SMTT(30), <2>1, <1>1, TableGood, PutGood
  <2>3. Kept
    <3> HIDE DEF tab
    <3> QED BY Zenon, <2>2, <1>4 DEF Kept
  <2> QED BY <2>3, <1>1, <1>4, OwnerKept
<1> QED BY <1>2, <1>3, <1>4

LEMMA ExecuteKept ==
    ASSUME DInv, Execute
    PROVE  Kept /\ OwnerInv'
<1>1. key = "none" /\ key' = key /\ pc = "user" /\ pc' = pc
  BY DEF Execute, Calling, handler
<1>2. Kept
  BY DEF Execute, Kept
<1> QED BY <1>1, <1>2, OwnerKept

LEMMA HaltKept ==
    ASSUME DInv, Halt
    PROVE  Kept /\ OwnerInv'
<1>1. key = "none" /\ pc = "user" /\ Kept /\ UNCHANGED <<pc, opening, key>>
  BY LeaveKept DEF Halt, Calling, DInv
<1> QED BY <1>1, OwnerKept

-----------------------------------------------------------------------------
(* The test keys. *)

LEMMA PressKept ==
    ASSUME DInv, NEW k \in {"ctrl1", "ctrl3", "ctrl4"}, Press(k)
    PROVE  Kept /\ OwnerInv' /\ key = "none"
<1>1. tables' = tables /\ pc' = pc /\ opening'.index = opening.index /\ key = "none"
  BY DEF Press, Opening
<1>2. key' = k /\ seen' = Table
  BY DEF Press
<1>3. Table' = Table /\ Good(seen)'
  BY Zenon, <1>1, <1>2, TableGood DEF DInv, Table, Depth, Good
<1>4. OwnerInv'
  BY Zenon, <1>1, <1>2, <1>3 DEF OwnerInv, DInv
<1> QED BY <1>1, <1>4 DEF Kept

\* The slot Ctrl+1 takes is off and above the standard ones, or there is none.
LEMMA InfoOpenKept ==
    ASSUME DInv, InfoOpen
    PROVE  Kept /\ OwnerInv' /\ key' # "none"
<1> DEFINE index == get_fd_index(Table)
           tab == set_fd_info(Table, index, dir_open)
<1>1. /\ key = "ctrl1" /\ key' = "ctrl1 read" /\ dir_fd' = index
      /\ tables' = [tables EXCEPT ![Depth] = tab]
      /\ pc' = pc /\ opening' = opening /\ seen' = seen
  BY Zenon DEF InfoOpen, PutTable, thread
<1>2. StackInv /\ seen = Table /\ Good(seen)
  BY Zenon, <1>1 DEF DInv, OwnerInv
<1>3. index = -1 \/ (index \in Given /\ Table[index].flags = 0)
  BY FreeIndex
<1>10. dir_fd' = get_fd_index(seen') /\ Good(seen)'
  BY Zenon, <1>1, <1>2 DEF Good
<1> HIDE DEF index
<1>4. \/ index = -1 /\ tab = Table
      \/ index \in Given /\ tab = [Table EXCEPT ![index] = dir_open]
  BY <1>3, StandardSlots DEF set_fd_info
<1> HIDE DEF tab
<1>5. Good(tab)
  BY SMTT(30), <1>2, <1>4, TableGood, PutGood
<1>6. \A fd \in Fds : fd # index => tab[fd] = Table[fd]
  BY <1>2, <1>4, TableGood DEF Good
<1>7. Table' = tab
  BY Zenon, <1>1, <1>2, TableAfter
<1>8. Kept
  BY Zenon, <1>1, <1>5 DEF Kept
<1>9. OwnerInv'
  BY Zenon, <1>1, <1>2, <1>3, <1>6, <1>7, <1>10 DEF OwnerInv, DInv
<1> QED BY Zenon, <1>1, <1>8, <1>9

LEMMA InfoReadKept ==
    ASSUME DInv, InfoRead
    PROVE  Kept /\ OwnerInv' /\ key' # "none"
<1> DEFINE e == [Table[dir_fd] EXCEPT !.file_position = (@ + 1) % WORD]
           tab == add_offset(Table, dir_fd, 1)
<1>1. /\ key = "ctrl1 read" /\ key' = key /\ dir_fd' = dir_fd
      /\ tables' = [tables EXCEPT ![Depth] = tab]
      /\ pc' = pc /\ opening' = opening /\ seen' = seen
  BY Zenon DEF InfoRead, PutTable, thread, handler
<1>2. /\ StackInv
      /\ dir_fd \in Given \cup {-1}
      /\ \A fd \in Fds : fd # dir_fd => Table[fd] = seen[fd]
      /\ dir_fd # -1 => seen[dir_fd].flags = 0
  BY Zenon, <1>1 DEF DInv, OwnerInv
<1>3. \/ dir_fd = -1 /\ tab = Table
      \/ dir_fd \in Given /\ tab = [Table EXCEPT ![dir_fd] = e]
  BY <1>2, StandardSlots DEF add_offset
<1> HIDE DEF tab, e
<1>4. Good(tab)
  BY <1>2, <1>3, TableGood, PutGood
<1>5. \A fd \in Fds : fd # dir_fd => tab[fd] = Table[fd]
  BY <1>2, <1>3, TableGood DEF Good
<1>6. Table' = tab
  BY Zenon, <1>1, <1>2, TableAfter
<1>7. Kept
  BY Zenon, <1>1, <1>4 DEF Kept
<1>9. dir_fd' = get_fd_index(seen') /\ Good(seen)'
  BY Zenon, <1>1 DEF OwnerInv, DInv, Good
<1>8. OwnerInv'
  BY Zenon, <1>1, <1>2, <1>5, <1>6, <1>9 DEF OwnerInv, DInv
<1> QED BY Zenon, <1>1, <1>7, <1>8

\* The handler has closed the first slot that was free when it was entered.
Restored ==
    LET i == get_fd_index(seen)
    IN  Table' = IF i = -1 THEN seen ELSE [seen EXCEPT ![i] = Closed]

LEMMA GivenBack ==
    ASSUME StackInv, Good(seen), NEW tab, NEW i, i = get_fd_index(seen),
           tables' = [tables EXCEPT ![Depth] = tab],
           \A fd \in Fds : fd # i => Table[fd] = seen[fd],
           \/ i = -1 /\ tab = Table
           \/ i \in Given /\ tab = [Table EXCEPT ![i] = Closed]
    PROVE  Kept /\ Restored
<1>1. Good(tab) /\ Good(Table)
  BY TableGood, PutGood
<1>2. Kept
  BY Zenon, <1>1 DEF Kept
<1>3. Table' = tab
  BY Zenon, TableAfter
<1>4. /\ Table = [fd \in Fds |-> Table[fd]]
      /\ seen = [fd \in Fds |-> seen[fd]]
  BY Zenon, <1>1 DEF Good
<1>5. CASE i = -1 /\ tab = Table
  <2>1. Table = seen
    BY Zenon, <1>4, <1>5, StandardSlots
  <2> QED BY Zenon, <2>1, <1>2, <1>3, <1>5 DEF Restored
<1>6. CASE i \in Given /\ tab = [Table EXCEPT ![i] = Closed]
  <2>1. [Table EXCEPT ![i] = Closed] = [seen EXCEPT ![i] = Closed]
    BY Zenon, <1>4, <1>6
  <2>2. i # -1
    BY Zenon, <1>6, StandardSlots
  <2> QED BY Zenon, <2>1, <2>2, <1>2, <1>3, <1>6 DEF Restored
<1> QED BY <1>5, <1>6

LEMMA HandlerDone ==
    ASSUME OwnerInv, key' = "none", pc' = pc, opening' = opening
    PROVE  OwnerInv'
BY Zenon DEF OwnerInv

LEMMA InfoCloseKept ==
    ASSUME DInv, InfoClose
    PROVE  Kept /\ OwnerInv' /\ Restored
<1> DEFINE tab == dir_close(Table, dir_fd)
<1>1. /\ key = "ctrl1 read" /\ key' = "none"
      /\ tables' = [tables EXCEPT ![Depth] = tab]
      /\ pc' = pc /\ opening' = opening
  BY Zenon DEF InfoClose, PutTable, thread, HandlerReturns
<1>2. /\ StackInv
      /\ dir_fd \in Given \cup {-1}
      /\ \A fd \in Fds : fd # dir_fd => Table[fd] = seen[fd]
      /\ dir_fd # -1 => seen[dir_fd].flags = 0
      /\ Good(seen) /\ dir_fd = get_fd_index(seen)
  BY Zenon, <1>1 DEF DInv, OwnerInv
<1>3. \/ dir_fd = -1 /\ tab = Table
      \/ dir_fd \in Given /\ tab = [Table EXCEPT ![dir_fd] = Closed]
  BY <1>2, StandardSlots DEF dir_close, close_fd
<1>4. Kept /\ Restored
  <2> HIDE DEF tab
  <2> QED BY Zenon, <1>1, <1>2, <1>3, GivenBack
<1>5. OwnerInv'
  BY Zenon, <1>1, HandlerDone DEF DInv
<1> QED BY <1>4, <1>5

\* Ctrl+3 and Ctrl+4 open and close within one step.
LEMMA OpenedAndClosed ==
    ASSUME DInv, key \in {"ctrl3", "ctrl4"}, NEW x, NEW tab,
           tables' = [tables EXCEPT ![Depth] = tab],
           tab = LET i == get_fd_index(Table)
                     t == set_fd_info(Table, i, x)
                 IN  IF i = -1 THEN t ELSE close_fd(t, i)
    PROVE  Kept /\ Restored
<1> DEFINE i == get_fd_index(Table)
<1>1. StackInv /\ seen = Table /\ Good(seen) /\ i = get_fd_index(seen)
  BY Zenon DEF DInv, OwnerInv
<1>2. i = -1 \/ (i \in Given /\ Table[i].flags = 0)
  BY FreeIndex
<1>3. tab = LET t == set_fd_info(Table, i, x) IN IF i = -1 THEN t ELSE close_fd(t, i)
  OBVIOUS
<1> HIDE DEF i
<1>4. \/ i = -1 /\ tab = Table
      \/ i \in Given /\ tab = [Table EXCEPT ![i] = Closed]
  <2>1. CASE i = -1
    BY <2>1, <1>3, StandardSlots DEF set_fd_info
  <2>2. CASE i \in Given /\ Table[i].flags = 0
    <3>1. i \in Fds /\ i # -1
      BY <2>2, StandardSlots
    <3>2. tab = [[Table EXCEPT ![i] = x] EXCEPT ![i] = Closed]
      BY Zenon, <3>1, <1>3 DEF set_fd_info, close_fd
    <3>3. tab = [Table EXCEPT ![i] = Closed]
      BY Zenon, <3>1, <3>2
    <3> QED BY Zenon, <2>2, <3>3, <1>1
  <2> QED BY <1>2, <2>1, <2>2
<1> QED BY Zenon, <1>1, <1>4, GivenBack

LEMMA FileTextKept ==
    ASSUME DInv, FileText
    PROVE  Kept /\ OwnerInv' /\ Restored
<1> DEFINE i == get_fd_index(Table)
           t == set_fd_info(Table, i, file_open(CTR3))
<1>1. /\ key = "ctrl3" /\ key' = "none" /\ pc' = pc /\ opening' = opening
      /\ tables' = [tables EXCEPT ![Depth] = file_close(t, i)]
  BY DEF FileText, PutTable, thread, HandlerReturns
<1>2. file_close(t, i) = IF i = -1 THEN t ELSE close_fd(t, i)
  <2> HIDE DEF t, i
  <2> QED BY StandardSlots DEF file_close, close_fd
<1>3. Kept /\ Restored
  <2> HIDE DEF file_close
  <2> QED BY Zenon, <1>1, <1>2, OpenedAndClosed
<1> QED BY <1>1, <1>3, HandlerDone DEF DInv

LEMMA ShowFreqKept ==
    ASSUME DInv, NEW f, ShowFreq(f)
    PROVE  Kept /\ OwnerInv' /\ Restored
<1> DEFINE i == get_fd_index(Table)
           t == set_fd_info(Table, i, rtc_open)
<1>1. /\ key = "ctrl4" /\ key' = "none" /\ pc' = pc /\ opening' = opening
      /\ tables' = [tables EXCEPT ![Depth] = rtc_close(t, i)]
  BY DEF ShowFreq, PutTable, thread, HandlerReturns
<1>2. rtc_close(t, i) = IF i = -1 THEN t ELSE close_fd(t, i)
  <2>1. i = -1 \/ i \in Given
    BY FreeIndex
  <2> HIDE DEF t, i
  <2> QED BY <2>1, FdAssumption DEF rtc_close, Given, Fds, FIRST_VALID_INDEX
<1>3. Kept /\ Restored
  BY Zenon, <1>1, <1>2, OpenedAndClosed
<1> QED BY <1>1, <1>3, HandlerDone DEF DInv

-----------------------------------------------------------------------------
LEMMA InitDInv == Init => DInv
<1> SUFFICES ASSUME Init PROVE DInv
  OBVIOUS
<1>1. tables \in Seq({fd_table_init}) /\ Len(tables) = 1 /\ tables[1] = fd_table_init
  BY DEF Init
<1>2. StackInv
  BY <1>1, InitGood DEF StackInv, Depth
<1>3. OwnerInv
  BY DEF OwnerInv, Init
<1> QED BY <1>2, <1>3 DEF DInv

\* Every step keeps the tables in one of the listed ways and the owners' slots
\* apart, and when the handler returns the table is restored.
LEMMA StepKept ==
    ASSUME DInv, [Next]_vars
    PROVE  /\ Kept /\ OwnerInv'
           /\ key # "none" /\ key' = "none" => Restored
<1>1. ASSUME NEW name \in Names, Open(name) PROVE Kept /\ OwnerInv' /\ key = "none"
  BY <1>1, OpenKept DEF Open, Calling
<1>2. ASSUME NEW field \in Points \ {"user"}, Store(field)
      PROVE  Kept /\ OwnerInv' /\ key = "none"
  BY Zenon, <1>2, StoreKept DEF Store
<1>3. ASSUME NEW fd \in AnyFd, NEW n \in Lengths, Read(fd, n)
      PROVE  Kept /\ OwnerInv' /\ key = "none"
  BY Zenon, <1>3, ReadKept DEF Read, Calling
<1>4. ASSUME NEW fd \in AnyFd, NEW n \in Lengths, NEW f \in Frequencies, Write(fd, n, f)
      PROVE  Kept /\ OwnerInv' /\ key = "none"
  BY <1>4, WriteKept DEF Write, Calling
<1>5. ASSUME NEW fd \in AnyFd, Close(fd) PROVE Kept /\ OwnerInv' /\ key = "none"
  BY <1>5, CloseKept DEF Close, Calling
<1>6. CASE Execute
  BY <1>6, ExecuteKept DEF Execute, Calling
<1>7. CASE Halt
  BY <1>7, HaltKept DEF Halt, Calling
<1>8. ASSUME NEW k \in {"ctrl1", "ctrl3", "ctrl4"}, Press(k)
      PROVE  Kept /\ OwnerInv' /\ key = "none"
  BY <1>8, PressKept
<1>9. CASE Handler
  <2>1. ASSUME NEW f \in Frequencies, ShowFreq(f) PROVE Kept /\ OwnerInv' /\ Restored
    BY <2>1, ShowFreqKept
  <2> QED
    BY <2>1, <1>9, InfoOpenKept, InfoReadKept, InfoCloseKept, FileTextKept DEF Handler
<1>10. CASE UNCHANGED vars
  <2>1. tables' = tables /\ key' = key
    BY <1>10 DEF vars
  <2>2. OwnerInv'
    BY Zenon, <1>10 DEF DInv, OwnerInv, vars, Table, Depth, Good
  <2> QED BY <2>1, <2>2 DEF Kept
<1> QED
  BY SMTT(30), <1>1, <1>2, <1>3, <1>4, <1>5, <1>6, <1>7, <1>8, <1>9, <1>10 DEF Next

LEMMA DInvImplies == DInv => StandardDescriptors
BY Zenon DEF DInv, StackInv, Good, StandardDescriptors

\* For every number of descriptors, processes and names, every file system image
\* and every window in which the test keys are pressed: descriptors 0 and 1 of
\* every process are the keyboard and the terminal, and what a program does
\* leaves the tables of its waiting parents alone.
THEOREM DescriptorsKept ==
    Spec => /\ []StandardDescriptors
            /\ ParentsUntouched
<1>1. DInv /\ [Next]_vars => DInv'
  BY StepKept, StackKept DEF DInv
<1>2. DInv /\ [Next]_vars =>
          [\A d \in 1 .. Depth - 1 : d <= Len(tables') /\ tables'[d] = tables[d]]_vars
  BY StepKept, StackKept DEF DInv, ParentsKept
<1> QED
  BY InitDInv, DInvImplies, <1>1, <1>2, PTL DEF Spec, ParentsUntouched

\* A program, its halt included, leaves the tables of the processes that wait
\* for it as they were.
THEOREM ParentsSafe == Spec => ParentsUntouched
BY DescriptorsKept, PTL

\* get_fd_index gives -1 only when every slot above the standard ones is on.
LEMMA NoneFree ==
    ASSUME NEW tab, NEW fd \in Given, tab[fd].flags = 0
    PROVE  get_fd_index(tab) # -1
<1> DEFINE free == {k \in FIRST_VALID_INDEX .. MAX_OPEN_FILES - 1 : tab[k].flags = 0}
<1>1. free \subseteq Nat /\ fd \in free
  BY FdAssumption DEF FIRST_VALID_INDEX, Given, Fds
<1>2. get_fd_index(tab) = IF free = {} THEN -1 ELSE Min(free)
  BY DEF get_fd_index
<1> HIDE DEF free
<1>3. Min(free) \in Nat
  BY Zenon, <1>1, LeastNatural
<1> QED BY <1>1, <1>2, <1>3

-----------------------------------------------------------------------------
(* What an open leaves in its slot, and a test key in the table. *)

Fields == {"fd_jump", "inode_ptr", "file_position", "flags"}

\* The table as the calls of the program left it.
Left == IF key = "none" THEN Table ELSE seen

OffEmpty(tab, i) == \A fd \in Given : tab[fd].flags = 0 /\ fd # i => tab[fd] = Closed

\* The slot an open is filling: the stores it has made, but for those a test key
\* has undone or is about to undo.
Stores(sl) ==
    /\ sl = [f \in Fields |-> sl[f]] /\ sl.flags = 0
    /\ IF key = "none"
       THEN \A f \in Stored : sl[f] = IF f \in opening.lost THEN Closed[f] ELSE opening.info[f]
       ELSE opening.lost = Stored

OpenInv ==
    /\ opening.index \in Given /\ opening.index = get_fd_index(Left)
    /\ Good(opening.found) /\ opening.found[opening.index].flags = 0
    /\ \A fd \in Fds : fd # opening.index => Left[fd] = opening.found[fd]
    /\ opening.info = [f \in Fields |-> opening.info[f]] /\ opening.info.flags = 1
    /\ opening.lost \subseteq Stored
    /\ Stores(Left[opening.index])

\* A slot that is off is empty, but for the one an open is filling, which is
\* the first that is off.
SlotInv ==
    /\ pc = "user" => opening.index = -1
    /\ OffEmpty(Left, opening.index)
    /\ \A d \in 1 .. Depth - 1 : OffEmpty(tables[d], -1)
    /\ pc # "user" => OpenInv

LEMMA ClosedFields == DOMAIN Closed = Fields /\ Closed.flags = 0 /\ Closed = [f \in Fields |-> Closed[f]]
BY DEF Closed, Fields

\* get_fd_index looks at nothing but the flags.
LEMMA SameIndex ==
    ASSUME NEW a, NEW b, \A fd \in Given : a[fd].flags = 0 <=> b[fd].flags = 0
    PROVE  get_fd_index(a) = get_fd_index(b)
<1>1. \A fd \in FIRST_VALID_INDEX .. MAX_OPEN_FILES - 1 : fd \in Given
  BY FdAssumption DEF FIRST_VALID_INDEX, Given, Fds
<1>2. {fd \in FIRST_VALID_INDEX .. MAX_OPEN_FILES - 1 : a[fd].flags = 0} =
      {fd \in FIRST_VALID_INDEX .. MAX_OPEN_FILES - 1 : b[fd].flags = 0}
  BY Zenon, <1>1
<1> QED BY Zenon, <1>2 DEF get_fd_index

\* A step that changes the running process's table, or none.
TopOnly == tables' = tables \/ \E tab : tables' = [tables EXCEPT ![Depth] = tab]

LEMMA ParentsEmpty ==
    ASSUME StackInv, SlotInv, TopOnly
    PROVE  \A d \in 1 .. Depth' - 1 : OffEmpty(tables[d], -1)'
<1>1. PICK X : tables \in Seq(X)
  BY DEF StackInv
<1>2. Depth \in Nat \ {0} /\ \A d \in 1 .. Depth - 1 : OffEmpty(tables[d], -1)
  BY TableGood DEF SlotInv
<1>3. Depth' = Depth /\ \A d \in 1 .. Depth - 1 : tables'[d] = tables[d]
  BY <1>1, <1>2 DEF TopOnly, Depth
<1> QED BY <1>2, <1>3 DEF OffEmpty

\* A call that leaves the slots that are off as they are.
LEMMA CallSlot ==
    ASSUME StackInv, SlotInv, Calling, key' = key, pc' = pc, opening' = opening,
           TopOnly, OffEmpty(Table, -1) => OffEmpty(Table, -1)'
    PROVE  SlotInv'
<1>1. Left = Table /\ Left' = Table' /\ opening.index = -1 /\ pc = "user"
  BY Zenon DEF Left, Calling, SlotInv
<1>2. OffEmpty(Left, opening.index)'
  BY Zenon, <1>1 DEF SlotInv, OffEmpty
<1>3. pc' = "user" /\ opening'.index = -1
  BY Zenon, <1>1
<1> QED BY Zenon, <1>2, <1>3, ParentsEmpty DEF SlotInv

LEMMA SameTable == ASSUME tables' = tables PROVE TopOnly /\ Table' = Table
BY Zenon DEF TopOnly, Table, Depth

\* A process that halts leaves its parent running.
LEMMA LeaveSlot ==
    ASSUME StackInv, SlotInv, Calling, NEW status, Leave(status)
    PROVE  SlotInv'
<1>1. /\ pc = "user" /\ pc' = "user" /\ key = "none" /\ key' = "none" /\ opening' = opening
      /\ opening.index = -1
  BY Zenon DEF Leave, handler, Calling, SlotInv
<1>2. PICK X : tables \in Seq(X)
  BY DEF StackInv
<1>3. Depth \in Nat \ {0} /\ \A d \in 1 .. Depth - 1 : OffEmpty(tables[d], -1)
  BY TableGood DEF SlotInv
<1>4. OffEmpty(Table, -1)' /\ \A d \in 1 .. Depth' - 1 : OffEmpty(tables[d], -1)'
  <2>1. CASE Depth = 1
    <3>1. tables' = <<fd_table_init>>
      BY Zenon, <2>1 DEF Leave
    <3>2. Depth' = 1 /\ Table' = fd_table_init
      BY <3>1 DEF Depth, Table
    <3>3. OffEmpty(fd_table_init, -1)
      BY Zenon, StandardSlots DEF OffEmpty, fd_table_init, Given
    <3>4. 1 .. Depth' - 1 = {}
      BY <3>2
    <3> QED BY Zenon, <3>2, <3>3, <3>4 DEF OffEmpty
  <2>2. CASE Depth > 1
    <3> DEFINE t == [tables EXCEPT ![Depth] = close_all_fd]
    <3>1. tables' = SubSeq(t, 1, Depth - 1)
      <4>1. Depth # 1
        BY <2>2
      <4> QED BY Zenon, <4>1 DEF Leave
    <3>2. t \in Seq(X \cup {close_all_fd}) /\ Len(t) = Depth /\ \A d \in 1 .. Depth - 1 : t[d] = tables[d]
      BY <1>2, <1>3 DEF Depth
    <3> HIDE DEF t
    <3>3. Len(tables') = Depth - 1 /\ \A d \in 1 .. Depth - 1 : tables'[d] = tables[d]
      BY <3>1, <3>2, <1>3, <2>2
    <3>4. Depth' = Depth - 1 /\ Depth - 1 \in 1 .. Depth - 1 /\ Table' = tables[Depth - 1]
      BY <3>3, <1>3, <2>2 DEF Depth, Table
    <3>5. \A d \in 1 .. Depth' - 1 : d \in 1 .. Depth - 1
      BY <3>4, <1>3
    <3> QED BY Zenon, <3>3, <3>4, <3>5, <1>3 DEF OffEmpty
  <2> QED BY <2>1, <2>2, <1>3
<1>5. Left' = Table' /\ opening'.index = -1
  BY Zenon, <1>1 DEF Left
<1> QED BY Zenon, <1>1, <1>4, <1>5 DEF SlotInv, OffEmpty

LEMMA ExecuteSlot ==
    ASSUME StackInv, SlotInv, Execute
    PROVE  SlotInv'
<1>1. /\ pc = "user" /\ pc' = "user" /\ key = "none" /\ key' = "none" /\ opening' = opening
      /\ opening.index = -1 /\ tables' = Append(tables, fd_table_init)
  BY Zenon DEF Execute, handler, Calling, SlotInv
<1>2. PICK X : tables \in Seq(X)
  BY DEF StackInv
<1>3. Depth \in Nat \ {0} /\ \A d \in 1 .. Depth - 1 : OffEmpty(tables[d], -1)
  BY TableGood DEF SlotInv
<1>4. /\ Depth' = Depth + 1 /\ Table' = fd_table_init
      /\ \A d \in 1 .. Depth : tables'[d] = tables[d]
  BY <1>1, <1>2, <1>3 DEF Depth, Table
<1>5. OffEmpty(tables[Depth], -1)
  BY Zenon, <1>1 DEF SlotInv, Left, Table
<1>6. \A d \in 1 .. Depth : OffEmpty(tables[d], -1)
  BY <1>3, <1>5
<1>7. \A d \in 1 .. Depth' - 1 : d \in 1 .. Depth
  BY <1>3, <1>4
<1>8. OffEmpty(fd_table_init, -1)
  BY Zenon, StandardSlots DEF OffEmpty, fd_table_init, Given
<1>9. Left' = fd_table_init /\ opening'.index = -1
  BY Zenon, <1>1, <1>4 DEF Left
<1>10. \A d \in 1 .. Depth' - 1 : OffEmpty(tables'[d], -1)
  BY Zenon, <1>4, <1>6, <1>7
<1>11. OffEmpty(Left', opening'.index)
  BY Zenon, <1>8, <1>9
<1> QED BY Zenon, <1>1, <1>10, <1>11 DEF SlotInv, OffEmpty

\* The calls of programs other than open.
LEMMA ReadSlot ==
    ASSUME StackInv, SlotInv, NEW fd, NEW n, Read(fd, n)
    PROVE  SlotInv'
<1>1. Calling
  BY DEF Read
<1>2. CASE Fault
  BY Zenon, <1>1, <1>2, LeaveSlot DEF Fault
<1>3. CASE tables' = tables /\ pc' = pc /\ opening' = opening /\ key' = key
  BY Zenon, <1>1, <1>3, SameTable, CallSlot
<1>4. ASSUME NEW amt, check_valid_fd(Table, fd),
             tables' = [tables EXCEPT ![Depth] = add_offset(Table, fd, amt)],
             pc' = pc, opening' = opening, key' = key
      PROVE  SlotInv'
  <2> DEFINE e == [Table[fd] EXCEPT !.file_position = (@ + amt) % WORD]
  <2>1. fd \in Fds /\ Table[fd].flags = 1 /\ Table = [k \in Fds |-> Table[k]]
    BY Zenon, <1>4, TableGood DEF check_valid_fd, Good
  <2>2. Table' = [Table EXCEPT ![fd] = e]
    BY Zenon, <1>4, <2>1, TableAfter DEF add_offset
  <2>3. e.flags = Table[fd].flags
    OBVIOUS
  <2> HIDE DEF e
  <2>4. \A k \in Given : Table'[k].flags = 0 => Table'[k] = Table[k]
    <3>1. 1 # 0
      OBVIOUS
    <3> QED BY Zenon, <2>1, <2>2, <2>3, <3>1, StandardSlots
  <2>5. \A k \in Given : Table'[k].flags = 0 => Table[k].flags = 0
    BY Zenon, <2>4
  <2>6. OffEmpty(Table, -1) => OffEmpty(Table, -1)'
    BY Zenon, <2>4, <2>5 DEF OffEmpty
  <2>7. TopOnly
    BY Zenon, <1>4 DEF TopOnly
  <2> QED BY Zenon, <1>1, <1>4, <2>6, <2>7, CallSlot
<1> QED
  <2> DEFINE jump == Table[fd].fd_jump
             r == CASE jump = "dir"  -> dir_read(Table, fd, n)
                    [] jump = "file" -> file_read(Table, fd, n)
  <2>1. \/ Fault
        \/ tables' = tables /\ pc' = pc /\ opening' = opening /\ key' = key
        \/ /\ check_valid_fd(Table, fd)
           /\ tables' = [tables EXCEPT ![Depth] = add_offset(Table, fd, Amount(Table, fd, r))]
           /\ pc' = pc /\ opening' = opening /\ key' = key
    <3> HIDE DEF r
    <3> QED BY Zenon DEF Read, Return, handler, PutTable, r
  <2> HIDE DEF r
  <2> QED BY Zenon, <2>1, <1>2, <1>3, <1>4

LEMMA WriteSlot ==
    ASSUME StackInv, SlotInv, NEW fd, NEW n, NEW f, Write(fd, n, f)
    PROVE  SlotInv'
<1>1. Calling
  BY DEF Write
<1>2. Fault \/ (tables' = tables /\ pc' = pc /\ opening' = opening /\ key' = key)
  BY DEF Write, Return, handler
<1> QED BY Zenon, <1>1, <1>2, LeaveSlot, SameTable, CallSlot DEF Fault

\* The table with one slot closed.
LEMMA EmptiedSlot ==
    ASSUME NEW tab, tab = [fd \in Fds |-> tab[fd]], NEW i, NEW k, OffEmpty(tab, i)
    PROVE  OffEmpty([tab EXCEPT ![k] = Closed], i)
BY Zenon, StandardSlots DEF OffEmpty

LEMMA CloseSlot ==
    ASSUME StackInv, SlotInv, NEW fd, Close(fd)
    PROVE  SlotInv'
<1> DEFINE jump == Table[fd].fd_jump
           ok   == check_valid_fd(Table, fd)
           tab  == CASE ok /\ jump = "rtc"  -> rtc_close(Table, fd)
                     [] ok /\ jump = "dir"  -> dir_close(Table, fd)
                     [] ok /\ jump = "file" -> file_close(Table, fd)
                     [] OTHER -> Table
<1>1. Calling
  BY DEF Close
<1>2. \/ Fault
      \/ /\ tables' = [tables EXCEPT ![Depth] = tab]
         /\ pc' = pc /\ opening' = opening /\ key' = key
  BY DEF Close, Return, handler, PutTable
<1>3. tab = Table \/ tab = [Table EXCEPT ![fd] = Closed]
  <2>1. tab = Table \/ tab = close_fd(Table, fd)
    BY DEF rtc_close, dir_close, file_close
  <2> HIDE DEF tab
  <2> QED BY Zenon, <2>1 DEF close_fd
<1> HIDE DEF tab
<1>4. CASE tables' = [tables EXCEPT ![Depth] = tab] /\ pc' = pc /\ opening' = opening /\ key' = key
  <2>1. Table' = tab /\ Table = [k \in Fds |-> Table[k]]
    BY Zenon, <1>4, TableAfter, TableGood DEF Good
  <2>2. OffEmpty(Table, -1) => OffEmpty(tab, -1)
    BY Zenon, <2>1, <1>3, EmptiedSlot
  <2>3. OffEmpty(Table, -1) => OffEmpty(Table, -1)'
    BY Zenon, <2>1, <2>2 DEF OffEmpty
  <2>4. TopOnly
    BY Zenon, <1>4 DEF TopOnly
  <2> QED BY Zenon, <1>1, <1>4, <2>3, <2>4, CallSlot
<1> QED BY Zenon, <1>1, <1>2, <1>4, LeaveSlot DEF Fault

\* open takes the first slot that is off and has stored nothing yet.
LEMMA OpenSlot ==
    ASSUME StackInv, SlotInv, NEW name, Open(name)
    PROVE  SlotInv'
<1> DEFINE e     == read_dentry_by_name(img, name)
           type  == img.entries[e].file_type
           index == get_fd_index(Table)
           info  == CASE type = 0 -> rtc_open
                      [] type = 1 -> dir_open
                      [] OTHER    -> file_open(e)
<1>1. Calling /\ tables' = tables /\ key' = key /\ key = "none" /\ pc = "user"
  BY Zenon DEF Open, Calling, handler
<1>2. \/ pc' = pc /\ opening' = opening
      \/ index # -1 /\ pc' = "fd_jump" /\ opening' = Opening(index, info, Table, {})
  BY Zenon DEF Open, Return
<1>3. CASE pc' = pc /\ opening' = opening
  BY Zenon, <1>1, <1>3, SameTable, CallSlot
<1>4. info = [f \in Fields |-> info[f]] /\ info.flags = 1
  <2>1. \A j, x : OpenInfo(j, x) = [f \in Fields |-> OpenInfo(j, x)[f]] /\ OpenInfo(j, x).flags = 1
    BY Zenon DEF OpenInfo, Fields
  <2>2. \E j, x : info = OpenInfo(j, x)
    <3>1. info \in {rtc_open, dir_open, file_open(e)}
      OBVIOUS
    <3> QED BY Zenon, <3>1 DEF rtc_open, dir_open, file_open
  <2> HIDE DEF info
  <2> QED BY Zenon, <2>1, <2>2
<1>5. index # -1 => index \in Given /\ Table[index].flags = 0
  BY Zenon, FreeIndex
<1>6. index = get_fd_index(Table)
  OBVIOUS
<1> HIDE DEF index, info, e
<1>7. CASE index # -1 /\ pc' = "fd_jump" /\ opening' = Opening(index, info, Table, {})
  <2>1. /\ opening'.index = index /\ opening'.info = info /\ opening'.found = Table
        /\ opening'.lost = {}
    BY Zenon, <1>7 DEF Opening
  <2>2. Left = Table /\ Left' = Table /\ Table' = Table /\ opening.index = -1
    BY Zenon, <1>1, SameTable DEF Left, SlotInv
  <2>3. Stored' = {} /\ pc' # "user"
    BY Zenon, <1>7 DEF Stored
  <2>4. OffEmpty(Table, -1) /\ Good(Table)
    BY Zenon, <2>2, TableGood DEF SlotInv
  <2>5. Table[index] = Closed
    BY Zenon, <2>4, <1>5, <1>7 DEF OffEmpty
  <2>6. Stores(Left[opening.index])'
    BY Zenon, <2>1, <2>2, <2>3, <2>5, <1>1, ClosedFields DEF Stores
  <2>7. OpenInv'
    BY Zenon, <2>1, <2>2, <2>3, <2>4, <2>6, <1>4, <1>5, <1>6, <1>7 DEF OpenInv, Good
  <2>8. OffEmpty(Left, opening.index)'
    BY Zenon, <2>2, <2>4, <1>5, <1>7, StandardSlots DEF OffEmpty
  <2>9. \A d \in 1 .. Depth' - 1 : OffEmpty(tables[d], -1)'
    BY Zenon, <1>1, SameTable, ParentsEmpty
  <2> QED BY Zenon, <2>3, <2>7, <2>8, <2>9 DEF SlotInv
<1> QED BY Zenon, <1>2, <1>3, <1>7

\* The stores of set_fd_info.  Each adds its field to the slot; the last one
\* puts the slot into use.
LEMMA StoreSlot ==
    ASSUME StackInv, SlotInv, NEW field \in Points \ {"user"}, Store(field)
    PROVE  SlotInv'
<1> DEFINE i == opening.index
           e == [Table[i] EXCEPT ![field] = opening.info[field]]
<1>1. /\ pc = field /\ pc # "user" /\ key = "none" /\ key' = "none"
      /\ tables' = [tables EXCEPT ![Depth] = [Table EXCEPT ![i] = e]]
  BY Zenon DEF Store, handler, PutTable
<1>2. OpenInv /\ Left = Table /\ OffEmpty(Table, i) /\ Stores(Table[i])
  BY Zenon, <1>1 DEF SlotInv, Left, OpenInv
<1>3. i \in Given /\ i \in Fds /\ Table = [fd \in Fds |-> Table[fd]]
  BY Zenon, <1>2, StandardSlots, TableGood DEF OpenInv, Good
<1>4. Table' = [Table EXCEPT ![i] = e] /\ Left' = Table'
  BY Zenon, <1>1, TableAfter DEF Left
<1>5. TopOnly
  BY Zenon, <1>1 DEF TopOnly
<1>6. \A d \in 1 .. Depth' - 1 : OffEmpty(tables[d], -1)'
  BY Zenon, <1>5, ParentsEmpty
<1>7. /\ Table[i] = [f \in Fields |-> Table[i][f]] /\ Table[i].flags = 0
      /\ \A f \in Stored : Table[i][f] = IF f \in opening.lost THEN Closed[f] ELSE opening.info[f]
      /\ opening.lost \subseteq Stored
      /\ field \in Fields
  BY Zenon, <1>1, <1>2 DEF Stores, OpenInv, Points, Fields
<1>8. /\ e = [f \in Fields |-> IF f = field THEN opening.info[f] ELSE Table[i][f]]
      /\ e.flags = IF field = "flags" THEN opening.info.flags ELSE 0
  <2>1. e = [f \in Fields |-> IF f = field THEN opening.info[f] ELSE Table[i][f]]
    BY Zenon, <1>7
  <2> QED BY Zenon, <2>1, <1>7 DEF Fields
<1> HIDE DEF e
<1>9. \A fd \in Fds : fd # i => Table'[fd] = Table[fd]
  BY Zenon, <1>3, <1>4
<1>10. Table'[i] = e
  BY Zenon, <1>3, <1>4
<1>11. CASE field = "flags"
  <2>1. pc' = "user" /\ opening'.index = -1
    <3>1. pc' = "user" /\ opening' = Idle
      BY <1>11 DEF Store
    <3>2. Idle.index = -1
      BY DEF Idle, Opening
    <3> QED BY <3>1, <3>2
  <2>2. e.flags = 1
    BY Zenon, <1>2, <1>8, <1>11 DEF OpenInv
  <2>3. 1 # 0
    OBVIOUS
  <2>4. \A fd \in Given : Table'[fd].flags = 0 => Table'[fd] = Closed
    <3> SUFFICES ASSUME NEW fd \in Given, Table'[fd].flags = 0 PROVE Table'[fd] = Closed
      OBVIOUS
    <3>1. fd # i
      BY Zenon, <2>2, <2>3, <1>10
    <3>2. Table'[fd] = Table[fd]
      BY Zenon, <3>1, <1>9, StandardSlots
    <3> QED BY Zenon, <3>1, <3>2, <1>2 DEF OffEmpty
  <2>5. OffEmpty(Left, opening.index)'
    BY Zenon, <2>4, <1>4 DEF OffEmpty
  <2> QED BY Zenon, <2>1, <2>5, <1>6 DEF SlotInv
<1>12. CASE field # "flags"
  <2>1. opening' = opening /\ pc' = After(field) /\ e.flags = 0
    BY Zenon, <1>8, <1>12 DEF Store
  <2>2. /\ pc' # "user" /\ Stored' = Stored \cup {field} /\ field \notin Stored
        /\ Stored \subseteq Fields
    <3>1. CASE field = "fd_jump"
      BY Zenon, <3>1, <2>1, <1>1 DEF After, Stored, Fields
    <3>2. CASE field = "inode_ptr"
      BY Zenon, <3>2, <2>1, <1>1 DEF After, Stored, Fields
    <3>3. CASE field = "file_position"
      BY Zenon, <3>3, <2>1, <1>1 DEF After, Stored, Fields
    <3> QED BY Zenon, <3>1, <3>2, <3>3, <1>12 DEF Points
  <2>3. OffEmpty(Left, opening.index)'
    BY Zenon, <2>1, <1>2, <1>4, <1>9, StandardSlots DEF OffEmpty
  <2>4. get_fd_index(Table') = get_fd_index(Table)
    <3>1. \A fd \in Given : Table'[fd].flags = 0 <=> Table[fd].flags = 0
      BY Zenon, <2>1, <1>7, <1>9, <1>10, StandardSlots
    <3> QED BY Zenon, <3>1, SameIndex
  <2>5. Stores(Left[opening.index])'
    <3>1. \A f \in Stored' : e[f] = IF f \in opening.lost THEN Closed[f] ELSE opening.info[f]
      BY Zenon, <2>2, <1>7, <1>8
    <3>2. e = [f \in Fields |-> e[f]]
      BY Zenon, <1>8
    <3>3. Left'[opening'.index] = e
      BY Zenon, <2>1, <1>4, <1>10
    <3> QED BY Zenon, <3>1, <3>2, <3>3, <2>1, <1>1 DEF Stores
  <2>6. OpenInv'
    BY Zenon, <2>1, <2>2, <2>4, <2>5, <1>2, <1>4, <1>9 DEF OpenInv, Good
  <2> QED BY Zenon, <2>2, <2>3, <2>6, <1>6 DEF SlotInv
<1> QED BY Zenon, <1>11, <1>12

\* The test keys: nothing happens to the table the thread left until the
\* handler returns.
LEMMA PressSlot ==
    ASSUME StackInv, SlotInv, NEW k \in {"ctrl1", "ctrl3", "ctrl4"}, Press(k)
    PROVE  SlotInv'
<1>1. /\ tables' = tables /\ pc' = pc /\ key = "none" /\ key' # "none" /\ seen' = Table
      /\ opening'.index = opening.index /\ opening'.info = opening.info
      /\ opening'.found = opening.found /\ opening'.lost = Stored
  BY Zenon DEF Press, Opening
<1>2. Left = Table /\ Left' = Table /\ Stored' = Stored
  BY Zenon, <1>1 DEF Left, Stored
<1>3. \A d \in 1 .. Depth' - 1 : OffEmpty(tables[d], -1)'
  BY Zenon, <1>1, SameTable, ParentsEmpty
<1>4. OffEmpty(Left, opening.index)'
  BY Zenon, <1>1, <1>2 DEF SlotInv, OffEmpty
<1>5. pc # "user" => OpenInv'
  <2> SUFFICES ASSUME pc # "user" PROVE OpenInv'
    OBVIOUS
  <2>1. OpenInv
    BY Zenon DEF SlotInv
  <2>2. Stores(Left[opening.index])'
    BY Zenon, <2>1, <1>1, <1>2 DEF OpenInv, Stores
  <2> QED BY Zenon, <2>1, <2>2, <1>1, <1>2 DEF OpenInv, Good
<1> QED BY Zenon, <1>1, <1>3, <1>4, <1>5 DEF SlotInv

LEMMA WorkSlot ==
    ASSUME StackInv, SlotInv, key # "none", key' # "none", seen' = seen, UNCHANGED thread, TopOnly
    PROVE  SlotInv'
<1>1. pc' = pc /\ opening' = opening /\ Left' = Left /\ Stored' = Stored
  BY Zenon DEF thread, Left, Stored
<1>2. \A d \in 1 .. Depth' - 1 : OffEmpty(tables[d], -1)'
  BY Zenon, ParentsEmpty
<1>3. OffEmpty(Left, opening.index)'
  BY Zenon, <1>1 DEF SlotInv, OffEmpty
<1>4. pc # "user" => OpenInv'
  <2> SUFFICES ASSUME pc # "user" PROVE OpenInv'
    OBVIOUS
  <2>1. OpenInv
    BY Zenon DEF SlotInv
  <2>2. Stores(Left[opening.index])'
    BY Zenon, <2>1, <1>1 DEF OpenInv, Stores
  <2> QED BY Zenon, <2>1, <2>2, <1>1 DEF OpenInv, Good
<1> QED BY Zenon, <1>1, <1>2, <1>3, <1>4 DEF SlotInv

\* What the handler leaves.
LEMMA KeyLeaves ==
    ASSUME DInv, SlotInv, key # "none", Restored
    PROVE  Table' = IF pc = "user" THEN seen ELSE [seen EXCEPT ![opening.index] = Closed]
<1> DEFINE i == get_fd_index(seen)
<1>1. Left = seen /\ seen = [fd \in Fds |-> seen[fd]]
  BY Zenon DEF Left, DInv, OwnerInv, Good
<1>2. Table' = IF i = -1 THEN seen ELSE [seen EXCEPT ![i] = Closed]
  BY Zenon DEF Restored
<1>3. i = -1 \/ (i \in Given /\ seen[i].flags = 0)
  BY Zenon, FreeIndex
<1>4. CASE pc = "user"
  <2>1. i # -1 => seen[i] = Closed
    BY Zenon, <1>1, <1>3, <1>4 DEF SlotInv, OffEmpty
  <2>2. i # -1 => [seen EXCEPT ![i] = Closed] = seen
    <3> HIDE DEF i
    <3> QED BY Zenon, <2>1, <1>1
  <2> QED BY Zenon, <2>2, <1>2, <1>4
<1>5. CASE pc # "user"
  <2>1. opening.index = i /\ i # -1
    BY Zenon, <1>1, <1>5, StandardSlots DEF SlotInv, OpenInv
  <2> QED BY Zenon, <2>1, <1>2, <1>5
<1> QED BY Zenon, <1>4, <1>5

LEMMA ReturnSlot ==
    ASSUME DInv, SlotInv, key # "none", key' = "none", UNCHANGED thread, TopOnly, Restored
    PROVE  SlotInv'
<1> DEFINE i == opening.index
<1>1. pc' = pc /\ opening' = opening /\ Left' = Table' /\ Stored' = Stored
  BY Zenon DEF thread, Left, Stored
<1>2. \A d \in 1 .. Depth' - 1 : OffEmpty(tables[d], -1)'
  BY Zenon, ParentsEmpty DEF DInv
<1>3. Left = seen /\ Good(seen) /\ seen = [fd \in Fds |-> seen[fd]] /\ OffEmpty(seen, i)
  BY Zenon DEF Left, DInv, OwnerInv, Good, SlotInv
<1>4. Table' = IF pc = "user" THEN seen ELSE [seen EXCEPT ![i] = Closed]
  BY Zenon, KeyLeaves
<1>5. OffEmpty(Left', opening'.index)
  BY Zenon, <1>1, <1>3, <1>4, EmptiedSlot
<1>6. pc # "user" => OpenInv'
  <2> SUFFICES ASSUME pc # "user" PROVE OpenInv'
    OBVIOUS
  <2>1. OpenInv /\ i \in Given /\ i \in Fds /\ opening.lost = Stored
    BY Zenon, <1>3, StandardSlots DEF SlotInv, OpenInv, Stores
  <2>2. \A fd \in Fds : Table'[fd] = IF fd = i THEN Closed ELSE seen[fd]
    BY Zenon, <1>3, <1>4
  <2>3. Stores(Left[opening.index])'
    <3>1. Left'[opening'.index] = Closed
      BY Zenon, <2>1, <2>2, <1>1
    <3> QED BY Zenon, <3>1, <2>1, <1>1, ClosedFields DEF Stores
  <2>4. get_fd_index(Table') = get_fd_index(seen)
    <3>1. seen[i].flags = 0
      BY Zenon, <2>1, <1>3 DEF OpenInv, Stores
    <3>2. \A fd \in Given : Table'[fd].flags = 0 <=> seen[fd].flags = 0
      BY Zenon, <3>1, <2>2, ClosedFields, StandardSlots
    <3> QED BY Zenon, <3>2, SameIndex
  <2> QED BY Zenon, <2>1, <2>2, <2>3, <2>4, <1>1, <1>3 DEF OpenInv, Good
<1> QED BY Zenon, <1>1, <1>2, <1>5, <1>6 DEF SlotInv, OffEmpty

LEMMA HandlerSlots ==
    ASSUME DInv, SlotInv, Handler
    PROVE  SlotInv'
<1>1. StackInv
  BY DEF DInv
<1>2. CASE InfoOpen
  <2>1. key # "none" /\ key' # "none" /\ seen' = seen /\ UNCHANGED thread /\ TopOnly
    BY Zenon, <1>2 DEF InfoOpen, PutTable, TopOnly
  <2> QED BY Zenon, <2>1, <1>1, WorkSlot
<1>3. CASE InfoRead
  <2>1. key # "none" /\ key' # "none" /\ seen' = seen /\ UNCHANGED thread /\ TopOnly
    BY Zenon, <1>3 DEF InfoRead, PutTable, TopOnly, handler
  <2> QED BY Zenon, <2>1, <1>1, WorkSlot
<1>4. CASE InfoClose
  <2>1. key # "none" /\ key' = "none" /\ UNCHANGED thread /\ TopOnly
    BY Zenon, <1>4 DEF InfoClose, PutTable, TopOnly, HandlerReturns
  <2> QED BY Zenon, <2>1, <1>4, InfoCloseKept, ReturnSlot
<1>5. CASE FileText
  <2>1. key # "none" /\ key' = "none" /\ UNCHANGED thread /\ TopOnly
    BY Zenon, <1>5 DEF FileText, PutTable, TopOnly, HandlerReturns
  <2> QED BY Zenon, <2>1, <1>5, FileTextKept, ReturnSlot
<1>6. ASSUME NEW f \in Frequencies, ShowFreq(f) PROVE SlotInv'
  <2>1. key # "none" /\ key' = "none" /\ UNCHANGED thread /\ TopOnly
    BY Zenon, <1>6 DEF ShowFreq, PutTable, TopOnly, HandlerReturns
  <2> QED BY Zenon, <2>1, <1>6, ShowFreqKept, ReturnSlot
<1> QED BY Zenon, <1>2, <1>3, <1>4, <1>5, <1>6 DEF Handler

LEMMA InitSlot == Init => SlotInv
<1> SUFFICES ASSUME Init PROVE SlotInv
  OBVIOUS
<1>1. pc = "user" /\ key = "none" /\ opening.index = -1
  BY Zenon DEF Init, Idle, Opening
<1>2. Depth = 1 /\ Table = fd_table_init
  BY DEF Init, Depth, Table
<1>3. OffEmpty(fd_table_init, -1)
  BY Zenon, StandardSlots DEF OffEmpty, fd_table_init, Given
<1>4. OffEmpty(Left, opening.index)
  BY Zenon, <1>1, <1>2, <1>3 DEF Left
<1>5. 1 .. Depth - 1 = {}
  BY <1>2
<1> QED BY Zenon, <1>1, <1>4, <1>5 DEF SlotInv

LEMMA StepSlot ==
    ASSUME DInv, SlotInv, [Next]_vars
    PROVE  SlotInv'
<1>1. StackInv
  BY DEF DInv
<1>2. CASE Halt
  BY Zenon, <1>1, <1>2, LeaveSlot DEF Halt
<1>3. CASE UNCHANGED vars
  <2>1. /\ tables' = tables /\ pc' = pc /\ opening' = opening /\ key' = key /\ seen' = seen
    BY Zenon, <1>3 DEF vars
  <2>2. Table' = Table /\ Depth' = Depth /\ Left' = Left /\ Stored' = Stored
    BY Zenon, <2>1 DEF Table, Depth, Left, Stored
  <2>3. pc # "user" => OpenInv'
    <3> SUFFICES ASSUME pc # "user" PROVE OpenInv'
      OBVIOUS
    <3>1. OpenInv
      BY Zenon DEF SlotInv
    <3>2. Stores(Left[opening.index])'
      BY Zenon, <3>1, <2>1, <2>2 DEF OpenInv, Stores
    <3> QED BY Zenon, <3>1, <3>2, <2>1, <2>2 DEF OpenInv, Good
  <2>4. OffEmpty(Left', opening'.index)
    BY Zenon, <2>1, <2>2 DEF SlotInv
  <2> QED BY Zenon, <2>1, <2>2, <2>3, <2>4 DEF SlotInv, OffEmpty
<1> QED
  BY Zenon, <1>1, <1>2, <1>3, OpenSlot, StoreSlot, ReadSlot, WriteSlot, CloseSlot, ExecuteSlot,
     PressSlot, HandlerSlots DEF Next

\* Both invariants hold throughout.
LEMMA SlotSafe == Spec => [](DInv /\ SlotInv)
<1>1. DInv /\ SlotInv /\ [Next]_vars => (DInv /\ SlotInv)'
  BY StepKept, StackKept, StepSlot DEF DInv
<1> QED BY InitDInv, InitSlot, <1>1, PTL DEF Spec

\* For every number of descriptors and processes, every image and every point at
\* which a key is pressed: a test key that returns has left the table as it found
\* it, but for the slot an interrupted open is filling, which it empties.
THEOREM KeysSafe == Spec => KeysLeaveTable
<1>1. ASSUME DInv, SlotInv, [Next]_vars, key # "none", key' = "none"
      PROVE  Table' = IF pc = "user" THEN seen ELSE [seen EXCEPT ![opening.index] = Closed]
  BY Zenon, <1>1, StepKept, KeyLeaves
<1>2. DInv /\ SlotInv /\ [Next]_vars =>
          [key # "none" /\ key' = "none" =>
              Table' = IF pc = "user" THEN seen ELSE [seen EXCEPT ![opening.index] = Closed]]_vars
  BY Zenon, <1>1
<1> QED BY SlotSafe, <1>2, PTL DEF Spec, KeysLeaveTable

\* open fails when the name does not exist or no slot is off, and only then.
LEMMA OpenFails ==
    ASSUME DInv, NEW name \in Names, Open(name)
    PROVE  LET free == {fd \in Fds : Table[fd].flags = 0}
           IN  (read_dentry_by_name(img, name) = -1 \/ free = {}) <=> (ret' = -1 /\ pc' = "user")
<1> DEFINE e     == read_dentry_by_name(img, name)
           index == get_fd_index(Table)
           free  == {fd \in Fds : Table[fd].flags = 0}
<1>1. /\ pc = "user"
      /\ e = -1 \/ index = -1 => ret' = -1 /\ pc' = pc
      /\ e # -1 /\ index # -1 => pc' = "fd_jump"
  <2> HIDE DEF e, index
  <2> QED BY DEF Open, Calling, Return, e, index
<1>2. index # -1 => index \in free
  BY FreeIndex, StandardSlots
<1>3. Table[0].flags = 1 /\ Table[1].flags = 1
  BY Zenon, TableGood, StandardSlots DEF DInv, Good, fd_table_init, Closed
<1>4. \A fd \in free : fd \in Given
  BY <1>3 DEF Given
<1>5. free # {} => index # -1
  BY <1>4, NoneFree
<1> HIDE DEF e, index, free
<1>6. (e = -1 \/ free = {}) <=> (ret' = -1 /\ pc' = "user")
  BY Zenon, <1>1, <1>2, <1>5
<1> QED BY <1>6 DEF e, free

\* The last store of an open.
LEMMA OpenReturns ==
    ASSUME DInv, SlotInv, [Next]_vars, pc # "user", pc' = "user"
    PROVE  LET i == opening.index
           IN  /\ ret' = i /\ opening.found[i].flags = 0
               /\ Table' = [opening.found EXCEPT ![i] =
                     [f \in DOMAIN Closed |-> IF f \in opening.lost THEN Closed[f]
                                              ELSE opening.info[f]]]
<1> DEFINE i == opening.index
           e == [Table[i] EXCEPT !.flags = opening.info.flags]
           filled == [f \in Fields |-> IF f \in opening.lost THEN Closed[f] ELSE opening.info[f]]
<1>1. Store("flags")
  <2>1. ~UNCHANGED vars
    BY Zenon DEF vars
  <2>2. ASSUME Handler PROVE FALSE
    <3>1. pc' = pc
      BY Zenon, <2>2 DEF Handler, InfoOpen, InfoRead, InfoClose, FileText, ShowFreq, thread
    <3> QED BY Zenon, <3>1
  <2>3. ASSUME NEW field \in Points \ {"user"}, Store(field) PROVE field = "flags"
    <3>1. field # "flags" => pc' = After(field)
      BY Zenon, <2>3 DEF Store
    <3>2. field # "flags" => After(field) # "user"
      BY DEF After, Points
    <3> QED BY Zenon, <3>1, <3>2
  <2> QED
    BY Zenon, <2>1, <2>2, <2>3
    DEF Next, Open, Read, Write, Close, Execute, Halt, Calling, Press
<1>2. /\ pc = "flags" /\ key = "none" /\ ret' = i
      /\ tables' = [tables EXCEPT ![Depth] = [Table EXCEPT ![i] = e]]
  BY Zenon, <1>1 DEF Store, PutTable
<1>3. OpenInv /\ StackInv /\ Left = Table /\ Stored = {"fd_jump", "inode_ptr", "file_position"}
  BY Zenon, <1>2 DEF SlotInv, DInv, Left, Stored
<1>4. /\ i \in Fds /\ Table = [fd \in Fds |-> Table[fd]]
      /\ opening.found = [fd \in Fds |-> opening.found[fd]] /\ opening.found[i].flags = 0
      /\ \A fd \in Fds : fd # i => Table[fd] = opening.found[fd]
      /\ Table[i] = [f \in Fields |-> Table[i][f]]
      /\ \A f \in Stored : Table[i][f] = IF f \in opening.lost THEN Closed[f] ELSE opening.info[f]
      /\ opening.lost \subseteq Stored
  BY Zenon, <1>2, <1>3, StandardSlots, TableGood DEF OpenInv, Good, Stores
<1>5. e = filled
  <2>1. e = [f \in Fields |-> IF f = "flags" THEN opening.info[f] ELSE Table[i][f]]
    BY Zenon, <1>4
  <2>2. \A f \in Fields : f # "flags" => f \in Stored
    BY Zenon, <1>3 DEF Fields
  <2>3. "flags" \notin opening.lost
    BY Zenon, <1>3, <1>4
  <2>4. \A f \in Fields : (IF f = "flags" THEN opening.info[f] ELSE Table[i][f]) =
                          IF f \in opening.lost THEN Closed[f] ELSE opening.info[f]
    BY Zenon, <2>2, <2>3, <1>4
  <2> QED BY Zenon, <2>1, <2>4
<1> HIDE DEF e, filled
<1>6. Table' = [Table EXCEPT ![i] = e]
  BY Zenon, <1>2, <1>3, TableAfter
<1>7. [Table EXCEPT ![i] = e] = [opening.found EXCEPT ![i] = e]
  BY Zenon, <1>4
<1> QED BY Zenon, <1>2, <1>4, <1>5, <1>6, <1>7, ClosedFields DEF filled

\* For every number of descriptors, every image and whatever the test keys do
\* in between: open fails when the name does not exist or no slot is off, and
\* only then; otherwise it returns a slot that was off, changes no other, and
\* what it stored in it is there but for the stores a test key came after.
THEOREM OpenSafe == Spec => OpenFillsSlot
<1>1. DInv /\ SlotInv /\ [Next]_vars =>
         [/\ \A name \in Names :
                Open(name) => LET free == {fd \in Fds : Table[fd].flags = 0}
                              IN  (read_dentry_by_name(img, name) = -1 \/ free = {})
                                  <=> (ret' = -1 /\ pc' = "user")
          /\ pc # "user" /\ pc' = "user" =>
                LET i == opening.index
                IN  /\ ret' = i /\ opening.found[i].flags = 0
                    /\ Table' = [opening.found EXCEPT ![i] =
                          [f \in DOMAIN Closed |-> IF f \in opening.lost THEN Closed[f]
                                                   ELSE opening.info[f]]]]_vars
  BY Zenon, OpenFails, OpenReturns
<1> QED BY SlotSafe, <1>1, PTL DEF Spec, OpenFillsSlot

-----------------------------------------------------------------------------
(* Names. *)

\* The least number of a set, and that it is the only one.
LEMMA LeastBelow ==
    ASSUME NEW S, S \subseteq Nat, S # {}
    PROVE  Min(S) \in S /\ \A y \in S : Min(S) <= y
BY Zenon, LeastOf DEF Min

LEMMA LeastOnly ==
    ASSUME NEW S, S \subseteq Nat, NEW x \in S, \A y \in S : x <= y
    PROVE  Min(S) = x
<1>1. Min(S) \in S /\ \A y \in S : Min(S) <= y
  BY Zenon, LeastBelow
<1>2. Min(S) <= x /\ x <= Min(S) /\ Min(S) \in Nat /\ x \in Nat
  BY Zenon, <1>1
<1> QED BY <1>2

\* Where the first word of a string, and the name of an entry, may end.
WordEnds(str)  == {MAX_NAME_CHARACTERS} \cup {k \in 0 .. Len(str) : CharAt(str, k) \in {" ", NUL}}
NameEnds(im, e) ==
    {MAX_NAME_CHARACTERS} \cup
    {k \in 0 .. MAX_NAME_CHARACTERS - 1 : im.entries[e].file_name[k] = NUL}

Word(str) == Min(WordEnds(str))
Named(im, e) == Min(NameEnds(im, e))

LEMMA WordBounds ==
    ASSUME NEW Ch, NEW str \in Seq(Ch)
    PROVE  /\ WordEnds(str) \subseteq Nat
           /\ Word(str) \in WordEnds(str) /\ \A y \in WordEnds(str) : Word(str) <= y
           /\ Word(str) \in Nat /\ Word(str) <= Len(str) /\ Word(str) <= MAX_NAME_CHARACTERS
           /\ Word(str) = MAX_NAME_CHARACTERS \/ CharAt(str, Word(str)) \in {" ", NUL}
<1>1. MAX_NAME_CHARACTERS \in Nat /\ Len(str) \in Nat
  BY FileSizes
<1>2. WordEnds(str) \subseteq Nat
  <2>1. 0 .. Len(str) \subseteq Nat
    BY <1>1
  <2> QED BY Zenon, <1>1, <2>1 DEF WordEnds
<1>3. MAX_NAME_CHARACTERS \in WordEnds(str)
  BY Zenon DEF WordEnds
<1>4. Word(str) \in WordEnds(str) /\ \A y \in WordEnds(str) : Word(str) <= y
  <2>1. WordEnds(str) # {}
    BY Zenon, <1>3
  <2> QED BY Zenon, <1>2, <2>1, LeastBelow DEF Word
<1>5. Len(str) \in WordEnds(str)
  <2>1. Len(str) \in 0 .. Len(str) /\ ~(Len(str) < Len(str))
    BY <1>1
  <2>2. CharAt(str, Len(str)) = NUL
    BY Zenon, <2>1 DEF CharAt
  <2> QED BY Zenon, <2>1, <2>2 DEF WordEnds
<1>6. Word(str) = MAX_NAME_CHARACTERS \/ CharAt(str, Word(str)) \in {" ", NUL}
  BY Zenon, <1>4 DEF WordEnds
<1> QED BY Zenon, <1>2, <1>3, <1>4, <1>5, <1>6

LEMMA NameBounds ==
    ASSUME NEW im, NEW e
    PROVE  /\ Named(im, e) \in Nat /\ Named(im, e) <= MAX_NAME_CHARACTERS
           /\ \A k \in 0 .. Named(im, e) - 1 : im.entries[e].file_name[k] # NUL
<1>1. MAX_NAME_CHARACTERS \in Nat
  BY FileSizes
<1>2. NameEnds(im, e) \subseteq Nat
  BY <1>1 DEF NameEnds
<1>3. MAX_NAME_CHARACTERS \in NameEnds(im, e)
  BY Zenon DEF NameEnds
<1>4. Named(im, e) \in NameEnds(im, e) /\ \A y \in NameEnds(im, e) : Named(im, e) <= y
  <2>1. NameEnds(im, e) # {}
    BY Zenon, <1>3
  <2> QED BY Zenon, <1>2, <2>1, LeastBelow DEF Named
<1>5. Named(im, e) \in Nat /\ Named(im, e) <= MAX_NAME_CHARACTERS
  BY Zenon, <1>2, <1>3, <1>4
<1>6. ASSUME NEW k \in 0 .. Named(im, e) - 1 PROVE im.entries[e].file_name[k] # NUL
  <2>1. k \in 0 .. MAX_NAME_CHARACTERS - 1 /\ ~(Named(im, e) <= k)
    BY <1>1, <1>5
  <2> QED BY Zenon, <1>4, <2>1 DEF NameEnds
<1> QED BY Zenon, <1>5, <1>6

\* The name that dir_read delivers into a buffer of a name's length.
LEMMA NameIs ==
    ASSUME NEW im, NEW e
    PROVE  EntryName(im, e, MAX_NAME_CHARACTERS) =
               [k \in 1 .. Named(im, e) |-> im.entries[e].file_name[k - 1]]
<1>1. {MAX_NAME_CHARACTERS, MAX_NAME_CHARACTERS} = {MAX_NAME_CHARACTERS}
  BY Zenon
<1> QED BY Zenon, <1>1 DEF EntryName, Named, NameEnds

LEMMA NameAt ==
    ASSUME NEW im, NEW e, NEW k \in 0 .. Named(im, e) - 1
    PROVE  EntryName(im, e, MAX_NAME_CHARACTERS)[k + 1] = im.entries[e].file_name[k]
<1>1. Named(im, e) \in Nat
  BY Zenon, NameBounds
<1>2. k + 1 \in 1 .. Named(im, e) /\ (k + 1) - 1 = k
  BY <1>1
<1>3. EntryName(im, e, MAX_NAME_CHARACTERS)[k + 1] = im.entries[e].file_name[(k + 1) - 1]
  <2> DEFINE m == k + 1
             F == [j \in 1 .. Named(im, e) |-> im.entries[e].file_name[j - 1]]
  <2>1. m \in 1 .. Named(im, e)
    BY Zenon, <1>2
  <2> HIDE DEF m
  <2>2. F[m] = im.entries[e].file_name[m - 1]
    BY Zenon, <2>1
  <2>3. EntryName(im, e, MAX_NAME_CHARACTERS) = F
    BY NameIs
  <2> HIDE DEF F
  <2> QED BY <2>2, <2>3 DEF m
<1> QED BY Zenon, <1>2, <1>3

\* The entries read_dentry_by_name takes for the one asked for.
Matches(im, str) ==
    {e \in Entries :
        /\ Named(im, e) = Word(str)
        /\ \A k \in 0 .. Word(str) - 1 : im.entries[e].file_name[k] = CharAt(str, k)}

LEMMA DentryIs ==
    ASSUME NEW im, NEW str
    PROVE  read_dentry_by_name(im, str) =
               IF Word(str) = 0 \/ Matches(im, str) = {} THEN -1 ELSE Min(Matches(im, str))
<1> DEFINE same == {e \in Entries :
                       /\ create_char_count(im)[e] = Word(str)
                       /\ \A k \in 0 .. Word(str) - 1 : im.entries[e].file_name[k] = CharAt(str, k)}
<1>1. read_dentry_by_name(im, str) = IF Word(str) = 0 \/ same = {} THEN -1 ELSE Min(same)
  BY Zenon DEF read_dentry_by_name, Word, WordEnds
<1>2. \A e \in Entries : create_char_count(im)[e] = Named(im, e)
  BY Zenon DEF create_char_count, Named, NameEnds
<1>3. same = Matches(im, str)
  BY Zenon, <1>2 DEF Matches
<1> HIDE DEF same
<1> QED BY Zenon, <1>1, <1>3

LEMMA EntriesNat == Entries \subseteq Nat /\ \A e \in Entries, r \in Entries : r <= e => r \in 0 .. e
  BY FileSizes DEF Entries

\* A string that is the name of entry e, alone or with a blank and more behind it.
AsksFor(im, e, str) ==
    LET name == EntryName(im, e, MAX_NAME_CHARACTERS)
        n    == Named(im, e)
    IN  /\ n # 0 /\ n <= Len(str)
        /\ \A k \in 1 .. n : name[k] # " " /\ str[k] = name[k]
        /\ Len(str) = n \/ str[n + 1] = " "

\* What the directory lists can be opened: the name of an entry, without blanks
\* in it, alone or with a blank and more words behind it, leads
\* read_dentry_by_name to an entry of that name, and to none behind it.
THEOREM ListedNamesOpen ==
    ASSUME NEW im, NEW Ch, NEW str \in Seq(Ch), NEW e \in Entries, AsksFor(im, e, str)
    PROVE  LET r == read_dentry_by_name(im, str)
           IN  /\ r \in 0 .. e
               /\ EntryName(im, r, MAX_NAME_CHARACTERS) = EntryName(im, e, MAX_NAME_CHARACTERS)
<1> DEFINE n == Named(im, e)
           fn(d) == im.entries[d].file_name
           r == read_dentry_by_name(im, str)
<1>1. n \in Nat /\ n <= MAX_NAME_CHARACTERS /\ Len(str) \in Nat /\ MAX_NAME_CHARACTERS \in Nat
  BY NameBounds, FileSizes
<1>2. n # 0 /\ n <= Len(str)
  BY Zenon DEF AsksFor
<1>3. ASSUME NEW k \in 0 .. n - 1 PROVE fn(e)[k] = CharAt(str, k) /\ CharAt(str, k) \notin {" ", NUL}
  <2>1. k + 1 \in 1 .. n /\ k < Len(str) /\ (k + 1) - 1 = k
    BY <1>1, <1>2
  <2>2. EntryName(im, e, MAX_NAME_CHARACTERS)[k + 1] = fn(e)[k]
    <3>1. \A j \in 0 .. n - 1 : EntryName(im, e, MAX_NAME_CHARACTERS)[j + 1] = fn(e)[j]
      BY NameAt
    <3> HIDE DEF n, fn
    <3> QED BY <3>1
  <2>3. str[k + 1] = fn(e)[k] /\ fn(e)[k] # " "
    BY Zenon, <2>1, <2>2 DEF AsksFor
  <2>4. fn(e)[k] # NUL
    BY Zenon, <1>3, NameBounds
  <2> QED BY Zenon, <2>1, <2>3, <2>4 DEF CharAt
<1>4. Len(str) = n \/ str[n + 1] = " "
  BY Zenon DEF AsksFor
<1> HIDE DEF n
<1>5. n \in WordEnds(str)
  <2>1. n \in 0 .. Len(str) /\ (n < Len(str) \/ n = Len(str)) /\ (n = Len(str) => ~(n < Len(str)))
    BY <1>1, <1>2
  <2>2. CharAt(str, n) \in {" ", NUL}
    BY Zenon, <1>4, <2>1 DEF CharAt
  <2> QED BY Zenon, <2>1, <2>2 DEF WordEnds
<1>6. ASSUME NEW y \in WordEnds(str) PROVE n <= y
  <2>1. CASE y = MAX_NAME_CHARACTERS
    BY Zenon, <1>1, <2>1
  <2>2. CASE y \in 0 .. Len(str) /\ CharAt(str, y) \in {" ", NUL}
    <3>1. y \notin 0 .. n - 1
      BY Zenon, <1>3, <2>2
    <3>2. y \in 0 .. Len(str)
      BY Zenon, <2>2
    <3> QED BY <1>1, <3>1, <3>2
  <2> QED BY Zenon, <2>1, <2>2 DEF WordEnds
<1>7. Word(str) = n
  BY Zenon, <1>5, <1>6, WordBounds, LeastOnly DEF Word
<1>8. e \in Matches(im, str)
  BY Zenon, <1>3, <1>7 DEF Matches, n
<1>9. Matches(im, str) \subseteq Nat /\ Matches(im, str) # {} /\ Matches(im, str) \subseteq Entries
  BY Zenon, <1>8, EntriesNat DEF Matches
<1>10. r = Min(Matches(im, str))
  BY Zenon, <1>2, <1>7, <1>9, DentryIs
<1>11. r \in Matches(im, str) /\ r <= e
  BY Zenon, <1>8, <1>9, <1>10, LeastBelow
<1>12. r \in 0 .. e
  BY Zenon, <1>9, <1>11, EntriesNat
<1>13. Named(im, r) = n /\ \A k \in 0 .. n - 1 : fn(r)[k] = CharAt(str, k)
  BY Zenon, <1>7, <1>11 DEF Matches
<1> HIDE DEF r
<1>14. \A k \in 1 .. n : fn(r)[k - 1] = fn(e)[k - 1]
  <2>1. \A k \in 1 .. n : k - 1 \in 0 .. n - 1
    BY <1>1
  <2> QED BY Zenon, <1>3, <1>13, <2>1
<1>15. [k \in 1 .. n |-> fn(r)[k - 1]] = [k \in 1 .. n |-> fn(e)[k - 1]]
  BY Zenon, <1>14
<1>16. EntryName(im, r, MAX_NAME_CHARACTERS) = EntryName(im, e, MAX_NAME_CHARACTERS)
  <2>1. EntryName(im, r, MAX_NAME_CHARACTERS) = [k \in 1 .. n |-> fn(r)[k - 1]]
    BY <1>13, NameIs
  <2>2. EntryName(im, e, MAX_NAME_CHARACTERS) = [k \in 1 .. n |-> fn(e)[k - 1]]
    BY NameIs DEF n
  <2> QED BY Zenon, <1>15, <2>1, <2>2
<1> QED BY Zenon, <1>12, <1>16 DEF r

\* Nothing else is found: what read_dentry_by_name finds is an entry whose name
\* is the first word of the string, or its first 32 characters ("helloo" and
\* "shel" of err_open in ece391syserr.c are other names than "hello" and "shell").
THEOREM OnlyNamesOpen ==
    ASSUME NEW im, NEW Ch, NEW str \in Seq(Ch), read_dentry_by_name(im, str) # -1
    PROVE  LET r    == read_dentry_by_name(im, str)
               name == EntryName(im, r, MAX_NAME_CHARACTERS)
           IN  /\ r \in Entries /\ Len(name) \in 1 .. Len(str)
               /\ \A k \in 1 .. Len(name) : name[k] = str[k]
               /\ CharAt(str, Len(name)) \in {" ", NUL} \/ Len(name) = MAX_NAME_CHARACTERS
<1> DEFINE r == read_dentry_by_name(im, str)
           n == Word(str)
           name == EntryName(im, r, MAX_NAME_CHARACTERS)
           fn == im.entries[r].file_name
<1>1. n # 0 /\ Matches(im, str) # {} /\ r = Min(Matches(im, str))
  BY Zenon, DentryIs
<1>2. Matches(im, str) \subseteq Nat /\ Matches(im, str) \subseteq Entries
  BY Zenon, EntriesNat DEF Matches
<1>3. r \in Matches(im, str) /\ r \in Entries
  BY Zenon, <1>1, <1>2, LeastBelow
<1>4. Named(im, r) = n /\ \A k \in 0 .. n - 1 : fn[k] = CharAt(str, k)
  BY Zenon, <1>3 DEF Matches
<1>5. /\ n \in Nat /\ n <= Len(str)
      /\ n = MAX_NAME_CHARACTERS \/ CharAt(str, n) \in {" ", NUL}
  BY Zenon, WordBounds
<1>6. name = [k \in 1 .. n |-> fn[k - 1]]
  <2>1. Named(im, r) = n
    BY Zenon, <1>4
  <2> HIDE DEF n, r
  <2> QED BY <2>1, NameIs
<1> HIDE DEF n, r, fn, name
<1>7. Len(name) = n /\ \A k \in 1 .. n : name[k] = fn[k - 1]
  <2>1. n \in Nat
    BY Zenon, <1>5
  <2> QED BY <1>6, <2>1
<1>8. n \in 1 .. Len(str)
  <2>1. n \in Nat /\ n <= Len(str) /\ n # 0
    BY Zenon, <1>1, <1>5
  <2> QED BY <2>1
<1>9. ASSUME NEW k \in 1 .. n PROVE name[k] = str[k]
  <2>1. k - 1 \in 0 .. n - 1 /\ k - 1 < Len(str) /\ (k - 1) + 1 = k
    BY <1>8
  <2> QED BY Zenon, <1>4, <1>7, <2>1 DEF CharAt
<1> QED BY Zenon, <1>3, <1>5, <1>7, <1>8, <1>9 DEF r, name

-----------------------------------------------------------------------------
\* What the builder of the image sees to: an entry that is a file names an
\* inode, a file fits the block list of its inode, and the blocks that hold its
\* bytes exist.
Inodes == 0 .. img.num_inodes - 1

InodeOK(ind) ==
    /\ ind.file_size \in Nat
    /\ ind.file_size <= MAX_INODE_DATA_BLOCKS * MAX_CHARS_IN_DATA
    /\ \A b \in 0 .. MAX_INODE_DATA_BLOCKS - 1 :
          MAX_CHARS_IN_DATA * b < ind.file_size => ~(ind.datablock_idx[b] > img.num_data_blocks)

ImageOK ==
    /\ img.num_inodes \in Nat
    /\ img.num_entries \in Nat /\ img.num_entries < WORD
    /\ \A i \in Inodes : InodeOK(img.inodes[i])
    /\ \A e \in Entries : img.entries[e].file_type \notin {0, 1} => img.entries[e].inode_idx \in Inodes

-----------------------------------------------------------------------------
(* Blocks and offsets. *)

LEMMA MaxOf ==
    ASSUME NEW m \in Int
    PROVE  Max({0, m}) = IF m >= 0 THEN m ELSE 0
BY DEF Max

LEMMA MinOf ==
    ASSUME NEW a \in Int, NEW b \in Int
    PROVE  Min({a, b}) = IF a <= b THEN a ELSE b
BY DEF Min

LEMMA MinOne ==
    ASSUME NEW a \in Int
    PROVE  Min({a}) = a
BY DEF Min

\* Whole blocks lie between two block numbers.
LEMMA BlocksApart ==
    ASSUME NEW C \in Nat, NEW u \in Nat, NEW v \in Nat, u < v
    PROVE  /\ C * u + C <= C * v /\ C * u \in Nat /\ C * v \in Nat
           /\ C * (u + 1) = C * u + C
<1>1. (v - u) - 1 \in Nat
  OBVIOUS
<1>2. C * ((v - u) - 1) \in Nat
  BY <1>1
<1>3. C * v = C * u + C + C * ((v - u) - 1)
  OBVIOUS
<1>4. C * u \in Nat /\ C * v \in Nat /\ C * (u + 1) = C * u + C
  OBVIOUS
<1> QED BY <1>2, <1>3, <1>4

\* An offset is its block and its place in the block.
LEMMA OffsetSplit ==
    ASSUME NEW C \in Nat \ {0}, NEW o \in Nat
    PROVE  /\ o \div C \in Nat /\ o % C \in Nat /\ o % C < C
           /\ C * (o \div C) \in Nat
           /\ o = C * (o \div C) + (o % C)
<1>1. o \div C \in Int /\ o % C \in 0 .. C - 1
  OBVIOUS
<1>4. o = C * (o \div C) + (o % C)
  OBVIOUS
<1>2. o \div C \in Nat
  BY <1>1
<1>3. C * (o \div C) \in Nat
  BY <1>2
<1> QED BY <1>1, <1>2, <1>3, <1>4

\* ... and these two determine it.
LEMMA OffsetIs ==
    ASSUME NEW C \in Nat \ {0}, NEW b \in Nat, NEW r \in Nat, r < C
    PROVE  (C * b + r) \div C = b /\ (C * b + r) % C = r
<1> DEFINE o == C * b + r
           q == o \div C
           s == o % C
<1>1. o \in Nat /\ C * b \in Nat
  OBVIOUS
<1>2. /\ q \in Nat /\ s \in Nat /\ s < C /\ C * q \in Nat
      /\ o = C * q + s
  <2> HIDE DEF o
  <2> QED BY <1>1, OffsetSplit
<1> HIDE DEF q, s
<1>3. ~(q < b)
  <2> SUFFICES ASSUME q < b PROVE FALSE
    OBVIOUS
  <2>1. C * q + C <= C * b
    BY <1>2, BlocksApart
  <2> QED BY <1>1, <1>2, <2>1
<1>4. ~(b < q)
  <2> SUFFICES ASSUME b < q PROVE FALSE
    OBVIOUS
  <2>1. C * b + C <= C * q
    BY <1>2, BlocksApart
  <2> QED BY <1>1, <1>2, <2>1
<1>5. q = b
  BY <1>2, <1>3, <1>4
<1>6. s = r
  BY <1>1, <1>2, <1>5
<1> QED BY <1>5, <1>6 DEF q, s

-----------------------------------------------------------------------------
(* The bytes of a file. *)

Byte(i, o) ==
    <<img.inodes[i].datablock_idx[o \div MAX_CHARS_IN_DATA], o % MAX_CHARS_IN_DATA>>

FileBytes(i) == {Byte(i, o) : o \in Nat}

\* From offset a up to offset z.
Bytes(i, a, z) == [k \in 1 .. z - a |-> Byte(i, a + k - 1)]

LEMMA BytesLength ==
    ASSUME NEW i, NEW a \in Nat, NEW z \in Nat, a <= z
    PROVE  /\ Bytes(i, a, z) \in Seq(FileBytes(i))
           /\ Len(Bytes(i, a, z)) = z - a
           /\ \A k \in 1 .. z - a : Bytes(i, a, z)[k] = Byte(i, a + k - 1)
<1> DEFINE T == FileBytes(i)
           B(k) == Byte(i, a + k - 1)
<1>1. z - a \in Nat /\ \A k \in 1 .. z - a : B(k) \in T
  <2>1. \A k \in 1 .. z - a : a + k - 1 \in Nat
    OBVIOUS
  <2>2. \A o \in Nat : Byte(i, o) \in T
    BY DEF FileBytes
  <2> QED BY <2>1, <2>2
<1>2. Bytes(i, a, z) = [k \in 1 .. z - a |-> B(k)]
  BY DEF Bytes
<1> HIDE DEF T, B
<1>3. [k \in 1 .. z - a |-> B(k)] \in Seq(T) /\ Len([k \in 1 .. z - a |-> B(k)]) = z - a
  BY <1>1
<1> QED BY <1>2, <1>3 DEF T, B

\* What stands where in a concatenation.
LEMMA ConcatAt ==
    ASSUME NEW S, NEW p \in Seq(S), NEW q \in Seq(S), NEW n \in 1 .. Len(p) + Len(q)
    PROVE  (p \o q)[n] = IF n <= Len(p) THEN p[n] ELSE q[n - Len(p)]
OBVIOUS

\* Two pieces that meet are one piece.
LEMMA BytesJoin ==
    ASSUME NEW i, NEW a \in Nat, NEW m \in Nat, NEW z \in Nat, a <= m, m <= z
    PROVE  Bytes(i, a, m) \o Bytes(i, m, z) = Bytes(i, a, z)
<1> DEFINE s == Bytes(i, a, m)
           t == Bytes(i, m, z)
           u == Bytes(i, a, z)
           T == FileBytes(i)
<1>1. /\ s \in Seq(T) /\ Len(s) = m - a /\ \A k \in 1 .. m - a : s[k] = Byte(i, a + k - 1)
      /\ t \in Seq(T) /\ Len(t) = z - m /\ \A k \in 1 .. z - m : t[k] = Byte(i, m + k - 1)
      /\ u \in Seq(T) /\ Len(u) = z - a /\ \A k \in 1 .. z - a : u[k] = Byte(i, a + k - 1)
  <2>1. a <= z
    OBVIOUS
  <2> HIDE DEF s, t, u, T
  <2>2. s \in Seq(T) /\ Len(s) = m - a /\ \A k \in 1 .. m - a : s[k] = Byte(i, a + k - 1)
    BY Zenon, BytesLength DEF s, T
  <2>3. t \in Seq(T) /\ Len(t) = z - m /\ \A k \in 1 .. z - m : t[k] = Byte(i, m + k - 1)
    BY Zenon, BytesLength DEF t, T
  <2>4. u \in Seq(T) /\ Len(u) = z - a /\ \A k \in 1 .. z - a : u[k] = Byte(i, a + k - 1)
    BY Zenon, <2>1, BytesLength DEF u, T
  <2> QED BY <2>2, <2>3, <2>4
<1> HIDE DEF s, t, u, T
<1>2. s \o t \in Seq(T) /\ Len(s \o t) = z - a
  <2>1. s \o t \in Seq(T) /\ Len(s \o t) = Len(s) + Len(t)
    BY SMTT(30), <1>1
  <2> QED BY SMTT(30), <1>1, <2>1
<1>3. ASSUME NEW k \in 1 .. z - a PROVE (s \o t)[k] = u[k]
  <2>0. k \in 1 .. Len(s) + Len(t) /\ (k <= Len(s) <=> k \in 1 .. m - a)
    BY SMTT(30), <1>1
  <2>1. CASE k \in 1 .. m - a
    <3>1. (s \o t)[k] = s[k]
      BY Zenon, <1>1, <2>0, <2>1, ConcatAt
    <3> QED BY SMTT(30), <1>1, <2>1, <3>1
  <2>2. CASE ~(k \in 1 .. m - a)
    <3>1. k - (m - a) \in 1 .. z - m /\ m + (k - (m - a)) - 1 = a + k - 1
      BY <2>2
    <3>2. (s \o t)[k] = t[k - (m - a)]
      BY Zenon, <1>1, <2>0, <2>2, ConcatAt
    <3> QED BY <1>1, <3>1, <3>2
  <2> QED BY Zenon, <2>1, <2>2
<1>4. s \o t = u
  <2> DEFINE w == s \o t
  <2>1. w \in Seq(T) /\ Len(w) = z - a /\ \A k \in 1 .. z - a : w[k] = u[k]
    BY <1>2, <1>3
  <2> HIDE DEF w
  <2>2. w = u
    <3>1. w = [k \in 1 .. z - a |-> w[k]] /\ u = [k \in 1 .. z - a |-> u[k]]
      BY <1>1, <2>1
    <3> QED BY Zenon, <2>1, <3>1
  <2> QED BY <2>2 DEF w
<1> QED BY <1>4 DEF s, t, u

\* The front of a piece.
LEMMA BytesFront ==
    ASSUME NEW i, NEW z \in Nat, NEW p \in Nat, p <= z
    PROVE  SubSeq(Bytes(i, 0, z), 1, p) = Bytes(i, 0, p)
<1> DEFINE s == Bytes(i, 0, z)
           t == Bytes(i, 0, p)
           T == FileBytes(i)
<1>1. /\ s \in Seq(T) /\ Len(s) = z /\ \A k \in 1 .. z : s[k] = Byte(i, 0 + k - 1)
      /\ t \in Seq(T) /\ Len(t) = p /\ \A k \in 1 .. p : t[k] = Byte(i, 0 + k - 1)
  <2>1. 0 \in Nat /\ 0 <= z /\ 0 <= p /\ z - 0 = z /\ p - 0 = p
    OBVIOUS
  <2> HIDE DEF s, t, T
  <2>2. s \in Seq(T) /\ Len(s) = z - 0 /\ \A k \in 1 .. z - 0 : s[k] = Byte(i, 0 + k - 1)
    BY Zenon, <2>1, BytesLength DEF s, T
  <2>3. t \in Seq(T) /\ Len(t) = p - 0 /\ \A k \in 1 .. p - 0 : t[k] = Byte(i, 0 + k - 1)
    BY Zenon, <2>1, BytesLength DEF t, T
  <2> QED BY Zenon, <2>1, <2>2, <2>3
<1> HIDE DEF s, t, T
<1>2. /\ SubSeq(s, 1, p) \in Seq(T) /\ Len(SubSeq(s, 1, p)) = p
      /\ \A k \in 1 .. p : SubSeq(s, 1, p)[k] = s[k]
  BY <1>1
<1>3. SubSeq(s, 1, p) = t
  BY <1>1, <1>2
<1> QED BY <1>3 DEF s, t

\* What one turn of the loop copies is a piece within a block.
LEMMA PartBytes ==
    ASSUME NEW i, NEW b \in Nat, NEW from \in Nat, NEW to \in Nat,
           from <= to, to <= MAX_CHARS_IN_DATA
    PROVE  BlockPart(img, i, b, from, to) =
               Bytes(i, MAX_CHARS_IN_DATA * b + from, MAX_CHARS_IN_DATA * b + to)
<1> DEFINE C == MAX_CHARS_IN_DATA
           lo == C * b + from
           hi == C * b + to
<1>1. C \in Nat \ {0}
  BY FileSizes
<1> HIDE DEF C
<1>2. C * b \in Nat /\ lo \in Nat /\ hi - lo = to - from
  BY <1>1
<1>3. Max({0, to - from}) = to - from
  BY MaxOf
<1>4. ASSUME NEW k \in 1 .. to - from
      PROVE  Byte(i, lo + k - 1) = <<img.inodes[i].datablock_idx[b], from + k - 1>>
  <2> DEFINE r == from + k - 1
  <2>1. r \in Nat /\ r < C /\ lo + k - 1 = C * b + r
    BY <1>1, <1>2 DEF C
  <2> HIDE DEF r
  <2>2. (C * b + r) \div C = b /\ (C * b + r) % C = r
    BY <1>1, <2>1, OffsetIs
  <2> QED BY <2>1, <2>2 DEF Byte, C, r
<1>5. BlockPart(img, i, b, from, to) =
          [k \in 1 .. to - from |-> <<img.inodes[i].datablock_idx[b], from + k - 1>>]
  BY <1>3 DEF BlockPart
<1>6. Bytes(i, lo, hi) = [k \in 1 .. to - from |-> Byte(i, lo + k - 1)]
  BY Zenon, <1>2 DEF Bytes
<1> HIDE DEF lo, hi
<1>7. BlockPart(img, i, b, from, to) = Bytes(i, lo, hi)
  BY <1>4, <1>5, <1>6
<1> QED BY <1>7 DEF lo, hi, C

-----------------------------------------------------------------------------
(* read_data. *)

\* One sequence behind another; opaque in the proofs that only pass it on.
Glue(s, t) == s \o t

\* The function Joined computes with.
Joins(f, P, n) == f = [k \in 1 .. n |-> IF k = 1 THEN P[k] ELSE Glue(f[k - 1], P[k])]

LEMMA JoinsExists ==
    ASSUME NEW P, NEW n \in Nat \ {0}
    PROVE  \E f : Joins(f, P, n)
<1> DEFINE S == {m \in Nat \ {0} : ~\E f : Joins(f, P, m)}
<1> SUFFICES ASSUME S # {} PROVE FALSE
  OBVIOUS
<1>1. PICK m \in S : \A y \in S : m =< y
  <2>1. S \subseteq Nat
    OBVIOUS
  <2> HIDE DEF S
  <2> QED BY Zenon, <2>1, LeastOf
<1>2. CASE m = 1
  <2> DEFINE f == [k \in 1 .. 1 |-> P[1]]
  <2>1. f = [k \in 1 .. 1 |-> IF k = 1 THEN P[k] ELSE Glue(f[k - 1], P[k])]
    OBVIOUS
  <2>2. Joins(f, P, 1)
    BY <2>1 DEF Joins
  <2> QED BY <2>2, <1>2
<1>3. CASE m # 1
  <2>1. m - 1 \in Nat \ {0} /\ m - 1 \notin S
    <3>1. m \in Nat \ {0}
      OBVIOUS
    <3>2. m - 1 \in Nat \ {0} /\ ~(m =< m - 1)
      BY <3>1, <1>3
    <3> HIDE DEF S
    <3> QED BY <3>2, <1>1
  <2>2. PICK g : Joins(g, P, m - 1)
    BY <2>1
  <2>3. m \in Nat /\ m > 1
    BY <1>3
  <2> DEFINE f == [k \in 1 .. m |-> IF k = m THEN Glue(g[m - 1], P[m]) ELSE g[k]]
  <2>4. \A k \in 1 .. m : f[k] = IF k = 1 THEN P[k] ELSE Glue(f[k - 1], P[k])
    <3>1. \A k \in 1 .. m - 1 : g[k] = IF k = 1 THEN P[k] ELSE Glue(g[k - 1], P[k])
      BY <2>2, <2>3 DEF Joins
    <3>2. \A k \in 1 .. m - 1 : f[k] = g[k]
      BY <2>3
    <3>3. f[m] = Glue(g[m - 1], P[m])
      BY SMTT(30), <2>3
    <3> HIDE DEF f
    <3>4. ASSUME NEW k \in 1 .. m PROVE f[k] = IF k = 1 THEN P[k] ELSE Glue(f[k - 1], P[k])
      <4>1. CASE k = m
        <5>1. m - 1 \in 1 .. m - 1
          BY <2>3
        <5> QED BY <4>1, <5>1, <3>2, <3>3, <2>3
      <4>2. CASE k = 1
        BY SMTT(30), <4>2, <3>1, <3>2, <2>3
      <4>3. CASE k # m /\ k # 1
        <5>1. k \in 1 .. m - 1 /\ k - 1 \in 1 .. m - 1
          BY <4>3, <2>3
        <5> QED BY <5>1, <4>3, <3>1, <3>2
      <4> QED BY Zenon, <4>1, <4>2, <4>3
    <3> QED BY <3>4
  <2>5. f = [k \in 1 .. m |-> f[k]]
    OBVIOUS
  <2> HIDE DEF f
  <2>6. Joins(f, P, m)
    BY Zenon, <2>4, <2>5 DEF Joins
  <2> QED BY <2>6
<1> QED BY <1>2, <1>3

LEMMA JoinedRuns ==
    ASSUME NEW P, NEW n \in Nat \ {0}, Len(P) = n
    PROVE  \E f : /\ f[1] = P[1] /\ f[n] = Joined(P)
                  /\ \A k \in 2 .. n : f[k] = Glue(f[k - 1], P[k])
<1> DEFINE f == CHOOSE g : Joins(g, P, n)
<1>1. Joined(P) = f[n]
  BY DEF Joined, Joins, Glue
<1>2. Joins(f, P, n)
  BY JoinsExists
<1> HIDE DEF f
<1>3. \A k \in 1 .. n : f[k] = IF k = 1 THEN P[k] ELSE Glue(f[k - 1], P[k])
  BY <1>2 DEF Joins
<1> QED BY <1>1, <1>3

\* The n pieces of P lie between the cuts.
Meets(i, P, cut, n) ==
    /\ \A k \in 0 .. n : cut[k] \in Nat
    /\ \A k \in 1 .. n : cut[k - 1] <= cut[k] /\ P[k] = Bytes(i, cut[k - 1], cut[k])

\* Pieces of a file that meet are joined to one piece.
LEMMA JoinedBytes ==
    ASSUME NEW i, NEW P, NEW n \in Nat \ {0}, Len(P) = n, NEW cut, Meets(i, P, cut, n)
    PROVE  Joined(P) = Bytes(i, cut[0], cut[n]) /\ cut[0] <= cut[n]
<1>0. /\ \A k \in 0 .. n : cut[k] \in Nat
      /\ \A k \in 1 .. n : cut[k - 1] <= cut[k] /\ P[k] = Bytes(i, cut[k - 1], cut[k])
  BY DEF Meets
<1>1. PICK f : /\ f[1] = P[1] /\ f[n] = Joined(P)
               /\ \A k \in 2 .. n : f[k] = Glue(f[k - 1], P[k])
  BY JoinedRuns
<1> DEFINE Good1(k) == f[k] = Bytes(i, cut[0], cut[k]) /\ cut[0] <= cut[k]
           S == {k \in 1 .. n : ~Good1(k)}
<1>2. S = {}
  <2> SUFFICES ASSUME S # {} PROVE FALSE
    OBVIOUS
  <2>1. PICK k \in S : \A y \in S : k =< y
    <3>1. S \subseteq Nat
      OBVIOUS
    <3> HIDE DEF S
    <3> QED BY Zenon, <3>1, LeastOf
  <2>2. k \in 1 .. n /\ ~Good1(k)
    OBVIOUS
  <2>3. k # 1
    <3>1. 1 \in 1 .. n /\ 1 - 1 = 0
      OBVIOUS
    <3> QED BY Zenon, <1>0, <1>1, <2>2, <3>1
  <2> DEFINE m == k - 1
  <2>4. m \in 1 .. n /\ m \in 0 .. n /\ k \in 0 .. n /\ 0 \in 0 .. n /\ k \in 2 .. n /\ ~(k =< m)
    BY SMTT(30), <2>2, <2>3
  <2>5. Good1(m)
    <3>1. m \notin S
      <4> HIDE DEF S, m
      <4> QED BY Zenon, <2>1, <2>4
    <3> QED BY <2>4, <3>1
  <2>6. f[k] = Glue(f[m], P[k]) /\ P[k] = Bytes(i, cut[m], cut[k]) /\ cut[m] <= cut[k]
    BY Zenon, <1>0, <1>1, <2>2, <2>4
  <2>7. cut[0] \in Nat /\ cut[m] \in Nat /\ cut[k] \in Nat
    BY Zenon, <1>0, <2>4
  <2> HIDE DEF m, S
  <2>8. Glue(f[m], P[k]) = Bytes(i, cut[0], cut[k])
    <3>1. Bytes(i, cut[0], cut[m]) \o Bytes(i, cut[m], cut[k]) = Bytes(i, cut[0], cut[k])
      <4>1. cut[0] <= cut[m] /\ cut[m] <= cut[k]
        BY Zenon, <2>5, <2>6
      <4> QED BY Zenon, <2>7, <4>1, BytesJoin
    <3> QED BY <2>5, <2>6, <3>1 DEF Glue
  <2>9. cut[0] <= cut[k]
    BY <2>5, <2>6, <2>7
  <2> QED BY <2>2, <2>6, <2>8, <2>9
<1>3. Good1(n)
  BY <1>2
<1> QED BY <1>1, <1>3

\* What the turn of the block loop for block b copies when read_data is to read
\* from offset o up to offset E, and between which offsets that lies.
Part(i, o, E, b) ==
    BlockPart(img, i, b,
        IF b = o \div MAX_CHARS_IN_DATA THEN o % MAX_CHARS_IN_DATA ELSE 0,
        IF b = E \div MAX_CHARS_IN_DATA THEN E % MAX_CHARS_IN_DATA ELSE MAX_CHARS_IN_DATA)

PartFrom(o, b) == IF b = o \div MAX_CHARS_IN_DATA THEN o ELSE MAX_CHARS_IN_DATA * b
PartTo(E, b)   == IF b = E \div MAX_CHARS_IN_DATA THEN E ELSE MAX_CHARS_IN_DATA * (b + 1)

\* All turns, up to block stop.
Parts(i, o, E, stop) ==
    [n \in 1 .. stop - (o \div MAX_CHARS_IN_DATA) + 1 |->
        Part(i, o, E, (o \div MAX_CHARS_IN_DATA) + n - 1)]

LEMMA OnePart ==
    ASSUME NEW i, NEW o \in Nat, NEW E \in Nat, o < E, NEW b \in Nat,
           o \div MAX_CHARS_IN_DATA <= b, b <= E \div MAX_CHARS_IN_DATA
    PROVE  /\ Part(i, o, E, b) = Bytes(i, PartFrom(o, b), PartTo(E, b))
           /\ PartFrom(o, b) \in Nat /\ PartTo(E, b) \in Nat
           /\ PartFrom(o, b) <= PartTo(E, b)
<1> DEFINE C  == MAX_CHARS_IN_DATA
           st == o \div C
           en == E \div C
           lo == PartFrom(o, b)
           hi == PartTo(E, b)
           from == IF b = st THEN o % C ELSE 0
           to   == IF b = en THEN E % C ELSE C
<1>1. C \in Nat \ {0}
  BY FileSizes
<1>0. /\ lo = (IF b = st THEN o ELSE C * b) /\ hi = (IF b = en THEN E ELSE C * (b + 1))
      /\ Part(i, o, E, b) = BlockPart(img, i, b, from, to)
  BY DEF PartFrom, PartTo, Part
<1>2. /\ o % C \in Nat /\ o % C < C /\ C * st \in Nat /\ o = C * st + (o % C)
      /\ E % C \in Nat /\ E % C < C /\ C * en \in Nat /\ E = C * en + (E % C)
  BY <1>1, OffsetSplit
<1> DEFINE ro == o % C
           rE == E % C
<1> HIDE DEF ro, rE
<1>9. st <= b /\ b <= en /\ st \in Nat /\ en \in Nat
  BY <1>1, OffsetSplit
<1>3. /\ ro \in Nat /\ ro < C /\ o = C * st + ro /\ C * st \in Nat
      /\ rE \in Nat /\ rE < C /\ E = C * en + rE /\ C * en \in Nat
      /\ from = (IF b = st THEN ro ELSE 0) /\ to = (IF b = en THEN rE ELSE C)
  BY <1>2 DEF ro, rE
<1> HIDE DEF from, to, lo, hi, st, en
<1>4. C * b \in Nat /\ C * (b + 1) = C * b + C
  BY <1>1
<1>5. lo = C * b + from /\ hi = C * b + to
  <2> HIDE DEF C
  <2>1. lo = C * b + from
    BY <1>0, <1>1, <1>3, <1>4
  <2>2. CASE b = en
    <3>1. hi = E /\ to = rE
      BY <1>0, <1>3, <2>2
    <3> QED BY <1>3, <2>1, <2>2, <3>1
  <2>3. CASE b # en
    <3>1. hi = C * (b + 1) /\ to = C
      BY <1>0, <1>3, <2>3
    <3> QED BY <1>4, <2>1, <3>1
  <2> QED BY <2>2, <2>3
<1>6. from \in Nat /\ to \in Nat /\ to <= C /\ from <= to
  <2>1. CASE b = st /\ b = en
    BY <1>1, <1>3, <1>9, <2>1
  <2>2. CASE ~(b = st /\ b = en)
    BY <1>1, <1>3, <1>9, <2>2
  <2> QED BY <2>1, <2>2
<1>7. BlockPart(img, i, b, from, to) = Bytes(i, lo, hi)
  BY <1>5, <1>6, PartBytes DEF C
<1>8. lo \in Nat /\ hi \in Nat /\ lo <= hi
  BY <1>4, <1>5, <1>6
<1> QED BY <1>0, <1>7, <1>8 DEF lo, hi

\* All parts, up to the block of the byte behind the last one, or only up to the
\* block of the last byte.
LEMMA PartsBytes ==
    ASSUME NEW i, NEW o \in Nat, NEW E \in Nat, o < E, NEW stop,
           \/ stop = E \div MAX_CHARS_IN_DATA
           \/ stop = (E \div MAX_CHARS_IN_DATA) - 1 /\ E % MAX_CHARS_IN_DATA = 0
    PROVE  Joined(Parts(i, o, E, stop)) = Bytes(i, o, E)
<1> DEFINE C  == MAX_CHARS_IN_DATA
           st == o \div C
           en == E \div C
           N  == stop - st + 1
           P  == Parts(i, o, E, stop)
           cut == [k \in 0 .. N |-> IF k = 0 THEN o ELSE IF k = N THEN E ELSE C * (st + k)]
<1>1. C \in Nat \ {0}
  BY FileSizes
<1>2. /\ st \in Nat /\ C * st \in Nat /\ C * st <= o
      /\ en \in Nat /\ C * en \in Nat /\ C * en <= E /\ E < C * en + C
      /\ stop = en \/ (stop = en - 1 /\ E = C * en)
  <2>1. o \div C \in Nat /\ o % C \in Nat /\ C * (o \div C) \in Nat /\ o = C * (o \div C) + (o % C)
    BY <1>1, OffsetSplit
  <2>2. /\ E \div C \in Nat /\ E % C \in Nat /\ E % C < C /\ C * (E \div C) \in Nat
        /\ E = C * (E \div C) + (E % C)
    BY <1>1, OffsetSplit
  <2> QED BY <1>1, <2>1, <2>2
<1> DEFINE Piece(n) == Part(i, o, E, st + n - 1)
<1>4. P = [n \in 1 .. N |-> Piece(n)]
  BY DEF Parts
<1>5. N \in Nat \ {0} /\ stop \in Nat
  <2> HIDE DEF st, en, C, P, cut, Piece
  <2>1. ~(en < st)
    <3> SUFFICES ASSUME en < st PROVE FALSE
      OBVIOUS
    <3>1. C * en + C <= C * st
      BY <1>1, <1>2, BlocksApart
    <3> QED BY <1>1, <1>2, <3>1
  <2>2. CASE stop = en
    BY <1>2, <2>1, <2>2
  <2>3. CASE stop = en - 1 /\ E = C * en
    <3>1. en # st
      BY <1>2, <2>3
    <3> QED BY SMTT(30), <1>2, <2>1, <2>3, <3>1
  <2> QED BY <1>2, <2>2, <2>3
<1>6. Len(P) = N
  <2> HIDE DEF P, N, Piece
  <2> QED BY <1>4, <1>5
<1>7. ASSUME NEW k \in 1 .. N
      PROVE  /\ cut[k - 1] \in Nat /\ cut[k] \in Nat /\ cut[k - 1] <= cut[k]
             /\ P[k] = Bytes(i, cut[k - 1], cut[k])
  <2> DEFINE b == st + k - 1
             lo == IF b = st THEN o ELSE C * b
             hi == IF b = en THEN E ELSE C * (b + 1)
  <2>1. P[k] = Piece(k)
    <3> HIDE DEF P, N, Piece
    <3> QED BY <1>4
  <2>2. b \in Nat /\ st <= b /\ b <= en /\ (b = st <=> k = 1) /\ st + (k - 1) = b /\ st + k = b + 1
    <3> HIDE DEF st, en
    <3> QED BY SMTT(30), <1>2, <1>5
  <2>3. /\ Piece(k) = Bytes(i, lo, hi)
        /\ lo \in Nat /\ hi \in Nat /\ lo <= hi
    <3>1. lo = PartFrom(o, b) /\ hi = PartTo(E, b) /\ Piece(k) = Part(i, o, E, b)
      BY DEF PartFrom, PartTo
    <3>2. o \div MAX_CHARS_IN_DATA <= b /\ b <= E \div MAX_CHARS_IN_DATA /\ b \in Nat
      BY <2>2
    <3> HIDE DEF lo, hi, b, Piece
    <3> QED BY SMTT(30), <3>1, <3>2, OnePart
  <2>4. cut[k - 1] = lo
    <3>1. k - 1 \in 0 .. N /\ k - 1 # N
      BY SMTT(30), <1>5
    <3>2. cut[k - 1] = IF k - 1 = 0 THEN o ELSE C * (st + (k - 1))
      BY Zenon, <3>1
    <3> HIDE DEF cut, st
    <3> QED BY <2>2, <3>2
  <2>5. cut[k] = hi
    <3>1. k \in 0 .. N /\ k # 0
      BY <1>5
    <3>2. cut[k] = IF k = N THEN E ELSE C * (st + k)
      BY <3>1
    <3> HIDE DEF cut
    <3>3. CASE k = N /\ stop = en
      <4>1. b = en
        <5> HIDE DEF st, en
        <5> QED BY SMTT(30), <1>2, <3>3
      <4> QED BY Zenon, <3>2, <3>3, <4>1
    <3>4. CASE k = N /\ stop = en - 1 /\ E = C * en
      <4>1. b # en /\ b + 1 = en
        <5> HIDE DEF st, en
        <5> QED BY SMTT(30), <1>2, <3>4
      <4> QED BY Zenon, <3>2, <3>4, <4>1
    <3>5. CASE k # N
      <4>1. b # en
        <5> HIDE DEF st, en
        <5> QED BY SMTT(30), <1>2, <1>5, <3>5
      <4> QED BY Zenon, <2>2, <3>2, <3>5, <4>1
    <3> QED BY Zenon, <1>2, <3>3, <3>4, <3>5
  <2> HIDE DEF cut, P, Piece, lo, hi
  <2> QED BY <2>1, <2>3, <2>4, <2>5
<1>8. cut[0] = o /\ cut[N] = E /\ \A k \in 0 .. N : cut[k] \in Nat
  <2>1. cut[0] = o /\ cut[N] = E
    BY <1>5
  <2> HIDE DEF cut, N, P
  <2> QED BY SMTT(30), <1>5, <1>7, <2>1
<1> HIDE DEF cut, N, P
<1>9. Joined(P) = Bytes(i, cut[0], cut[N])
  <2>1. \A k \in 1 .. N : cut[k - 1] <= cut[k] /\ P[k] = Bytes(i, cut[k - 1], cut[k])
    BY <1>7
  <2>2. \A k \in 0 .. N : cut[k] \in Nat
    BY <1>8
  <2>3. Meets(i, P, cut, N)
    BY Zenon, <2>1, <2>2 DEF Meets
  <2> QED BY Zenon, <1>5, <1>6, <2>3, JoinedBytes
<1> QED BY <1>8, <1>9 DEF P

\* Where a read of len bytes from offset o ends: at the end of the file or of
\* the buffer, as the 32-bit sum says; where it starts when that is no later.
LastByte(i, o, len) == Min({img.inodes[i].file_size, (o + len) % WORD})
EndOf(i, o, len)    == IF LastByte(i, o, len) > o THEN LastByte(i, o, len) ELSE o

LEMMA LastByteIs ==
    ASSUME ImageOK, NEW i \in Inodes, NEW o \in Nat, NEW len \in Nat
    PROVE  /\ WORD \in Nat /\ img.inodes[i].file_size \in Nat /\ img.inodes[i].file_size < WORD
           /\ LastByte(i, o, len) \in Nat
           /\ LastByte(i, o, len) <= img.inodes[i].file_size
           /\ LastByte(i, o, len) <= (o + len) % WORD
           /\ o + len < WORD => LastByte(i, o, len) = IF o + len < img.inodes[i].file_size
                                                      THEN o + len ELSE img.inodes[i].file_size
<1> DEFINE size == img.inodes[i].file_size
           M == MAX_INODE_DATA_BLOCKS * MAX_CHARS_IN_DATA
           s == o + len
<1>1. size \in Nat /\ size <= M
  BY DEF ImageOK, InodeOK
<1>2. M \in Nat /\ M < WORD /\ WORD \in Nat \ {0}
  <2>1. /\ MAX_INODE_DATA_BLOCKS \in Nat /\ MAX_CHARS_IN_DATA \in Nat /\ WORD \in Nat
        /\ 2 * MAX_INODE_DATA_BLOCKS * MAX_CHARS_IN_DATA < WORD
    BY FileSizes
  <2>2. M \in Nat /\ 2 * MAX_INODE_DATA_BLOCKS * MAX_CHARS_IN_DATA = 2 * M
    BY <2>1
  <2> HIDE DEF M
  <2> QED BY <2>1, <2>2
<1> HIDE DEF M
<1>3. s \in Nat /\ s % WORD \in Nat /\ (s < WORD => s % WORD = s)
  BY SMTT(30), <1>2
<1>4. LastByte(i, o, len) = IF size <= s % WORD THEN size ELSE s % WORD
  <2> HIDE DEF size, s
  <2>1. Min({size, s % WORD}) = IF size <= s % WORD THEN size ELSE s % WORD
    BY SMTT(30), <1>1, <1>3, MinOf
  <2> QED BY <2>1 DEF LastByte, size, s
<1> HIDE DEF size, s
<1>5. /\ LastByte(i, o, len) \in Nat /\ LastByte(i, o, len) <= size
      /\ LastByte(i, o, len) <= s % WORD
      /\ s < WORD => LastByte(i, o, len) = IF s < size THEN s ELSE size
  BY <1>1, <1>3, <1>4
<1>6. size < WORD
  BY SMTT(30), <1>1, <1>2
<1> QED BY Zenon, <1>1, <1>2, <1>5, <1>6 DEF size, s

\* The block of a byte of the file exists.
LEMMA BlockExists ==
    ASSUME ImageOK, NEW i \in Inodes, NEW b \in Nat,
           MAX_CHARS_IN_DATA * b < img.inodes[i].file_size
    PROVE  ~(img.inodes[i].datablock_idx[b] > img.num_data_blocks)
<1> DEFINE C == MAX_CHARS_IN_DATA
           N == MAX_INODE_DATA_BLOCKS
           size == img.inodes[i].file_size
<1>1. C \in Nat \ {0} /\ N \in Nat \ {0}
  BY Zenon, FileSizes
<1>2. InodeOK(img.inodes[i]) /\ size \in Nat /\ size <= N * C
  BY DEF ImageOK, InodeOK
<1>3. b < N
  <2> SUFFICES ASSUME N <= b PROVE FALSE
    BY SMTT(30), <1>1
  <2> HIDE DEF C, N, size
  <2>1. C * N <= C * b /\ C * N = N * C
    <3>1. CASE N = b
      BY <1>1, <3>1
    <3>2. CASE N < b
      <4>1. C * N + C <= C * b /\ C * N \in Nat
        BY <1>1, <3>2, BlocksApart
      <4>2. C * b \in Nat
        BY <1>1
      <4> QED BY SMTT(30), <1>1, <4>1, <4>2
    <3> QED BY SMTT(30), <1>1, <3>1, <3>2
  <2>2. C * N \in Nat /\ C * b \in Nat
    BY <1>1
  <2>3. C * b < size
    BY DEF C, size
  <2> QED BY SMTT(30), <1>2, <2>1, <2>2, <2>3
<1>4. b \in 0 .. N - 1
  BY SMTT(30), <1>1, <1>3
<1> QED BY <1>2, <1>4 DEF InodeOK

\* The blocks of the loop that do not exist: none, or the last one, which the
\* file does not reach.
LEMMA BadBlocks ==
    ASSUME ImageOK, NEW i \in Inodes, NEW o \in Nat, NEW E \in Nat,
           o < img.inodes[i].file_size, E <= img.inodes[i].file_size
    PROVE  LET st  == o \div MAX_CHARS_IN_DATA
               en  == E \div MAX_CHARS_IN_DATA
               bad == {b \in st .. en : img.inodes[i].datablock_idx[b] > img.num_data_blocks}
           IN  \/ bad = {}
               \/ bad = {en} /\ E % MAX_CHARS_IN_DATA = 0 /\ st < en
<1> DEFINE C  == MAX_CHARS_IN_DATA
           size == img.inodes[i].file_size
           st == o \div C
           en == E \div C
           Bad(b) == img.inodes[i].datablock_idx[b] > img.num_data_blocks
           bad == {b \in st .. en : Bad(b)}
<1>1. C \in Nat \ {0} /\ size \in Nat
  BY Zenon, FileSizes DEF ImageOK, InodeOK
<1>2. /\ st \in Nat /\ C * st \in Nat /\ C * st <= o
      /\ en \in Nat /\ C * en \in Nat /\ C * en <= E
      /\ E % C \in Nat /\ (E % C # 0 => C * en < E) /\ (E % C = 0 => E = C * en)
  <2>1. st \in Nat /\ C * st \in Nat /\ o % C \in Nat /\ o = C * st + (o % C)
    BY Zenon, <1>1, OffsetSplit
  <2>2. en \in Nat /\ C * en \in Nat /\ E % C \in Nat /\ E = C * en + (E % C)
    BY Zenon, <1>1, OffsetSplit
  <2> HIDE DEF st, en
  <2> QED BY SMTT(30), <1>1, <2>1, <2>2
<1>3. \A b \in Nat : C * b < size => ~Bad(b)
  BY BlockExists
<1> HIDE DEF st, en, Bad, C, size
<1>4. o < size /\ E <= size
  BY Zenon DEF size
<1>5. ASSUME NEW b \in st .. en, b # en \/ E % C # 0 \/ st >= en PROVE ~Bad(b)
  <2>1. b \in Nat /\ C * b \in Nat
    BY SMTT(30), <1>1, <1>2
  <2>2. CASE b < en
    <3>1. C * b + C <= C * en
      BY Zenon, <1>1, <1>2, <2>1, <2>2, BlocksApart
    <3> QED BY SMTT(30), <1>1, <1>2, <1>3, <1>4, <2>1, <3>1
  <2>3. CASE b = en /\ E % C # 0
    BY SMTT(30), <1>1, <1>2, <1>3, <1>4, <2>1, <2>3
  <2>4. CASE b = st
    BY SMTT(30), <1>1, <1>2, <1>3, <1>4, <2>1, <2>4
  <2> QED BY SMTT(30), <1>2, <1>5, <2>2, <2>3, <2>4
<1>6. bad = {} \/ (bad = {en} /\ E % C = 0 /\ st < en)
  <2>1. CASE bad = {}
    BY <2>1
  <2>2. CASE bad # {}
    <3>1. PICK b \in bad : TRUE
      BY <2>2
    <3>2. b \in st .. en /\ Bad(b)
      BY <3>1
    <3>3. b = en /\ E % C = 0 /\ st < en
      BY <1>2, <1>5, <3>2
    <3>4. bad \subseteq {en}
      BY <1>5
    <3> HIDE DEF bad
    <3> QED BY <3>1, <3>3, <3>4
  <2> QED BY <2>1, <2>2
<1> QED BY Zenon, <1>6 DEF st, en, Bad, C

LEMMA NoBytes ==
    ASSUME NEW i, NEW o \in Nat
    PROVE  Bytes(i, o, o) = <<>>
<1>1. Bytes(i, o, o) \in Seq(FileBytes(i)) /\ Len(Bytes(i, o, o)) = o - o
  BY BytesLength
<1> QED BY <1>1

\* A read that ends no later than it starts turns up nothing.
LEMMA PartsNone ==
    ASSUME NEW i, NEW o \in Nat, NEW E \in Nat, E <= o
    PROVE  /\ ~(o \div MAX_CHARS_IN_DATA < E \div MAX_CHARS_IN_DATA)
           /\ Joined(Parts(i, o, E, E \div MAX_CHARS_IN_DATA)) = <<>>
<1> DEFINE C  == MAX_CHARS_IN_DATA
           st == o \div C
           en == E \div C
           P  == Parts(i, o, E, en)
<1>1. C \in Nat \ {0}
  BY FileSizes
<1>2. /\ st \in Nat /\ C * st \in Nat /\ o % C \in Nat /\ o % C < C /\ o = C * st + (o % C)
      /\ en \in Nat /\ C * en \in Nat /\ E % C \in Nat /\ E % C < C /\ E = C * en + (E % C)
  BY Zenon, <1>1, OffsetSplit
<1> DEFINE ro == o % C
           rE == E % C
<1>3. ~(st < en)
  <2> SUFFICES ASSUME st < en PROVE FALSE
    OBVIOUS
  <2> HIDE DEF st, en, C
  <2>1. C * st + C <= C * en
    BY Zenon, <1>1, <1>2, BlocksApart
  <2> HIDE DEF ro, rE
  <2>2. ro \in Nat /\ ro < C /\ o = C * st + ro /\ rE \in Nat /\ E = C * en + rE
    BY <1>2 DEF ro, rE
  <2> QED BY SMTT(30), <1>1, <1>2, <2>1, <2>2
<1>4. P = [n \in 1 .. en - st + 1 |-> Part(i, o, E, st + n - 1)]
  BY DEF Parts
<1>5. CASE en < st
  <2>1. 1 .. en - st + 1 = {}
    <3> HIDE DEF st, en
    <3> QED BY <1>2, <1>5
  <2>2. P = <<>>
    <3> HIDE DEF P
    <3> QED BY <1>4, <2>1
  <2>3. Joined(<<>>) = <<>>
    BY Zenon DEF Joined
  <2> QED BY <1>3, <2>2, <2>3
<1>6. CASE en = st
  <2>1. en - st + 1 = 1 /\ st + 1 - 1 = st
    <3> HIDE DEF st, en
    <3> QED BY <1>2, <1>6
  <2>2. Len(P) = 1 /\ P[1] = Part(i, o, E, st)
    <3> DEFINE Piece(n) == Part(i, o, E, st + n - 1)
    <3>1. P = [n \in 1 .. 1 |-> Piece(n)] /\ Piece(1) = Part(i, o, E, st)
      <4> HIDE DEF P
      <4> QED BY <1>4, <2>1
    <3> HIDE DEF P, Piece
    <3> QED BY <3>1
  <2>3. rE <= ro /\ rE - ro \in Int
    <3> HIDE DEF st, en, C, ro, rE
    <3>1. ro \in Nat /\ o = C * st + ro /\ rE \in Nat /\ E = C * en + rE
      BY <1>2 DEF ro, rE
    <3> QED BY <1>2, <1>6, <3>1
  <2>4. Part(i, o, E, st) = BlockPart(img, i, st, ro, rE)
    BY <1>6 DEF Part
  <2>5. Max({0, rE - ro}) = 0
    <3>1. Max({0, rE - ro}) = IF rE - ro >= 0 THEN rE - ro ELSE 0
      BY SMTT(30), <2>3, MaxOf
    <3>2. ro \in Nat /\ rE \in Nat
      BY <1>2
    <3> HIDE DEF ro, rE
    <3> QED BY SMTT(30), <2>3, <3>1, <3>2
  <2>6. BlockPart(img, i, st, ro, rE) = <<>>
    <3> DEFINE m == Max({0, rE - ro})
               G(k) == <<img.inodes[i].datablock_idx[st], ro + k - 1>>
    <3>1. 1 .. m = {}
      <4>1. m = 0
        BY <2>5
      <4> HIDE DEF m
      <4> QED BY <4>1
    <3>2. BlockPart(img, i, st, ro, rE) = [k \in 1 .. m |-> G(k)]
      BY DEF BlockPart
    <3> HIDE DEF m, ro, rE, G
    <3>3. [k \in {} |-> G(k)] = <<>>
      OBVIOUS
    <3> QED BY Zenon, <3>1, <3>2, <3>3
  <2>7. P[1] = Joined(P)
    <3> HIDE DEF P
    <3>0. 1 \in Nat \ {0} /\ Len(P) = 1
      BY <2>2
    <3>1. PICK f : /\ f[1] = P[1] /\ f[1] = Joined(P)
                   /\ \A k \in 2 .. 1 : f[k] = Glue(f[k - 1], P[k])
      BY Zenon, <3>0, JoinedRuns
    <3> QED BY <3>1
  <2> QED BY <1>3, <2>2, <2>4, <2>6, <2>7
<1> QED
  <2> HIDE DEF st, en, P
  <2>1. en < st \/ en = st
    BY <1>2, <1>3
  <2> QED BY <1>5, <1>6, <2>1

\* For every size of blocks, files and words, from every offset and for every
\* length: read_data copies exactly the bytes from the offset to the end of the
\* file or of the buffer, and returns their number.  When the 32-bit sum of
\* offset and length wraps, the sum stands for the end of the buffer, and where
\* it is not behind the offset nothing is copied.
THEOREM ReadExact ==
    ASSUME ImageOK, NEW i \in Inodes, NEW o \in Nat, NEW len \in Nat
    PROVE  read_data(img, i, o, len) =
               [ret |-> EndOf(i, o, len) - o, buf |-> Bytes(i, o, EndOf(i, o, len))]
<1> DEFINE C    == MAX_CHARS_IN_DATA
           size == img.inodes[i].file_size
           E    == LastByte(i, o, len)
           st   == o \div C
           en   == E \div C
           bad  == {b \in st .. en : img.inodes[i].datablock_idx[b] > img.num_data_blocks}
           stop == IF bad = {} THEN en ELSE Min(bad) - 1
           got1 == Joined(Parts(i, o, E, stop))
<1>1. read_data(img, i, o, len) =
          IF i >= img.num_inodes THEN Failed
          ELSE IF o >= size \/ len = 0 THEN [ret |-> 0, buf |-> <<>>]
          ELSE IF got1 = <<>> /\ bad # {} THEN Failed
          ELSE [ret |-> Len(got1), buf |-> got1]
  BY Zenon DEF read_data, Parts, Part, LastByte
<1>2. /\ size \in Nat /\ size < WORD /\ WORD \in Nat /\ E \in Nat /\ E <= size
      /\ o + 0 < WORD => LastByte(i, o, 0) = IF o + 0 < size THEN o + 0 ELSE size
  BY Zenon, LastByteIs
<1>3. ~(i >= img.num_inodes)
  BY DEF Inodes, ImageOK
<1> HIDE DEF E, size
<1>4. CASE o >= size \/ len = 0
  <2>1. EndOf(i, o, len) = o
    <3>1. CASE o >= size
      BY <1>2, <3>1 DEF EndOf, E
    <3>2. CASE len = 0 /\ ~(o >= size)
      <4>1. E = o
        BY SMTT(30), <1>2, <3>2 DEF E
      <4> QED BY <4>1 DEF EndOf, E
    <3> QED BY Zenon, <1>4, <3>1, <3>2
  <2>2. read_data(img, i, o, len) = [ret |-> 0, buf |-> <<>>]
    <3> HIDE DEF got1, bad
    <3> QED BY <1>1, <1>3, <1>4
  <2>3. Bytes(i, o, o) = <<>> /\ o - o = 0
    BY NoBytes
  <2> QED BY <2>1, <2>2, <2>3
<1>5. CASE ~(o >= size \/ len = 0)
  <2>1. bad = {} \/ (bad = {en} /\ E % C = 0 /\ st < en)
    BY SMTT(30), <1>2, <1>5, BadBlocks DEF size
  <2>2. read_data(img, i, o, len) =
            IF got1 = <<>> /\ bad # {} THEN Failed ELSE [ret |-> Len(got1), buf |-> got1]
    <3> HIDE DEF got1, bad
    <3> QED BY Zenon, <1>1, <1>3, <1>5
  <2>3. CASE E <= o
    <3>1. ~(st < en) /\ Joined(Parts(i, o, E, en)) = <<>>
      BY Zenon, <1>2, <2>3, PartsNone
    <3>2. bad = {} /\ stop = en
      <4> HIDE DEF bad, st, en
      <4> QED BY Zenon, <2>1, <3>1
    <3>3. got1 = <<>>
      <4> HIDE DEF stop, en, st
      <4> QED BY Zenon, <3>1, <3>2
    <3>4. EndOf(i, o, len) = o
      BY SMTT(30), <1>2, <2>3 DEF EndOf, E
    <3>5. Bytes(i, o, o) = <<>> /\ o - o = 0
      BY NoBytes
    <3> HIDE DEF got1, bad
    <3> QED BY Zenon, <2>2, <3>2, <3>3, <3>4, <3>5
  <2>4. CASE ~(E <= o)
    <3>1. stop = en \/ (stop = en - 1 /\ E % C = 0)
      <4>1. en \in Nat
        BY <1>2, FileSizes, OffsetSplit
      <4>2. Min({en}) = en
        <5> HIDE DEF en
        <5> QED BY <4>1, MinOne
      <4> HIDE DEF bad, en, st
      <4> QED BY Zenon, <2>1, <4>2
    <3>2. got1 = Bytes(i, o, E)
      <4> HIDE DEF stop
      <4> QED BY <1>2, <2>4, <3>1, PartsBytes
    <3>3. EndOf(i, o, len) = E
      BY <1>2, <2>4 DEF EndOf, E
    <3>4. Len(got1) = E - o
      <4> HIDE DEF got1
      <4>1. E \in Nat /\ o <= E
        BY <1>2, <2>4
      <4>2. Len(Bytes(i, o, E)) = E - o
        BY Zenon, <4>1, BytesLength
      <4> QED BY <3>2, <4>2
    <3>5. got1 # <<>>
      <4> HIDE DEF got1
      <4> QED BY <1>2, <2>4, <3>4
    <3> HIDE DEF got1, bad
    <3> QED BY <2>2, <3>2, <3>3, <3>4, <3>5
  <2> QED BY Zenon, <2>3, <2>4
<1> QED BY Zenon, <1>4, <1>5

\* The whole file.
LEMMA ContentsAre ==
    ASSUME ImageOK, NEW i \in Inodes
    PROVE  Contents(i) = Bytes(i, 0, img.inodes[i].file_size)
<1> DEFINE size == img.inodes[i].file_size
<1>1. /\ size \in Nat /\ size < WORD /\ WORD \in Nat
  BY Zenon, LastByteIs
<1>2. 0 + size < WORD => LastByte(i, 0, size) = IF 0 + size < size THEN 0 + size ELSE size
  BY <1>1, LastByteIs
<1> HIDE DEF size
<1>3. EndOf(i, 0, size) = size
  BY <1>1, <1>2 DEF EndOf
<1>4. read_data(img, i, 0, size).buf = Bytes(i, 0, size)
  BY <1>1, <1>3, ReadExact
<1> QED BY <1>4 DEF Contents, size

-----------------------------------------------------------------------------
(* Reads in order: the inductive invariant. *)

SlotRec == [fd_jump : Drivers \cup {"null"}, inode_ptr : Int,
            file_position : 0 .. WORD - 1, flags : {0, 1}]

\* What an open file has delivered is the front of the file, up to its position.
FileRead(sl, g) ==
    sl.fd_jump = "file" =>
        /\ sl.inode_ptr \in Inodes
        /\ sl.file_position <= img.inodes[sl.inode_ptr].file_size
        /\ g = Bytes(sl.inode_ptr, 0, sl.file_position)

\* What an open directory has delivered are the names of its first entries.
ListedNames == {EntryName(img, e, n) : e \in 0 .. img.num_entries - 1, n \in Lengths}

DirRead(sl, g) ==
    sl.fd_jump = "dir" =>
        /\ sl.file_position <= img.num_entries
        /\ g \in Seq(ListedNames) /\ Len(g) = sl.file_position
        /\ \A k \in 1 .. sl.file_position : \E n \in Lengths : g[k] = EntryName(img, k - 1, n)

\* A slot that is on.
Fine(sl, g) == sl.flags = 1 => FileRead(sl, g) /\ DirRead(sl, g)

\* Every slot of every process, except the one through which Ctrl+1 reads the
\* directory: the handler prints the names, no program gets them.
OrderInv ==
    /\ \E X : got \in Seq(X)
    /\ Len(got) = Depth
    /\ \A d \in 1 .. Depth : got[d] = [fd \in Fds |-> got[d][fd]]
    /\ \A d \in 1 .. Depth, fd \in Fds :
          /\ tables[d][fd] \in SlotRec
          /\ ~(d = Depth /\ fd = dir_fd) => Fine(tables[d][fd], got[d][fd])

\* The slot an open is filling is off; as far as it is filled, and no test key
\* has closed it in between, it says what the open wants it to say.
Filling(sl) ==
    /\ sl.flags = 0
    /\ sl.fd_jump = "file" /\ pc \in {"inode_ptr", "file_position", "flags"} =>
           opening.info.fd_jump = "file"
    /\ sl.fd_jump = "file" /\ pc \in {"file_position", "flags"} =>
           sl.inode_ptr = opening.info.inode_ptr
    /\ pc = "flags" => sl.file_position = 0

OpeningInv ==
    /\ key # "ctrl1 read" => dir_fd = -1
    /\ dir_fd # -1 => Table[dir_fd].fd_jump = "dir"
    /\ pc # "user" =>
           /\ opening.info \in SlotRec /\ opening.info.file_position = 0
           /\ opening.info.fd_jump = "file" => opening.info.inode_ptr \in Inodes
    /\ pc # "user" /\ opening.index # dir_fd => Filling(Table[opening.index])

\* The inductive invariant of ReadsInOrder.
ReadInv == DInv /\ OrderInv /\ OpeningInv

-----------------------------------------------------------------------------
(* What happens to the stack of tables and what they delivered. *)

LEMMA WordPositive == WORD \in Nat /\ 0 < WORD
BY FileSizes

LEMMA ClosedFine ==
    /\ Closed \in SlotRec
    /\ \A g : Fine(Closed, g)
BY WordPositive DEF Closed, SlotRec, Fine, Drivers

LEMMA InitFine ==
    ASSUME NEW fd \in Fds
    PROVE  fd_table_init[fd] \in SlotRec /\ Fine(fd_table_init[fd], Nothing[fd])
<1> DEFINE kybd == [Closed EXCEPT !.fd_jump = "kybd", !.flags = 1]
           term == [Closed EXCEPT !.fd_jump = "term", !.flags = 1]
<1>1. fd_table_init[0] = kybd /\ fd_table_init[1] = term
  BY StandardSlots DEF fd_table_init
<1>3. /\ kybd \in SlotRec /\ term \in SlotRec
      /\ kybd.fd_jump = "kybd" /\ term.fd_jump = "term"
  <2>1. kybd.fd_jump = "kybd" /\ term.fd_jump = "term"
    BY ClosedFine DEF SlotRec
  <2>2. kybd \in SlotRec
    BY Zenon, ClosedFine DEF SlotRec, Drivers
  <2>3. term \in SlotRec
    BY Zenon, ClosedFine DEF SlotRec, Drivers
  <2> QED BY <2>1, <2>2, <2>3
<1> HIDE DEF kybd, term
<1>4. fd_table_init[fd] = kybd \/ fd_table_init[fd] = term \/ fd_table_init[fd] = Closed
  <2>1. CASE fd = 0
    BY <2>1, <1>1
  <2>2. CASE fd = 1
    BY <2>2, <1>1
  <2>3. CASE fd # 0 /\ fd # 1
    BY Zenon, <2>3 DEF fd_table_init
  <2> QED BY <2>1, <2>2, <2>3
<1>5. \A g : Fine(kybd, g) /\ Fine(term, g)
  BY Zenon, <1>3 DEF Fine, FileRead, DirRead
<1> QED BY <1>3, <1>4, <1>5, ClosedFine

\* A step that replaces the running process's table.
LEMMA OrderTop ==
    ASSUME StackInv, OrderInv, NEW tab, NEW g,
           tables' = [tables EXCEPT ![Depth] = tab],
           got' = [got EXCEPT ![Depth] = g],
           g = [fd \in Fds |-> g[fd]],
           \A fd \in Fds : tab[fd] \in SlotRec /\ (fd # dir_fd' => Fine(tab[fd], g[fd]))
    PROVE  OrderInv'
<1>1. PICK X : tables \in Seq(X)
  BY DEF StackInv
<1>2. PICK Y : got \in Seq(Y)
  BY DEF OrderInv
<1>3. Depth \in Nat \ {0} /\ Depth = Len(tables) /\ Len(got) = Depth
  BY TableGood DEF OrderInv, Depth
<1>4. Len(tables') = Depth /\ \A d \in 1 .. Depth : tables'[d] = IF d = Depth THEN tab ELSE tables[d]
  BY <1>1, <1>3
<1>5. /\ got' \in Seq(Y \cup {g}) /\ Len(got') = Depth
      /\ \A d \in 1 .. Depth : got'[d] = IF d = Depth THEN g ELSE got[d]
  BY <1>2, <1>3
<1>6. Depth' = Depth
  BY <1>4 DEF Depth
<1>7. \A d \in 1 .. Depth : got'[d] = [fd \in Fds |-> got'[d][fd]]
  BY SMTT(30), <1>5 DEF OrderInv
<1>8. ASSUME NEW d \in 1 .. Depth, NEW fd \in Fds
      PROVE  /\ tables'[d][fd] \in SlotRec
             /\ ~(d = Depth /\ fd = dir_fd') => Fine(tables'[d][fd], got'[d][fd])
  <2>1. CASE d = Depth
    BY Zenon, <2>1, <1>4, <1>5
  <2>2. CASE d # Depth
    BY Zenon, <2>2, <1>4, <1>5 DEF OrderInv
  <2> QED BY Zenon, <2>1, <2>2
<1> QED BY Zenon, <1>5, <1>6, <1>7, <1>8 DEF OrderInv

\* What holds of the running process.
LEMMA TopFine ==
    ASSUME StackInv, OrderInv
    PROVE  /\ got[Depth] = [fd \in Fds |-> got[Depth][fd]]
           /\ got = [got EXCEPT ![Depth] = got[Depth]]
           /\ Table = [fd \in Fds |-> Table[fd]]
           /\ \A fd \in Fds : /\ Table[fd] \in SlotRec
                              /\ fd # dir_fd => Fine(Table[fd], got[Depth][fd])
<1>1. PICK Y : got \in Seq(Y)
  BY Zenon DEF OrderInv
<1>2. Depth \in Nat \ {0} /\ Len(got) = Depth /\ Good(Table)
  BY TableGood DEF OrderInv
<1>3. Depth \in 1 .. Depth
  BY SMTT(30), <1>2
<1>4. got[Depth] = [fd \in Fds |-> got[Depth][fd]]
  BY <1>3 DEF OrderInv
<1>5. got = [got EXCEPT ![Depth] = got[Depth]]
  BY SMTT(30), <1>1, <1>2
<1>6. \A fd \in Fds : /\ Table[fd] \in SlotRec
                      /\ fd # dir_fd => Fine(Table[fd], got[Depth][fd])
  BY <1>3 DEF OrderInv, Table
<1> QED BY Zenon, <1>2, <1>4, <1>5, <1>6 DEF Good

\* A step that changes one slot of the running process, or none.
LEMMA OrderSlot ==
    ASSUME StackInv, OrderInv, NEW i \in Fds, NEW sl \in SlotRec, NEW h,
           tables' = [tables EXCEPT ![Depth] = [Table EXCEPT ![i] = sl]],
           got' = [got EXCEPT ![Depth] = [got[Depth] EXCEPT ![i] = h]],
           dir_fd' = dir_fd \/ dir_fd \in {i, -1},
           i # dir_fd' => Fine(sl, h)
    PROVE  OrderInv'
<1> DEFINE tab == [Table EXCEPT ![i] = sl]
           g   == [got[Depth] EXCEPT ![i] = h]
<1>1. /\ got[Depth] = [fd \in Fds |-> got[Depth][fd]]
      /\ Table = [fd \in Fds |-> Table[fd]]
      /\ \A fd \in Fds : /\ Table[fd] \in SlotRec
                         /\ fd # dir_fd => Fine(Table[fd], got[Depth][fd])
  BY TopFine
<1>2. \A fd \in Fds : /\ tab[fd] = IF fd = i THEN sl ELSE Table[fd]
                      /\ g[fd] = IF fd = i THEN h ELSE got[Depth][fd]
  BY <1>1
<1>3. g = [fd \in Fds |-> g[fd]]
  BY <1>1
<1>4. tables' = [tables EXCEPT ![Depth] = tab] /\ got' = [got EXCEPT ![Depth] = g]
  OBVIOUS
<1> HIDE DEF tab, g
<1>5. \A fd \in Fds : tab[fd] \in SlotRec /\ (fd # dir_fd' => Fine(tab[fd], g[fd]))
  BY SMTT(30), <1>1, <1>2, StandardSlots
<1> QED BY Zenon, <1>3, <1>4, <1>5, OrderTop

LEMMA OrderSame ==
    ASSUME OrderInv, tables' = tables, got' = got, dir_fd' = dir_fd
    PROVE  OrderInv'
BY DEF OrderInv, Depth

\* A program is started, or left.
LEMMA OrderPush ==
    ASSUME StackInv, OrderInv, dir_fd = -1,
           tables' = Append(tables, fd_table_init), got' = Append(got, Nothing)
    PROVE  OrderInv'
<1>1. PICK X : tables \in Seq(X)
  BY DEF StackInv
<1>2. PICK Y : got \in Seq(Y)
  BY Zenon DEF OrderInv
<1>3. Depth \in Nat \ {0} /\ Depth = Len(tables) /\ Len(got) = Depth
  BY TableGood DEF OrderInv, Depth
<1>4. /\ Len(tables') = Depth + 1
      /\ \A d \in 1 .. Depth + 1 : tables'[d] = IF d = Depth + 1 THEN fd_table_init ELSE tables[d]
  BY SMTT(30), <1>1, <1>3
<1>5. /\ got' \in Seq(Y \cup {Nothing}) /\ Len(got') = Depth + 1
      /\ \A d \in 1 .. Depth + 1 : got'[d] = IF d = Depth + 1 THEN Nothing ELSE got[d]
  BY <1>2, <1>3
<1>6. Depth' = Depth + 1
  BY Zenon, <1>4 DEF Depth
<1>7. \A d \in 1 .. Depth + 1 : got'[d] = [fd \in Fds |-> got'[d][fd]]
  <2>1. Nothing = [fd \in Fds |-> Nothing[fd]]
    BY DEF Nothing
  <2> QED BY <2>1, <1>3, <1>5 DEF OrderInv
<1>8. ASSUME NEW d \in 1 .. Depth + 1, NEW fd \in Fds
      PROVE  tables'[d][fd] \in SlotRec /\ Fine(tables'[d][fd], got'[d][fd])
  <2>1. CASE d = Depth + 1
    BY Zenon, <2>1, <1>4, <1>5, InitFine
  <2>2. CASE d # Depth + 1
    <3>1. d \in 1 .. Depth /\ fd # dir_fd
      BY <2>2, <1>3, StandardSlots
    <3> QED BY Zenon, <3>1, <2>2, <1>4, <1>5 DEF OrderInv
  <2> QED BY Zenon, <2>1, <2>2
<1> QED BY Zenon, <1>5, <1>6, <1>7, <1>8 DEF OrderInv

LEMMA OrderLeave ==
    ASSUME StackInv, OrderInv, NEW status, Leave(status), dir_fd = -1
    PROVE  OrderInv'
<1>1. PICK X : tables \in Seq(X)
  BY DEF StackInv
<1>2. PICK Y : got \in Seq(Y)
  BY Zenon DEF OrderInv
<1>3. Depth \in Nat \ {0} /\ Depth = Len(tables) /\ Len(got) = Depth
  BY Zenon, TableGood DEF OrderInv, Depth
<1>4. CASE Depth = 1
  <2>1. tables' = <<fd_table_init>> /\ got' = <<Nothing>>
    BY <1>4 DEF Leave
  <2>2. /\ Len(tables') = 1 /\ tables'[1] = fd_table_init
        /\ got' \in Seq({Nothing}) /\ Len(got') = 1 /\ got'[1] = Nothing
    BY <2>1
  <2>3. Nothing = [fd \in Fds |-> Nothing[fd]]
    BY DEF Nothing
  <2>4. Depth' = 1
    BY <2>2 DEF Depth
  <2>5. \A d \in 1 .. 1 : d = 1
    OBVIOUS
  <2>6. \A d \in 1 .. 1 : got'[d] = [fd \in Fds |-> got'[d][fd]]
    BY Zenon, <2>2, <2>3, <2>5
  <2>7. \A d \in 1 .. 1, fd \in Fds :
           tables'[d][fd] \in SlotRec /\ Fine(tables'[d][fd], got'[d][fd])
    BY Zenon, <2>2, <2>5, InitFine
  <2> QED BY Zenon, <2>2, <2>4, <2>6, <2>7 DEF OrderInv
<1>5. CASE Depth # 1
  <2> DEFINE t == [tables EXCEPT ![Depth] = close_all_fd]
  <2>1. t \in Seq(X \cup {close_all_fd}) /\ Len(t) = Depth
    BY <1>1, <1>3
  <2>2. \A d \in 1 .. Depth - 1 : t[d] = tables[d]
    BY <1>1, <1>3
  <2>3. tables' = SubSeq(t, 1, Depth - 1) /\ got' = SubSeq(got, 1, Depth - 1)
    BY Zenon, <1>5 DEF Leave
  <2> HIDE DEF t
  <2>4. Depth - 1 \in Nat \ {0}
    BY SMTT(30), <1>3, <1>5
  <2>5. Len(tables') = Depth - 1 /\ \A d \in 1 .. Depth - 1 : tables'[d] = t[d]
    BY SMTT(30), <2>1, <2>3, <2>4
  <2>6. /\ got' \in Seq(Y) /\ Len(got') = Depth - 1
        /\ \A d \in 1 .. Depth - 1 : got'[d] = got[d]
    BY SMTT(30), <1>2, <1>3, <2>3, <2>4
  <2>7. Depth' = Depth - 1
    BY <2>5 DEF Depth
  <2>8. \A d \in 1 .. Depth - 1 : d \in 1 .. Depth
    BY SMTT(30), <1>3
  <2>9. \A d \in 1 .. Depth - 1 : got'[d] = [fd \in Fds |-> got'[d][fd]]
    BY Zenon, <2>6, <2>8 DEF OrderInv
  <2>10. ASSUME NEW d \in 1 .. Depth - 1, NEW fd \in Fds
         PROVE  tables'[d][fd] \in SlotRec /\ Fine(tables'[d][fd], got'[d][fd])
    <3>1. d \in 1 .. Depth /\ fd # dir_fd /\ tables'[d] = tables[d] /\ got'[d] = got[d]
      BY Zenon, <2>2, <2>5, <2>6, <2>8, StandardSlots
    <3> QED BY Zenon, <3>1 DEF OrderInv
  <2> QED BY Zenon, <2>6, <2>7, <2>9, <2>10 DEF OrderInv
<1> QED BY <1>4, <1>5

-----------------------------------------------------------------------------
(* The calls of programs. *)

\* A call that leaves the open and the handler alone.
LEMMA StillIdle ==
    ASSUME OpeningInv, Calling, pc' = pc, UNCHANGED handler
    PROVE  OpeningInv' /\ dir_fd = -1 /\ dir_fd' = -1
BY DEF OpeningInv, Calling, handler

\* The same step, with what was delivered left alone.
LEMMA OrderStore ==
    ASSUME StackInv, OrderInv, NEW i \in Fds, NEW sl \in SlotRec,
           tables' = [tables EXCEPT ![Depth] = [Table EXCEPT ![i] = sl]], got' = got,
           dir_fd' = dir_fd \/ dir_fd \in {i, -1},
           i # dir_fd' => Fine(sl, got[Depth][i])
    PROVE  OrderInv'
<1> DEFINE h == got[Depth][i]
<1>1. got = [got EXCEPT ![Depth] = got[Depth]] /\ got[Depth] = [fd \in Fds |-> got[Depth][fd]]
  BY TopFine
<1>2. got[Depth] = [got[Depth] EXCEPT ![i] = h]
  BY Zenon, <1>1
<1>3. got' = [got EXCEPT ![Depth] = [got[Depth] EXCEPT ![i] = h]]
  BY Zenon, <1>1, <1>2
<1> HIDE DEF h
<1>4. i # dir_fd' => Fine(sl, h)
  BY DEF h
<1> QED BY Zenon, <1>3, <1>4, OrderSlot

\* read_dentry_by_name gives -1 or an entry.
LEMMA NameFound ==
    ASSUME NEW name
    PROVE  read_dentry_by_name(img, name) \in Entries \cup {-1}
<1> DEFINE given == Min({MAX_NAME_CHARACTERS} \cup
                        {k \in 0 .. Len(name) : CharAt(name, k) \in {" ", NUL}})
           same  == {e \in Entries :
                       /\ create_char_count(img)[e] = given
                       /\ \A k \in 0 .. given - 1 : img.entries[e].file_name[k] = CharAt(name, k)}
<1>1. read_dentry_by_name(img, name) = IF given = 0 \/ same = {} THEN -1 ELSE Min(same)
  BY Zenon DEF read_dentry_by_name
<1>2. same \subseteq Entries
  <2> HIDE DEF given
  <2> QED OBVIOUS
<1> HIDE DEF same, given
<1>4. Entries \subseteq Nat
  BY FileSizes DEF Entries
<1>3. same # {} => Min(same) \in same
  BY Zenon, <1>2, <1>4, LeastNatural
<1> QED BY Zenon, <1>1, <1>2, <1>3

LEMMA OpenOrder ==
    ASSUME ImageOK, ReadInv, NEW name, Open(name)
    PROVE  OrderInv' /\ OpeningInv'
<1> DEFINE e     == read_dentry_by_name(img, name)
           type  == img.entries[e].file_type
           index == get_fd_index(Table)
           info  == CASE type = 0 -> rtc_open
                      [] type = 1 -> dir_open
                      [] OTHER    -> file_open(e)
<1>1. /\ tables' = tables /\ got' = got /\ dir_fd' = dir_fd /\ key' = "none" /\ key = "none"
      /\ pc = "user"
  BY DEF Open, Calling, handler
<1>2. \/ pc' = "user"
      \/ e # -1 /\ index # -1 /\ pc' = "fd_jump" /\ opening' = Opening(index, info, Table, {})
  BY Zenon, <1>1 DEF Open, Return
<1>3. dir_fd = -1
  BY <1>1 DEF ReadInv, OpeningInv
<1>4. OrderInv'
  BY <1>1, OrderSame DEF ReadInv
<1>5. e \in Entries \cup {-1}
  BY NameFound
<1>6. e # -1 => /\ info \in SlotRec /\ info.file_position = 0
                /\ info.fd_jump = "file" => info.inode_ptr \in Inodes
  <2> HIDE DEF e
  <2> SUFFICES ASSUME e # -1
               PROVE  /\ info \in SlotRec /\ info.file_position = 0
                      /\ info.fd_jump = "file" => info.inode_ptr \in Inodes
    OBVIOUS
  <2>1. e \in Entries
    BY <1>5
  <2>2. CASE type = 0
    BY <2>2, WordPositive DEF rtc_open, OpenInfo, SlotRec, Drivers
  <2>3. CASE type = 1
    BY <2>3, WordPositive DEF dir_open, OpenInfo, SlotRec, Drivers
  <2>4. CASE type \notin {0, 1}
    <3>1. img.entries[e].inode_idx \in Inodes /\ Inodes \subseteq Int
      BY <2>1, <2>4 DEF ImageOK, Inodes
    <3>2. info = file_open(e)
      BY <2>4
    <3> QED BY SMTT(30), <3>1, <3>2, WordPositive DEF file_open, OpenInfo, SlotRec, Drivers
  <2> QED BY <2>2, <2>3, <2>4
<1>7. index # -1 => Table[index].flags = 0
  BY FreeIndex
<1>8. Table' = Table
  BY Zenon, <1>1 DEF Table, Depth
<1> HIDE DEF e, index, info
<1>9. OpeningInv'
  <2>1. CASE pc' = "user"
    BY Zenon, <2>1, <1>1, <1>3 DEF OpeningInv
  <2>2. CASE e # -1 /\ index # -1 /\ pc' = "fd_jump" /\ opening' = Opening(index, info, Table, {})
    <3>1. opening'.info = info /\ opening'.index = index
      BY Zenon, <2>2 DEF Opening
    <3>2. Filling(Table[opening.index])'
      BY Zenon, <2>2, <3>1, <1>7, <1>8 DEF Filling
    <3> QED BY Zenon, <2>2, <3>1, <3>2, <1>1, <1>3, <1>6 DEF OpeningInv
  <2> QED BY Zenon, <2>1, <2>2, <1>2
<1> QED BY <1>4, <1>9

\* The slot an open has filled: nothing delivered, position 0.
LEMMA FreshFine ==
    ASSUME ImageOK, NEW sl \in SlotRec, sl.file_position = 0,
           sl.fd_jump = "file" => sl.inode_ptr \in Inodes
    PROVE  Fine(sl, <<>>)
<1>1. sl.fd_jump = "file" => img.inodes[sl.inode_ptr].file_size \in Nat
  BY DEF ImageOK, InodeOK
<1>2. Bytes(sl.inode_ptr, 0, 0) = <<>>
  BY NoBytes
<1>3. img.num_entries \in Nat
  BY DEF ImageOK
<1>4. FileRead(sl, <<>>)
  BY <1>1, <1>2 DEF FileRead
<1>5. DirRead(sl, <<>>)
  BY <1>3 DEF DirRead
<1> QED BY Zenon, <1>4, <1>5 DEF Fine

LEMMA StoreOrder ==
    ASSUME ImageOK, ReadInv, NEW field \in Points \ {"user"}, Store(field)
    PROVE  OrderInv' /\ OpeningInv'
<1> DEFINE i  == opening.index
           ts == Table[i]
           e  == [ts EXCEPT ![field] = opening.info[field]]
<1>1. /\ pc = field /\ key = "none" /\ key' = "none" /\ dir_fd' = dir_fd /\ dir_fd = -1
      /\ StackInv /\ OrderInv /\ pc # "user"
  BY Zenon DEF Store, handler, ReadInv, OpeningInv, DInv
<1>2. i \in Given /\ i \in Fds /\ i # dir_fd
  BY Zenon, <1>1, StandardSlots DEF ReadInv, DInv, OwnerInv
<1>3. tables' = [tables EXCEPT ![Depth] = [Table EXCEPT ![i] = e]]
  BY Zenon DEF Store, PutTable
<1>4. /\ opening.info \in SlotRec /\ opening.info.file_position = 0
      /\ opening.info.fd_jump = "file" => opening.info.inode_ptr \in Inodes
      /\ Filling(ts)
  BY Zenon, <1>1, <1>2 DEF ReadInv, OpeningInv
<1>5. ts \in SlotRec /\ Table = [fd \in Fds |-> Table[fd]]
  BY <1>1, <1>2, TopFine
<1>6. Table' = [Table EXCEPT ![i] = e]
  BY Zenon, <1>1, <1>3, TableAfter
<1>7. Table'[i] = e
  BY Zenon, <1>2, <1>5, <1>6
<1> HIDE DEF i, ts
<1>8. CASE field = "fd_jump"
  <2>1. e = [ts EXCEPT !.fd_jump = opening.info.fd_jump]
    BY <1>8
  <2>2. e \in SlotRec /\ e.flags = 0 /\ e.fd_jump = opening.info.fd_jump
    BY <2>1, <1>4, <1>5 DEF SlotRec, Filling
  <2>3. pc' = "inode_ptr" /\ opening' = opening /\ got' = got
    BY Zenon, <1>8 DEF Store, After
  <2> HIDE DEF e
  <2>4. Fine(e, got[Depth][i])
    BY <2>2 DEF Fine
  <2>5. OrderInv'
    BY Zenon, <2>2, <2>3, <2>4, <1>1, <1>2, <1>3, OrderStore
  <2>6. Filling(Table[opening.index])'
    BY Zenon, <2>2, <2>3, <1>7 DEF Filling, i
  <2> QED BY Zenon, <2>3, <2>5, <2>6, <1>1, <1>4 DEF OpeningInv
<1>9. CASE field = "inode_ptr"
  <2>1. e = [ts EXCEPT !.inode_ptr = opening.info.inode_ptr]
    BY <1>9
  <2>2. /\ e \in SlotRec /\ e.flags = 0 /\ e.fd_jump = ts.fd_jump
        /\ e.inode_ptr = opening.info.inode_ptr
    BY <2>1, <1>4, <1>5 DEF SlotRec, Filling
  <2>3. pc' = "file_position" /\ opening' = opening /\ got' = got
    BY Zenon, <1>9 DEF Store, After
  <2> HIDE DEF e
  <2>4. Fine(e, got[Depth][i])
    BY <2>2 DEF Fine
  <2>5. OrderInv'
    BY Zenon, <2>2, <2>3, <2>4, <1>1, <1>2, <1>3, OrderStore
  <2>6. Filling(Table[opening.index])'
    BY Zenon, <2>2, <2>3, <1>1, <1>4, <1>7, <1>9 DEF Filling, i
  <2> QED BY Zenon, <2>3, <2>5, <2>6, <1>1, <1>4 DEF OpeningInv
<1>10. CASE field = "file_position"
  <2>1. e = [ts EXCEPT !.file_position = opening.info.file_position]
    BY <1>10
  <2>2. /\ e \in SlotRec /\ e.flags = 0 /\ e.fd_jump = ts.fd_jump
        /\ e.inode_ptr = ts.inode_ptr /\ e.file_position = 0
    BY <2>1, <1>4, <1>5 DEF SlotRec, Filling
  <2>3. pc' = "flags" /\ opening' = opening /\ got' = got
    BY Zenon, <1>10 DEF Store, After
  <2> HIDE DEF e
  <2>4. Fine(e, got[Depth][i])
    BY <2>2 DEF Fine
  <2>5. OrderInv'
    BY Zenon, <2>2, <2>3, <2>4, <1>1, <1>2, <1>3, OrderStore
  <2>6. Filling(Table[opening.index])'
    BY Zenon, <2>2, <2>3, <1>1, <1>4, <1>7, <1>10 DEF Filling, i
  <2> QED BY Zenon, <2>3, <2>5, <2>6, <1>1, <1>4 DEF OpeningInv
<1>11. CASE field = "flags"
  <2>1. e = [ts EXCEPT !.flags = opening.info.flags]
    BY <1>11
  <2>2. /\ e \in SlotRec /\ e.fd_jump = ts.fd_jump
        /\ e.inode_ptr = ts.inode_ptr /\ e.file_position = ts.file_position
    BY Zenon, <2>1, <1>4, <1>5 DEF SlotRec
  <2>3. pc' = "user" /\ got' = [got EXCEPT ![Depth] = [got[Depth] EXCEPT ![i] = <<>>]]
    BY Zenon, <1>11 DEF Store, i
  <2> HIDE DEF e
  <2>4. e.file_position = 0 /\ (e.fd_jump = "file" => e.inode_ptr \in Inodes)
    BY Zenon, <2>2, <1>1, <1>4, <1>11 DEF Filling
  <2>5. Fine(e, <<>>)
    BY Zenon, <2>2, <2>4, FreshFine
  <2>6. OrderInv'
    BY Zenon, <2>2, <2>3, <2>5, <1>1, <1>2, <1>3, OrderSlot
  <2> QED BY <2>3, <2>6, <1>1 DEF OpeningInv
<1> QED BY Zenon, <1>8, <1>9, <1>10, <1>11 DEF Points

\* The read of a file moves the position behind the bytes it delivers.
LEMMA FileReadOn ==
    ASSUME ImageOK, NEW sl \in SlotRec, NEW g, sl.fd_jump = "file", FileRead(sl, g),
           NEW n \in Nat, NEW r, r = read_data(img, sl.inode_ptr, sl.file_position, n),
           NEW e, e = [sl EXCEPT !.file_position = (@ + (r.ret % WORD)) % WORD]
    PROVE  e \in SlotRec /\ Fine(e, g \o r.buf)
<1> DEFINE i == sl.inode_ptr
           p == sl.file_position
           E == EndOf(i, p, n)
           size == img.inodes[i].file_size
<1>1. i \in Inodes /\ p <= size /\ g = Bytes(i, 0, p)
  BY DEF FileRead
<1>2. p \in Nat
  BY WordPositive DEF SlotRec
<1>3. /\ WORD \in Nat /\ size \in Nat /\ size < WORD
      /\ LastByte(i, p, n) \in Nat /\ LastByte(i, p, n) <= size
  BY Zenon, <1>1, <1>2, LastByteIs
<1>4. r = [ret |-> E - p, buf |-> Bytes(i, p, E)]
  BY <1>1, <1>2, ReadExact
<1> HIDE DEF size
<1>5. E \in Nat /\ p <= E /\ E <= size
  BY <1>1, <1>2, <1>3 DEF EndOf
<1> HIDE DEF E
<1>6. r.ret = E - p /\ r.buf = Bytes(i, p, E)
  BY <1>4
<1>7. (E - p) % WORD = E - p /\ (p + (E - p)) % WORD = E
  BY <1>2, <1>3, <1>5
<1>8. e = [sl EXCEPT !.file_position = E]
  BY Zenon, <1>6, <1>7
<1>9. /\ e \in SlotRec /\ e.file_position = E /\ e.inode_ptr = i /\ e.fd_jump = "file"
  BY <1>8, <1>3, <1>5 DEF SlotRec
<1>10. g \o r.buf = Bytes(i, 0, E)
  <2>1. Bytes(i, 0, p) \o Bytes(i, p, E) = Bytes(i, 0, E)
    <3> HIDE DEF i, p
    <3>1. 0 \in Nat /\ 0 <= p
      BY <1>2
    <3> QED BY Zenon, <1>2, <1>5, <3>1, BytesJoin
  <2> QED BY <2>1, <1>1, <1>6, Zenon
<1>11. FileRead(e, g \o r.buf)
  BY Zenon, <1>1, <1>5, <1>9, <1>10 DEF FileRead, size
<1>12. DirRead(e, g \o r.buf)
  BY <1>9 DEF DirRead
<1> QED BY Zenon, <1>9, <1>11, <1>12 DEF Fine

\* The read of a directory moves it behind the entry whose name it delivers.
LEMMA DirReadOn ==
    ASSUME ImageOK, NEW sl \in SlotRec, NEW g, sl.fd_jump = "dir", DirRead(sl, g),
           sl.file_position < img.num_entries, NEW n \in Lengths,
           NEW e, e = [sl EXCEPT !.file_position = (@ + 1) % WORD]
    PROVE  e \in SlotRec /\ Fine(e, g \o <<EntryName(img, sl.file_position, n)>>)
<1> DEFINE p == sl.file_position
           N == img.num_entries
           name == EntryName(img, p, n)
           h == g \o <<name>>
<1>1. /\ N \in Nat /\ N < WORD /\ WORD \in Nat
  BY WordPositive DEF ImageOK
<1>2. p \in Nat /\ p < N
  BY WordPositive DEF SlotRec
<1>3. /\ g \in Seq(ListedNames) /\ Len(g) = p
      /\ \A k \in 1 .. p : \E m \in Lengths : g[k] = EntryName(img, k - 1, m)
  BY DEF DirRead
<1>4. name \in ListedNames
  BY <1>1, <1>2 DEF ListedNames
<1> HIDE DEF N
<1>5. (p + 1) % WORD = p + 1 /\ p + 1 \in 0 .. WORD - 1
  BY <1>1, <1>2
<1>6. e = [sl EXCEPT !.file_position = p + 1]
  BY <1>5
<1>7. e \in SlotRec /\ e.file_position = p + 1 /\ e.fd_jump = "dir"
  BY <1>5, <1>6 DEF SlotRec
<1>8. p + 1 - 1 = p /\ p + 1 <= N
  BY <1>1, <1>2
<1>9. ASSUME NEW k \in 1 .. p + 1 PROVE \E m \in Lengths : h[k] = EntryName(img, k - 1, m)
  <2>1. CASE k = p + 1
    <3>1. k - 1 = p
      BY SMTT(30), <2>1, <1>2
    <3>2. h[k] = name
      <4> HIDE DEF name
      <4> QED BY SMTT(30), <2>1, <1>2, <1>3, <1>4
    <3> QED BY Zenon, <3>1, <3>2
  <2>2. CASE k # p + 1
    <3>1. k \in 1 .. p
      BY SMTT(30), <2>2, <1>2
    <3>2. h[k] = g[k]
      <4> HIDE DEF name
      <4> QED BY SMTT(30), <3>1, <1>2, <1>3, <1>4
    <3> QED BY Zenon, <3>1, <3>2, <1>3
  <2> QED BY Zenon, <2>1, <2>2
<1>10. h \in Seq(ListedNames) /\ Len(h) = p + 1
  <2> HIDE DEF name
  <2> QED BY <1>2, <1>3, <1>4
<1> HIDE DEF h
<1>11. DirRead(e, h)
  BY <1>7, <1>8, <1>9, <1>10 DEF DirRead, N
<1>12. FileRead(e, h)
  BY <1>7 DEF FileRead
<1> QED BY <1>7, <1>11, <1>12 DEF Fine, h

LEMMA ReadOrder ==
    ASSUME ImageOK, Lengths \subseteq Nat, ReadInv, NEW fd, NEW n \in Lengths, Read(fd, n)
    PROVE  OrderInv' /\ OpeningInv'
<1> DEFINE jump == Table[fd].fd_jump
           r == CASE jump = "dir"  -> dir_read(Table, fd, n)
                  [] jump = "file" -> file_read(Table, fd, n)
<1>1. Calling /\ StackInv /\ OrderInv /\ OpeningInv
  BY DEF Read, ReadInv, DInv
<1>2. \/ Fault
      \/ tables' = tables /\ got' = got /\ pc' = pc /\ UNCHANGED handler
      \/ /\ check_valid_fd(Table, fd) /\ jump \in {"dir", "file"}
         /\ tables' = [tables EXCEPT ![Depth] = add_offset(Table, fd, Amount(Table, fd, r))]
         /\ got' = [got EXCEPT ![Depth][fd] = @ \o r.buf]
         /\ pc' = pc /\ UNCHANGED handler
  <2> HIDE DEF r
  <2> QED BY Zenon DEF Read, Return, PutTable, r
<1>3. CASE Fault
  <2>1. pc' = pc /\ UNCHANGED handler
    BY <1>3 DEF Fault, Leave
  <2>2. OpeningInv' /\ dir_fd = -1
    BY <2>1, <1>1, StillIdle
  <2>3. OrderInv'
    BY Zenon, <2>2, <1>1, <1>3, OrderLeave DEF Fault
  <2> QED BY <2>2, <2>3
<1>4. CASE tables' = tables /\ got' = got /\ pc' = pc /\ UNCHANGED handler
  <2>1. OpeningInv' /\ dir_fd = -1 /\ dir_fd' = -1
    BY <1>1, <1>4, StillIdle
  <2> QED BY Zenon, <2>1, <1>1, <1>4, OrderSame
<1>5. CASE /\ check_valid_fd(Table, fd) /\ jump \in {"dir", "file"}
           /\ tables' = [tables EXCEPT ![Depth] = add_offset(Table, fd, Amount(Table, fd, r))]
           /\ got' = [got EXCEPT ![Depth][fd] = @ \o r.buf]
           /\ pc' = pc /\ UNCHANGED handler
  <2> DEFINE sl == Table[fd]
             g  == got[Depth][fd]
             p  == sl.file_position
             e  == [sl EXCEPT !.file_position = (@ + Amount(Table, fd, r)) % WORD]
             h  == g \o r.buf
  <2>1. OpeningInv' /\ dir_fd = -1 /\ dir_fd' = -1
    BY Zenon, <1>1, <1>5, StillIdle
  <2>2. fd \in Given /\ fd \in Fds /\ fd # -1
    BY Zenon, <1>1, <1>5, NotStandard, StandardSlots
  <2>3. sl \in SlotRec /\ FileRead(sl, g) /\ DirRead(sl, g)
    <3>1. sl \in SlotRec /\ Fine(sl, g) /\ sl.flags = 1
      BY Zenon, <1>1, <1>5, <2>1, <2>2, TopFine DEF check_valid_fd
    <3> QED BY Zenon, <3>1 DEF Fine
  <2>4. get_file_position(Table, fd) = p /\ get_inode_ptr(Table, fd) = sl.inode_ptr
    BY <2>2 DEF get_file_position, get_inode_ptr
  <2>5. n \in Nat
    OBVIOUS
  <2>6. e \in SlotRec /\ Fine(e, h)
    <3>1. CASE jump = "file"
      <4>1. r = read_data(img, sl.inode_ptr, p, n) /\ Amount(Table, fd, r) = r.ret % WORD
        BY <3>1, <2>4 DEF file_read, Amount
      <4>2. e = [sl EXCEPT !.file_position = (@ + (r.ret % WORD)) % WORD]
        BY Zenon, <4>1
      <4> HIDE DEF r, e, sl, g
      <4>3. sl.fd_jump = "file"
        BY <3>1 DEF sl
      <4> QED BY Zenon, <4>1, <4>2, <4>3, <2>3, <2>5, FileReadOn
    <3>2. CASE jump = "dir" /\ p < img.num_entries
      <4>1. p \in Int /\ img.num_entries \in Int
        BY SMTT(30), <2>3, WordPositive DEF ImageOK, SlotRec
      <4>2. ~(p >= img.num_entries)
        <5> HIDE DEF p
        <5> QED BY <3>2, <4>1
      <4>3. Amount(Table, fd, r) = 1 /\ r = dir_read(Table, fd, n)
        <5> HIDE DEF p
        <5> QED BY Zenon, <3>2, <2>4, <4>2 DEF Amount
      <4>4. r.buf = <<EntryName(img, p, n)>>
        <5> HIDE DEF p, r
        <5> QED BY <4>2, <4>3, <2>4 DEF dir_read
      <4>5. e = [sl EXCEPT !.file_position = (@ + 1) % WORD]
        BY Zenon, <4>3
      <4>6. sl.fd_jump = "dir"
        BY <3>2
      <4> HIDE DEF r, e, sl, g
      <4> QED BY Zenon, <3>2, <4>4, <4>5, <4>6, <2>3, DirReadOn
    <3>3. CASE jump = "dir" /\ ~(p < img.num_entries)
      <4>1. p \in 0 .. WORD - 1 /\ img.num_entries \in Int
        BY SMTT(30), <2>3, WordPositive DEF ImageOK, SlotRec
      <4>2. p >= img.num_entries /\ (p + 0) % WORD = p
        <5> HIDE DEF p
        <5> QED BY SMTT(30), <3>3, <4>1, WordPositive
      <4>3. Amount(Table, fd, r) = 0 /\ r = dir_read(Table, fd, n)
        <5> HIDE DEF p
        <5> QED BY Zenon, <3>3, <2>4, <4>2 DEF Amount
      <4>4. r.buf = <<>>
        <5> HIDE DEF p, r
        <5> QED BY SMTT(30), <4>2, <4>3, <2>4 DEF dir_read
      <4>5. e = [sl EXCEPT !.file_position = p]
        BY Zenon, <4>2, <4>3
      <4>6. e = sl
        <5> HIDE DEF e
        <5> QED BY Zenon, <4>5, <2>3 DEF SlotRec
      <4>7. g \in Seq(ListedNames)
        BY Zenon, <2>3, <3>3 DEF DirRead
      <4>8. h = g
        <5> HIDE DEF g, r
        <5> QED BY SMTT(30), <4>4, <4>7
      <4> HIDE DEF e, h, sl, g
      <4> QED BY Zenon, <4>6, <4>8, <2>3 DEF Fine
    <3> QED BY Zenon, <1>5, <3>1, <3>2, <3>3
  <2>7. add_offset(Table, fd, Amount(Table, fd, r)) = [Table EXCEPT ![fd] = e]
    <3> HIDE DEF r
    <3> QED BY <2>2 DEF add_offset
  <2>8. tables' = [tables EXCEPT ![Depth] = [Table EXCEPT ![fd] = e]]
    BY Zenon, <1>5, <2>7
  <2>9. got' = [got EXCEPT ![Depth] = [got[Depth] EXCEPT ![fd] = h]]
    <3> HIDE DEF r
    <3> QED BY Zenon, <1>5
  <2> HIDE DEF e, h
  <2> QED BY Zenon, <2>1, <2>2, <2>6, <2>8, <2>9, <1>1, OrderSlot
<1> HIDE DEF r
<1> QED BY Zenon, <1>2, <1>3, <1>4, <1>5

LEMMA LeaveOrder ==
    ASSUME ReadInv, Calling, NEW status, Leave(status)
    PROVE  OrderInv' /\ OpeningInv'
<1>1. pc' = pc /\ UNCHANGED handler /\ StackInv /\ OrderInv /\ OpeningInv
  BY DEF Leave, ReadInv, DInv
<1>2. OpeningInv' /\ dir_fd = -1
  BY Zenon, <1>1, StillIdle
<1> QED BY Zenon, <1>1, <1>2, OrderLeave

LEMMA WriteOrder ==
    ASSUME ReadInv, NEW fd, NEW n, NEW f, Write(fd, n, f)
    PROVE  OrderInv' /\ OpeningInv'
<1>1. /\ Calling
      /\ Fault \/ (tables' = tables /\ got' = got /\ pc' = pc /\ UNCHANGED handler)
  BY DEF Write, Return
<1>2. CASE Fault
  BY <1>1, <1>2, LeaveOrder DEF Fault
<1>3. CASE tables' = tables /\ got' = got /\ pc' = pc /\ UNCHANGED handler
  <2>1. OpeningInv' /\ dir_fd' = dir_fd
    BY <1>1, <1>3, StillIdle DEF ReadInv
  <2> QED BY Zenon, <1>3, <2>1, OrderSame DEF ReadInv
<1> QED BY <1>1, <1>2, <1>3

LEMMA CloseOrder ==
    ASSUME ReadInv, NEW fd, Close(fd)
    PROVE  OrderInv' /\ OpeningInv'
<1> DEFINE jump == Table[fd].fd_jump
           ok   == check_valid_fd(Table, fd)
           tab  == CASE ok /\ jump = "rtc"  -> rtc_close(Table, fd)
                     [] ok /\ jump = "dir"  -> dir_close(Table, fd)
                     [] ok /\ jump = "file" -> file_close(Table, fd)
                     [] OTHER -> Table
           g    == [k \in Fds |-> IF k = fd THEN <<>> ELSE got[Depth][k]]
<1>1. Calling /\ StackInv /\ OrderInv /\ OpeningInv
  BY DEF Close, ReadInv, DInv
<1>2. \/ Fault
      \/ /\ tables' = [tables EXCEPT ![Depth] = tab]
         /\ got' = [got EXCEPT ![Depth] = g]
         /\ pc' = pc /\ UNCHANGED handler
  BY DEF Close, Return, PutTable
<1>3. CASE Fault
  BY Zenon, <1>1, <1>3, LeaveOrder DEF Fault
<1>4. CASE /\ tables' = [tables EXCEPT ![Depth] = tab]
           /\ got' = [got EXCEPT ![Depth] = g]
           /\ pc' = pc /\ UNCHANGED handler
  <2>1. OpeningInv' /\ dir_fd = -1 /\ dir_fd' = -1
    BY Zenon, <1>1, <1>4, StillIdle
  <2>2. /\ Table = [k \in Fds |-> Table[k]]
        /\ \A k \in Fds : Table[k] \in SlotRec /\ Fine(Table[k], got[Depth][k])
    BY Zenon, <2>1, <1>1, TopFine, StandardSlots
  <2>3. \/ tab = Table /\ ~(ok /\ jump \in {"dir", "file", "rtc"})
        \/ fd \in Fds /\ tab = [Table EXCEPT ![fd] = Closed]
    <3>1. CASE ok /\ jump \in {"dir", "file", "rtc"}
      <4>1. fd \in Given /\ fd \in Fds
        BY Zenon, <1>1, <3>1, NotStandard, StandardSlots
      <4>2. close_fd(Table, fd) = [Table EXCEPT ![fd] = Closed]
        BY <4>1 DEF close_fd
      <4>3. rtc_close(Table, fd) = close_fd(Table, fd)
        <5>1. ~(fd < FIRST_VALID_INDEX \/ fd > MAX_OPEN_FILES)
          BY <4>1, FdAssumption DEF Given, Fds, FIRST_VALID_INDEX
        <5> QED BY <5>1 DEF rtc_close
      <4>4. tab = close_fd(Table, fd)
        BY Zenon, <3>1, <4>3 DEF dir_close, file_close
      <4> QED BY Zenon, <4>1, <4>2, <4>4
    <3>2. CASE ~(ok /\ jump \in {"dir", "file", "rtc"})
      BY Zenon, <3>2
    <3> QED BY <3>1, <3>2
  <2>4. g = [k \in Fds |-> g[k]]
    OBVIOUS
  <2>5. \A k \in Fds : g[k] = IF k = fd THEN <<>> ELSE got[Depth][k]
    OBVIOUS
  <2>6. ASSUME NEW k \in Fds PROVE tab[k] \in SlotRec /\ Fine(tab[k], g[k])
    <3>1. CASE tab = Table /\ ~(ok /\ jump \in {"dir", "file", "rtc"})
      <4>1. CASE k = fd
        <5>1. Table[k].flags # 1 \/ Table[k].fd_jump \notin {"dir", "file"}
          BY Zenon, <3>1, <4>1 DEF check_valid_fd
        <5>2. tab[k] = Table[k]
          BY Zenon, <3>1
        <5> HIDE DEF tab, g
        <5> QED BY Zenon, <5>1, <5>2, <2>2 DEF Fine, FileRead, DirRead
      <4>2. CASE k # fd
        <5>1. tab[k] = Table[k] /\ g[k] = got[Depth][k]
          BY Zenon, <3>1, <4>2, <2>5
        <5> HIDE DEF tab, g
        <5> QED BY <5>1, <2>2
      <4> QED BY Zenon, <4>1, <4>2
    <3>2. CASE fd \in Fds /\ tab = [Table EXCEPT ![fd] = Closed]
      <4> HIDE DEF tab, g
      <4>1. tab[k] = IF k = fd THEN Closed ELSE Table[k]
        BY <3>2, <2>2
      <4> QED BY Zenon, <4>1, <2>2, <2>5, ClosedFine
    <3> QED BY Zenon, <2>3, <3>1, <3>2
  <2>7. OrderInv'
    <3> HIDE DEF tab, g
    <3> QED BY Zenon, <1>1, <1>4, <2>4, <2>6, OrderTop
  <2> QED BY <2>1, <2>7
<1> QED BY <1>2, <1>3, <1>4

LEMMA ExecuteOrder ==
    ASSUME ReadInv, Execute
    PROVE  OrderInv' /\ OpeningInv'
<1>1. /\ Calling /\ pc' = pc /\ UNCHANGED handler
      /\ tables' = Append(tables, fd_table_init) /\ got' = Append(got, Nothing)
  BY DEF Execute
<1>2. StackInv /\ OrderInv /\ OpeningInv
  BY DEF ReadInv, DInv
<1>3. OpeningInv' /\ dir_fd = -1
  BY <1>1, <1>2, StillIdle
<1> QED BY Zenon, <1>1, <1>2, <1>3, OrderPush

-----------------------------------------------------------------------------
(* The test keys. *)

\* A step of the handler that changes one slot: the one Ctrl+1 reads, or one it
\* leaves closed.
LEMMA HandlerSlot ==
    ASSUME ReadInv, NEW i \in Given, NEW sl \in SlotRec,
           tables' = [tables EXCEPT ![Depth] = [Table EXCEPT ![i] = sl]],
           UNCHANGED thread,
           dir_fd' = dir_fd \/ dir_fd \in {i, -1},
           i # dir_fd' => sl = Closed,
           key' # "ctrl1 read" => dir_fd' = -1,
           dir_fd' # -1 => dir_fd' = i /\ sl.fd_jump = "dir"
    PROVE  OrderInv' /\ OpeningInv'
<1> DEFINE idx == opening.index
<1>1. StackInv /\ OrderInv /\ OpeningInv /\ OwnerInv /\ i \in Fds /\ i # -1
  BY Zenon, StandardSlots DEF ReadInv, DInv
<1>2. pc' = pc /\ opening' = opening /\ got' = got
  BY Zenon DEF thread
<1>3. OrderInv'
  <2>1. i # dir_fd' => Fine(sl, got[Depth][i])
    BY Zenon, ClosedFine
  <2> QED BY Zenon, <1>1, <1>2, <2>1, OrderStore
<1>4. /\ Table = [fd \in Fds |-> Table[fd]] /\ Table' = [Table EXCEPT ![i] = sl]
  BY Zenon, <1>1, TopFine, TableAfter
<1>5. ASSUME pc # "user", idx # dir_fd' PROVE Filling(Table[opening.index])'
  <2>1. idx \in Fds /\ idx # -1
    BY Zenon, <1>1, <1>5, StandardSlots DEF OwnerInv
  <2>2. CASE idx = i
    <3>1. Table'[opening'.index] = Closed
      BY Zenon, <2>2, <1>1, <1>2, <1>4, <1>5
    <3>2. Closed.flags = 0 /\ Closed.fd_jump = "null" /\ Closed.file_position = 0
      BY Zenon DEF Closed
    <3> QED BY Zenon, <3>1, <3>2 DEF Filling
  <2>3. CASE idx # i
    <3>1. Table'[opening'.index] = Table[idx]
      BY Zenon, <2>1, <2>3, <1>1, <1>2, <1>4
    <3>2. idx # dir_fd
      BY Zenon, <2>1, <2>3, <1>5
    <3>3. Filling(Table[idx])
      BY Zenon, <3>2, <1>1, <1>5 DEF OpeningInv
    <3> QED BY Zenon, <3>1, <3>3, <1>2 DEF Filling
  <2> QED BY Zenon, <2>2, <2>3
<1>6. Table'[i] = sl
  BY Zenon, <1>1, <1>4
<1>7. OpeningInv'
  BY Zenon, <1>1, <1>2, <1>5, <1>6 DEF OpeningInv
<1> QED BY Zenon, <1>3, <1>7

\* A step of the handler that finds no slot.
LEMMA HandlerNone ==
    ASSUME ReadInv, tables' = [tables EXCEPT ![Depth] = Table], UNCHANGED thread,
           dir_fd = -1, dir_fd' = -1
    PROVE  OrderInv' /\ OpeningInv'
<1>1. StackInv /\ OrderInv /\ OpeningInv
  BY DEF ReadInv, DInv
<1>2. pc' = pc /\ opening' = opening /\ got' = got
  BY DEF thread
<1>3. PICK X : tables \in Seq(X)
  BY <1>1 DEF StackInv
<1>4. tables' = tables
  BY <1>3 DEF Table, Depth
<1>5. Table' = Table
  BY Zenon, <1>4 DEF Table, Depth
<1>6. OpeningInv'
  BY Zenon, <1>1, <1>2, <1>5 DEF OpeningInv, Filling
<1> QED BY Zenon, <1>1, <1>2, <1>4, <1>6, OrderSame

LEMMA PressOrder ==
    ASSUME ReadInv, NEW k \in {"ctrl1", "ctrl3", "ctrl4"}, Press(k)
    PROVE  OrderInv' /\ OpeningInv'
<1>1. /\ tables' = tables /\ pc' = pc /\ got' = got
      /\ opening'.index = opening.index /\ opening'.info = opening.info
      /\ dir_fd' = dir_fd /\ key = "none"
  BY Zenon DEF Press, Opening
<1>2. OrderInv /\ OpeningInv /\ dir_fd = -1 /\ Table' = Table
  BY Zenon, <1>1 DEF ReadInv, OpeningInv, Table, Depth
<1>3. OpeningInv'
  BY <1>1, <1>2 DEF OpeningInv, Filling
<1> QED BY Zenon, <1>1, <1>2, <1>3, OrderSame

LEMMA InfoOpenOrder ==
    ASSUME ReadInv, InfoOpen
    PROVE  OrderInv' /\ OpeningInv'
<1> DEFINE i == get_fd_index(Table)
           tab == set_fd_info(Table, i, dir_open)
<1>1. /\ key = "ctrl1" /\ key' = "ctrl1 read" /\ dir_fd' = i
      /\ tables' = [tables EXCEPT ![Depth] = tab] /\ UNCHANGED thread
  BY Zenon DEF InfoOpen, PutTable
<1>2. dir_fd = -1
  BY Zenon, <1>1 DEF ReadInv, OpeningInv
<1>3. i = -1 \/ i \in Given
  BY Zenon, FreeIndex
<1>4. dir_open \in SlotRec /\ dir_open.fd_jump = "dir"
  BY WordPositive DEF dir_open, OpenInfo, SlotRec, Drivers
<1> HIDE DEF i
<1>5. CASE i = -1
  <2>1. tab = Table
    BY <1>5, StandardSlots DEF set_fd_info
  <2> QED BY Zenon, <2>1, <1>1, <1>2, <1>5, HandlerNone
<1>6. CASE i \in Given
  <2>1. tab = [Table EXCEPT ![i] = dir_open]
    BY <1>6, StandardSlots DEF set_fd_info
  <2> HIDE DEF tab
  <2> QED BY Zenon, <2>1, <1>1, <1>2, <1>4, <1>6, HandlerSlot
<1> QED BY <1>3, <1>5, <1>6

LEMMA InfoReadOrder ==
    ASSUME ReadInv, InfoRead
    PROVE  OrderInv' /\ OpeningInv'
<1> DEFINE e == [Table[dir_fd] EXCEPT !.file_position = (@ + 1) % WORD]
           tab == add_offset(Table, dir_fd, 1)
<1>1. /\ key = "ctrl1 read" /\ key' = key /\ dir_fd' = dir_fd
      /\ tables' = [tables EXCEPT ![Depth] = tab] /\ UNCHANGED thread
  BY Zenon DEF InfoRead, PutTable, handler
<1>2. dir_fd = -1 \/ dir_fd \in Given
  BY Zenon, <1>1 DEF ReadInv, DInv, OwnerInv
<1>3. CASE dir_fd = -1
  <2>1. tab = Table
    BY <1>3, StandardSlots DEF add_offset
  <2> QED BY Zenon, <2>1, <1>1, <1>3, HandlerNone
<1>4. CASE dir_fd \in Given
  <2>1. tab = [Table EXCEPT ![dir_fd] = e] /\ dir_fd \in Fds
    BY <1>4, StandardSlots DEF add_offset
  <2>2. Table[dir_fd] \in SlotRec
    BY <2>1, TopFine DEF ReadInv, DInv
  <2>3. Table[dir_fd].file_position \in Int
    BY <2>2, WordPositive DEF SlotRec
  <2>4. (Table[dir_fd].file_position + 1) % WORD \in 0 .. WORD - 1
    BY <2>3, WordPositive
  <2>5. e \in SlotRec /\ e.fd_jump = "dir"
    <3>1. Table[dir_fd].fd_jump = "dir"
      BY Zenon, <2>1, StandardSlots DEF ReadInv, OpeningInv
    <3> QED BY <2>2, <2>4, <3>1 DEF SlotRec
  <2>6. key' # "ctrl1 read" => dir_fd' = -1
    BY Zenon, <1>1
  <2> HIDE DEF tab, e
  <2> QED BY Zenon, <2>1, <2>5, <2>6, <1>1, <1>4, HandlerSlot
<1> QED BY <1>2, <1>3, <1>4

LEMMA InfoCloseOrder ==
    ASSUME ReadInv, InfoClose
    PROVE  OrderInv' /\ OpeningInv'
<1> DEFINE tab == dir_close(Table, dir_fd)
<1>1. /\ key = "ctrl1 read" /\ dir_fd' = -1
      /\ tables' = [tables EXCEPT ![Depth] = tab] /\ UNCHANGED thread
  BY Zenon DEF InfoClose, PutTable
<1>2. dir_fd = -1 \/ dir_fd \in Given
  BY Zenon, <1>1 DEF ReadInv, DInv, OwnerInv
<1>3. CASE dir_fd = -1
  <2>1. tab = Table
    BY <1>3, StandardSlots DEF dir_close, close_fd
  <2> QED BY Zenon, <2>1, <1>1, <1>3, HandlerNone
<1>4. CASE dir_fd \in Given
  <2>1. tab = [Table EXCEPT ![dir_fd] = Closed]
    BY Zenon, <1>4, StandardSlots DEF dir_close, close_fd
  <2> HIDE DEF tab
  <2> QED BY Zenon, <2>1, <1>1, <1>4, ClosedFine, HandlerSlot
<1> QED BY <1>2, <1>3, <1>4

\* Ctrl+3 and Ctrl+4.
LEMMA OpenCloseOrder ==
    ASSUME ReadInv, key \in {"ctrl3", "ctrl4"}, UNCHANGED <<thread, dir_fd>>, NEW x, NEW tab,
           tables' = [tables EXCEPT ![Depth] = tab],
           tab = LET i == get_fd_index(Table)
                     t == set_fd_info(Table, i, x)
                 IN  IF i = -1 THEN t ELSE close_fd(t, i)
    PROVE  OrderInv' /\ OpeningInv'
<1> DEFINE i == get_fd_index(Table)
<1>1. dir_fd = -1 /\ dir_fd' = -1 /\ UNCHANGED thread
  BY Zenon DEF ReadInv, OpeningInv
<1>2. i = -1 \/ i \in Given
  BY Zenon, FreeIndex
<1>3. tab = LET t == set_fd_info(Table, i, x) IN IF i = -1 THEN t ELSE close_fd(t, i)
  OBVIOUS
<1> HIDE DEF i
<1>4. CASE i = -1
  <2>1. tab = Table
    BY <1>3, <1>4, StandardSlots DEF set_fd_info
  <2> QED BY Zenon, <2>1, <1>1, HandlerNone
<1>5. CASE i \in Given
  <2>1. i \in Fds /\ i # -1
    BY <1>5, StandardSlots
  <2>2. tab = [[Table EXCEPT ![i] = x] EXCEPT ![i] = Closed]
    BY Zenon, <2>1, <1>3 DEF set_fd_info, close_fd
  <2>3. tab = [Table EXCEPT ![i] = Closed]
    BY Zenon, <2>1, <2>2
  <2> QED BY Zenon, <2>3, <1>1, <1>5, ClosedFine, HandlerSlot
<1> QED BY Zenon, <1>2, <1>4, <1>5

LEMMA FileTextOrder ==
    ASSUME ReadInv, FileText
    PROVE  OrderInv' /\ OpeningInv'
<1> DEFINE i == get_fd_index(Table)
           t == set_fd_info(Table, i, file_open(CTR3))
<1>1. /\ key = "ctrl3" /\ UNCHANGED <<thread, dir_fd>>
      /\ tables' = [tables EXCEPT ![Depth] = file_close(t, i)]
  BY DEF FileText, PutTable
<1>2. file_close(t, i) = IF i = -1 THEN t ELSE close_fd(t, i)
  <2> HIDE DEF t, i
  <2> QED BY StandardSlots DEF file_close, close_fd
<1> HIDE DEF file_close
<1> QED BY Zenon, <1>1, <1>2, OpenCloseOrder

LEMMA ShowFreqOrder ==
    ASSUME ReadInv, NEW f, ShowFreq(f)
    PROVE  OrderInv' /\ OpeningInv'
<1> DEFINE i == get_fd_index(Table)
           t == set_fd_info(Table, i, rtc_open)
<1>1. /\ key = "ctrl4" /\ UNCHANGED <<thread, dir_fd>>
      /\ tables' = [tables EXCEPT ![Depth] = rtc_close(t, i)]
  BY Zenon DEF ShowFreq, PutTable
<1>2. rtc_close(t, i) = IF i = -1 THEN t ELSE close_fd(t, i)
  <2>1. i = -1 \/ i \in Given
    BY FreeIndex
  <2> HIDE DEF t, i
  <2> QED BY <2>1, FdAssumption DEF rtc_close, Given, Fds, FIRST_VALID_INDEX
<1> QED BY Zenon, <1>1, <1>2, OpenCloseOrder

-----------------------------------------------------------------------------
LEMMA InitOrder == Init => OrderInv /\ OpeningInv
<1> SUFFICES ASSUME Init PROVE OrderInv /\ OpeningInv
  OBVIOUS
<1>1. /\ Len(tables) = 1 /\ tables[1] = fd_table_init
      /\ got \in Seq({Nothing}) /\ Len(got) = 1 /\ got[1] = Nothing
  BY DEF Init
<1>2. Nothing = [fd \in Fds |-> Nothing[fd]]
  BY DEF Nothing
<1>3. Depth = 1 /\ \A d \in 1 .. 1 : d = 1
  BY <1>1 DEF Depth
<1>4. \A d \in 1 .. 1 : got[d] = [fd \in Fds |-> got[d][fd]]
  BY Zenon, <1>1, <1>2, <1>3
<1>5. \A d \in 1 .. 1, fd \in Fds : tables[d][fd] \in SlotRec /\ Fine(tables[d][fd], got[d][fd])
  BY Zenon, <1>1, <1>3, InitFine
<1>6. OrderInv
  BY Zenon, <1>1, <1>3, <1>4, <1>5 DEF OrderInv
<1>7. OpeningInv
  BY DEF Init, OpeningInv
<1> QED BY <1>6, <1>7

LEMMA StepOrder ==
    ASSUME ImageOK, Lengths \subseteq Nat, ReadInv, [Next]_vars
    PROVE  ReadInv'
<1>1. DInv'
  BY Zenon, StepKept, StackKept DEF DInv, ReadInv
<1>2. OrderInv' /\ OpeningInv'
  <2>1. ASSUME NEW name \in Names, Open(name) PROVE OrderInv' /\ OpeningInv'
    BY Zenon, <2>1, OpenOrder
  <2>2. ASSUME NEW field \in Points \ {"user"}, Store(field) PROVE OrderInv' /\ OpeningInv'
    BY Zenon, <2>2, StoreOrder
  <2>3. ASSUME NEW fd \in AnyFd, NEW n \in Lengths, Read(fd, n) PROVE OrderInv' /\ OpeningInv'
    BY Zenon, <2>3, ReadOrder
  <2>4. ASSUME NEW fd \in AnyFd, NEW n \in Lengths, NEW f \in Frequencies, Write(fd, n, f)
        PROVE  OrderInv' /\ OpeningInv'
    BY <2>4, WriteOrder
  <2>5. ASSUME NEW fd \in AnyFd, Close(fd) PROVE OrderInv' /\ OpeningInv'
    BY Zenon, <2>5, CloseOrder
  <2>6. CASE Execute
    BY Zenon, <2>6, ExecuteOrder
  <2>7. CASE Halt
    BY <2>7, LeaveOrder DEF Halt
  <2>8. ASSUME NEW k \in {"ctrl1", "ctrl3", "ctrl4"}, Press(k) PROVE OrderInv' /\ OpeningInv'
    BY Zenon, <2>8, PressOrder
  <2>9. CASE Handler
    <3>1. ASSUME NEW f \in Frequencies, ShowFreq(f) PROVE OrderInv' /\ OpeningInv'
      BY <3>1, ShowFreqOrder
    <3> QED
      BY Zenon, <3>1, <2>9, InfoOpenOrder, InfoReadOrder, InfoCloseOrder, FileTextOrder DEF Handler
  <2>10. CASE UNCHANGED vars
    <3>1. OrderInv'
      BY <2>10, OrderSame DEF vars, ReadInv
    <3>2. OpeningInv'
      BY Zenon, <2>10 DEF vars, ReadInv, OpeningInv, Filling, Table, Depth
    <3> QED BY Zenon, <3>1, <3>2
  <2> QED
    BY Zenon, <2>1, <2>2, <2>3, <2>4, <2>5, <2>6, <2>7, <2>8, <2>9, <2>10 DEF Next
<1> QED BY <1>1, <1>2 DEF ReadInv

\* What the invariant says of a slot that is on is what is asked: the slot
\* Ctrl+1 reads through is a directory's.
LEMMA OrderImplies ==
    ASSUME ImageOK, ReadInv
    PROVE  ReadsInOrder
<1> SUFFICES ASSUME NEW d \in 1 .. Depth, NEW fd \in Fds
             PROVE  LET slot == tables[d][fd]
                    IN  /\ slot.flags = 1 /\ slot.fd_jump = "file" =>
                               got[d][fd] = SubSeq(Contents(slot.inode_ptr), 1, slot.file_position)
                        /\ slot.flags = 1 /\ slot.fd_jump = "dir" /\ ~(d = Depth /\ fd = dir_fd) =>
                               /\ Len(got[d][fd]) = slot.file_position
                               /\ \A k \in DOMAIN got[d][fd] :
                                    \E n \in Lengths : got[d][fd][k] = Listing(n)[k]
  BY Zenon DEF ReadsInOrder
<1> DEFINE sl == tables[d][fd]
           g  == got[d][fd]
<1>1. sl \in SlotRec /\ (~(d = Depth /\ fd = dir_fd) => Fine(sl, g))
  BY DEF ReadInv, OrderInv
<1>2. ASSUME d = Depth, fd = dir_fd PROVE sl.fd_jump = "dir"
  <2>1. dir_fd # -1
    BY <1>2, StandardSlots
  <2> QED BY Zenon, <2>1, <1>2 DEF ReadInv, OpeningInv, Table
<1>3. ASSUME sl.flags = 1, sl.fd_jump = "file"
      PROVE  g = SubSeq(Contents(sl.inode_ptr), 1, sl.file_position)
  <2> DEFINE i == sl.inode_ptr
             p == sl.file_position
             size == img.inodes[i].file_size
  <2>1. i \in Inodes /\ p <= size /\ g = Bytes(i, 0, p)
    BY Zenon, <1>1, <1>2, <1>3 DEF Fine, FileRead
  <2>2. p \in Nat
    BY SMTT(30), <1>1, WordPositive DEF SlotRec
  <2> HIDE DEF i, p
  <2>3. size \in Nat
    BY Zenon, <2>1 DEF ImageOK, InodeOK
  <2>4. Contents(i) = Bytes(i, 0, size)
    BY Zenon, <2>1, ContentsAre
  <2>5. SubSeq(Bytes(i, 0, size), 1, p) = Bytes(i, 0, p)
    <3> HIDE DEF size
    <3> QED BY Zenon, <2>1, <2>2, <2>3, BytesFront
  <2>6. g = SubSeq(Contents(i), 1, p)
    BY <2>1, <2>4, <2>5, Zenon
  <2> QED BY Zenon, <2>6 DEF i, p
<1>4. ASSUME sl.flags = 1, sl.fd_jump = "dir", ~(d = Depth /\ fd = dir_fd)
      PROVE  /\ Len(g) = sl.file_position
             /\ \A k \in DOMAIN g : \E n \in Lengths : g[k] = Listing(n)[k]
  <2> DEFINE p == sl.file_position
             N == img.num_entries
  <2>1. /\ p <= N /\ g \in Seq(ListedNames) /\ Len(g) = p
        /\ \A k \in 1 .. p : \E n \in Lengths : g[k] = EntryName(img, k - 1, n)
    BY Zenon, <1>1, <1>4 DEF Fine, DirRead
  <2>2. p \in Nat /\ N \in Nat
    BY SMTT(30), <1>1, WordPositive DEF SlotRec, ImageOK
  <2> HIDE DEF sl, g, p
  <2>3. DOMAIN g = 1 .. p
    BY SMTT(30), <2>1
  <2>4. ASSUME NEW k \in 1 .. p, NEW n PROVE Listing(n)[k] = EntryName(img, k - 1, n)
    <3>1. k \in 1 .. N
      <4> HIDE DEF N
      <4> QED BY SMTT(30), <2>1, <2>2
    <3> QED BY Zenon, <3>1 DEF Listing
  <2>5. ASSUME NEW k \in DOMAIN g PROVE \E n \in Lengths : g[k] = Listing(n)[k]
    <3>1. k \in 1 .. p
      BY Zenon, <2>3
    <3>2. PICK n \in Lengths : g[k] = EntryName(img, k - 1, n)
      BY <3>1, <2>1
    <3> QED BY Zenon, <3>1, <3>2, <2>4
  <2> QED BY Zenon, <2>1, <2>5 DEF p
<1> QED BY Zenon, <1>3, <1>4

\* For every number of descriptors, processes and files, every size of blocks
\* and names, every image whose files name blocks that exist, every sequence of
\* opens, reads, closes, starts and halts of programs, and every point at which
\* a test key is pressed: what a descriptor delivered is the file from its
\* start up to its position, or the names of the first entries of the directory.
THEOREM ReadsSafe ==
    ASSUME ImageOK, Lengths \subseteq Nat
    PROVE  Spec => []ReadsInOrder
<1>1. Init => ReadInv
  BY Zenon, InitDInv, InitOrder DEF ReadInv
<1>2. ReadInv /\ [Next]_vars => ReadInv'
  BY StepOrder
<1>3. ReadInv => ReadsInOrder
  BY OrderImplies
<1> QED BY <1>1, <1>2, <1>3, PTL DEF Spec
=============================================================================
