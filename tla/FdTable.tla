------------------------------- MODULE FdTable -------------------------------
(***************************************************************************)
(* File descriptors: fd_table.c, the open/read/write/close system calls    *)
(* of syscall.c, the directory and file drivers of filesystem.c and the    *)
(* descriptor part of the other three drivers.  One terminal: its running  *)
(* process and the parents waiting in execute each have a table in their   *)
(* pcb.                                                                    *)
(*                                                                         *)
(* System calls run with interrupts on.  The keyboard handler may come in  *)
(* between any two stores, and its test keys Ctrl+1, Ctrl+3 and Ctrl+4     *)
(* open and close descriptors of the process they interrupt.  A handler    *)
(* never touches a slot that is in use, so only the stores of an open,     *)
(* which owns a slot that still looks free, are steps of their own.        *)
(***************************************************************************)
EXTENDS FileOps

CONSTANTS
    MAX_OPEN_FILES,      \* 8 in the code
    img,                 \* the file system image (see FileOps)
    Frequencies,         \* what programs write to the RTC
    Names,               \* names programs open
    AnyFd,               \* descriptors programs use, valid or not
    Lengths,             \* values of nbytes
    ArgBytes,            \* args[120..123] of the running process, as a number
    MaxDepth,            \* bound: processes of the terminal
    KeyWindow            \* where the test keys are pressed: subset of Points

FIRST_VALID_INDEX == 2
Fds     == 0 .. MAX_OPEN_FILES - 1
Points  == {"user", "fd_jump", "inode_ptr", "file_position", "flags"}
Drivers == {"rtc", "file", "dir", "term", "kybd"}

ASSUME FdAssumption == MAX_OPEN_FILES \in Nat /\ MAX_OPEN_FILES >= FIRST_VALID_INDEX

VARIABLES
    tables,     \* fd_table of each process of the terminal, the running one last
    pc,         \* "user" or the store of set_fd_info that is next
    opening,    \* fd_index and the fd_t of the open in progress (and, for OpenFillsSlot,
                \* the table it found and the stores made before a test key)
    ret,        \* what the last call returned
    got,        \* what each open descriptor of each process has delivered
    key,        \* the test key the keyboard handler is at work on, or "none"
    dir_fd,     \* dir_fd of print_file_info
    seen,       \* the table the handler found when it was entered
    CTR3,       \* the file Ctrl+3 prints next
    freq        \* what set_frequency was last called with (see Rtc)

vars == <<tables, pc, opening, ret, got, key, dir_fd, seen, CTR3, freq>>

handler == <<key, dir_fd, seen, CTR3>>

Closed == [fd_jump |-> "null", inode_ptr |-> -1, file_position |-> 0, flags |-> 0]

Opening(index, info, found, lost) ==
    [index |-> index, info |-> info, found |-> found, lost |-> lost]
Idle == Opening(-1, Closed, <<>>, {})

Nothing == [fd \in Fds |-> <<>>]

Depth == Len(tables)
Table == tables[Depth]
PutTable(tab) == tables' = [tables EXCEPT ![Depth] = tab]

\* Every slot off, then stdin and stdout.
fd_table_init ==
    [fd \in Fds |-> CASE fd = 0 -> [Closed EXCEPT !.fd_jump = "kybd", !.flags = 1]
                      [] fd = 1 -> [Closed EXCEPT !.fd_jump = "term", !.flags = 1]
                      [] OTHER  -> Closed]

\* Mutant of get_fd_index: the last slot is never given out.
get_fd_index_last(tab) ==
    LET free == {fd \in FIRST_VALID_INDEX .. MAX_OPEN_FILES - 2 : tab[fd].flags = 0}
    IN  IF free = {} THEN -1 ELSE Min(free)

get_fd_index(tab) ==
    LET free == {fd \in FIRST_VALID_INDEX .. MAX_OPEN_FILES - 1 : tab[fd].flags = 0}
    IN  IF free = {} THEN -1 ELSE Min(free)

check_valid_fd(tab, fd) == fd \in Fds /\ tab[fd].flags = 1

\* Every slot, the standard descriptors too.
close_all_fd == [fd \in Fds |-> Closed]

set_fd_info(tab, fd, info) == IF fd \in Fds THEN [tab EXCEPT ![fd] = info] ELSE tab

close_fd(tab, fd) == IF fd \in Fds THEN [tab EXCEPT ![fd] = Closed] ELSE tab

\* Mutant of add_offset: the position is not moved.
add_offset_none(tab, fd, amt) == tab

\* The position is a uint32_t.
add_offset(tab, fd, amt) ==
    IF fd \in Fds THEN [tab EXCEPT ![fd].file_position = (@ + amt) % WORD] ELSE tab

get_inode_ptr(tab, fd) == IF fd \in Fds THEN tab[fd].inode_ptr ELSE -1

\* Without a check: descriptor -1 reads the four bytes in front of the table,
\* the end of the pcb's argument array.
get_file_position(tab, fd) == IF fd = -1 THEN ArgBytes ELSE tab[fd].file_position

\* What each driver's open fills its slot with.
OpenInfo(jump, inode) ==
    [fd_jump |-> jump, inode_ptr |-> inode, file_position |-> 0, flags |-> 1]

rtc_open     == OpenInfo("rtc", -1)
dir_open     == OpenInfo("dir", -1)
file_open(e) == OpenInfo("file", img.entries[e].inode_idx)

\* The keyboard's and the terminal's close refuse, the others free the slot.
rtc_close(tab, fd) ==
    IF fd < FIRST_VALID_INDEX \/ fd > MAX_OPEN_FILES THEN tab ELSE close_fd(tab, fd)
dir_close(tab, fd)  == close_fd(tab, fd)
file_close(tab, fd) == close_fd(tab, fd)

-----------------------------------------------------------------------------
Init ==
    /\ tables = <<fd_table_init>>
    /\ pc = "user"
    /\ opening = Idle
    /\ ret = 0
    /\ got = <<Nothing>>
    /\ key = "none"
    /\ dir_fd = -1
    /\ seen = <<>>
    /\ CTR3 = 0
    /\ freq = 2

Calling == pc = "user" /\ key = "none"

Return(r) == ret' = r /\ UNCHANGED <<pc, opening>>

\* open: the type of the entry picks the driver, whose open takes the first
\* free slot and then fills it with set_fd_info.  rtc_open sets 2 Hz first.
Open(name) ==
    LET e     == read_dentry_by_name(img, name)
        type  == img.entries[e].file_type
        index == get_fd_index(Table)
        info  == CASE type = 0 -> rtc_open
                   [] type = 1 -> dir_open
                   [] OTHER    -> file_open(e)
    IN  /\ Calling
        /\ freq' = IF e # -1 /\ type = 0 THEN 2 ELSE freq
        /\ IF e = -1 \/ index = -1
           THEN Return(-1)
           ELSE /\ pc' = "fd_jump"
                /\ opening' = Opening(index, info, Table, {})
                /\ UNCHANGED ret
        /\ UNCHANGED <<tables, got, handler>>

\* The four stores of set_fd_info, in the order of the code.
After(field) == CASE field = "fd_jump"       -> "inode_ptr"
                  [] field = "inode_ptr"     -> "file_position"
                  [] field = "file_position" -> "flags"

Store(field) ==
    /\ pc = field /\ key = "none"
    /\ PutTable([Table EXCEPT ![opening.index][field] = opening.info[field]])
    /\ IF field = "flags"
       THEN /\ pc' = "user" /\ opening' = Idle /\ ret' = opening.index
            /\ got' = [got EXCEPT ![Depth][opening.index] = <<>>]
       ELSE pc' = After(field) /\ UNCHANGED <<opening, ret, got>>
    /\ UNCHANGED <<freq, handler>>

\* The next name of the directory.
dir_read(tab, fd, nbytes) ==
    IF get_file_position(tab, fd) >= img.num_entries THEN [ret |-> 0, buf |-> <<>>]
    ELSE LET name == EntryName(img, get_file_position(tab, fd), nbytes)
         IN  [ret |-> Len(name), buf |-> <<name>>]

\* The next bytes of the file.
file_read(tab, fd, nbytes) ==
    read_data(img, get_inode_ptr(tab, fd), get_file_position(tab, fd), nbytes)

\* How far a read moves the position.  file_read keeps the answer in a
\* uint32_t, so -1 is an amount too.
Amount(tab, fd, r) ==
    CASE tab[fd].fd_jump = "dir"  ->
            IF get_file_position(tab, fd) >= img.num_entries THEN 0 ELSE 1
      [] tab[fd].fd_jump = "file" -> r.ret % WORD

\* Mutant of Leave: the parent is current again before close_all_fd runs.
LeaveLate(status) ==
    /\ tables' = IF Depth = 1 THEN <<fd_table_init>>
                 ELSE [SubSeq(tables, 1, Depth - 1) EXCEPT ![Depth - 1] =
                          [fd \in Fds |-> IF fd < 2 THEN @[fd] ELSE close_all_fd[fd]]]
    /\ got' = IF Depth = 1 THEN <<Nothing>> ELSE SubSeq(got, 1, Depth - 1)
    /\ ret' = status
    /\ UNCHANGED <<pc, opening, freq, handler>>

\* halt closes the table and goes back to the parent; the shell of a terminal
\* is executed again instead.
Leave(status) ==
    /\ tables' = IF Depth = 1 THEN <<fd_table_init>>
                 ELSE SubSeq([tables EXCEPT ![Depth] = close_all_fd], 1, Depth - 1)
    /\ got' = IF Depth = 1 THEN <<Nothing>> ELSE SubSeq(got, 1, Depth - 1)
    /\ ret' = status
    /\ UNCHANGED <<pc, opening, freq, handler>>

\* A call through a NULL jump table reads the page at 0, which is not present:
\* exception_handler halts the process.
Fault == Leave(256)

\* read: the keyboard's line is some number of characters (see Keyboard), the
\* RTC answers 0 after a tick (see Rtc), the terminal cannot be read.
Read(fd, nbytes) ==
    LET jump == Table[fd].fd_jump
        r    == CASE jump = "dir"  -> dir_read(Table, fd, nbytes)
                  [] jump = "file" -> file_read(Table, fd, nbytes)
    IN  /\ Calling
        /\ \/ /\ ~check_valid_fd(Table, fd)
              /\ Return(-1)
              /\ UNCHANGED <<tables, got, freq, handler>>
           \/ /\ check_valid_fd(Table, fd) /\ jump = "null"
              /\ Fault
           \/ /\ check_valid_fd(Table, fd) /\ jump \in {"kybd", "rtc", "term"}
              /\ \E n \in IF jump = "kybd" THEN 1 .. nbytes + 1
                          ELSE IF jump = "rtc" THEN {0} ELSE {-1} : Return(n)
              /\ UNCHANGED <<tables, got, freq, handler>>
           \/ /\ check_valid_fd(Table, fd) /\ jump \in {"dir", "file"}
              /\ PutTable(add_offset(Table, fd, Amount(Table, fd, r)))
              /\ got' = [got EXCEPT ![Depth][fd] = @ \o r.buf]
              /\ Return(r.ret)
              /\ UNCHANGED <<freq, handler>>

\* write: to the terminal, or a frequency to the RTC.
Write(fd, nbytes, f) ==
    LET jump == Table[fd].fd_jump
        ok   == check_valid_fd(Table, fd)
    IN  /\ Calling
        /\ \/ /\ ok /\ jump = "null"
              /\ Fault
           \/ /\ ~(ok /\ jump = "null")
              /\ Return(CASE ~ok -> -1
                          [] ok /\ jump = "term" -> nbytes
                          [] ok /\ jump = "rtc"  -> 0
                          [] OTHER -> -1)
              /\ freq' = IF ok /\ jump = "rtc" THEN f ELSE freq
              /\ UNCHANGED <<tables, got, handler>>

\* close: keyboard_close and terminal_close refuse.
Close(fd) ==
    LET jump == Table[fd].fd_jump
        ok   == check_valid_fd(Table, fd)
    IN  /\ Calling
        /\ \/ /\ ok /\ jump = "null"
              /\ Fault
           \/ /\ ~(ok /\ jump = "null")
              /\ Return(IF ok /\ jump \in {"dir", "file", "rtc"} THEN 0 ELSE -1)
              /\ PutTable(CASE ok /\ jump = "rtc"  -> rtc_close(Table, fd)
                            [] ok /\ jump = "dir"  -> dir_close(Table, fd)
                            [] ok /\ jump = "file" -> file_close(Table, fd)
                            [] OTHER -> Table)
              /\ got' = [got EXCEPT ![Depth] = [k \in Fds |-> IF k = fd THEN <<>> ELSE @[k]]]
              /\ UNCHANGED <<freq, handler>>

\* A program is started: its table is initialised in its own pcb.
Execute ==
    /\ Calling /\ Depth < MaxDepth
    /\ tables' = Append(tables, fd_table_init)
    /\ got' = Append(got, Nothing)
    /\ UNCHANGED <<pc, opening, ret, freq, handler>>

Halt == Calling /\ Leave(0)

-----------------------------------------------------------------------------
\* The keyboard handler, entered for one of the test keys; interrupts stay off
\* until it returns.
thread == <<pc, opening, ret, got>>

\* The stores set_fd_info has made.
Stored == CASE pc \in {"user", "fd_jump"} -> {}
            [] pc = "inode_ptr"           -> {"fd_jump"}
            [] pc = "file_position"       -> {"fd_jump", "inode_ptr"}
            [] pc = "flags"               -> {"fd_jump", "inode_ptr", "file_position"}

Press(k) ==
    /\ key = "none" /\ pc \in KeyWindow
    /\ key' = k
    /\ seen' = Table
    /\ opening' = Opening(opening.index, opening.info, opening.found, Stored)
    /\ UNCHANGED <<tables, pc, ret, got, dir_fd, CTR3, freq>>

HandlerReturns == key' = "none" /\ seen' = <<>>

\* Mutant of InfoOpen: descriptor 2 is taken, free or not.
InfoOpenTwo ==
    /\ key = "ctrl1"
    /\ key' = "ctrl1 read"
    /\ dir_fd' = 2
    /\ PutTable(set_fd_info(Table, 2, dir_open))
    /\ UNCHANGED <<thread, seen, CTR3, freq>>

\* print_file_info opens the directory without looking at the result ...
InfoOpen ==
    LET index == get_fd_index(Table)
    IN  /\ key = "ctrl1"
        /\ key' = "ctrl1 read"
        /\ dir_fd' = index
        /\ PutTable(set_fd_info(Table, index, dir_open))
        /\ UNCHANGED <<thread, seen, CTR3, freq>>

\* The loop goes on while dir_read gives a name.
MoreEntries == dir_read(Table, dir_fd, MAX_NAME_CHARACTERS).ret # 0

\* Mutant of InfoRead: the position is not moved.
InfoRead_stuck ==
    /\ key = "ctrl1 read" /\ MoreEntries
    /\ UNCHANGED vars

\* ... and reads to the end of it.  add_offset refuses descriptor -1, so then
\* the step repeats for ever.
InfoRead ==
    /\ key = "ctrl1 read" /\ MoreEntries
    /\ PutTable(add_offset(Table, dir_fd, 1))
    /\ UNCHANGED <<thread, handler, freq>>

InfoClose ==
    /\ key = "ctrl1 read" /\ ~MoreEntries
    /\ PutTable(dir_close(Table, dir_fd))
    /\ dir_fd' = -1
    /\ HandlerReturns
    /\ UNCHANGED <<thread, CTR3, freq>>

\* test_file_data and print_file_text: file_open whatever the type, read until
\* nothing more comes, file_close.
FileText ==
    LET index == get_fd_index(Table)
    IN  /\ key = "ctrl3"
        /\ PutTable(file_close(set_fd_info(Table, index, file_open(CTR3)), index))
        /\ CTR3' = (CTR3 + 1) % img.num_entries
        /\ HandlerReturns
        /\ UNCHANGED <<thread, dir_fd, freq>>

\* print_freq: rtc_open, rtc_write of the frequency shown, rtc_close.
ShowFreq(f) ==
    LET index == get_fd_index(Table)
    IN  /\ key = "ctrl4"
        /\ PutTable(rtc_close(set_fd_info(Table, index, rtc_open), index))
        /\ freq' = IF index = -1 THEN 2 ELSE f
        /\ HandlerReturns
        /\ UNCHANGED <<thread, dir_fd, CTR3>>

Handler ==
    \/ InfoOpen
    \/ InfoRead
    \/ InfoClose
    \/ FileText
    \/ \E f \in Frequencies : ShowFreq(f)

Next ==
    \/ \E name \in Names : Open(name)
    \/ \E field \in Points \ {"user"} : Store(field)
    \/ \E fd \in AnyFd, n \in Lengths : Read(fd, n)
    \/ \E fd \in AnyFd, n \in Lengths, f \in Frequencies : Write(fd, n, f)
    \/ \E fd \in AnyFd : Close(fd)
    \/ Execute
    \/ Halt
    \/ \E k \in {"ctrl1", "ctrl3", "ctrl4"} : Press(k)
    \/ Handler

Spec == Init /\ [][Next]_vars

\* Nothing can hold up the handler: interrupts are off until it returns.
LiveSpec == Spec /\ WF_vars(Handler)

-----------------------------------------------------------------------------
\* All of a name or a file, as a reader who starts at its front gets it.
Listing(nbytes) == [e \in 1 .. img.num_entries |-> EntryName(img, e - 1, nbytes)]
Contents(inode) == read_data(img, inode, 0, img.inodes[inode].file_size).buf

TypeOK ==
    /\ tables \in Seq([Fds -> [fd_jump : Drivers \cup {"null"},
                               inode_ptr : Int, file_position : 0 .. WORD - 1, flags : {0, 1}]])
    /\ Depth \in 1 .. MaxDepth /\ Len(got) = Depth
    /\ pc \in Points
    /\ opening.index \in Fds \cup {-1}
    /\ key \in {"none", "ctrl1", "ctrl1 read", "ctrl3", "ctrl4"}
    /\ dir_fd \in Fds \cup {-1}
    /\ CTR3 \in 0 .. img.num_entries - 1
    /\ freq \in Frequencies \cup {2}

\* "Data should be read to the end of the file or the end of the buffer"
\* (syscall.c:292) and "subsequent reads should read from successive directory
\* entries" (syscall.c:295): whatever is done with other descriptors, in other
\* programs and by the test keys in between, the pieces a descriptor delivers
\* are the file from its start, nothing twice and nothing left out; a
\* directory descriptor lists every entry once, in order.
ReadsInOrder ==
    \A d \in 1 .. Depth : \A fd \in Fds :
        LET slot == tables[d][fd]
        IN  /\ slot.flags = 1 /\ slot.fd_jump = "file" =>
                   got[d][fd] = SubSeq(Contents(slot.inode_ptr), 1, slot.file_position)
            /\ slot.flags = 1 /\ slot.fd_jump = "dir" /\ ~(d = Depth /\ fd = dir_fd) =>
                   /\ Len(got[d][fd]) = slot.file_position
                   /\ \A k \in DOMAIN got[d][fd] :
                        \E n \in Lengths : got[d][fd][k] = Listing(n)[k]

\* Descriptors 0 and 1 are the keyboard and the terminal of every process, at
\* every step: no close, open or test key takes them away (fd_table.h:17-18).
StandardDescriptors ==
    \A d \in 1 .. Depth : tables[d][0] = fd_table_init[0] /\ tables[d][1] = fd_table_init[1]

\* What a program does with its descriptors is its own affair: the tables of
\* the processes that wait for it in execute do not change, up to and
\* including its halt.
ParentsUntouched ==
    [][\A d \in 1 .. Depth - 1 : d <= Len(tables') /\ tables'[d] = tables[d]]_vars

\* open fails only when the name does not exist or every slot is in use, and
\* then takes none.  Otherwise it gives "an unused file descriptor" and touches
\* no other (syscall.c:367-372): when it returns, the table is the one it found
\* but for a slot that was off.  That slot holds everything "necessary to
\* handle the given type of file" unless a test key came in between the stores:
\* the handler takes the slot for free and clears it, so the stores made before
\* are lost, the jump table first, and the descriptor is in use without a
\* driver.
OpenFillsSlot ==
    [][/\ \A name \in Names :
             Open(name) => LET free == {fd \in Fds : Table[fd].flags = 0}
                           IN  (read_dentry_by_name(img, name) = -1 \/ free = {})
                               <=> (ret' = -1 /\ pc' = "user")
       /\ pc # "user" /\ pc' = "user" =>
             LET i == opening.index
             IN  /\ ret' = i /\ opening.found[i].flags = 0
                 /\ Table' = [opening.found EXCEPT ![i] =
                       [f \in DOMAIN Closed |-> IF f \in opening.lost THEN Closed[f]
                                                ELSE opening.info[f]]]]_vars

\* A test key leaves the table as it found it, what it opened closed again
\* ("always close", testcases3_2.c:87).  The exception is the slot an
\* interrupted open is filling: it still looks free, is taken, and comes back
\* empty.
KeysLeaveTable ==
    [][key # "none" /\ key' = "none" =>
          Table' = IF pc = "user" THEN seen ELSE [seen EXCEPT ![opening.index] = Closed]]_vars

\* Every descriptor was in use when the key came; Ctrl+1 loops on descriptor -1.
Full == key # "none" /\ \A fd \in Fds : seen[fd].flags = 1
Hung == key = "ctrl1 read" /\ dir_fd = -1 /\ MoreEntries

\* A test key's handler comes to an end: print_file_info "prints all the file
\* information" and returns (filesystem.c:53).  Except that Ctrl+1 with every
\* descriptor in use goes on with descriptor -1, whose position is read from
\* the argument array: unless those bytes are past the last entry, the loop
\* never ends and interrupts stay off.
HandlerEnds ==
    /\ key # "none" /\ ~(key \in {"ctrl1", "ctrl1 read"} /\ Full) ~> key = "none"
    /\ key = "ctrl1" /\ Full /\ ArgBytes >= img.num_entries ~> key = "none"
    /\ key = "ctrl1" /\ Full /\ ArgBytes < img.num_entries ~> []Hung
=============================================================================
