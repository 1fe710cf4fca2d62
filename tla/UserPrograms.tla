---------------------------- MODULE UserPrograms ----------------------------
(***************************************************************************)
(* Programs of src/syscalls as clients of the descriptor calls of FdTable: *)
(* the self-test ece391syserr and the readers cat, ls and grep.  The shell *)
(* starts them in any order; the test keys are pressed between their       *)
(* calls.  A program is a pair of operators: the call it makes next in a   *)
(* state, and the state it goes to with the answer.                        *)
(***************************************************************************)
EXTENDS FdTable, SequencesExt

CONSTANTS
    CatNames,    \* arguments of cat
    WrongNames,  \* the names err_open tries: not quite those of files
    BUFSIZE      \* buffer of a program, 1024 in the code

VARIABLES
    prog,   \* the state of the program that runs, or of the shell
    wait    \* a call is under way

uvars == <<vars, prog, wait>>

Shell == [name |-> "shell", at |-> "prompt"]

Call(c, a)  == [call |-> c, arg |-> a]
Expect(c, a) == [call |-> c, arg |-> a, ret |-> -1]

\* NULL and an address of the kernel are outside of the user page.
vidmap(ptr) == IF ptr = "user page" THEN 0 ELSE -1

\* Numbers other than 1 .. 9 are refused at the entry of int 0x80.
SyscallEntry(num) == IF num \in 1 .. 9 THEN 0 ELSE -1

\* The tests of ece391syserr: calls with the answers they must get.  An open of
\* err_open_lots may also succeed; how many fail is counted.
err_fd(fd) == <<Expect("read", fd), Expect("write", fd), Expect("close", fd)>>

err_neg_fd == err_fd(-1)
err_big_fd == err_fd(MAX_OPEN_FILES)

err_open_lots ==
    [i \in 1 .. MAX_OPEN_FILES - 1 |-> Call("open", <<".">>)] \o
    [i \in 1 .. MAX_OPEN_FILES - FIRST_VALID_INDEX |-> Call("close", i + 1)] \o
    <<Call("count", 1)>>

\* "helloo", "shel" and the empty name.
err_open == [i \in 1 .. Len(WrongNames) |-> Expect("open", WrongNames[i])]

err_unopened ==
    [i \in 1 .. MAX_OPEN_FILES |-> Expect("close", i - 1)] \o
    [i \in 1 .. MAX_OPEN_FILES - FIRST_VALID_INDEX |-> Expect("read", i + 1)] \o
    [i \in 1 .. MAX_OPEN_FILES - FIRST_VALID_INDEX |-> Expect("write", i + 1)]

err_vidmap == <<Expect("vidmap", "null"), Expect("vidmap", "kernel")>>

err_stdin_out == <<Expect("write", 0), Expect("read", 1)>>

err_syscall_num == <<Expect("number", WORD), Expect("number", -1), Expect("number", 0)>>

Tests == <<err_neg_fd, err_big_fd, err_open_lots, err_open, err_unopened, err_vidmap,
           err_stdin_out, err_syscall_num>>

\* main of ece391syserr: one test, or with 0 all of them.
syserr(select) ==
    [name |-> "syserr", at |-> "test", failed |-> 0, fail |-> FALSE,
     todo |-> IF select = 0 THEN FlattenSeq(Tests) ELSE Tests[select]]

\* cat, ls and grep at their first call; sub is the file grep has open.
cat(name) == [name |-> "cat", at |-> "open", file |-> name, fd |-> -1, cnt |-> 0, out |-> 0]
ls        == [name |-> "ls", at |-> "open", file |-> <<".">>, fd |-> -1, cnt |-> 0, out |-> 0]
grep      == [name |-> "grep", at |-> "open", file |-> <<".">>, fd |-> -1, sub |-> -1,
              searched |-> <<>>]

Exit(p, status) == [name |-> p.name, at |-> "exit", status |-> status, end |-> p]

-----------------------------------------------------------------------------
\* The call a program makes next.
NextCall(p) ==
    CASE p.at = "test"       -> Head(p.todo)
      [] p.at = "open"       -> Call("open", p.file)
      [] p.at = "read"       -> Call("read", p.fd)
      [] p.at = "write"      -> Call("write", 1)
      [] p.at = "open file"  -> Call("open", Last(p.searched))
      [] p.at = "read file"  -> Call("read", p.sub)
      [] p.at = "close file" -> Call("close", p.sub)
      [] p.at = "exit"       -> Call("halt", p.status)

\* ... and its nbytes: what was read is written, by ls with a line feed.
Nbytes(p) == IF p.at # "write" THEN BUFSIZE ELSE p.cnt + (IF p.name = "ls" THEN 1 ELSE 0)

syserr_on(p, r) ==
    LET c    == Head(p.todo)
        lots == p.failed + (IF c.call = "open" /\ r = -1 /\ "ret" \notin DOMAIN c THEN 1 ELSE 0)
        fail == \/ p.fail
                \/ "ret" \in DOMAIN c /\ r # c.ret
                \/ c.call = "count" /\ p.failed # c.arg
        next == [p EXCEPT !.todo = Tail(@), !.fail = fail,
                          !.failed = IF c.call = "count" THEN 0 ELSE lots]
    IN  IF next.todo = <<>> THEN Exit(next, IF fail THEN 2 ELSE 0) ELSE next

\* Mutant of reader_on: a short read is taken for the end of the file.
reader_on_short(p, r) ==
    CASE p.at = "open" /\ r = -1 -> Exit(p, 2)
      [] p.at = "open" /\ r # -1 -> [p EXCEPT !.at = "read", !.fd = r]
      [] p.at = "read" /\ r = 0  -> Exit(p, 0)
      [] p.at = "read" /\ r = -1 -> Exit(p, 3)
      [] p.at = "read" /\ r > 0  -> [p EXCEPT !.at = "write", !.cnt = r]
      [] p.at = "write" /\ r = -1 -> Exit(p, 3)
      [] p.at = "write" /\ r # -1 -> IF p.cnt < BUFSIZE THEN Exit(p, 0)
                                     ELSE [p EXCEPT !.at = "read", !.out = @ + r]

\* The loop of cat and ls: what is read is written until a read gives 0.
reader_on(p, r) ==
    CASE p.at = "open" /\ r = -1 -> Exit(p, 2)
      [] p.at = "open" /\ r # -1 -> [p EXCEPT !.at = "read", !.fd = r]
      [] p.at = "read" /\ r = 0  -> Exit(p, 0)
      [] p.at = "read" /\ r = -1 -> Exit(p, 3)
      [] p.at = "read" /\ r > 0  -> [p EXCEPT !.at = "write", !.cnt = r]
      [] p.at = "write" /\ r = -1 -> Exit(p, 3)
      [] p.at = "write" /\ r # -1 -> [p EXCEPT !.at = "read", !.out = @ + r]

\* grep reads the directory, and every file whose name does not begin with a
\* dot to its end (what it prints of it: see Grep).
grep_on(p, r) ==
    CASE p.at = "open" /\ r = -1 -> Exit(p, 2)
      [] p.at = "open" /\ r # -1 -> [p EXCEPT !.at = "read", !.fd = r]
      [] p.at = "read" /\ r = 0  -> Exit(p, 0)
      [] p.at = "read" /\ r = -1 -> Exit(p, 3)
      [] p.at = "read" /\ r > 0  ->
            LET name == Last(got[Depth][p.fd])
            IN  IF name[1] = "." THEN p
                ELSE [p EXCEPT !.at = "open file", !.searched = Append(@, name)]
      [] p.at = "open file" /\ r = -1  -> Exit(p, 3)
      [] p.at = "open file" /\ r # -1  -> [p EXCEPT !.at = "read file", !.sub = r]
      [] p.at = "read file" /\ r = -1  -> Exit(p, 3)
      [] p.at = "read file" /\ r = 0   -> [p EXCEPT !.at = "close file"]
      [] p.at = "read file" /\ r > 0   -> p
      [] p.at = "close file" /\ r = -1 -> Exit(p, 3)
      [] p.at = "close file" /\ r # -1 -> [p EXCEPT !.at = "read"]

Continue(p, r) == CASE p.name = "syserr"      -> syserr_on(p, r)
                    [] p.name \in {"cat", "ls"} -> reader_on(p, r)
                    [] p.name = "grep"        -> grep_on(p, r)

-----------------------------------------------------------------------------
UInit == Init /\ prog = Shell /\ wait = FALSE

\* The shell executes a program.
Start(p) ==
    /\ prog = Shell
    /\ Execute
    /\ prog' = p
    /\ UNCHANGED wait

Do(c, nbytes) ==
    \/ c.call = "open"  /\ Open(c.arg)
    \/ c.call = "read"  /\ Read(c.arg, nbytes)
    \/ c.call = "write" /\ Write(c.arg, nbytes, 2)
    \/ c.call = "close" /\ Close(c.arg)
    \/ /\ c.call \in {"vidmap", "number", "count"}
       /\ Calling
       /\ Return(CASE c.call = "vidmap" -> vidmap(c.arg)
                   [] c.call = "number" -> SyscallEntry(c.arg)
                   [] c.call = "count"  -> c.arg)
       /\ UNCHANGED <<tables, got, freq, handler>>

MakeCall ==
    /\ prog # Shell /\ ~wait
    /\ IF prog.at = "exit"
       THEN Halt /\ prog' = Shell /\ UNCHANGED wait
       ELSE Do(NextCall(prog), Nbytes(prog)) /\ wait' = TRUE /\ UNCHANGED prog

InCall == wait /\ (\E field \in Points \ {"user"} : Store(field)) /\ UNCHANGED <<prog, wait>>

TakeAnswer ==
    /\ wait /\ Calling
    /\ prog' = Continue(prog, ret)
    /\ wait' = FALSE
    /\ UNCHANGED vars

Keys ==
    /\ \/ \E k \in {"ctrl1", "ctrl3", "ctrl4"} : Press(k)
       \/ Handler
    /\ UNCHANGED <<prog, wait>>

Run == MakeCall \/ InCall \/ TakeAnswer

UNext ==
    \/ \E p \in {syserr(n) : n \in 0 .. 8} \cup {cat(name) : name \in CatNames} \cup {ls, grep} :
          Start(p)
    \/ Run
    \/ Keys

\* The thread gets on whenever the keyboard leaves it some instructions, and
\* the handler runs with interrupts off.
USpec == UInit /\ [][UNext]_uvars /\ SF_uvars(Run) /\ WF_uvars(Keys /\ Handler)

-----------------------------------------------------------------------------
\* Every test of ece391syserr passes, alone and together, whatever programs ran
\* before it and whatever test keys are pressed between its calls.
SyserrPasses == prog.at = "exit" /\ prog.name = "syserr" => prog.status = 0

\* A reader that ends without an error has delivered all there is: cat every
\* byte of the file, ls every entry, grep every file but the directory, once
\* and in the order of the directory.
ReadersComplete ==
    prog.at = "exit" /\ prog.name # "syserr" /\ prog.status = 0 =>
        LET end  == prog.end
            slot == Table[end.fd]
            files == SelectSeq(Listing(BUFSIZE), LAMBDA name : name[1] # ".")
        IN  CASE prog.name = "grep" -> end.searched = files
              [] slot.fd_jump = "dir"  -> got[Depth][end.fd] = Listing(BUFSIZE)
              [] slot.fd_jump = "file" ->
                    /\ got[Depth][end.fd] = Contents(slot.inode_ptr)
                    /\ end.out = Len(got[Depth][end.fd])
              [] OTHER -> end.out = 0

\* cat, ls and grep end without an error on a sound image: none of them runs
\* out of descriptors, however many files there are.
ReadersSucceed ==
    prog.at = "exit" /\ prog.name # "syserr" => prog.status = 0 \/ prog.end.fd = -1

\* Every program comes to its end, cat, ls and grep whatever is pressed.
\* ece391syserr does not when Ctrl+1 is pressed while it has every descriptor
\* open: the handler hangs (HandlerEnds of FdTable).
ProgramsEnd == prog # Shell ~> prog = Shell \/ (Hung /\ prog.name = "syserr")
=============================================================================
