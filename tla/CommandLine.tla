----------------------------- MODULE CommandLine ----------------------------
(***************************************************************************)
(* What becomes of a typed line: keyboard_read hands it to the shell, the  *)
(* shell to execute, which splits it into a program name and arguments,    *)
(* and the program fetches the arguments with getargs.  The arguments wait *)
(* in the pcb of the program's slot, which is never cleared: strcpy ends   *)
(* them with a zero byte and leaves what an earlier program had behind it. *)
(*                                                                         *)
(* A string is the sequence of its characters before the zero byte; a      *)
(* buffer is a sequence of bytes, Zero included.  Execute is one step: the *)
(* races inside it are in module ProcessControl.                           *)
(***************************************************************************)
EXTENDS Integers, SequencesExt

CONSTANTS
    TERM_BUFF_SIZE,      \* 128: bytes of a line, of a command, of pcb args
    FILE_NAME_LENGTH,    \* 32
    BUFSIZE,             \* the shell's buffer, larger than a line
    Exit,                \* the string "exit"
    Programs,            \* the names of executable files
    Slots,               \* the slots children run in
    TypedLines,          \* the lines that are typed: shorter than TERM_BUFF_SIZE
    Sizes,               \* the buffer sizes getargs is called with
    Replies              \* the lines typed at the prompt of counter

Zero == "zero"
Blank == " "
NewLine == "newline"

VARIABLES
    args,     \* per slot, the bytes of args in its pcb
    procs,    \* the slots of the running programs, the last one in front
    given,    \* for each of them, the arguments typed for it
    line,     \* the line entered last
    result,   \* what the shell did with it
    got       \* what getargs returned last: ret, the buffer, the lowest index

vars == <<args, procs, given, line, result, got>>

None == [ret |-> -2, buf |-> <<>>, low |-> 0]

\* The pcbs of slots that were never used hold zero bytes.
Init ==
    /\ args = [s \in Slots |-> [i \in 1 .. TERM_BUFF_SIZE |-> Zero]]
    /\ procs = <<>>
    /\ given = <<>>
    /\ line = <<>>
    /\ result = "none"
    /\ got = None

-----------------------------------------------------------------------------
(* From the keyboard to the shell. *)

\* The number of leading characters c of s, n at most.
Run(s, c, n) ==
    CHOOSE k \in 0 .. Len(s) :
        /\ \A i \in 1 .. k : s[i] = c /\ i <= n
        /\ k < Len(s) /\ k < n => s[k + 1] # c

\* terminal_retrieve strips the leading blanks and copies up to the zero byte.
terminal_retrieve(s, nbytes) ==
    LET i == Run(s, Blank, nbytes)
        n == IF Len(s) - i < nbytes THEN Len(s) - i ELSE nbytes
    IN  SubSeq(s, i + 1, i + n)

\* keyboard_read adds a newline unless the line begins with "exit".
keyboard_read(s, nbytes) ==
    LET b == terminal_retrieve(s, nbytes)
    IN  IF IsPrefix(Exit, b) THEN b ELSE Append(b, NewLine)

\* The shell drops a final newline.
ShellLine(s) ==
    LET b == keyboard_read(s, BUFSIZE - 1)
    IN  IF b # <<>> /\ b[Len(b)] = NewLine THEN SubSeq(b, 1, Len(b) - 1) ELSE b

(* The reference: a line is a list of words separated by blanks. *)

\* The length of the longest prefix of s of characters other than those in stop.
Until(s, stop) ==
    CHOOSE k \in 0 .. Len(s) :
        /\ \A i \in 1 .. k : s[i] \notin stop
        /\ k < Len(s) => s[k + 1] \in stop

\* s without its leading, and without its trailing, blanks.
StripLeft(s) == SubSeq(s, Run(s, Blank, Len(s)) + 1, Len(s))
StripRight(s) == Reverse(StripLeft(Reverse(s)))

FirstWord(s) == SubSeq(StripLeft(s), 1, Until(StripLeft(s), {Blank}))
Rest(s) == StripLeft(SubSeq(StripLeft(s), Len(FirstWord(s)) + 1, Len(StripLeft(s))))

-----------------------------------------------------------------------------
(* execute. *)

\* The command ends at the first blank; the blanks after it are skipped; the
\* rest, trailing blanks included, are the arguments.
parse_cmd_args(comm) ==
    LET i == Until(comm, {Blank})
        j == i + Run(SubSeq(comm, i + 1, Len(comm)), Blank, TERM_BUFF_SIZE)
    IN  [command |-> SubSeq(comm, 1, i), args |-> SubSeq(comm, j + 1, Len(comm))]

\* Mutant of file_name: a name of FILE_NAME_LENGTH - 1 characters is refused.
file_name_short(command) ==
    LET k == Until(command, {Blank, NewLine})
    IN  IF k >= FILE_NAME_LENGTH - 1 THEN <<>> ELSE SubSeq(command, 1, k)

\* The program's name, or no name if it does not fit with its zero byte.
file_name(command) ==
    LET k == Until(command, {Blank, NewLine})
    IN  IF k > FILE_NAME_LENGTH - 1 THEN <<>> ELSE SubSeq(command, 1, k)

\* strcpy copies the characters and the zero byte, and nothing behind it.
strcpy(dest, s) ==
    [i \in DOMAIN dest |->
        IF i <= Len(s) THEN s[i] ELSE IF i = Len(s) + 1 THEN Zero ELSE dest[i]]

\* The slots not in_use; execute takes the first.
Free == Slots \ ToSet(procs)

\* A program in front, a shell, reads a line and acts on it.  On exit it
\* halts; a base shell is started again.
Enter(s) ==
    LET comm == ShellLine(s)
        p == parse_cmd_args(comm)
        name == file_name(p.command)
    IN  /\ line' = s
        /\ got' = None
        /\ \/ /\ comm = Exit
              /\ result' = "exit"
              /\ procs' = SubSeq(procs, 1, Len(procs) - 1)
              /\ given' = SubSeq(given, 1, Len(given) - 1)
              /\ UNCHANGED args
           \/ /\ comm = <<>>
              /\ result' = "prompt"
              /\ UNCHANGED <<args, procs, given>>
           \/ /\ comm # Exit /\ comm # <<>> /\ (name \notin Programs \/ Free = {})
              /\ result' = "no such command"
              /\ UNCHANGED <<args, procs, given>>
           \/ /\ comm # Exit /\ comm # <<>> /\ name \in Programs /\ Free # {}
              /\ result' = "run"
              /\ procs' = Append(procs, Min(Free))
              /\ given' = Append(given, Rest(s))
              /\ args' = [args EXCEPT ![Min(Free)] = strcpy(@, p.args)]

Halt ==
    /\ procs # <<>>
    /\ procs' = SubSeq(procs, 1, Len(procs) - 1)
    /\ given' = SubSeq(given, 1, Len(given) - 1)
    /\ result' = "none"
    /\ line' = <<>>
    /\ got' = None
    /\ UNCHANGED args

-----------------------------------------------------------------------------
(* getargs. *)

\* Everything but Zero and Blank stops the trimming.
Kept(b) == {i \in DOMAIN b : b[i] \notin {Blank, Zero}}

\* The buffer is cleared and takes the bytes of args, the ones behind the zero
\* byte too.  If it is not larger than args the call fails.  The blanks at its
\* end are cleared, down to the last byte that is neither blank nor zero; with
\* none the loop goes on below the buffer (index 0 here).
getargs(a, nbytes) ==
    LET n == IF nbytes < TERM_BUFF_SIZE THEN nbytes ELSE TERM_BUFF_SIZE
        b == [i \in 1 .. nbytes |-> IF i <= n THEN a[i] ELSE Zero]
        last == IF Kept(b) = {} THEN 0 ELSE Max(Kept(b))
        c == [i \in 1 .. nbytes |-> IF i > last THEN Zero ELSE b[i]]
    IN  IF n = nbytes THEN [ret |-> -1, buf |-> b, low |-> nbytes]
        ELSE [ret |-> IF c[1] = Zero THEN -1 ELSE 0, buf |-> c, low |-> last]

GetArgs(nbytes) ==
    /\ procs # <<>>
    /\ got' = getargs(args[procs[Len(procs)]], nbytes)
    /\ line' = <<>>
    /\ result' = "none"
    /\ UNCHANGED <<args, procs, given>>

-----------------------------------------------------------------------------
(* counter, a program that reads from the keyboard itself. *)

Numbers == {"0", "1", "2"}

\* One character is a choice; anything longer, or no number, is refused.
counter(s) ==
    LET b == keyboard_read(s, BUFSIZE - 1)
    IN  IF Len(b) > 1 \/ (Len(b) = 1 /\ b[1] \notin Numbers)
        THEN "wrong choice" ELSE "counts"

\* The program in front is counter: it reads a line and acts on it.
Choose(s) ==
    /\ procs # <<>>
    /\ line' = s
    /\ result' = counter(s)
    /\ got' = None
    /\ UNCHANGED <<args, procs, given>>

Next ==
    \/ \E s \in TypedLines : Enter(s)
    \/ Halt
    \/ \E n \in Sizes : GetArgs(n)
    \/ \E s \in Replies : Choose(s)

Spec == Init /\ [][Next]_vars

-----------------------------------------------------------------------------
\* The characters of a buffer before its zero byte.
String(b) == SubSeq(b, 1, Until(b, {Zero}))

TypeOK ==
    /\ \A s \in Slots : DOMAIN args[s] = 1 .. TERM_BUFF_SIZE /\ Zero \in ToSet(args[s])
    /\ ToSet(procs) \subseteq Slots /\ IsInjective(procs)
    /\ Len(given) = Len(procs)
    /\ result \in {"none", "exit", "prompt", "no such command", "run",
                  "wrong choice", "counts"}
    /\ got.ret \in {-2, -1, 0}

\* A step that takes a line does with it what its words say.
Obeyed ==
    /\ result' # "counts"
    /\ result' \notin {"none", "wrong choice"} =>
        result' = IF StripLeft(line') = <<>> THEN "prompt"
                  ELSE IF StripLeft(line') = Exit THEN "exit"
                  ELSE IF /\ FirstWord(line') \in Programs
                          /\ Len(FirstWord(line')) < FILE_NAME_LENGTH
                          /\ Free # {}
                       THEN "run" ELSE "no such command"

\* The shell does with a line what its words say: an empty line prompts again,
\* exactly "exit" leaves, a program's name of at most FILE_NAME_LENGTH - 1
\* characters runs it while a slot is free, anything else is no command.  The
\* line passes terminal_retrieve, keyboard_read, the shell and execute.  counter,
\* which asks "Enter the Test Number: (0): 100, (1): 10000, (2): 100000"
\* (ece391counter.c:13), takes no line for a choice, not even a number alone: it
\* gets the newline too, and that makes two characters (ece391counter.c:20).
LineObeyed == [][Obeyed]_vars

\* Bytes of an earlier program's arguments behind the zero byte of the ones
\* typed for the program in front.
LeftBehind ==
    \E i \in Kept(args[procs[Len(procs)]]) : i > Len(given[Len(given)])

\* What getargs gives a program, whatever programs had the slot before, and
\* whatever programs this one has started since.  With a buffer larger than
\* args it is the arguments of the line the program was started with, and the
\* call fails exactly when there are none; with any other it fails.  The code
\* departs from its comments in three cases, stated here as it acts:
\*   - "-1 - if the arguments and a terminal NULL (0-byte) do not fit in the
\*     buffer" (syscall.c:435), but it fails for every buffer of up to 128
\*     bytes, also when they fit;
\*   - "replace all the spaces with '\0' until you get to the first char, this
\*     is incase the user puts in random spaces at the end" (syscall.c:458), but
\*     the spaces stay when an earlier program left bytes behind them;
\*   - with no arguments and nothing left behind there is no first char, and
\*     the replacing goes on below the buffer.
ArgsAsTyped ==
    got.ret # -2 =>
        LET typed == given[Len(given)]
        IN  IF Len(got.buf) <= TERM_BUFF_SIZE
            THEN got.ret = -1
            ELSE /\ String(got.buf) = IF LeftBehind THEN typed ELSE StripRight(typed)
                 /\ got.ret = IF typed = <<>> THEN -1 ELSE 0
                 /\ got.low = 0 <=> typed = <<>> /\ ~LeftBehind
=============================================================================
