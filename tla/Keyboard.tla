------------------------------ MODULE Keyboard ------------------------------
(***************************************************************************)
(* The keyboard driver (keyboard.c) and the line it hands to a program     *)
(* through terminal.c: modifier flags, one line buffer and one finished    *)
(* line per terminal, and a single kbdr_flag for all of them.              *)
(*                                                                         *)
(* keyboard_handler runs with interrupts off: one action per key.          *)
(* keyboard_read is interruptible: it clears the flag, waits for it and    *)
(* copies the line byte by byte; only the thread of curr_terminal runs.    *)
(* What reaches the screen is the subject of Screen, what Ctrl+1, 3 and 4  *)
(* do that of FdTable and Rtc.                                             *)
(***************************************************************************)
EXTENDS Integers, Sequences

CONSTANTS
    MAX_TERMINAL,   \* 3 in the code
    BUFFER_SIZE,    \* BUFFER_SIZE and TERM_BUFF_SIZE, 128 in the code
    NBYTES,         \* the size of the buffers passed to read
    Keys,           \* the keys in use, out of AllKeys
    MaxLines        \* bound: how often Enter is pressed

AllKeys == {"caps", "lshift", "rshift", "ctrl", "alt", "fn", "bksp", "enter",
            "letter", "exit", "space", "dead", "hot"}

Terminals == 0 .. MAX_TERMINAL - 1
NUL == "nul"
NL  == "nl"

VARIABLES
    curr_terminal,
    caps_shift_flag,   \* [Terminals -> 0..3]: 1 for shift plus 2 for caps
    ctrl_flag,
    alt_flag,
    buffer,            \* [Terminals -> the line so far], up to buffer_index
    save_buff,         \* [Terminals -> the last finished line]
    kbdr_flag,
    rd,                \* [Terminals -> where the thread's keyboard_read stands]
    got,               \* [Terminals -> the caller's buf so far]
    idx,               \* [Terminals -> terminal_retrieve's i]
    held,              \* the modifier keys that are physically down
    locked,            \* [Terminals -> BOOLEAN]: Caps Lock pressed an odd number of times
    lines,             \* how often Enter was pressed
    (***********************************************************************)
    (* What the properties remember of the past, for each terminal.        *)
    (***********************************************************************)
    stale,             \* its shift flag was left behind by a switch or a second shift key
    since,             \* the lines finished since the read began
    before,            \* save_buff when the read began
    stray,             \* the flag its reader waits for was set on another terminal
    torn,              \* Enter was pressed while its line was being copied
    erased             \* a read on another terminal cleared the flag of its line

Shifts  == {"lshift", "rshift"}
flags   == <<caps_shift_flag, ctrl_flag, alt_flag, held, locked, stale>>
reader  == <<rd, got, idx>>
history == <<since, before, stray, torn, erased>>
vars    == <<curr_terminal, flags, buffer, save_buff, kbdr_flag, reader, lines, history>>

KeyChars == {"a", "A", "x", "X", " ", NUL}
Mapped   == KeyChars \ {NUL}
Blanks   == {" "}

\* The last byte of a line buffer is never used: it terminates the line that
\* Ctrl+L and terminal_retrieve scan for.
TypeOK ==
    /\ curr_terminal \in Terminals
    /\ caps_shift_flag \in [Terminals -> 0 .. 3]
    /\ ctrl_flag \in {0, 1} /\ alt_flag \in {0, 1} /\ kbdr_flag \in {0, 1}
    /\ buffer \in [Terminals -> Seq(KeyChars)]
    /\ save_buff \in [Terminals -> Seq(KeyChars)]
    /\ \A t \in Terminals : Len(buffer[t]) < BUFFER_SIZE /\ Len(save_buff[t]) < BUFFER_SIZE
    /\ rd \in [Terminals -> {"out", "poll", "skip", "copy", "done"}]
    /\ got \in [Terminals -> Seq(KeyChars \cup {NL})]
    /\ idx \in [Terminals -> 0 .. BUFFER_SIZE]
    /\ held \subseteq {"lshift", "rshift", "ctrl", "alt"}
    /\ locked \in [Terminals -> BOOLEAN]
    /\ lines \in Nat
    /\ since \in [Terminals -> Seq(Seq(KeyChars))]
    /\ before \in [Terminals -> Seq(KeyChars)]
    /\ stale \in [Terminals -> BOOLEAN] /\ erased \in [Terminals -> BOOLEAN]
    /\ stray \in [Terminals -> BOOLEAN] /\ torn \in [Terminals -> BOOLEAN]

Init ==
    /\ curr_terminal = 0
    /\ caps_shift_flag = [t \in Terminals |-> 0]
    /\ ctrl_flag = 0 /\ alt_flag = 0 /\ kbdr_flag = 0
    /\ buffer = [t \in Terminals |-> <<>>]
    /\ save_buff = [t \in Terminals |-> <<>>]
    /\ rd = [t \in Terminals |-> "out"]
    /\ got = [t \in Terminals |-> <<>>]
    /\ idx = [t \in Terminals |-> 0]
    /\ held = {}
    /\ locked = [t \in Terminals |-> FALSE]
    /\ lines = 0
    /\ stale = [t \in Terminals |-> FALSE]
    /\ since = [t \in Terminals |-> <<>>]
    /\ before = [t \in Terminals |-> <<>>]
    /\ stray = [t \in Terminals |-> FALSE]
    /\ torn = [t \in Terminals |-> FALSE]
    /\ erased = [t \in Terminals |-> FALSE]

-----------------------------------------------------------------------------
\* The key map, by kinds of keys: caps reverses shift for letters; "x" is the
\* letter that begins "exit".
kbd_ascii_key_map(mode, key) ==
    CASE key = "letter" -> IF mode \in {1, 2} THEN "A" ELSE "a"
      [] key = "exit"   -> IF mode \in {1, 2} THEN "X" ELSE "x"
      [] key = "space"  -> " "
      [] OTHER          -> NUL

toggle_caps ==
    /\ caps_shift_flag' = [caps_shift_flag EXCEPT ![curr_terminal] = (@ + 2) % 4]
    /\ locked' = [locked EXCEPT ![curr_terminal] = ~@]
    /\ UNCHANGED <<curr_terminal, ctrl_flag, alt_flag, held, stale, buffer, save_buff,
                   kbdr_flag, reader, lines, history>>

\* Mutant of toggle_shift: caps is forgotten when shift is released.
toggle_shift_drops_caps(key) ==
    /\ caps_shift_flag' = [caps_shift_flag EXCEPT ![curr_terminal] =
           IF key \notin held THEN IF @ % 2 = 0 THEN @ + 1 ELSE @
                              ELSE IF @ % 2 = 1 THEN 0 ELSE @]
    /\ held' = IF key \in held THEN held \ {key} ELSE held \cup {key}
    /\ stale' = [stale EXCEPT ![curr_terminal] = key \in held /\ Shifts \cap held # {key}]
    /\ UNCHANGED <<curr_terminal, ctrl_flag, alt_flag, locked, buffer, save_buff,
                   kbdr_flag, reader, lines, history>>

\* Make when the key goes down, break when it comes up, for either shift key.
toggle_shift(key) ==
    /\ caps_shift_flag' = [caps_shift_flag EXCEPT ![curr_terminal] =
           IF key \notin held THEN IF @ % 2 = 0 THEN @ + 1 ELSE @
                              ELSE IF @ % 2 = 1 THEN @ - 1 ELSE @]
    /\ held' = IF key \in held THEN held \ {key} ELSE held \cup {key}
    /\ stale' = [stale EXCEPT ![curr_terminal] = key \in held /\ Shifts \cap held # {key}]
    /\ UNCHANGED <<curr_terminal, ctrl_flag, alt_flag, locked, buffer, save_buff,
                   kbdr_flag, reader, lines, history>>

toggle_ctrl ==
    /\ ctrl_flag' = IF "ctrl" \in held THEN 0 ELSE 1
    /\ held' = IF "ctrl" \in held THEN held \ {"ctrl"} ELSE held \cup {"ctrl"}
    /\ UNCHANGED <<curr_terminal, caps_shift_flag, alt_flag, locked, stale, buffer,
                   save_buff, kbdr_flag, reader, lines, history>>

\* keyboard_handler calls toggle_alt for the make code only: the break code
\* falls through to process_key, which ignores it.
toggle_alt ==
    /\ alt_flag' = IF "alt" \in held THEN alt_flag ELSE 1
    /\ held' = IF "alt" \in held THEN held \ {"alt"} ELSE held \cup {"alt"}
    /\ UNCHANGED <<curr_terminal, caps_shift_flag, ctrl_flag, locked, stale, buffer,
                   save_buff, kbdr_flag, reader, lines, history>>

\* The last branch of process_key.
StoreKey(key) ==
    /\ Len(buffer[curr_terminal]) + 1 < BUFFER_SIZE
    /\ buffer' = [buffer EXCEPT ![curr_terminal] =
           Append(@, kbd_ascii_key_map(caps_shift_flag[curr_terminal], key))]
    /\ UNCHANGED <<curr_terminal, flags, save_buff, kbdr_flag, reader, lines, history>>

\* process_key for an ordinary key.  A hot key (L, 1, 3 or 4) with Ctrl only
\* prints; without it, it is a letter or a digit like any other.
process_key(key) ==
    /\ ~(key = "hot" /\ ctrl_flag = 1)
    /\ StoreKey(IF key = "hot" THEN "letter" ELSE key)

\* process_key for F1 to F3: terminal_switch once Alt was pressed, a
\* character without an entry in the key map before (which the user leaves
\* alone unless "dead" is among the keys).  A shift key that is down is news
\* to neither terminal: the one left keeps its flag, the other never saw it.
FnKey(new) ==
    \/ /\ alt_flag = 1
       /\ new # curr_terminal
       /\ curr_terminal' = new
       /\ stale' = [t \in Terminals |->
              stale[t] \/ (t \in {curr_terminal, new} /\ held \cap Shifts # {})]
       /\ UNCHANGED <<caps_shift_flag, ctrl_flag, alt_flag, held, locked, buffer,
                      save_buff, kbdr_flag, reader, lines, history>>
    \/ alt_flag = 0 /\ "dead" \in Keys /\ StoreKey("dead")

handle_backspace ==
    /\ buffer[curr_terminal] # <<>>
    /\ buffer' = [buffer EXCEPT ![curr_terminal] = SubSeq(@, 1, Len(@) - 1)]
    /\ UNCHANGED <<curr_terminal, flags, save_buff, kbdr_flag, reader, lines, history>>

\* What Enter means to the reads under way: the line counts for the terminal
\* in front, and the flag is seen by the reader of every other one.
NoteEnter ==
    /\ since' = [since EXCEPT ![curr_terminal] = Append(@, buffer[curr_terminal])]
    /\ stray' = [t \in Terminals |-> stray[t] \/ (t # curr_terminal /\ rd[t] = "poll")]
    /\ torn' = [torn EXCEPT ![curr_terminal] = @ \/ rd[curr_terminal] \in {"skip", "copy"}]
    /\ erased' = [t \in Terminals |-> FALSE]
    /\ UNCHANGED before

\* Mutant of handle_enter: the flag is forgotten.
handle_enter_silent ==
    /\ lines < MaxLines
    /\ lines' = lines + 1
    /\ save_buff' = [save_buff EXCEPT ![curr_terminal] = buffer[curr_terminal]]
    /\ buffer' = [buffer EXCEPT ![curr_terminal] = <<>>]
    /\ NoteEnter
    /\ UNCHANGED <<curr_terminal, flags, kbdr_flag, reader>>

\* kbdr_flag, terminal_read into save_buff, clear_buffer.
handle_enter ==
    /\ lines < MaxLines
    /\ lines' = lines + 1
    /\ kbdr_flag' = 1
    /\ save_buff' = [save_buff EXCEPT ![curr_terminal] = buffer[curr_terminal]]
    /\ buffer' = [buffer EXCEPT ![curr_terminal] = <<>>]
    /\ NoteEnter
    /\ UNCHANGED <<curr_terminal, flags, reader>>

-----------------------------------------------------------------------------
(***************************************************************************)
(* keyboard_read, by the thread of the terminal in front.                  *)
(***************************************************************************)
\* A read begins: the flag it clears may be one another reader waits for.
NoteCall ==
    /\ since' = [since EXCEPT ![curr_terminal] = <<>>]
    /\ before' = [before EXCEPT ![curr_terminal] = save_buff[curr_terminal]]
    /\ stray' = [t \in Terminals |-> t # curr_terminal /\ stray[t] /\ rd[t] # "poll"]
    /\ torn' = [torn EXCEPT ![curr_terminal] = FALSE]
    /\ erased' = [t \in Terminals |-> /\ t # curr_terminal
                                      /\ erased[t] \/ (rd[t] = "poll" /\ since[t] # <<>>)]

\* Mutant of read_call: the flag of an earlier line is not cleared.
read_call_keeps_flag ==
    /\ rd[curr_terminal] = "out"
    /\ rd' = [rd EXCEPT ![curr_terminal] = "poll"]
    /\ NoteCall
    /\ UNCHANGED <<curr_terminal, flags, buffer, save_buff, kbdr_flag, got, idx, lines>>

read_call ==
    /\ rd[curr_terminal] = "out"
    /\ kbdr_flag' = 0
    /\ rd' = [rd EXCEPT ![curr_terminal] = "poll"]
    /\ NoteCall
    /\ UNCHANGED <<curr_terminal, flags, buffer, save_buff, got, idx, lines>>

\* while(1), with the flag still clear
read_wait ==
    /\ rd[curr_terminal] = "poll"
    /\ kbdr_flag = 0
    /\ UNCHANGED vars

read_poll ==
    /\ rd[curr_terminal] = "poll"
    /\ kbdr_flag = 1
    /\ rd' = [rd EXCEPT ![curr_terminal] = "skip"]
    /\ got' = [got EXCEPT ![curr_terminal] = <<>>]
    /\ idx' = [idx EXCEPT ![curr_terminal] = 0]
    /\ UNCHANGED <<curr_terminal, flags, buffer, save_buff, kbdr_flag, lines, history>>

\* save_buff[curr_terminal][i]
Saved(i) ==
    IF i < Len(save_buff[curr_terminal]) THEN save_buff[curr_terminal][i + 1] ELSE NUL

\* terminal_retrieve, first loop: one leading blank, or the end of it.
retrieve_skip ==
    LET i    == idx[curr_terminal]
        more == Saved(i) = " " /\ i < NBYTES /\ i < BUFFER_SIZE
    IN  /\ rd[curr_terminal] = "skip"
        /\ idx' = [idx EXCEPT ![curr_terminal] = IF more THEN i + 1 ELSE i]
        /\ rd' = [rd EXCEPT ![curr_terminal] = IF more THEN "skip" ELSE "copy"]
        /\ UNCHANGED <<curr_terminal, flags, buffer, save_buff, kbdr_flag, got, lines, history>>

\* keyboard_read after the copy: a newline, unless the line begins with "exit".
WithNewline(str) == IF str # <<>> /\ Head(str) = "x" THEN str ELSE Append(str, NL)

\* terminal_retrieve, second loop: one byte, or the end of it and the newline.
retrieve_copy ==
    LET i    == idx[curr_terminal]
        more == Len(got[curr_terminal]) < NBYTES /\ i < BUFFER_SIZE /\ Saved(i) # NUL
    IN  /\ rd[curr_terminal] = "copy"
        /\ \/ /\ more
              /\ got' = [got EXCEPT ![curr_terminal] = Append(@, Saved(i))]
              /\ idx' = [idx EXCEPT ![curr_terminal] = i + 1]
              /\ UNCHANGED rd
           \/ /\ ~more
              /\ got' = [got EXCEPT ![curr_terminal] = WithNewline(@)]
              /\ rd' = [rd EXCEPT ![curr_terminal] = "done"]
              /\ UNCHANGED idx
        /\ UNCHANGED <<curr_terminal, flags, buffer, save_buff, kbdr_flag, lines, history>>

read_return ==
    /\ rd[curr_terminal] = "done"
    /\ rd' = [rd EXCEPT ![curr_terminal] = "out"]
    /\ got' = [got EXCEPT ![curr_terminal] = <<>>]
    /\ idx' = [idx EXCEPT ![curr_terminal] = 0]
    /\ since' = [since EXCEPT ![curr_terminal] = <<>>]
    /\ before' = [before EXCEPT ![curr_terminal] = <<>>]
    /\ stray' = [stray EXCEPT ![curr_terminal] = FALSE]
    /\ torn' = [torn EXCEPT ![curr_terminal] = FALSE]
    /\ UNCHANGED <<curr_terminal, flags, buffer, save_buff, kbdr_flag, lines, erased>>

Thread == read_poll \/ retrieve_skip \/ retrieve_copy \/ read_return

\* A key, or a step of the program in front.
Next ==
    \/ "caps" \in Keys /\ toggle_caps
    \/ \E key \in Keys \cap Shifts : toggle_shift(key)
    \/ "ctrl" \in Keys /\ toggle_ctrl
    \/ "alt" \in Keys /\ toggle_alt
    \/ "fn" \in Keys /\ \E new \in Terminals : FnKey(new)
    \/ "bksp" \in Keys /\ handle_backspace
    \/ "enter" \in Keys /\ handle_enter
    \/ \E key \in Keys \cap {"letter", "exit", "space", "dead", "hot"} :
          process_key(key)
    \/ read_call
    \/ read_wait
    \/ Thread

\* A thread whose terminal keeps coming to the front keeps running: the CPU
\* has nothing else to run between two keys.  What the user types is up to
\* the user, and a program need not read.
Fairness == \A t \in Terminals : SF_vars(curr_terminal = t /\ Thread)

Spec == Init /\ [][Next]_vars /\ Fairness

-----------------------------------------------------------------------------
\* The flags say what the modifier keys are doing.  ctrl_flag is 1 while Ctrl
\* is held and no longer; alt_flag is 1 while Alt is held, and ever after,
\* since no case of the handler clears it; caps_shift_flag is "0 - neither,
\* 1 - shift, 2 - caps, 3 - shift and caps" for the terminal in front and has
\* no shift in the background, unless the last shift key of that terminal was
\* one of two, or was down during a switch: then only its Caps Lock is right.
FlagsFollowKeys ==
    /\ ctrl_flag = 1 <=> "ctrl" \in held
    /\ "alt" \in held => alt_flag = 1
    /\ \A t \in Terminals :
          /\ caps_shift_flag[t] \in {2, 3} <=> locked[t]
          /\ ~stale[t] => (caps_shift_flag[t] \in {1, 3} <=>
                             t = curr_terminal /\ held \cap Shifts # {})

\* A key changes the lines and flags of the terminal in front only: the three
\* terminals share one keyboard and one handler, not one line.
LinesPrivate ==
    [][\A t \in Terminals \ {curr_terminal} :
          /\ buffer'[t] = buffer[t]
          /\ save_buff'[t] = save_buff[t]
          /\ caps_shift_flag'[t] = caps_shift_flag[t]
          /\ got'[t] = got[t]]_vars

\* The bytes at the start of a line that are of one kind, no more of them than
\* the size asked for: where a loop of terminal_retrieve stops.
Run(line, kind) ==
    CHOOSE n \in 0 .. Len(line) :
        /\ n <= NBYTES
        /\ \A k \in 1 .. n : line[k] \in kind
        /\ n = Len(line) \/ n = NBYTES \/ line[n + 1] \notin kind

\* What a caller of read gets for a typed line: the line without its leading
\* blanks, up to an unmapped key, cut to the buffer, with a newline.
LineFor(line) ==
    LET rest == SubSeq(line, Run(line, Blanks) + 1, Len(line))
    IN  WithNewline(SubSeq(rest, 1, Run(rest, Mapped)))

\* The lines a read may be given: those finished on its terminal since the
\* call and, when Enter on another terminal set the flag, the one from before.
Offered(t) ==
    {since[t][k] : k \in 1 .. Len(since[t])} \cup (IF stray[t] THEN {before[t]} ELSE {})

\* Bytes from consecutive places of several lines, and the newline.
Spliced(str, from) ==
    \E n \in 0 .. BUFFER_SIZE : \A k \in 1 .. Len(str) :
        \/ k = Len(str) /\ str[k] = NL
        \/ \E line \in from : n + k <= Len(line) /\ str[k] = line[n + k]

\* read on the keyboard returns "data from one line that has been terminated
\* by pressing Enter": one of the lines typed on the caller's own terminal
\* after the call.  The code departs from it twice.  The flag is shared, so
\* Enter on another terminal hands the reader the line that was there before
\* its call, and the copy is not protected, so Enter during it splices lines.
ReadsFreshLine ==
    \A t \in Terminals : rd[t] = "done" =>
        \/ \E line \in Offered(t) : got[t] = LineFor(line)
        \/ torn[t] /\ Spliced(got[t], Offered(t))

\* "... or as much as fits in the buffer from one such line": no more than the
\* size asked for, but for the newline, which is put behind a line that fills it.
ReadFits ==
    \A t \in Terminals : rd[t] = "done" =>
        \/ Len(got[t]) <= NBYTES
        \/ Len(got[t]) = NBYTES + 1 /\ got[t][NBYTES + 1] = NL

\* keyboard_read "waits for the keyboard handler to be called, then takes the
\* buffer that was inputed by the user": a line finished while terminal 0 was
\* waiting for it is delivered, however often the user switches away and as
\* long as the user comes back, unless a read on another terminal clears the
\* shared flag first.
LineReachesReader ==
    []<>(curr_terminal = 0) =>
        ((rd[0] = "poll" /\ since[0] # <<>>) ~> (rd[0] = "done" \/ erased[0]))
=============================================================================
