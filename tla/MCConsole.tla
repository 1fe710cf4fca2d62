----------------------------- MODULE MCConsole ------------------------------
(***************************************************************************)
(* What a user has before them, one part in each behaviour: the screens of *)
(* the terminals (TerminalScreens), the text on one of them (Screen), keys *)
(* that arrive inside putc (ScreenRace), the keys and the lines read from  *)
(* them (Keyboard), and what the shell makes of a line (CommandLine).      *)
(* The parts that are not in a behaviour stay in one initial state.        *)
(***************************************************************************)
EXTENDS TerminalScreens, Screen, ScreenRace

VARIABLES
    part,                                                   \* the part in this behaviour
    kterm, caps_shift_flag, ctrl_flag, alt_flag, buffer,    \* Keyboard
    save_buff, kbdr_flag, rd, kgot, idx, held, locked, lines, stale, since, before, stray,
    torn, erased,
    args, procs, given, cline, result, got                  \* CommandLine

kvars == <<kterm, caps_shift_flag, ctrl_flag, alt_flag, buffer, save_buff, kbdr_flag, rd, kgot,
           idx, held, locked, lines, stale, since, before, stray, torn, erased>>
cvars == <<args, procs, given, cline, result, got>>

-----------------------------------------------------------------------------
\* The user types lines of up to two keys on two terminals, as long as the
\* buffer of a read, and switches and presses Enter at any moment.
Kbd == INSTANCE Keyboard WITH curr_terminal <- kterm, got <- kgot, MAX_TERMINAL <- 2,
    BUFFER_SIZE <- 3, NBYTES <- 2, MaxLines <- 2, Keys <- {"alt", "fn", "enter", "letter"}

\* Or plays with the modifiers, both shift keys among them.
Modifiers == INSTANCE Keyboard WITH curr_terminal <- kterm, got <- kgot, MAX_TERMINAL <- 2,
    BUFFER_SIZE <- 2, NBYTES <- 2, MaxLines <- 2,
    Keys <- {"caps", "lshift", "rshift", "ctrl", "alt", "fn", "hot"}

\* Or types and edits lines of up to three keys on one terminal, longer than
\* the buffer of a read; or lines with keys that the key map does not have.
Edited == INSTANCE Keyboard WITH curr_terminal <- kterm, got <- kgot, MAX_TERMINAL <- 2,
    BUFFER_SIZE <- 4, NBYTES <- 2, MaxLines <- 2, Keys <- {"exit", "space", "bksp", "enter"}

Unmapped == INSTANCE Keyboard WITH curr_terminal <- kterm, got <- kgot, MAX_TERMINAL <- 2,
    BUFFER_SIZE <- 4, NBYTES <- 2, MaxLines <- 2, Keys <- {"letter", "dead", "fn", "enter"}

-----------------------------------------------------------------------------
\* A short name, one of FILE_NAME_LENGTH - 1 letters and one that is too long.
Executables == {<<"a">>, <<"a", "a">>, <<"a", "a", "a">>}

\* Every line of letters and blanks that fits in the keyboard's buffer, and
\* lines with the word exit.
AllLines ==
    BoundedSeq({"a", " "}, 5) \cup
        {<<"x">>, <<" ", "x">>, <<"x", " ">>, <<"x", "a">>, <<"x", " ", "a">>}

\* Enough to leave arguments behind in a slot, behind a zero byte too, and to
\* end them with blanks.
FewLines ==
    {<<"a">>, <<"a", " ", "a">>, <<"a", " ", "a", " ">>,
     <<"a", " ", "a", "a", "a", "a">>, <<"a", " ", " ">>}

\* Two numbers that counter offers and two answers it does not.
Answers == {<<"0">>, <<"2">>, <<"a">>, <<"1", "0">>}

Typed == INSTANCE CommandLine WITH TERM_BUFF_SIZE <- 6, FILE_NAME_LENGTH <- 3, BUFSIZE <- 12,
    Exit <- <<"x">>, Programs <- Executables, Slots <- {3}, TypedLines <- AllLines,
    Sizes <- {3, 6, 7, 10}, Replies <- {}, line <- cline

\* Programs that start programs: two slots, reused in any order.
Nested == INSTANCE CommandLine WITH TERM_BUFF_SIZE <- 7, FILE_NAME_LENGTH <- 3, BUFSIZE <- 12,
    Exit <- <<"x">>, Programs <- Executables, Slots <- {3, 4}, TypedLines <- FewLines,
    Sizes <- {3, 7, 8, 10}, Replies <- Answers, line <- cline

-----------------------------------------------------------------------------
Parts == {"screens", "text", "race", "lines", "modifiers", "edited", "unmapped", "typed", "nested"}

ConsoleInit ==
    /\ part \in Parts
    /\ Init
    /\ part # "screens" => cursor = CHOOSE p \in Positions : TRUE
    /\ part # "screens" => mem = [p \in Pages |-> [c \in Cells |-> CHOOSE v \in Values : TRUE]]
    /\ EditInit
    /\ RaceInit
    /\ Kbd!Init
    /\ IF part = "nested" THEN Nested!Init ELSE Typed!Init

ConsoleNext ==
    /\ UNCHANGED part
    /\ \/ part = "screens" /\ Next /\ UNCHANGED <<editvars, racevars, kvars, cvars>>
       \/ part = "text" /\ EditNext /\ UNCHANGED <<vars, racevars, kvars, cvars>>
       \/ part = "race" /\ RaceNext /\ UNCHANGED <<vars, editvars, kvars, cvars>>
       \/ part = "lines" /\ Kbd!Next /\ UNCHANGED <<vars, editvars, racevars, cvars>>
       \/ part = "modifiers" /\ Modifiers!Next /\ UNCHANGED <<vars, editvars, racevars, cvars>>
       \/ part = "edited" /\ Edited!Next /\ UNCHANGED <<vars, editvars, racevars, cvars>>
       \/ part = "unmapped" /\ Unmapped!Next /\ UNCHANGED <<vars, editvars, racevars, cvars>>
       \/ part = "typed" /\ Typed!Next /\ UNCHANGED <<vars, editvars, racevars, kvars>>
       \/ part = "nested" /\ Nested!Next /\ UNCHANGED <<vars, editvars, racevars, kvars>>

\* Where the keyboard is not the part no thread reads, and Fairness asks for
\* nothing.  Where it is, Thread takes the same steps whatever BUFFER_SIZE is:
\* a finished line ends before it.
ConsoleSpec ==
    ConsoleInit /\ [][ConsoleNext]_<<part, vars, editvars, racevars, kvars, cvars>> /\ Kbd!Fairness

-----------------------------------------------------------------------------
\* A read gets a line typed on its own terminal after the call, or the one
\* from before it when Enter elsewhere set the flag, or bytes of several when
\* Enter interrupts the copy; it gets no more than its buffer holds and a
\* newline.  A key changes lines and flags of the terminal in front only,
\* within the bounds of their buffers.
ReadsFreshLine ==
    /\ [](IF part \in {"edited", "unmapped"}
          THEN Edited!TypeOK /\ Edited!ReadsFreshLine /\ Edited!ReadFits
          ELSE Kbd!TypeOK /\ Kbd!ReadsFreshLine /\ Kbd!ReadFits)
    /\ Kbd!LinesPrivate

\* The modifier flags say which modifier keys are held, except that Alt stays
\* on, and that two shift keys or a switch with one down leave shift behind.
FlagsFollowKeys == Kbd!FlagsFollowKeys

\* A line finished while a reader waits reaches it if its terminal comes back,
\* unless another terminal's read clears the flag.
LineReachesReader == Kbd!LineReachesReader

\* The shell does with a line what its words say, and getargs gives the
\* program it starts the arguments typed for it, its trailing blanks kept when
\* an earlier program's bytes lie behind them, to a buffer larger than args.
LineObeyed ==
    /\ [][IF part = "nested" THEN Nested!Obeyed ELSE Typed!Obeyed]_cvars
    /\ [](IF part = "nested" THEN Nested!ArgsAsTyped ELSE Typed!ArgsAsTyped)
=============================================================================
