------------------------------- MODULE Screen -------------------------------
(***************************************************************************)
(* One terminal's screen and the line being typed on it: the output of its *)
(* programs (terminal_write, printf: one putc after another) and the       *)
(* keyboard handler's echo, backspace, Enter and Ctrl+L.  Here a key       *)
(* arrives between two putc calls; ScreenRace lets it arrive inside one.   *)
(***************************************************************************)
EXTENDS ScreenOps, Sequences, SequencesExt

CONSTANTS
    BUFFER_SIZE,   \* of the keyboard's line buffer, 128 in the code
    DeadKeys,      \* {} or {NUL}: keys whose entry in the key map is '\0'
    MaxText        \* bound on the text followed since the last clear

NUL    == "nul"
Prompt == <<"$">>     \* "391OS> "

ASSUME EditorAssumption ==
    /\ BUFFER_SIZE \in Nat \ {0}
    /\ DeadKeys \subseteq {NUL}
    /\ NUL \notin Chars

VARIABLES
    scr,       \* the screen
    line,      \* buffer[t] up to buffer_index[t]
    typed,     \* only echo reached the screen since line was empty or shown
    text,      \* everything printed since the last clear ...
    followed   \* ... unless a backspace took something of it away

editvars == <<scr, line, typed, text, followed>>

\* kernel.c clears the screen before it starts the first shell.
EditInit ==
    /\ scr = [x |-> 0, y |-> 0, wild |-> FALSE, cell |-> [i \in PageCells |-> Blank]]
    /\ line = <<>> /\ typed = TRUE
    /\ text = <<>> /\ followed = TRUE

\* puts, and the loop of terminal_write: putc for every character.
puts(s, str) ==
    LET done[k \in 0 .. Len(str)] == IF k = 0 THEN s ELSE putc(done[k - 1], str[k])
    IN  done[Len(str)]

\* A program prints a character.
ProgramPutc(c) ==
    /\ Len(text) < MaxText
    /\ scr' = putc(scr, c)
    /\ text' = Append(text, c)
    /\ typed' = (line = <<>>)
    /\ UNCHANGED <<line, followed>>

\* process_key, last branch: echo and store, while the buffer has room.
process_key(c) ==
    /\ Len(text) < MaxText
    /\ Len(line) + 1 < BUFFER_SIZE
    /\ scr' = putc(scr, c)
    /\ line' = Append(line, c)
    /\ text' = Append(text, c)
    /\ UNCHANGED <<typed, followed>>

handle_backspace ==
    /\ line # <<>>
    /\ scr' = backspace(scr)
    /\ line' = Front(line)
    /\ followed' = FALSE
    /\ UNCHANGED <<typed, text>>

\* scroll, then terminal_read and clear_buffer.
handle_enter ==
    /\ Len(text) < MaxText
    /\ scr' = scroll(scr)
    /\ line' = <<>>
    /\ typed' = TRUE
    /\ text' = Append(text, NL)
    /\ UNCHANGED followed

\* The buffer up to its first '\0'.
ToNul(str) ==
    LET n == SelectInSeq(str, LAMBDA c : c = NUL)
    IN  IF n = 0 THEN str ELSE SubSeq(str, 1, n - 1)

\* Ctrl+L: a clear screen, the prompt and the line so far.
ctrl_l ==
    LET out == Prompt \o ToNul(line)
    IN  /\ scr' = puts(clear(scr), out)
        /\ typed' = TRUE
        /\ text' = out
        /\ followed' = TRUE
        /\ UNCHANGED line

EditNext ==
    \/ \E c \in Chars \cup {NL} : ProgramPutc(c)
    \/ \E c \in Chars \cup DeadKeys : process_key(c)
    \/ handle_backspace
    \/ handle_enter
    \/ ctrl_l

EditSpec == EditInit /\ [][EditNext]_editvars

-----------------------------------------------------------------------------
\* The next character goes to the screen or, when a row is full, to the next
\* row ("keep screen_y in bounds"); no output call stores outside the screen.
CursorInBounds ==
    /\ scr.x \in 0 .. NUM_COLS
    /\ scr.y \in 0 .. NUM_ROWS - 1
    /\ ~scr.wild
    /\ \A i \in PageCells \ ScreenCells : scr.cell[i] = Blank

\* What the user sees before the cursor is what Enter will submit: echo,
\* backspace over row ends and Ctrl+L keep the line buffer and the screen
\* together as long as no program prints into the line.
LineShown ==
    LET pos == NUM_COLS * scr.y + scr.x
        n   == Len(line)
    IN  typed => /\ n <= pos
                 /\ \A k \in 1 .. n : scr.cell[pos - n + k - 1] = line[k]

\* Where the k-th character of a text goes on a sheet without a last row:
\* rows end at '\n' and after NUM_COLS characters.
Place(str) ==
    LET pen[k \in 0 .. Len(str)] ==
            IF k = 0 THEN [row |-> 0, col |-> 0]
            ELSE LET p == pen[k - 1]
                 IN  IF str[k] = NL THEN [row |-> p.row + 1, col |-> 0]
                     ELSE IF p.col = NUM_COLS THEN [row |-> p.row + 1, col |-> 1]
                     ELSE [row |-> p.row, col |-> p.col + 1]
    IN  pen

\* The screen shows the last NUM_ROWS rows of that sheet: wrapping and
\* scrolling lose no character, print none twice and leave none behind.
TextLaidOut ==
    LET pen == Place(text)
        top == IF pen[Len(text)].row < NUM_ROWS THEN 0
               ELSE pen[Len(text)].row - NUM_ROWS + 1
        At(r, c) == {k \in 1 .. Len(text) :
                        text[k] # NL /\ pen[k] = [row |-> top + r, col |-> c + 1]}
    IN  followed =>
        \A r \in 0 .. NUM_ROWS - 1, c \in 0 .. NUM_COLS - 1 :
            scr.cell[NUM_COLS * r + c] =
                IF At(r, c) = {} THEN Blank ELSE text[CHOOSE k \in At(r, c) : TRUE]
=============================================================================
