-------------------------------- MODULE Fish --------------------------------
(***************************************************************************)
(* add_frames of the fish program: two frames are read side by side, one   *)
(* byte of each at a time, and every place where one of them is not blank  *)
(* gets a character that blinks between the two.  A frame whose row or     *)
(* whose file is over holds a newline and is not read until the other one  *)
(* has caught up.                                                          *)
(***************************************************************************)
EXTENDS Integers, SequencesExt

CONSTANTS
    Ink,          \* the characters that are not blank
    MaxFrame      \* bound: the bytes of a frame

NewLine == "newline"
Blank == " "
Sides == {0, 1}
Frames == UNION {[1 .. n -> Ink \cup {Blank, NewLine}] : n \in 0 .. MaxFrame}

VARIABLES
    frame,        \* the bytes of the two files
    pos,          \* the files' positions
    c,            \* c0 and c1
    eof,          \* eof0 and eof1
    closed,       \* the files that were closed
    row, col,
    blinks,       \* the structures given to mp1_ioctl(RTC_ADD), in order
    pc

vars == <<frame, pos, c, eof, closed, row, col, blinks, pc>>

-----------------------------------------------------------------------------
Init ==
    /\ frame \in [Sides -> Frames]
    /\ pos = [i \in Sides |-> 0]
    /\ c = [i \in Sides |-> "0"]
    /\ eof = [i \in Sides |-> FALSE]
    /\ closed = {}
    /\ row = 0
    /\ col = 0
    /\ blinks = <<>>
    /\ pc = "read0"

\* One side's read: skipped when the side waits with a newline; at the end of
\* the file the character becomes a newline.
ReadByte(i, then) ==
    /\ IF c[i] = NewLine THEN UNCHANGED <<pos, c, eof>>
       ELSE IF pos[i] = Len(frame[i])
       THEN /\ c' = [c EXCEPT ![i] = NewLine]
            /\ eof' = [eof EXCEPT ![i] = TRUE]
            /\ pos' = pos
       ELSE /\ c' = [c EXCEPT ![i] = frame[i][pos[i] + 1]]
            /\ pos' = [pos EXCEPT ![i] = @ + 1]
            /\ eof' = eof
    /\ pc' = then
    /\ UNCHANGED <<frame, closed, row, col, blinks>>

Read0 == pc = "read0" /\ ReadByte(0, "read1")
Read1 == pc = "read1" /\ ReadByte(1, "place")

OrBlank(ch) == IF ch = NewLine THEN Blank ELSE ch

\* Mutant of Place: a place is drawn only when both frames have ink there.
Place_both ==
    /\ pc = "place"
    /\ \E i \in Sides : c[i] # NewLine
    /\ blinks' = IF \A i \in Sides : c[i] \notin {Blank, NewLine}
                 THEN Append(blinks, [row |-> row, col |-> col,
                                      on |-> OrBlank(c[0]), off |-> OrBlank(c[1])])
                 ELSE blinks
    /\ col' = col + 1
    /\ pc' = "read0"
    /\ UNCHANGED <<frame, pos, c, eof, closed, row>>

\* A place of the row: drawn when one of the frames has ink there.
Place ==
    /\ pc = "place"
    /\ \E i \in Sides : c[i] # NewLine
    /\ blinks' = IF \E i \in Sides : c[i] \notin {Blank, NewLine}
                 THEN Append(blinks, [row |-> row, col |-> col,
                                      on |-> OrBlank(c[0]), off |-> OrBlank(c[1])])
                 ELSE blinks
    /\ col' = col + 1
    /\ pc' = "read0"
    /\ UNCHANGED <<frame, pos, c, eof, closed, row>>

\* Both sides hold a newline: a file that is over is closed, on every such row
\* again; the other one goes on; the loop ends when both are over.
EndRow ==
    /\ pc = "place"
    /\ \A i \in Sides : c[i] = NewLine
    /\ c' = [i \in Sides |-> IF eof[i] THEN NewLine ELSE "0"]
    /\ closed' = closed \cup {i \in Sides : eof[i]}
    /\ row' = row + 1
    /\ col' = 0
    /\ pc' = IF \A i \in Sides : eof[i] THEN "done" ELSE "read0"
    /\ UNCHANGED <<frame, pos, eof, blinks>>

\* add_frames has returned.
Returned == pc = "done" /\ UNCHANGED vars

Work == Read0 \/ Read1 \/ Place \/ EndRow
Next == Work \/ Returned

Spec == Init /\ [][Next]_vars /\ WF_vars(Work)

-----------------------------------------------------------------------------
\* The rows of a frame, and its character at a place.
Rows(f) ==
    FoldLeft(LAMBDA rs, ch : IF ch = NewLine THEN Append(rs, <<>>)
                             ELSE [rs EXCEPT ![Len(rs)] = Append(@, ch)],
             <<<<>>>>, f)

At(f, r, k) ==
    IF r < Len(Rows(f)) /\ k < Len(Rows(f)[r + 1]) THEN Rows(f)[r + 1][k + 1] ELSE Blank

\* When add_frames returns, the structures it has added are exactly the places
\* where one of the frames has ink, each once, blinking between the characters
\* the two frames have there, although rows and files of the two frames differ
\* in length and both are read through one loop.
FramesDrawn ==
    LET places == (0 .. MaxFrame) \X (0 .. MaxFrame)
        ink == {p \in places : \E i \in Sides : At(frame[i], p[1], p[2]) # Blank}
    IN  pc = "done" =>
            /\ Len(blinks) = Cardinality(ink)
            /\ ToSet(blinks) = {[row |-> p[1], col |-> p[2],
                                 on |-> At(frame[0], p[1], p[2]),
                                 off |-> At(frame[1], p[1], p[2])] : p \in ink}

\* A file is not read after it was closed, though the loop goes on for the
\* longer one and closes the shorter one again on each row; and both files are
\* closed when add_frames returns.
NoReadAfterClose ==
    /\ pc = "read0" /\ c[0] # NewLine => 0 \notin closed
    /\ pc = "read1" /\ c[1] # NewLine => 1 \notin closed
    /\ pc = "done" => closed = Sides
=============================================================================
