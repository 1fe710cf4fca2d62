-------------------------------- MODULE Grep --------------------------------
(***************************************************************************)
(* do_one_file of the grep program: the file is read in pieces that fit a  *)
(* buffer of BUFSIZE bytes, the lines of each piece are searched, and the  *)
(* beginning of a line at the end of a piece is moved to the front of the  *)
(* buffer.  A query is a file, a search string and the byte the buffer's   *)
(* last place holds before it is first written.                            *)
(***************************************************************************)
EXTENDS Integers, SequencesExt

CONSTANTS
    BUFSIZE,      \* 1024
    Letters,      \* the characters of lines
    MaxFile,      \* bound: the bytes of a file
    Searches,     \* the strings searched for, not empty
    Fillers       \* what the unwritten byte may hold, not a newline

NewLine == "newline"
Zero == "zero"

VARIABLES file, search, fill, printed

vars == <<file, search, fill, printed>>

-----------------------------------------------------------------------------
\* The string s is found at index i of the buffer: strncmp, which the zero
\* byte at the end of the line stops.
FoundAt(data, i, s) ==
    \A k \in 1 .. Len(s) : i + k - 1 \in DOMAIN data /\ data[i + k - 1] = s[k]

\* Mutant of Lines: last is not fixed when the beginning of a line is moved.
RECURSIVE Lines_last(_, _, _, _, _, _)
Lines_last(s, data, last, cnt, line_start, out) ==
    LET line_end == Min({last} \cup {i \in line_start .. last - 1 : data[i] = NewLine})
        ended == [data EXCEPT ![line_end] = Zero]
        line == [i \in 1 .. line_end - line_start |-> data[line_start + i - 1]]
        found == \E i \in line_start .. line_end - 1 : FoundAt(ended, i, s)
        out1 == IF found THEN Append(out, line) ELSE out
    IN  IF data[line_end] # NewLine /\ cnt # 0 /\ line_start # 0
        THEN [data |-> [i \in DOMAIN data |->
                           IF i <= line_end - line_start THEN ended[line_start + i]
                           ELSE ended[i]],
              last |-> last, out |-> out]
        ELSE IF line_end + 1 >= last THEN [data |-> ended, last |-> 0, out |-> out1]
        ELSE Lines_last(s, ended, last, cnt, line_end + 1, out1)

\* The inner loop, from a line's start: a line without its end that is not the
\* first, before the end of the file, is moved down by strcpy; any other one is
\* ended with a zero byte, searched and printed once.
RECURSIVE Lines(_, _, _, _, _, _)
Lines(s, data, last, cnt, line_start, out) ==
    LET line_end == Min({last} \cup {i \in line_start .. last - 1 : data[i] = NewLine})
        ended == [data EXCEPT ![line_end] = Zero]
        line == [i \in 1 .. line_end - line_start |-> data[line_start + i - 1]]
        found == \E i \in line_start .. line_end - 1 : FoundAt(ended, i, s)
        out1 == IF found THEN Append(out, line) ELSE out
    IN  IF data[line_end] # NewLine /\ cnt # 0 /\ line_start # 0
        THEN [data |-> [i \in DOMAIN data |->
                           IF i <= line_end - line_start THEN ended[line_start + i]
                           ELSE ended[i]],
              last |-> last - line_start, out |-> out]
        ELSE IF line_end + 1 >= last THEN [data |-> ended, last |-> 0, out |-> out1]
        ELSE Lines(s, ended, last, cnt, line_end + 1, out1)

\* The outer loop: a read behind what is kept, then the lines; a read of no
\* bytes is the last.
RECURSIVE Pieces(_, _, _, _, _, _)
Pieces(f, s, pos, data, last, out) ==
    LET cnt == Min({BUFSIZE - last, Len(f) - pos})
        data1 == [i \in DOMAIN data |->
                     IF i - last \in 0 .. cnt - 1 THEN f[pos + i - last + 1] ELSE data[i]]
        r == Lines(s, data1, last + cnt, cnt, 0, out)
    IN  IF cnt = 0 THEN r.out ELSE Pieces(f, s, pos + cnt, r.data, r.last, r.out)

do_one_file(f, s, b) == Pieces(f, s, 0, [i \in 0 .. BUFSIZE |-> b], 0, <<>>)

-----------------------------------------------------------------------------
Files == UNION {[1 .. n -> Letters \cup {NewLine}] : n \in 0 .. MaxFile}

Idle == file = <<>> /\ search = <<>>

Init == Idle /\ fill = Zero /\ printed = <<>>

Ask(f, s, b) ==
    /\ file' = f
    /\ search' = s
    /\ fill' = b
    /\ printed' = do_one_file(f, s, b)

Return == ~Idle /\ file' = <<>> /\ search' = <<>> /\ fill' = Zero /\ printed' = <<>>

Next ==
    \/ Return
    \/ Idle /\ \E f \in Files, s \in Searches, b \in Fillers : Ask(f, s, b)

Spec == Init /\ [][Next]_vars

-----------------------------------------------------------------------------
\* The lines of a file: what lies between newlines.
LinesOf(f) ==
    FoldLeft(LAMBDA ls, c : IF c = NewLine THEN Append(ls, <<>>)
                            ELSE [ls EXCEPT ![Len(ls)] = Append(@, c)],
             <<<<>>>>, f)

Holds(l, s) == \E i \in 1 .. Len(l) : i + Len(s) - 1 <= Len(l) /\ SubSeq(l, i, i + Len(s) - 1) = s

\* For a file whose lines fit in the buffer, grep prints exactly the lines that
\* contain the string, whole, once each and in their order, wherever the pieces
\* end: in a line, at its newline, in an occurrence of the string, with or
\* without a newline at the end of the file.
PrintsMatches ==
    ~Idle /\ (\A k \in DOMAIN LinesOf(file) : Len(LinesOf(file)[k]) <= BUFSIZE) =>
        printed = SelectSeq(LinesOf(file), LAMBDA l : Holds(l, search))
=============================================================================
