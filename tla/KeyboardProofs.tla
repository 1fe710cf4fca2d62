--------------------------- MODULE KeyboardProofs ----------------------------
(****************************************************************************)
(* The modifier flags and the lines of the keyboard driver, for any number  *)
(* of terminals, any size of buffer and any set of keys.                    *)
(*                                                                          *)
(* What a read gets is known only at its end, so the invariant follows      *)
(* terminal_retrieve through its two loops: how much of the line is behind  *)
(* it and what of it has been copied.                                       *)
(****************************************************************************)
EXTENDS Keyboard, TLAPS

Sizes ==
    /\ MAX_TERMINAL \in Nat \ {0}
    /\ BUFFER_SIZE \in Nat \ {0}
    /\ NBYTES \in Nat \ {0}

-----------------------------------------------------------------------------
\* The finished line of a terminal with a read under way: the last one typed
\* since the call, or the one the call found.
LastSaved ==
    \A t \in Terminals : rd[t] # "out" =>
        save_buff[t] = IF since[t] = <<>> THEN before[t] ELSE since[t][Len(since[t])]

\* A reader has a line on offer.
HasLine(t) == since[t] # <<>> \/ stray[t]

\* The flag stands for a line of every reader that waits for it.
FlagIsKnown == kbdr_flag = 1 => \A t \in Terminals : rd[t] = "poll" => HasLine(t)

\* terminal_retrieve in its first loop, with i blanks behind it ...
Skipped(t) ==
    /\ idx[t] <= Len(save_buff[t])
    /\ idx[t] <= NBYTES
    /\ \A k \in 1 .. idx[t] : save_buff[t][k] \in Blanks

Skipping(t) == HasLine(t) /\ got[t] = <<>> /\ (~torn[t] => Skipped(t))

\* ... and in its second, with what followed them copied.
Copied(t) ==
    LET lead == Run(save_buff[t], Blanks)
    IN  /\ lead \in 0 .. Len(save_buff[t])
        /\ idx[t] = lead + Len(got[t])
        /\ idx[t] <= Len(save_buff[t])
        /\ \A k \in 1 .. Len(got[t]) :
              got[t][k] = save_buff[t][lead + k] /\ got[t][k] \in Mapped

\* Whatever Enter did to the line meanwhile, every byte is from its place in a
\* line on offer.
InPlace(str, from, n) ==
    \A k \in 1 .. Len(str) : \E line \in from : n + k <= Len(line) /\ str[k] = line[n + k]

Gathered(t, n) == idx[t] = n + Len(got[t]) /\ InPlace(got[t], Offered(t), n)

Copying(t) ==
    /\ HasLine(t)
    /\ Len(got[t]) <= NBYTES
    /\ ~torn[t] => Copied(t)
    /\ \E n \in 0 .. BUFFER_SIZE : Gathered(t, n)

Fits(t) ==
    \/ Len(got[t]) <= NBYTES
    \/ Len(got[t]) = NBYTES + 1 /\ got[t][NBYTES + 1] = NL

Delivered(t) ==
    /\ \/ \E line \in Offered(t) : got[t] = LineFor(line)
       \/ torn[t] /\ Spliced(got[t], Offered(t))
    /\ Fits(t)

ReadInv ==
    /\ LastSaved
    /\ FlagIsKnown
    /\ \A t \in Terminals :
          /\ rd[t] = "skip" => Skipping(t)
          /\ rd[t] = "copy" => Copying(t)
          /\ rd[t] = "done" => Delivered(t)

-----------------------------------------------------------------------------
\* Every key of the map gives a character.
LEMMA MapType ==
  ASSUME NEW mode, NEW key
  PROVE  kbd_ascii_key_map(mode, key) \in KeyChars
  BY DEF kbd_ascii_key_map, KeyChars

LEMMA SavedType ==
  ASSUME TypeOK, NEW i \in Nat
  PROVE  Saved(i) \in KeyChars
<1>1. save_buff[curr_terminal] \in Seq(KeyChars)
  BY DEF TypeOK
<1>2. i < Len(save_buff[curr_terminal]) => i + 1 \in 1 .. Len(save_buff[curr_terminal])
  BY <1>1
<1>3. i < Len(save_buff[curr_terminal]) => save_buff[curr_terminal][i + 1] \in KeyChars
  BY <1>1, <1>2
<1>4. NUL \in KeyChars
  BY DEF KeyChars
<1>5. QED
  BY <1>3, <1>4 DEF Saved

\* A line buffer keeps its type under a change that stays within it.
LEMMA LineType ==
  ASSUME TypeOK, NEW f \in [Terminals -> Seq(KeyChars)], NEW line \in Seq(KeyChars),
         \A t \in Terminals : Len(f[t]) < BUFFER_SIZE,
         Len(line) < BUFFER_SIZE
  PROVE  /\ [f EXCEPT ![curr_terminal] = line] \in [Terminals -> Seq(KeyChars)]
         /\ \A t \in Terminals : Len([f EXCEPT ![curr_terminal] = line][t]) < BUFFER_SIZE
  BY DEF TypeOK

LEMMA TypedInit ==
  ASSUME Sizes, Init
  PROVE  TypeOK
<1>1. 0 \in Terminals /\ Len(<<>>) < BUFFER_SIZE /\ 0 \in 0 .. BUFFER_SIZE
  BY DEF Sizes, Terminals
<1>2. QED
  BY <1>1 DEF Init, TypeOK

LEMMA TypedFlagKey ==
  ASSUME Sizes, TypeOK,
         \/ toggle_caps
         \/ \E key \in Keys \cap Shifts : toggle_shift(key)
         \/ toggle_ctrl
         \/ toggle_alt
  PROVE  TypeOK'
<1>1. UNCHANGED <<curr_terminal, buffer, save_buff, kbdr_flag, reader, lines, history>>
  BY DEF toggle_caps, toggle_shift, toggle_ctrl, toggle_alt
<1>2. /\ curr_terminal \in Terminals /\ caps_shift_flag[curr_terminal] \in 0 .. 3
      /\ caps_shift_flag \in [Terminals -> 0 .. 3] /\ ctrl_flag \in {0, 1} /\ alt_flag \in {0, 1}
      /\ held \subseteq {"lshift", "rshift", "ctrl", "alt"} /\ locked \in [Terminals -> BOOLEAN]
      /\ stale \in [Terminals -> BOOLEAN]
  BY DEF TypeOK
<1>3. /\ caps_shift_flag' \in [Terminals -> 0 .. 3] /\ ctrl_flag' \in {0, 1} /\ alt_flag' \in {0, 1}
      /\ held' \subseteq {"lshift", "rshift", "ctrl", "alt"} /\ locked' \in [Terminals -> BOOLEAN]
      /\ stale' \in [Terminals -> BOOLEAN]
  <2>1. CASE toggle_caps
    <3>1. (caps_shift_flag[curr_terminal] + 2) % 4 \in 0 .. 3
      BY <1>2
    <3>2. QED
      BY <1>2, <2>1, <3>1 DEF toggle_caps
  <2>2. ASSUME NEW key \in Keys \cap Shifts, toggle_shift(key)
        PROVE  /\ caps_shift_flag' \in [Terminals -> 0 .. 3]
               /\ UNCHANGED <<ctrl_flag, alt_flag, locked>>
               /\ held' \subseteq {"lshift", "rshift", "ctrl", "alt"}
               /\ stale' \in [Terminals -> BOOLEAN]
    <3> DEFINE c == caps_shift_flag[curr_terminal]
               n == IF key \notin held THEN IF c % 2 = 0 THEN c + 1 ELSE c
                                       ELSE IF c % 2 = 1 THEN c - 1 ELSE c
    <3>1. n \in 0 .. 3
      BY <1>2
    <3>2. caps_shift_flag' = [caps_shift_flag EXCEPT ![curr_terminal] = n]
      BY <2>2 DEF toggle_shift
    <3> HIDE DEF n
    <3>3. caps_shift_flag' \in [Terminals -> 0 .. 3]
      BY <1>2, <3>1, <3>2
    <3>4. stale' \in [Terminals -> BOOLEAN]
      BY Zenon, <1>2, <2>2 DEF toggle_shift
    <3>5. QED
      BY <1>2, <2>2, <3>3, <3>4 DEF toggle_shift, Shifts
  <2>3. CASE toggle_ctrl
    BY <1>2, <2>3 DEF toggle_ctrl
  <2>4. CASE toggle_alt
    BY <1>2, <2>4 DEF toggle_alt
  <2>5. QED
    BY <1>2, <2>1, <2>2, <2>3, <2>4
<1>4. QED
  BY <1>1, <1>3 DEF TypeOK, reader, history

LEMMA TypedStoreKey ==
  ASSUME Sizes, TypeOK, NEW key, StoreKey(key)
  PROVE  TypeOK'
<1> DEFINE line == Append(buffer[curr_terminal],
                          kbd_ascii_key_map(caps_shift_flag[curr_terminal], key))
<1>1. /\ buffer \in [Terminals -> Seq(KeyChars)] /\ buffer[curr_terminal] \in Seq(KeyChars)
      /\ \A t \in Terminals : Len(buffer[t]) < BUFFER_SIZE
  BY DEF TypeOK
<1>2. line \in Seq(KeyChars) /\ Len(line) < BUFFER_SIZE
  BY <1>1, MapType DEF StoreKey
<1>3. buffer' = [buffer EXCEPT ![curr_terminal] = line]
  BY DEF StoreKey
<1> HIDE DEF line
<1>4. buffer' \in [Terminals -> Seq(KeyChars)] /\ \A t \in Terminals : Len(buffer'[t]) < BUFFER_SIZE
  BY <1>1, <1>2, <1>3, LineType
<1>5. UNCHANGED <<curr_terminal, flags, save_buff, kbdr_flag, reader, lines, history>>
  BY DEF StoreKey
<1>6. QED
  BY <1>4, <1>5 DEF TypeOK, flags, reader, history

LEMMA TypedSwitch ==
  ASSUME Sizes, TypeOK, NEW new \in Terminals, FnKey(new)
  PROVE  TypeOK'
<1>1. CASE StoreKey("dead")
  BY <1>1, TypedStoreKey
<1>2. CASE ~StoreKey("dead")
  <2>1. /\ curr_terminal' = new
        /\ UNCHANGED <<caps_shift_flag, ctrl_flag, alt_flag, held, locked, buffer, save_buff,
                       kbdr_flag, reader, lines, history>>
    BY <1>2 DEF FnKey
  <2>2. stale' \in [Terminals -> BOOLEAN]
    BY Zenon, <1>2 DEF FnKey, TypeOK
  <2>3. QED
    BY <2>1, <2>2 DEF TypeOK, reader, history
<1>3. QED
  BY <1>1, <1>2

LEMMA TypedBackspace ==
  ASSUME Sizes, TypeOK, handle_backspace
  PROVE  TypeOK'
<1> DEFINE old  == buffer[curr_terminal]
           line == SubSeq(old, 1, Len(old) - 1)
<1>1. /\ buffer \in [Terminals -> Seq(KeyChars)] /\ old \in Seq(KeyChars)
      /\ \A t \in Terminals : Len(buffer[t]) < BUFFER_SIZE
      /\ Len(old) < BUFFER_SIZE
  BY DEF TypeOK
<1>2. Len(old) \in Nat /\ Len(old) # 0
  BY <1>1 DEF handle_backspace
<1>3. line \in Seq(KeyChars) /\ Len(line) = Len(old) - 1
  BY <1>1, <1>2
<1>4. buffer' = [buffer EXCEPT ![curr_terminal] = line]
  BY DEF handle_backspace
<1>5. UNCHANGED <<curr_terminal, flags, save_buff, kbdr_flag, reader, lines, history>>
  BY DEF handle_backspace
<1> HIDE DEF line, old
<1>6. Len(line) < BUFFER_SIZE
  BY <1>1, <1>2, <1>3 DEF Sizes
<1>7. buffer' \in [Terminals -> Seq(KeyChars)] /\ \A t \in Terminals : Len(buffer'[t]) < BUFFER_SIZE
  BY <1>1, <1>3, <1>4, <1>6, LineType
<1>8. QED
  BY <1>5, <1>7 DEF TypeOK, flags, reader, history

LEMMA TypedEnter ==
  ASSUME Sizes, TypeOK, handle_enter
  PROVE  TypeOK'
<1>1. /\ curr_terminal \in Terminals
      /\ buffer \in [Terminals -> Seq(KeyChars)] /\ save_buff \in [Terminals -> Seq(KeyChars)]
      /\ \A t \in Terminals : Len(buffer[t]) < BUFFER_SIZE /\ Len(save_buff[t]) < BUFFER_SIZE
      /\ since \in [Terminals -> Seq(Seq(KeyChars))] /\ lines \in Nat
      /\ stray \in [Terminals -> BOOLEAN] /\ torn \in [Terminals -> BOOLEAN]
  BY DEF TypeOK
<1>2. <<>> \in Seq(KeyChars) /\ Len(<<>>) < BUFFER_SIZE
  BY DEF Sizes
<1>3. buffer' \in [Terminals -> Seq(KeyChars)] /\ \A t \in Terminals : Len(buffer'[t]) < BUFFER_SIZE
  BY <1>1, <1>2, LineType DEF handle_enter
<1>4. /\ save_buff' \in [Terminals -> Seq(KeyChars)]
      /\ \A t \in Terminals : Len(save_buff'[t]) < BUFFER_SIZE
  BY <1>1, LineType DEF handle_enter
<1>5. since' \in [Terminals -> Seq(Seq(KeyChars))] /\ lines' \in Nat
  BY <1>1 DEF handle_enter, NoteEnter
<1>6. stray' \in [Terminals -> BOOLEAN] /\ torn' \in [Terminals -> BOOLEAN]
  BY Zenon, <1>1 DEF handle_enter, NoteEnter
<1>7. erased' \in [Terminals -> BOOLEAN] /\ before' = before
  BY Zenon DEF handle_enter, NoteEnter
<1>8. kbdr_flag' = 1 /\ UNCHANGED <<curr_terminal, flags, reader>>
  BY DEF handle_enter
<1>9. QED
  BY <1>3, <1>4, <1>5, <1>6, <1>7, <1>8 DEF TypeOK, flags, reader

LEMMA ExceptType ==
  ASSUME NEW S, NEW f \in [Terminals -> S], NEW c, NEW v \in S
  PROVE  [f EXCEPT ![c] = v] \in [Terminals -> S]
  OBVIOUS

LEMMA TypedRead ==
  ASSUME Sizes, TypeOK, read_call \/ read_poll \/ read_return
  PROVE  TypeOK'
<1>1. /\ rd \in [Terminals -> {"out", "poll", "skip", "copy", "done"}]
      /\ got \in [Terminals -> Seq(KeyChars \cup {NL})]
      /\ idx \in [Terminals -> 0 .. BUFFER_SIZE]
      /\ since \in [Terminals -> Seq(Seq(KeyChars))]
      /\ before \in [Terminals -> Seq(KeyChars)] /\ save_buff[curr_terminal] \in Seq(KeyChars)
      /\ stray \in [Terminals -> BOOLEAN] /\ torn \in [Terminals -> BOOLEAN]
      /\ erased \in [Terminals -> BOOLEAN]
  BY DEF TypeOK
<1>2. /\ <<>> \in Seq(KeyChars \cup {NL}) /\ <<>> \in Seq(Seq(KeyChars)) /\ <<>> \in Seq(KeyChars)
      /\ 0 \in 0 .. BUFFER_SIZE /\ FALSE \in BOOLEAN
  BY DEF Sizes
<1>3. UNCHANGED <<curr_terminal, flags, buffer, save_buff, lines>>
  BY DEF read_call, read_poll, read_return
<1>4. CASE read_call
  <2>1. rd' \in [Terminals -> {"out", "poll", "skip", "copy", "done"}]
    BY Zenon, <1>1, <1>4, ExceptType DEF read_call
  <2>2. since' \in [Terminals -> Seq(Seq(KeyChars))] /\ before' \in [Terminals -> Seq(KeyChars)]
    BY Zenon, <1>1, <1>2, <1>4, ExceptType DEF read_call, NoteCall
  <2>3. torn' \in [Terminals -> BOOLEAN]
    BY Zenon, <1>1, <1>2, <1>4, ExceptType DEF read_call, NoteCall
  <2>4. stray' \in [Terminals -> BOOLEAN] /\ erased' \in [Terminals -> BOOLEAN]
    <3>1. /\ stray' = [t \in Terminals |-> t # curr_terminal /\ stray[t] /\ rd[t] # "poll"]
          /\ erased' = [t \in Terminals |->
                 t # curr_terminal /\ (erased[t] \/ (rd[t] = "poll" /\ since[t] # <<>>))]
      BY Zenon, <1>4 DEF read_call, NoteCall
    <3>2. ASSUME NEW t \in Terminals
          PROVE  /\ (t # curr_terminal /\ stray[t] /\ rd[t] # "poll") \in BOOLEAN
                 /\ (t # curr_terminal /\ (erased[t] \/ (rd[t] = "poll" /\ since[t] # <<>>))) \in BOOLEAN
      BY Zenon
    <3>3. QED
      BY Zenon, <3>1, <3>2
  <2>5. kbdr_flag' = 0 /\ UNCHANGED <<got, idx>>
    BY <1>4 DEF read_call
  <2>6. QED
    BY <1>3, <2>1, <2>2, <2>3, <2>4, <2>5 DEF TypeOK, flags
<1>5. CASE read_poll \/ read_return
  <2>1. rd' \in [Terminals -> {"out", "poll", "skip", "copy", "done"}]
    BY Zenon, <1>1, <1>5, ExceptType DEF read_poll, read_return
  <2>2. got' \in [Terminals -> Seq(KeyChars \cup {NL})] /\ idx' \in [Terminals -> 0 .. BUFFER_SIZE]
    <3>1. got' = [got EXCEPT ![curr_terminal] = <<>>] /\ idx' = [idx EXCEPT ![curr_terminal] = 0]
      BY Zenon, <1>5 DEF read_poll, read_return
    <3>2. got' \in [Terminals -> Seq(KeyChars \cup {NL})]
      BY Zenon, <1>1, <1>2, <3>1, ExceptType
    <3>3. idx' \in [Terminals -> 0 .. BUFFER_SIZE]
      BY Zenon, <1>1, <1>2, <3>1, ExceptType
    <3>4. QED
      BY <3>2, <3>3
  <2>3. since' \in [Terminals -> Seq(Seq(KeyChars))] /\ before' \in [Terminals -> Seq(KeyChars)]
    <3>1. CASE read_poll
      BY <1>1, <3>1 DEF read_poll, history
    <3>2. CASE read_return
      BY Zenon, <1>1, <1>2, <3>2, ExceptType DEF read_return
    <3>3. QED
      BY <1>5, <3>1, <3>2
  <2>4. stray' \in [Terminals -> BOOLEAN] /\ torn' \in [Terminals -> BOOLEAN]
    <3>1. CASE read_poll
      BY <1>1, <3>1 DEF read_poll, history
    <3>2. CASE read_return
      BY Zenon, <1>1, <1>2, <3>2, ExceptType DEF read_return
    <3>3. QED
      BY <1>5, <3>1, <3>2
  <2>5. UNCHANGED <<kbdr_flag, erased>>
    BY <1>5 DEF read_poll, read_return, history
  <2>6. QED
    BY <1>3, <2>1, <2>2, <2>3, <2>4, <2>5 DEF TypeOK, flags
<1>6. QED
  BY <1>4, <1>5

LEMMA TypedSkip ==
  ASSUME Sizes, TypeOK, retrieve_skip
  PROVE  TypeOK'
<1> DEFINE i    == idx[curr_terminal]
           more == Saved(i) = " " /\ i < NBYTES /\ i < BUFFER_SIZE
           j    == IF more THEN i + 1 ELSE i
<1>1. /\ curr_terminal \in Terminals /\ i \in 0 .. BUFFER_SIZE
      /\ rd \in [Terminals -> {"out", "poll", "skip", "copy", "done"}]
      /\ idx \in [Terminals -> 0 .. BUFFER_SIZE]
  BY DEF TypeOK
<1>2. j \in 0 .. BUFFER_SIZE
  <2>1. more => i < BUFFER_SIZE
    OBVIOUS
  <2> HIDE DEF i, more
  <2>2. QED
    BY <1>1, <2>1 DEF Sizes
<1>3. /\ idx' = [idx EXCEPT ![curr_terminal] = j]
      /\ rd' = [rd EXCEPT ![curr_terminal] = IF more THEN "skip" ELSE "copy"]
      /\ UNCHANGED <<curr_terminal, flags, buffer, save_buff, kbdr_flag, got, lines, history>>
  BY DEF retrieve_skip
<1> HIDE DEF i, j, more
<1>4. /\ rd' \in [Terminals -> {"out", "poll", "skip", "copy", "done"}]
      /\ idx' \in [Terminals -> 0 .. BUFFER_SIZE]
  BY <1>1, <1>2, <1>3
<1>5. QED
  BY <1>3, <1>4 DEF TypeOK, flags, history

LEMMA NewlineType ==
  ASSUME NEW str \in Seq(KeyChars \cup {NL})
  PROVE  /\ WithNewline(str) \in Seq(KeyChars \cup {NL})
         /\ Len(WithNewline(str)) <= Len(str) + 1
<1>1. Append(str, NL) \in Seq(KeyChars \cup {NL}) /\ Len(Append(str, NL)) = Len(str) + 1
  OBVIOUS
<1>2. QED
  BY <1>1 DEF WithNewline

LEMMA TypedCopy ==
  ASSUME Sizes, TypeOK, retrieve_copy
  PROVE  TypeOK'
<1> DEFINE i == idx[curr_terminal]
           g == got[curr_terminal]
<1>1. /\ curr_terminal \in Terminals /\ i \in 0 .. BUFFER_SIZE
      /\ rd \in [Terminals -> {"out", "poll", "skip", "copy", "done"}]
      /\ got \in [Terminals -> Seq(KeyChars \cup {NL})] /\ g \in Seq(KeyChars \cup {NL})
      /\ idx \in [Terminals -> 0 .. BUFFER_SIZE]
  BY DEF TypeOK
<1>2. i \in Nat
  BY <1>1
<1>3. Append(g, Saved(i)) \in Seq(KeyChars \cup {NL}) /\ WithNewline(g) \in Seq(KeyChars \cup {NL})
  <2> HIDE DEF i, g
  <2>1. Saved(i) \in KeyChars \cup {NL}
    BY Zenon, <1>2, SavedType
  <2>2. g \in Seq(KeyChars \cup {NL})
    BY Zenon, <1>1
  <2>3. Append(g, Saved(i)) \in Seq(KeyChars \cup {NL})
    BY SMTT(30), <2>1, <2>2
  <2>4. WithNewline(g) \in Seq(KeyChars \cup {NL})
    BY Zenon, <2>2, NewlineType
  <2> QED BY Zenon, <2>3, <2>4
<1>4. UNCHANGED <<curr_terminal, flags, buffer, save_buff, kbdr_flag, lines, history>>
  BY DEF retrieve_copy
<1>5. /\ rd' \in [Terminals -> {"out", "poll", "skip", "copy", "done"}]
      /\ got' \in [Terminals -> Seq(KeyChars \cup {NL})]
      /\ idx' \in [Terminals -> 0 .. BUFFER_SIZE]
  <2>1. CASE /\ i < BUFFER_SIZE
             /\ got' = [got EXCEPT ![curr_terminal] = Append(g, Saved(i))]
             /\ idx' = [idx EXCEPT ![curr_terminal] = i + 1]
             /\ UNCHANGED rd
    <3>1. i + 1 \in 0 .. BUFFER_SIZE
      BY <1>1, <2>1 DEF Sizes
    <3> HIDE DEF i, g
    <3>2. QED
      BY <1>1, <1>3, <2>1, <3>1
  <2>2. CASE /\ got' = [got EXCEPT ![curr_terminal] = WithNewline(g)]
             /\ rd' = [rd EXCEPT ![curr_terminal] = "done"]
             /\ UNCHANGED idx
    <3> HIDE DEF i, g
    <3>1. QED
      BY <1>1, <1>3, <2>2
  <2>3. QED
    BY <2>1, <2>2 DEF retrieve_copy
<1>6. QED
  BY <1>4, <1>5 DEF TypeOK, flags, history

LEMMA TypedStep ==
  ASSUME Sizes, TypeOK, [Next]_vars
  PROVE  TypeOK'
<1>1. CASE UNCHANGED vars
  BY <1>1 DEF vars, flags, reader, history, TypeOK
<1>2. ASSUME NEW key, process_key(key) PROVE TypeOK'
  BY <1>2, TypedStoreKey DEF process_key
<1>3. ASSUME NEW new \in Terminals, FnKey(new) PROVE TypeOK'
  BY <1>3, TypedSwitch
<1>4. CASE Thread
  BY <1>4, TypedRead, TypedSkip, TypedCopy DEF Thread
<1>5. QED
  BY <1>1, <1>2, <1>3, <1>4, TypedFlagKey, TypedBackspace, TypedEnter, TypedRead
     DEF Next, read_wait
-----------------------------------------------------------------------------
(***************************************************************************)
(* The modifier flags.                                                     *)
(***************************************************************************)
\* What FlagsFollowKeys says of one terminal.
FlagRight(t) ==
    /\ caps_shift_flag[t] \in {2, 3} <=> locked[t]
    /\ ~stale[t] => (caps_shift_flag[t] \in {1, 3} <=>
                       t = curr_terminal /\ held \cap Shifts # {})

LEMMA FlagsCaps ==
  ASSUME TypeOK, FlagsFollowKeys, toggle_caps
  PROVE  FlagsFollowKeys'
<1>1. /\ curr_terminal \in Terminals /\ locked \in [Terminals -> BOOLEAN]
      /\ caps_shift_flag \in [Terminals -> 0 .. 3]
  BY DEF TypeOK
<1>2. UNCHANGED <<curr_terminal, ctrl_flag, alt_flag, held, stale>>
  BY DEF toggle_caps
<1>3. ASSUME NEW t \in Terminals PROVE FlagRight(t)'
  <2>1. FlagRight(t)
    BY DEF FlagsFollowKeys, FlagRight
  <2>2. CASE t # curr_terminal
    BY <1>1, <1>2, <2>1, <2>2 DEF toggle_caps, FlagRight
  <2>3. CASE t = curr_terminal
    <3> DEFINE c == caps_shift_flag[t]
               d == caps_shift_flag'[t]
    <3>1. d = (c + 2) % 4 /\ c \in 0 .. 3 /\ locked'[t] = ~locked[t]
      BY <1>1, <2>3 DEF toggle_caps
    <3>2. (d \in {2, 3} <=> ~(c \in {2, 3})) /\ (d \in {1, 3} <=> c \in {1, 3})
      BY <3>1
    <3>3. QED
      BY Zenon, <1>2, <2>1, <3>1, <3>2 DEF FlagRight
  <2>4. QED
    BY <2>2, <2>3
<1>4. QED
  BY <1>2, <1>3 DEF FlagsFollowKeys, FlagRight

\* A key goes down, or comes up alone: the flag is right whatever it was.  It
\* comes up with the other one down: the flag is noted to be stale.
LEMMA FlagsShift ==
  ASSUME TypeOK, FlagsFollowKeys, NEW key \in Keys \cap Shifts, toggle_shift(key)
  PROVE  FlagsFollowKeys'
<1>1. /\ curr_terminal \in Terminals /\ caps_shift_flag \in [Terminals -> 0 .. 3]
      /\ stale \in [Terminals -> BOOLEAN]
  BY DEF TypeOK
<1>2. UNCHANGED <<curr_terminal, ctrl_flag, alt_flag, locked>>
  BY DEF toggle_shift
<1>3. /\ held' = IF key \in held THEN held \ {key} ELSE held \cup {key}
      /\ key # "ctrl" /\ key # "alt"
  BY DEF toggle_shift, Shifts
<1>4. ASSUME NEW t \in Terminals PROVE FlagRight(t)'
  <2>1. FlagRight(t)
    BY DEF FlagsFollowKeys, FlagRight
  <2>2. CASE t # curr_terminal
    <3>1. caps_shift_flag'[t] = caps_shift_flag[t] /\ stale'[t] = stale[t]
      BY <1>1, <2>2 DEF toggle_shift
    <3>2. QED
      BY Zenon, <1>2, <2>1, <2>2, <3>1 DEF FlagRight
  <2>3. CASE t = curr_terminal
    <3> DEFINE c == caps_shift_flag[t]
               d == caps_shift_flag'[t]
    <3>1. c \in 0 .. 3 /\ stale'[t] = (key \in held /\ Shifts \cap held # {key})
      BY <1>1, <2>3 DEF toggle_shift
    <3>2. d = IF key \notin held THEN IF c % 2 = 0 THEN c + 1 ELSE c
                                 ELSE IF c % 2 = 1 THEN c - 1 ELSE c
      BY <1>1, <2>3 DEF toggle_shift
    <3>3. (d \in {2, 3} <=> c \in {2, 3}) /\ (d \in {1, 3} <=> key \notin held)
      <4>1. CASE key \in held
        BY <3>1, <3>2, <4>1
      <4>2. CASE key \notin held
        BY <3>1, <3>2, <4>2
      <4>3. QED
        BY <4>1, <4>2
    <3>4. ~stale'[t] => (held' \cap Shifts # {} <=> key \notin held)
      BY <1>3, <3>1
    <3>5. QED
      BY Zenon, <1>2, <2>1, <2>3, <3>3, <3>4 DEF FlagRight
  <2>4. QED
    BY <2>2, <2>3
<1>5. QED
  BY <1>2, <1>3, <1>4 DEF FlagsFollowKeys, FlagRight

\* Ctrl and Alt.
LEMMA FlagsCtrlAlt ==
  ASSUME TypeOK, FlagsFollowKeys, toggle_ctrl \/ toggle_alt
  PROVE  FlagsFollowKeys'
<1>1. UNCHANGED <<curr_terminal, caps_shift_flag, locked, stale>>
  BY DEF toggle_ctrl, toggle_alt
<1>2. held' \cap Shifts = held \cap Shifts
  BY DEF toggle_ctrl, toggle_alt, Shifts
<1>3. (ctrl_flag' = 1 <=> "ctrl" \in held') /\ ("alt" \in held' => alt_flag' = 1)
  BY DEF toggle_ctrl, toggle_alt, FlagsFollowKeys
<1>4. QED
  BY <1>1, <1>2, <1>3 DEF FlagsFollowKeys

\* A switch with no shift key down leaves both terminals right; with one down
\* it is noted for both.
LEMMA FlagsSwitch ==
  ASSUME TypeOK, FlagsFollowKeys, NEW new \in Terminals, FnKey(new), ~StoreKey("dead")
  PROVE  FlagsFollowKeys'
<1>1. /\ curr_terminal' = new
      /\ stale' = [t \in Terminals |->
             stale[t] \/ (t \in {curr_terminal, new} /\ held \cap Shifts # {})]
      /\ UNCHANGED <<caps_shift_flag, ctrl_flag, alt_flag, held, locked>>
  BY DEF FnKey
<1>2. ASSUME NEW t \in Terminals PROVE FlagRight(t)'
  <2>1. FlagRight(t)
    BY DEF FlagsFollowKeys, FlagRight
  <2>2. ~stale'[t] => ~stale[t] /\ (t \in {curr_terminal, new} => held \cap Shifts = {})
    BY Zenon, <1>1
  <2>3. QED
    BY <1>1, <2>1, <2>2 DEF FlagRight
<1>3. QED
  BY <1>1, <1>2 DEF FlagsFollowKeys, FlagRight

LEMMA FlagsStep ==
  ASSUME TypeOK, FlagsFollowKeys, [Next]_vars
  PROVE  FlagsFollowKeys'
<1>1. CASE UNCHANGED <<flags, curr_terminal>>
  BY <1>1 DEF flags, FlagsFollowKeys
<1>2. ASSUME NEW new \in Terminals, FnKey(new) PROVE FlagsFollowKeys'
  BY <1>1, <1>2, FlagsSwitch DEF StoreKey
<1>3. ASSUME NEW key, process_key(key) PROVE FlagsFollowKeys'
  BY <1>1, <1>3 DEF process_key, StoreKey
<1>4. CASE Thread
  BY <1>1, <1>4 DEF Thread, read_poll, retrieve_skip, retrieve_copy, read_return
<1>5. CASE handle_backspace \/ handle_enter \/ read_call \/ read_wait
  BY <1>1, <1>5 DEF handle_backspace, handle_enter, read_call, read_wait, vars
<1>6. CASE UNCHANGED vars
  BY <1>1, <1>6 DEF vars
<1>7. QED
  BY <1>2, <1>3, <1>4, <1>5, <1>6, FlagsShift, FlagsCaps, FlagsCtrlAlt DEF Next

LEMMA FlagsInit ==
  ASSUME Init
  PROVE  FlagsFollowKeys
  BY DEF Init, FlagsFollowKeys

\* However keys, switches and reads follow each other, with both shift keys in
\* use and no care taken: ctrl_flag says whether Ctrl is held, alt_flag is set
\* while Alt is, and caps_shift_flag of every terminal has Caps Lock right, and
\* shift too unless the terminal's last shift key was one of two or was down
\* during a switch (toggle_caps, toggle_shift, toggle_ctrl, toggle_alt and
\* process_key of keyboard.c).
THEOREM FlagsAreKeys ==
  ASSUME Sizes
  PROVE  Spec => []FlagsFollowKeys
<1>1. Init => TypeOK /\ FlagsFollowKeys
  BY TypedInit, FlagsInit
<1>2. TypeOK /\ FlagsFollowKeys /\ [Next]_vars => (TypeOK /\ FlagsFollowKeys)'
  BY TypedStep, FlagsStep
<1>3. QED
  BY <1>1, <1>2, PTL DEF Spec
-----------------------------------------------------------------------------
(***************************************************************************)
(* What the loops of terminal_retrieve stop at is what LineFor asks for.   *)
(***************************************************************************)
\* There is one run of bytes of a kind at the start of a line.
LEMMA RunIs ==
  ASSUME Sizes, NEW line \in Seq(KeyChars), NEW kind, NEW n \in 0 .. Len(line),
         n <= NBYTES,
         \A k \in 1 .. n : line[k] \in kind,
         n = Len(line) \/ n = NBYTES \/ line[n + 1] \notin kind
  PROVE  Run(line, kind) = n
<1> DEFINE P(m) == /\ m <= NBYTES
                   /\ \A k \in 1 .. m : line[k] \in kind
                   /\ m = Len(line) \/ m = NBYTES \/ line[m + 1] \notin kind
<1>1. P(n)
  OBVIOUS
<1>2. ASSUME NEW m \in 0 .. Len(line), P(m) PROVE m = n
  <2>1. Len(line) \in Nat /\ NBYTES \in Nat
    BY DEF Sizes
  <2>2. ~(m < n)
    <3>1. SUFFICES ASSUME m < n PROVE FALSE
      OBVIOUS
    <3>2. m + 1 \in 1 .. n /\ m # Len(line) /\ m # NBYTES
      BY <2>1, <3>1
    <3>3. QED
      BY <1>2, <3>2
  <2>3. ~(n < m)
    <3>1. SUFFICES ASSUME n < m PROVE FALSE
      OBVIOUS
    <3>2. n + 1 \in 1 .. m /\ n # Len(line) /\ n # NBYTES
      BY <1>2, <2>1, <3>1
    <3>3. QED
      BY <1>2, <3>2
  <2>4. QED
    BY <2>1, <2>2, <2>3
<1>3. Run(line, kind) = CHOOSE m \in 0 .. Len(line) : P(m)
  BY DEF Run
<1> HIDE DEF P
<1>4. Run(line, kind) \in 0 .. Len(line) /\ P(Run(line, kind))
  BY Zenon, <1>1, <1>3
<1>5. QED
  BY <1>2, <1>4

\* The bytes copied up to the end of the line, an unmapped key or the end of
\* the buffer are the line that LineFor asks for.
LEMMA CopiedIsLine ==
  ASSUME Sizes, NEW line \in Seq(KeyChars), NEW g \in Seq(KeyChars \cup {NL}),
         NEW lead \in 0 .. Len(line), Run(line, Blanks) = lead,
         lead + Len(g) <= Len(line), Len(g) <= NBYTES,
         \A k \in 1 .. Len(g) : g[k] = line[lead + k] /\ g[k] \in Mapped,
         \/ lead + Len(g) = Len(line)
         \/ Len(g) = NBYTES
         \/ line[lead + Len(g) + 1] \notin Mapped
  PROVE  LineFor(line) = WithNewline(g)
<1> DEFINE rest == SubSeq(line, lead + 1, Len(line))
<1>1. Len(line) \in Nat /\ Len(g) \in Nat /\ lead \in Nat
  OBVIOUS
<1>2. /\ rest \in Seq(KeyChars) /\ Len(rest) = Len(line) - lead
      /\ \A k \in 1 .. Len(line) - lead : rest[k] = line[lead + k]
  BY <1>1
<1>3. LineFor(line) = WithNewline(SubSeq(rest, 1, Run(rest, Mapped)))
  BY DEF LineFor
<1> HIDE DEF rest
<1>4. Len(g) \in 0 .. Len(rest)
  BY <1>1, <1>2
<1>5. \A k \in 1 .. Len(g) : rest[k] = g[k]
  BY <1>1, <1>2, <1>4
<1>6. Len(g) = Len(rest) \/ Len(g) = NBYTES \/ rest[Len(g) + 1] \notin Mapped
  <2>1. CASE lead + Len(g) = Len(line)
    <3>1. Len(g) = Len(line) - lead
      BY <1>1, <2>1
    <3>2. QED
      BY Zenon, <1>2, <3>1
  <2>2. CASE lead + Len(g) # Len(line) /\ Len(g) # NBYTES
    <3>1. Len(g) + 1 \in 1 .. Len(line) - lead /\ lead + (Len(g) + 1) = lead + Len(g) + 1
      BY <1>1, <2>2
    <3>2. rest[Len(g) + 1] = line[lead + (Len(g) + 1)]
      BY <1>2, <3>1
    <3>3. line[lead + Len(g) + 1] \notin Mapped
      BY <2>2
    <3>4. QED
      BY <3>1, <3>2, <3>3
  <2>3. QED
    BY <2>1, <2>2
<1>7. Run(rest, Mapped) = Len(g)
  <2>1. \A k \in 1 .. Len(g) : rest[k] \in Mapped
    BY <1>5
  <2>2. QED
    BY Zenon, <1>2, <1>4, <1>6, <2>1, RunIs
<1>8. SubSeq(rest, 1, Len(g)) = g
  <2> DEFINE h == SubSeq(rest, 1, Len(g))
  <2>1. h \in Seq(KeyChars) /\ Len(h) = Len(g) /\ \A k \in 1 .. Len(g) : h[k] = rest[k]
    BY <1>1, <1>2, <1>4
  <2> HIDE DEF h
  <2>2. \A k \in 1 .. Len(g) : h[k] = g[k]
    BY <1>5, <2>1
  <2>3. h = [k \in 1 .. Len(g) |-> h[k]] /\ g = [k \in 1 .. Len(g) |-> g[k]]
    BY <2>1
  <2>4. h = g
    BY <2>2, <2>3
  <2>5. QED
    BY <2>4 DEF h
<1>9. QED
  BY <1>3, <1>7, <1>8
-----------------------------------------------------------------------------
(***************************************************************************)
(* What a read gets.                                                       *)
(***************************************************************************)
\* A step that leaves a terminal's reader, its finished line and the history
\* of its read alone.
SameReader(t) ==
    /\ got'[t] = got[t] /\ idx'[t] = idx[t] /\ save_buff'[t] = save_buff[t]
    /\ since'[t] = since[t] /\ before'[t] = before[t]
    /\ stray'[t] = stray[t] /\ torn'[t] = torn[t]

LEMMA ReaderFrame ==
  ASSUME NEW t \in Terminals, SameReader(t)
  PROVE  /\ Skipping(t) => Skipping(t)'
         /\ Copying(t) => Copying(t)'
         /\ Delivered(t) => Delivered(t)'
<1>1. Offered(t)' = Offered(t)
  BY DEF SameReader, Offered
<1>2. Skipping(t) => Skipping(t)'
  BY DEF SameReader, Skipping, Skipped, HasLine
<1>3. Copying(t) => Copying(t)'
  BY <1>1 DEF SameReader, Copying, Copied, Gathered, HasLine
<1>4. Delivered(t) => Delivered(t)'
  BY <1>1 DEF SameReader, Delivered, Fits
<1>5. QED
  BY <1>2, <1>3, <1>4

\* Keys that only touch the flags or the line being typed, and switches.
LEMMA ReadFrame ==
  ASSUME ReadInv, UNCHANGED <<save_buff, kbdr_flag, reader, history>>
  PROVE  ReadInv'
<1>1. LastSaved' /\ FlagIsKnown'
  BY DEF ReadInv, LastSaved, FlagIsKnown, HasLine, reader, history
<1>2. ASSUME NEW t \in Terminals
      PROVE  /\ rd'[t] = "skip" => Skipping(t)'
             /\ rd'[t] = "copy" => Copying(t)'
             /\ rd'[t] = "done" => Delivered(t)'
  BY ReaderFrame DEF SameReader, ReadInv, reader, history
<1>3. QED
  BY <1>1, <1>2 DEF ReadInv

\* More lines on offer take nothing from a reader.
LEMMA MoreOffered ==
  ASSUME NEW t \in Terminals, Offered(t) \subseteq Offered(t)',
         got'[t] = got[t], idx'[t] = idx[t], torn[t] => torn'[t]
  PROVE  /\ \A n : Gathered(t, n) => Gathered(t, n)'
         /\ Delivered(t) => Delivered(t)'
<1>1. \A n : Gathered(t, n) => Gathered(t, n)'
  BY DEF Gathered, InPlace
<1>2. Spliced(got[t], Offered(t)) => Spliced(got'[t], Offered(t)')
  BY DEF Spliced
<1>3. Fits(t) => Fits(t)'
  BY DEF Fits
<1>4. (\E line \in Offered(t) : got[t] = LineFor(line))
          => \E line \in Offered(t)' : got'[t] = LineFor(line)
  OBVIOUS
<1>5. Delivered(t) => Delivered(t)'
  BY Zenon, <1>2, <1>3, <1>4 DEF Delivered
<1>6. QED
  BY <1>1, <1>5

LEMMA AppendFacts ==
  ASSUME NEW S, NEW q \in Seq(S), NEW x \in S
  PROVE  /\ Append(q, x) # <<>> /\ Len(Append(q, x)) = Len(q) + 1
         /\ Append(q, x)[Len(Append(q, x))] = x
         /\ \A k \in 1 .. Len(q) : Append(q, x)[k] = q[k]
         /\ Len(q) \in Nat
  OBVIOUS

\* Enter finishes a line of the terminal in front.  Its reader, if copying, is
\* torn between two lines but keeps to lines on offer; a waiting reader of
\* another terminal now has its old line on offer.
LEMMA ReadEnter ==
  ASSUME TypeOK, ReadInv, handle_enter
  PROVE  ReadInv'
<1>1. PICK c \in Terminals : c = curr_terminal
  BY DEF TypeOK
<1>2. /\ save_buff \in [Terminals -> Seq(KeyChars)] /\ buffer[c] \in Seq(KeyChars)
      /\ since \in [Terminals -> Seq(Seq(KeyChars))] /\ since[c] \in Seq(Seq(KeyChars))
      /\ stray \in [Terminals -> BOOLEAN] /\ torn \in [Terminals -> BOOLEAN]
  BY DEF TypeOK
<1>3. /\ save_buff' = [save_buff EXCEPT ![c] = buffer[c]]
      /\ since' = [since EXCEPT ![c] = Append(since[c], buffer[c])]
      /\ UNCHANGED <<rd, got, idx, before>>
  BY <1>1 DEF handle_enter, NoteEnter, reader
<1>4. /\ stray' = [t \in Terminals |-> stray[t] \/ (t # c /\ rd[t] = "poll")]
      /\ torn' = [torn EXCEPT ![c] = torn[c] \/ rd[c] \in {"skip", "copy"}]
  BY <1>1 DEF handle_enter, NoteEnter
<1>5. /\ since'[c] # <<>> /\ Len(since'[c]) = Len(since[c]) + 1
      /\ since'[c][Len(since'[c])] = buffer[c]
      /\ \A k \in 1 .. Len(since[c]) : since'[c][k] = since[c][k]
      /\ Len(since[c]) \in Nat
  <2>1. since'[c] = Append(since[c], buffer[c])
    BY <1>2, <1>3
  <2>2. PICK q \in Seq(Seq(KeyChars)), x \in Seq(KeyChars) : q = since[c] /\ x = buffer[c]
    BY <1>2
  <2>3. since'[c] = Append(q, x)
    BY <2>1, <2>2
  <2>4. /\ Append(q, x) # <<>> /\ Len(Append(q, x)) = Len(q) + 1
        /\ Append(q, x)[Len(Append(q, x))] = x
        /\ \A k \in 1 .. Len(q) : Append(q, x)[k] = q[k]
        /\ Len(q) \in Nat
    BY AppendFacts
  <2>5. QED
    BY Zenon, <2>2, <2>3, <2>4
<1>6. ASSUME NEW t \in Terminals, t # c
      PROVE  save_buff'[t] = save_buff[t] /\ since'[t] = since[t] /\ torn'[t] = torn[t]
  BY <1>2, <1>3, <1>4, <1>6
<1>7. save_buff'[c] = buffer[c]
  BY <1>2, <1>3
<1>8. LastSaved'
  BY <1>3, <1>5, <1>6, <1>7 DEF ReadInv, LastSaved
<1>9. FlagIsKnown'
  <2>1. ASSUME NEW t \in Terminals, rd'[t] = "poll" PROVE HasLine(t)'
    BY Zenon, <1>3, <1>4, <1>5, <2>1 DEF HasLine
  <2>2. QED
    BY <2>1 DEF FlagIsKnown
<1>10. ASSUME NEW t \in Terminals
       PROVE  /\ rd'[t] = "skip" => Skipping(t)'
              /\ rd'[t] = "copy" => Copying(t)'
              /\ rd'[t] = "done" => Delivered(t)'
  <2>1. CASE t # c /\ rd[t] # "poll"
    <3>1. stray'[t] = stray[t]
      BY Zenon, <1>2, <1>4, <2>1
    <3>2. SameReader(t)
      BY <1>3, <1>6, <2>1, <3>1 DEF SameReader
    <3>3. QED
      BY <1>3, <3>2, ReaderFrame DEF ReadInv
  <2>2. CASE rd[t] = "poll"
    BY <1>3, <2>2
  <2>3. CASE t = c
    <3>1. HasLine(t)'
      BY <1>5, <2>3 DEF HasLine
    <3>2. stray'[t] = stray[t]
      BY Zenon, <1>2, <1>4, <2>3
    <3>3. Offered(t) \subseteq Offered(t)'
      <4>1. \A k \in 1 .. Len(since[t]) :
                k \in 1 .. Len(since'[t]) /\ since'[t][k] = since[t][k]
        BY <1>5, <2>3
      <4>2. QED
        BY Zenon, <1>3, <3>2, <4>1 DEF Offered
    <3>4. torn[t] => torn'[t]
      BY Zenon, <1>2, <1>4, <2>3
    <3>5. rd[t] \in {"skip", "copy"} => torn'[t]
      BY Zenon, <1>2, <1>4, <2>3
    <3>6. (\A n : Gathered(t, n) => Gathered(t, n)') /\ (Delivered(t) => Delivered(t)')
      BY Zenon, <1>3, <3>3, <3>4, MoreOffered
    <3>7. rd'[t] = "skip" => Skipping(t)'
      BY Zenon, <1>3, <3>1, <3>5 DEF ReadInv, Skipping
    <3>8. rd'[t] = "copy" => Copying(t)'
      BY Zenon, <1>3, <3>1, <3>5, <3>6 DEF ReadInv, Copying
    <3>9. rd'[t] = "done" => Delivered(t)'
      BY Zenon, <1>3, <3>6 DEF ReadInv
    <3>10. QED
      BY <3>7, <3>8, <3>9
  <2>4. QED
    BY <2>1, <2>2, <2>3
<1>11. QED
  BY <1>8, <1>9, <1>10 DEF ReadInv

\* A step of the reader in front leaves the readers of the other terminals, and
\* all finished lines, alone: it is enough to look at what it does itself.
LEMMA ReadOwn ==
  ASSUME NEW c \in Terminals, ReadInv, UNCHANGED save_buff,
         \A t \in Terminals \ {c} :
             /\ rd'[t] = rd[t] /\ got'[t] = got[t] /\ idx'[t] = idx[t] /\ since'[t] = since[t]
             /\ before'[t] = before[t] /\ torn'[t] = torn[t]
             /\ rd[t] # "poll" => stray'[t] = stray[t],
         rd'[c] # "out" =>
             save_buff[c] = IF since'[c] = <<>> THEN before'[c] ELSE since'[c][Len(since'[c])],
         FlagIsKnown',
         rd'[c] = "skip" => Skipping(c)',
         rd'[c] = "copy" => Copying(c)',
         rd'[c] = "done" => Delivered(c)'
  PROVE  ReadInv'
<1>1. LastSaved'
  BY DEF ReadInv, LastSaved
<1>2. ASSUME NEW t \in Terminals
      PROVE  /\ rd'[t] = "skip" => Skipping(t)'
             /\ rd'[t] = "copy" => Copying(t)'
             /\ rd'[t] = "done" => Delivered(t)'
  <2>1. CASE t # c /\ rd[t] # "poll"
    <3>1. SameReader(t) /\ rd'[t] = rd[t]
      BY <2>1 DEF SameReader
    <3>2. QED
      BY <3>1, ReaderFrame DEF ReadInv
  <2>2. CASE t # c /\ rd[t] = "poll"
    BY <2>2
  <2>3. CASE t = c
    BY <2>3
  <2>4. QED
    BY <2>1, <2>2, <2>3
<1>3. QED
  BY <1>1, <1>2 DEF ReadInv

\* The types of what the reader in front works on.
LEMMA ReaderTypes ==
  ASSUME Sizes, TypeOK, NEW c \in Terminals
  PROVE  /\ save_buff[c] \in Seq(KeyChars)
         /\ Len(save_buff[c]) \in Nat /\ Len(save_buff[c]) < BUFFER_SIZE
         /\ got[c] \in Seq(KeyChars \cup {NL}) /\ Len(got[c]) \in Nat
         /\ idx[c] \in 0 .. BUFFER_SIZE /\ idx[c] \in Nat
         /\ BUFFER_SIZE \in Nat /\ NBYTES \in Nat
<1>1. /\ got \in [Terminals -> Seq(KeyChars \cup {NL})]
      /\ idx \in [Terminals -> 0 .. BUFFER_SIZE]
      /\ save_buff[c] \in Seq(KeyChars)
      /\ Len(save_buff[c]) < BUFFER_SIZE
  BY DEF TypeOK
<1>2. QED
  BY <1>1 DEF Sizes

LEMMA ReaderDomains ==
  ASSUME TypeOK
  PROVE  /\ DOMAIN rd = Terminals /\ DOMAIN got = Terminals /\ DOMAIN idx = Terminals
         /\ DOMAIN since = Terminals /\ DOMAIN before = Terminals
         /\ DOMAIN stray = Terminals /\ DOMAIN torn = Terminals
  BY DEF TypeOK

\* The call clears the flag and forgets what was typed before it; the return
\* leaves nothing to check.
LEMMA ReadCallReturn ==
  ASSUME Sizes, TypeOK, ReadInv, read_call \/ read_return
  PROVE  ReadInv'
<1>1. PICK c \in Terminals : c = curr_terminal
  BY DEF TypeOK
<1>2. UNCHANGED save_buff /\ stray \in [Terminals -> BOOLEAN]
  BY DEF read_call, read_return, TypeOK
<1>3. CASE read_call
  <2>1. /\ rd' = [rd EXCEPT ![c] = "poll"] /\ UNCHANGED <<got, idx>> /\ kbdr_flag' = 0
        /\ since' = [since EXCEPT ![c] = <<>>] /\ before' = [before EXCEPT ![c] = save_buff[c]]
        /\ torn' = [torn EXCEPT ![c] = FALSE]
        /\ stray' = [t \in Terminals |-> t # c /\ stray[t] /\ rd[t] # "poll"]
    BY <1>1, <1>3 DEF read_call, NoteCall
  <2>2. rd'[c] = "poll" /\ since'[c] = <<>> /\ before'[c] = save_buff[c]
    BY <2>1, ReaderDomains
  <2>3. ASSUME NEW t \in Terminals \ {c}
        PROVE  /\ rd'[t] = rd[t] /\ got'[t] = got[t] /\ idx'[t] = idx[t] /\ since'[t] = since[t]
               /\ before'[t] = before[t] /\ torn'[t] = torn[t]
               /\ rd[t] # "poll" => stray'[t] = stray[t]
    <3>1. rd[t] # "poll" => stray'[t] = stray[t]
      BY Zenon, <1>2, <2>1
    <3>2. QED
      BY <2>1, <3>1, ReaderDomains
  <2>4. FlagIsKnown'
    BY <2>1 DEF FlagIsKnown
  <2>5. QED
    BY <1>2, <2>2, <2>3, <2>4, ReadOwn
<1>4. CASE read_return
  <2>1. /\ rd' = [rd EXCEPT ![c] = "out"] /\ got' = [got EXCEPT ![c] = <<>>]
        /\ idx' = [idx EXCEPT ![c] = 0]
        /\ since' = [since EXCEPT ![c] = <<>>] /\ before' = [before EXCEPT ![c] = <<>>]
        /\ torn' = [torn EXCEPT ![c] = FALSE] /\ stray' = [stray EXCEPT ![c] = FALSE]
        /\ UNCHANGED kbdr_flag
    BY <1>1, <1>4 DEF read_return
  <2>2. rd'[c] = "out"
    BY <2>1, ReaderDomains
  <2>3. ASSUME NEW t \in Terminals \ {c}
        PROVE  /\ rd'[t] = rd[t] /\ got'[t] = got[t] /\ idx'[t] = idx[t] /\ since'[t] = since[t]
               /\ before'[t] = before[t] /\ torn'[t] = torn[t] /\ stray'[t] = stray[t]
    BY <2>1, ReaderDomains
  <2>4. FlagIsKnown'
    BY <2>1, <2>2, <2>3 DEF ReadInv, FlagIsKnown, HasLine
  <2>5. QED
    BY <1>2, <2>2, <2>3, <2>4, ReadOwn
<1>5. QED
  BY <1>3, <1>4

\* The reader leaves its polling loop: the flag stands for a line on offer.
LEMMA ReadPoll ==
  ASSUME Sizes, TypeOK, ReadInv, read_poll
  PROVE  ReadInv'
<1>1. PICK c \in Terminals : c = curr_terminal
  BY DEF TypeOK
<1>2. /\ rd'[c] = "skip" /\ got'[c] = <<>> /\ idx'[c] = 0 /\ rd[c] = "poll" /\ kbdr_flag = 1
      /\ UNCHANGED <<save_buff, kbdr_flag, history>>
      /\ \A t \in Terminals \ {c} : rd'[t] = rd[t] /\ got'[t] = got[t] /\ idx'[t] = idx[t]
  BY <1>1, ReaderDomains DEF read_poll
<1>3. UNCHANGED <<since, before, stray, torn>>
  BY <1>2 DEF history
<1>4. HasLine(c)'
  BY <1>2, <1>3 DEF ReadInv, FlagIsKnown, HasLine
<1>5. Skipped(c)'
  <2>1. 0 <= Len(save_buff[c]) /\ 0 <= NBYTES /\ \A k \in 1 .. 0 : FALSE
    BY ReaderTypes
  <2>2. QED
    BY <1>2, <2>1 DEF Skipped
<1>6. Skipping(c)'
  BY <1>2, <1>4, <1>5 DEF Skipping
<1>7. FlagIsKnown'
  BY <1>2, <1>3 DEF ReadInv, FlagIsKnown, HasLine
<1>8. save_buff[c] = IF since'[c] = <<>> THEN before'[c] ELSE since'[c][Len(since'[c])]
  BY <1>2, <1>3 DEF ReadInv, LastSaved
<1>9. QED
  BY <1>2, <1>3, <1>6, <1>7, <1>8, ReadOwn

\* One byte more of a kind.
LEMMA OneMore ==
  ASSUME NEW line \in Seq(KeyChars), NEW i \in Nat, i < Len(line),
         NEW kind, \A k \in 1 .. i : line[k] \in kind, line[i + 1] \in kind
  PROVE  i + 1 <= Len(line) /\ \A k \in 1 .. i + 1 : line[k] \in kind
<1>1. Len(line) \in Nat
  OBVIOUS
<1>2. \A k \in 1 .. i + 1 : k \in 1 .. i \/ k = i + 1
  OBVIOUS
<1>3. QED
  BY <1>1, <1>2

\* The byte the loops look at is of the line, or the zero behind it.
LEMMA SavedIs ==
  ASSUME Sizes, TypeOK, NEW c \in Terminals, c = curr_terminal,
         NEW i \in Nat, i <= Len(save_buff[c])
  PROVE  /\ i < Len(save_buff[c]) => Saved(i) = save_buff[c][i + 1]
         /\ Saved(i) = " " <=> i < Len(save_buff[c]) /\ save_buff[c][i + 1] \in Blanks
         /\ Saved(i) # NUL <=> i < Len(save_buff[c]) /\ save_buff[c][i + 1] \in Mapped
<1> DEFINE line == save_buff[c]
<1>1. line \in Seq(KeyChars) /\ Len(line) \in Nat
  BY ReaderTypes
<1>2. i < Len(line) => line[i + 1] \in KeyChars
  BY <1>1
<1>3. Saved(i) = IF i < Len(line) THEN line[i + 1] ELSE NUL
  BY DEF Saved
<1> HIDE DEF line
<1>4. QED
  BY Zenon, <1>2, <1>3 DEF line, Blanks, Mapped, NUL

LEMMA ReadSkip ==
  ASSUME Sizes, TypeOK, ReadInv, retrieve_skip
  PROVE  ReadInv'
<1>1. PICK c \in Terminals : c = curr_terminal
  BY DEF TypeOK
<1> DEFINE line == save_buff[c]
           i    == idx[c]
           more == Saved(i) = " " /\ i < NBYTES /\ i < BUFFER_SIZE
<1>2. /\ line \in Seq(KeyChars) /\ Len(line) \in Nat /\ Len(line) < BUFFER_SIZE
      /\ i \in Nat /\ i \in 0 .. BUFFER_SIZE /\ BUFFER_SIZE \in Nat /\ NBYTES \in Nat
  BY ReaderTypes
<1>3. rd[c] = "skip" /\ Skipping(c)
  BY <1>1 DEF retrieve_skip, ReadInv
<1>4. HasLine(c) /\ got[c] = <<>> /\ (~torn[c] => Skipped(c))
  BY <1>3 DEF Skipping
<1>5. /\ idx'[c] = IF more THEN i + 1 ELSE i
      /\ rd'[c] = IF more THEN "skip" ELSE "copy"
      /\ UNCHANGED <<save_buff, got, kbdr_flag, history>>
      /\ \A t \in Terminals \ {c} : rd'[t] = rd[t] /\ idx'[t] = idx[t]
  BY <1>1, ReaderDomains DEF retrieve_skip
<1>6. UNCHANGED <<since, before, stray, torn>> /\ HasLine(c)' /\ got'[c] = <<>>
  BY <1>4, <1>5 DEF history, HasLine
<1>7. FlagIsKnown'
  BY <1>5, <1>6 DEF ReadInv, FlagIsKnown, HasLine
<1>8. save_buff[c] = IF since'[c] = <<>> THEN before'[c] ELSE since'[c][Len(since'[c])]
  BY <1>3, <1>6 DEF ReadInv, LastSaved
<1>9. ASSUME ~torn[c]
      PROVE  /\ i <= Len(line) /\ i <= NBYTES /\ \A k \in 1 .. i : line[k] \in Blanks
             /\ more => i < Len(line) /\ line[i + 1] \in Blanks /\ i < NBYTES
             /\ ~more => i = Len(line) \/ i = NBYTES \/ line[i + 1] \notin Blanks
  <2>1. i <= Len(line) /\ i <= NBYTES /\ \A k \in 1 .. i : line[k] \in Blanks
    BY <1>4, <1>9 DEF Skipped
  <2>2. Saved(i) = " " <=> i < Len(line) /\ line[i + 1] \in Blanks
    BY <1>1, <1>2, <2>1, SavedIs
  <2> HIDE DEF i, line
  <2>3. i < BUFFER_SIZE /\ (i < Len(line) \/ i = Len(line)) /\ (i < NBYTES \/ i = NBYTES)
    BY <1>2, <2>1
  <2>4. QED
    BY Zenon, <2>1, <2>2, <2>3
<1> HIDE DEF more, line, i
<1>10. ASSUME more PROVE Skipping(c)'
  <2>1. ASSUME ~torn[c] PROVE Skipped(c)'
    <3>1. i + 1 <= Len(line) /\ \A k \in 1 .. i + 1 : line[k] \in Blanks
      BY Zenon, <1>2, <1>9, <1>10, <2>1, OneMore
    <3>2. i < NBYTES
      BY Zenon, <1>9, <1>10, <2>1
    <3>3. i + 1 <= NBYTES
      BY <1>2, <3>2
    <3>4. idx'[c] = i + 1 /\ save_buff'[c] = line
      BY Zenon, <1>5, <1>10 DEF line
    <3>5. QED
      BY Zenon, <3>1, <3>3, <3>4 DEF Skipped
  <2>2. QED
    BY Zenon, <1>6, <2>1 DEF Skipping
<1>11. ASSUME ~more PROVE Copying(c)'
  <2>1. idx'[c] = i /\ save_buff'[c] = line
    BY Zenon, <1>5, <1>11 DEF line
  <2>2. Len(<<>>) = 0 /\ 0 <= NBYTES /\ i = i + 0 /\ \A k \in 1 .. 0 : FALSE
    BY <1>2
  <2>3. PICK n \in 0 .. BUFFER_SIZE : n = i
    BY <1>2
  <2>4. Gathered(c, n)'
    BY Zenon, <1>6, <2>1, <2>2, <2>3 DEF Gathered, InPlace
  <2>5. ASSUME ~torn[c] PROVE Copied(c)'
    <3>1. i <= Len(line) /\ i <= NBYTES /\ (\A k \in 1 .. i : line[k] \in Blanks)
      BY Zenon, <1>9, <2>5
    <3>2. i \in 0 .. Len(line)
      BY <1>2, <3>1
    <3>3. Run(line, Blanks) = i
      BY Zenon, <1>2, <1>9, <1>11, <2>5, <3>1, <3>2, RunIs
    <3>4. QED
      BY Zenon, <1>6, <2>1, <2>2, <3>1, <3>2, <3>3 DEF Copied
  <2>6. QED
    BY Zenon, <1>2, <1>6, <2>2, <2>4, <2>5 DEF Copying
<1>12. QED
  BY <1>5, <1>6, <1>7, <1>8, <1>10, <1>11, ReadOwn

\* The bytes of g are those of line from lead on, all of a kind.
Copies(g, line, lead, kind) ==
    \A k \in 1 .. Len(g) : g[k] = line[lead + k] /\ g[k] \in kind

\* A byte more keeps the copy one of the line.
LEMMA CopyMore ==
  ASSUME NEW line \in Seq(KeyChars), NEW g \in Seq(KeyChars \cup {NL}), NEW kind,
         NEW lead \in 0 .. Len(line), lead + Len(g) < Len(line),
         line[lead + Len(g) + 1] \in kind,
         Copies(g, line, lead, kind),
         NEW h, h = Append(g, line[lead + Len(g) + 1])
  PROVE  Copies(h, line, lead, kind)
<1> DEFINE x == line[lead + Len(g) + 1]
<1>1. Len(line) \in Nat /\ Len(g) \in Nat /\ lead \in Nat
  OBVIOUS
<1>2. x \in KeyChars \cup {NL}
  BY <1>1
<1>3. Len(h) = Len(g) + 1 /\ h[Len(g) + 1] = x /\ \A k \in 1 .. Len(g) : h[k] = g[k]
  BY <1>1, <1>2
<1>4. lead + Len(g) + 1 = lead + (Len(g) + 1)
  BY <1>1
<1>5. \A k \in 1 .. Len(g) + 1 : k \in 1 .. Len(g) \/ k = Len(g) + 1
  BY <1>1
<1>6. x = line[lead + (Len(g) + 1)] /\ x \in kind
  BY <1>4
<1> HIDE DEF x
<1>7. \A k \in 1 .. Len(g) + 1 : h[k] = line[lead + k] /\ h[k] \in kind
  BY Zenon, <1>3, <1>5, <1>6 DEF Copies
<1>8. QED
  BY Zenon, <1>3, <1>7 DEF Copies

\* The same for bytes gathered from several lines.
LEMMA GatherMore ==
  ASSUME NEW from, NEW line \in Seq(KeyChars), line \in from,
         NEW g \in Seq(KeyChars \cup {NL}), NEW n \in Nat, n + Len(g) < Len(line),
         InPlace(g, from, n),
         NEW h, h = Append(g, line[n + Len(g) + 1])
  PROVE  InPlace(h, from, n)
<1> DEFINE x == line[n + Len(g) + 1]
<1>1. Len(line) \in Nat /\ Len(g) \in Nat
  OBVIOUS
<1>2. x \in KeyChars \cup {NL}
  BY <1>1
<1>3. Len(h) = Len(g) + 1 /\ h[Len(g) + 1] = x /\ \A k \in 1 .. Len(g) : h[k] = g[k]
  BY <1>1, <1>2
<1>4. n + Len(g) + 1 = n + (Len(g) + 1) /\ n + (Len(g) + 1) <= Len(line)
  BY <1>1
<1>5. \A k \in 1 .. Len(g) + 1 : k \in 1 .. Len(g) \/ k = Len(g) + 1
  BY <1>1
<1>6. x = line[n + (Len(g) + 1)]
  BY <1>4
<1> HIDE DEF x
<1>7. \A k \in 1 .. Len(g) + 1 : \E l \in from : n + k <= Len(l) /\ h[k] = l[n + k]
  BY Zenon, <1>3, <1>4, <1>5, <1>6 DEF InPlace
<1>8. QED
  BY Zenon, <1>3, <1>7 DEF InPlace

\* The newline behind what was copied: one byte more than asked for at most.
LEMMA NewlineFits ==
  ASSUME Sizes, NEW g \in Seq(KeyChars \cup {NL}), Len(g) <= NBYTES, NEW h, h = WithNewline(g)
  PROVE  Len(h) <= NBYTES \/ (Len(h) = NBYTES + 1 /\ h[NBYTES + 1] = NL)
<1>1. CASE h = g
  BY <1>1
<1>2. CASE h = Append(g, NL)
  <2>1. NL \in KeyChars \cup {NL}
    OBVIOUS
  <2> HIDE DEF NL
  <2>2. Len(g) \in Nat /\ Len(h) = Len(g) + 1 /\ h[Len(g) + 1] = NL
    BY <1>2, <2>1
  <2>3. QED
    BY <2>2 DEF Sizes
<1>3. QED
  BY <1>1, <1>2 DEF WithNewline

LEMMA NewlineSpliced ==
  ASSUME NEW from, NEW g \in Seq(KeyChars \cup {NL}), NEW n \in 0 .. BUFFER_SIZE,
         InPlace(g, from, n)
  PROVE  Spliced(WithNewline(g), from)
<1>1. CASE WithNewline(g) = g
  BY Zenon, <1>1 DEF Spliced, InPlace
<1>2. CASE WithNewline(g) = Append(g, NL)
  <2> DEFINE h == Append(g, NL)
  <2>1. NL \in KeyChars \cup {NL}
    OBVIOUS
  <2>2. /\ Len(g) \in Nat /\ Len(h) = Len(g) + 1 /\ h[Len(g) + 1] = NL
        /\ \A k \in 1 .. Len(g) : h[k] = g[k]
    <3> HIDE DEF NL
    <3>1. QED
      BY <2>1
  <2>3. \A k \in 1 .. Len(g) + 1 : k \in 1 .. Len(g) \/ k = Len(g) + 1
    BY <2>2
  <2> HIDE DEF h
  <2>4. \A k \in 1 .. Len(h) :
            \/ k = Len(h) /\ h[k] = NL
            \/ \E l \in from : n + k <= Len(l) /\ h[k] = l[n + k]
    <3> HIDE DEF NL
    <3>1. QED
      BY Zenon, <2>2, <2>3 DEF InPlace
  <2>5. Spliced(h, from)
    BY Zenon, <2>4 DEF Spliced
  <2>6. QED
    BY <1>2, <2>5 DEF h
<1>3. QED
  BY Zenon, <1>1, <1>2 DEF WithNewline

\* A reader in its loops finds its finished line among those on offer.
LEMMA SavedOffered ==
  ASSUME TypeOK, LastSaved, NEW c \in Terminals, rd[c] # "out", HasLine(c)
  PROVE  save_buff[c] \in Offered(c)
<1>1. CASE since[c] = <<>>
  BY <1>1 DEF LastSaved, HasLine, Offered
<1>2. CASE since[c] # <<>>
  <2>1. since[c] \in Seq(Seq(KeyChars))
    BY DEF TypeOK
  <2>2. Len(since[c]) \in 1 .. Len(since[c])
    BY <1>2, <2>1
  <2>3. save_buff[c] = since[c][Len(since[c])]
    BY <1>2 DEF LastSaved
  <2>4. QED
    BY Zenon, <2>2, <2>3 DEF Offered
<1>3. QED
  BY <1>1, <1>2

\* The second loop, and the newline after it.
LEMMA ReadCopy ==
  ASSUME Sizes, TypeOK, ReadInv, retrieve_copy
  PROVE  ReadInv'
<1>1. PICK c \in Terminals : c = curr_terminal
  BY DEF TypeOK
<1>2. PICK line, i, g : line = save_buff[c] /\ i = idx[c] /\ g = got[c]
  OBVIOUS
<1> DEFINE more == Len(g) < NBYTES /\ i < BUFFER_SIZE /\ Saved(i) # NUL
<1>3. /\ line \in Seq(KeyChars) /\ Len(line) \in Nat /\ Len(line) < BUFFER_SIZE
      /\ i \in Nat /\ BUFFER_SIZE \in Nat /\ NBYTES \in Nat
      /\ g \in Seq(KeyChars \cup {NL}) /\ Len(g) \in Nat
  BY <1>2, ReaderTypes
<1>4. rd[c] = "copy" /\ Copying(c)
  BY <1>1 DEF retrieve_copy, ReadInv
<1>5. HasLine(c) /\ Len(g) <= NBYTES /\ (~torn[c] => Copied(c))
  BY <1>2, <1>4 DEF Copying
<1>6. PICK n \in 0 .. BUFFER_SIZE : Gathered(c, n)
  BY <1>4 DEF Copying
<1>7. i = n + Len(g) /\ InPlace(g, Offered(c), n)
  BY <1>2, <1>6 DEF Gathered
<1>8. /\ UNCHANGED <<save_buff, kbdr_flag, history>>
      /\ \A t \in Terminals \ {c} : rd'[t] = rd[t] /\ got'[t] = got[t] /\ idx'[t] = idx[t]
  BY <1>1, ReaderDomains DEF retrieve_copy
<1>9. \/ more /\ got'[c] = Append(g, Saved(i)) /\ idx'[c] = i + 1 /\ rd'[c] = "copy"
      \/ ~more /\ got'[c] = WithNewline(g) /\ rd'[c] = "done"
  BY <1>1, <1>2, <1>4, ReaderDomains DEF retrieve_copy
<1>10. UNCHANGED <<since, before, stray, torn>> /\ HasLine(c)' /\ Offered(c)' = Offered(c)
  BY <1>5, <1>8 DEF history, HasLine, Offered
<1>11. FlagIsKnown'
  BY <1>8, <1>9, <1>10 DEF ReadInv, FlagIsKnown, HasLine
<1>12. save_buff[c] = IF since'[c] = <<>> THEN before'[c] ELSE since'[c][Len(since'[c])]
  BY <1>4, <1>10 DEF ReadInv, LastSaved
<1>13. line \in Offered(c) /\ save_buff'[c] = line
  BY <1>2, <1>4, <1>5, <1>8, SavedOffered DEF ReadInv
<1>14. PICK lead : lead = Run(line, Blanks)
  OBVIOUS
<1>15. ASSUME ~torn[c]
       PROVE  /\ lead \in 0 .. Len(line) /\ i = lead + Len(g) /\ i <= Len(line)
              /\ \A k \in 1 .. Len(g) : g[k] = line[lead + k] /\ g[k] \in Mapped
  BY <1>2, <1>5, <1>14, <1>15 DEF Copied
<1>16. CASE more /\ got'[c] = Append(g, Saved(i)) /\ idx'[c] = i + 1 /\ rd'[c] = "copy"
  <2>1. i < Len(line) /\ Saved(i) = line[i + 1] /\ line[i + 1] \in Mapped
    <3>1. Saved(i) = IF i < Len(line) THEN line[i + 1] ELSE NUL
      BY <1>1, <1>2 DEF Saved
    <3>2. i < Len(line)
      BY Zenon, <1>16, <3>1
    <3>3. line[i + 1] \in KeyChars
      BY <1>3, <3>2
    <3>4. QED
      BY Zenon, <1>16, <3>1, <3>2, <3>3 DEF Mapped
  <2>2. Len(g) < NBYTES
    BY Zenon, <1>16
  <2>3. PICK h : h = got'[c] /\ h = Append(g, line[i + 1]) /\ idx'[c] = i + 1
    BY Zenon, <1>16, <2>1
  <2> HIDE DEF more
  <2>4. n \in Nat /\ n + Len(g) < Len(line) /\ h = Append(g, line[n + Len(g) + 1])
    BY <1>3, <1>7, <2>1, <2>3
  <2>5. InPlace(h, Offered(c), n)
    BY Zenon, <1>3, <1>7, <1>13, <2>4, GatherMore
  <2>6. Len(h) = Len(g) + 1 /\ idx'[c] = n + Len(h)
    <3>1. line[i + 1] \in KeyChars \cup {NL}
      BY <1>3, <2>1
    <3> HIDE DEF NL
    <3>2. QED
      BY <1>3, <1>7, <2>3, <2>4, <3>1
  <2>7. Gathered(c, n)'
    BY Zenon, <1>10, <2>3, <2>5, <2>6 DEF Gathered
  <2>8. ASSUME ~torn[c] PROVE Copied(c)'
    <3>1. lead \in 0 .. Len(line) /\ i = lead + Len(g)
      BY Zenon, <1>15, <2>8
    <3>2. lead + Len(g) < Len(line) /\ h = Append(g, line[lead + Len(g) + 1])
      BY Zenon, <2>1, <2>3, <3>1
    <3>3. /\ Len(h) = Len(g) + 1
          /\ \A k \in 1 .. Len(h) : h[k] = line[lead + k] /\ h[k] \in Mapped
      <4>1. /\ line \in Seq(KeyChars) /\ g \in Seq(KeyChars \cup {NL})
            /\ line[lead + Len(g) + 1] \in Mapped
        BY Zenon, <1>3, <1>15, <2>1, <2>8, <3>1
      <4>2. Copies(g, line, lead, Mapped)
        BY Zenon, <1>15, <2>8 DEF Copies
      <4>3. Copies(h, line, lead, Mapped)
        BY Zenon, <3>1, <3>2, <4>1, <4>2, CopyMore
      <4>4. QED
        BY Zenon, <2>6, <4>3 DEF Copies
    <3>4. idx'[c] = lead + Len(h) /\ idx'[c] <= Len(line)
      BY <1>3, <2>1, <2>3, <3>1, <3>3
    <3>5. QED
      BY Zenon, <1>13, <1>14, <2>3, <3>1, <3>3, <3>4 DEF Copied
  <2>9. Len(got'[c]) <= NBYTES
    <3>1. Len(h) <= NBYTES
      BY <1>3, <2>2, <2>6
    <3>2. QED
      BY Zenon, <2>3, <3>1
  <2>10. Copying(c)'
    BY Zenon, <1>10, <2>7, <2>8, <2>9 DEF Copying
  <2>11. QED
    BY <1>8, <1>10, <1>11, <1>12, <1>16, <2>10, ReadOwn
<1>17. CASE ~more /\ got'[c] = WithNewline(g) /\ rd'[c] = "done"
  <2>1. Fits(c)'
    <3>1. PICK h : h = got'[c] /\ h = WithNewline(g)
      BY <1>17
    <3>2. Len(h) <= NBYTES \/ (Len(h) = NBYTES + 1 /\ h[NBYTES + 1] = NL)
      BY Zenon, <1>3, <1>5, <3>1, NewlineFits
    <3>3. QED
      BY Zenon, <3>1, <3>2 DEF Fits
  <2>2. CASE torn[c]
    <3>1. Spliced(got'[c], Offered(c)')
      BY Zenon, <1>3, <1>7, <1>10, <1>17, NewlineSpliced
    <3>2. Delivered(c)'
      BY Zenon, <1>10, <2>1, <2>2, <3>1 DEF Delivered
    <3>3. QED
      BY <1>8, <1>10, <1>11, <1>12, <1>17, <3>2, ReadOwn
  <2>3. CASE ~torn[c]
    <3>1. lead \in 0 .. Len(line) /\ i = lead + Len(g) /\ i <= Len(line)
      BY Zenon, <1>15, <2>3
    <3>2. /\ i < BUFFER_SIZE /\ lead + Len(g) <= Len(line)
          /\ (i < Len(line) \/ i = Len(line)) /\ (Len(g) < NBYTES \/ Len(g) = NBYTES)
      BY <1>3, <1>5, <3>1
    <3>3. Saved(i) # NUL <=> i < Len(line) /\ line[i + 1] \in Mapped
      BY <1>1, <1>2, <1>3, <3>1, SavedIs
    <3>4. \/ lead + Len(g) = Len(line)
          \/ Len(g) = NBYTES
          \/ line[lead + Len(g) + 1] \notin Mapped
      BY Zenon, <1>17, <3>1, <3>2, <3>3
    <3>5. LineFor(line) = WithNewline(g)
      BY Zenon, <1>3, <1>5, <1>14, <1>15, <2>3, <3>1, <3>2, <3>4, CopiedIsLine
    <3>6. Delivered(c)'
      BY Zenon, <1>10, <1>13, <1>17, <2>1, <3>5 DEF Delivered
    <3>7. QED
      BY <1>8, <1>10, <1>11, <1>12, <1>17, <3>6, ReadOwn
  <2>4. QED
    BY <2>2, <2>3
<1>18. QED
  BY <1>9, <1>16, <1>17

LEMMA ReadInit ==
  ASSUME Sizes, Init
  PROVE  ReadInv
<1>1. /\ \A t \in Terminals : rd[t] = "out"
      /\ kbdr_flag = 0
  BY DEF Init
<1>2. QED
  BY <1>1 DEF ReadInv, LastSaved, FlagIsKnown

LEMMA ReadStep ==
  ASSUME Sizes, TypeOK, ReadInv, [Next]_vars
  PROVE  ReadInv'
<1>1. CASE UNCHANGED <<save_buff, kbdr_flag, reader, history>>
  BY <1>1, ReadFrame
<1>2. ASSUME NEW new \in Terminals, FnKey(new) PROVE ReadInv'
  BY <1>1, <1>2 DEF FnKey, StoreKey
<1>3. ASSUME NEW key, process_key(key) PROVE ReadInv'
  BY <1>1, <1>3 DEF process_key, StoreKey
<1>4. ASSUME NEW key, toggle_shift(key) PROVE ReadInv'
  BY <1>1, <1>4 DEF toggle_shift
<1>5. CASE toggle_caps \/ toggle_ctrl \/ toggle_alt \/ handle_backspace
  BY <1>1, <1>5 DEF toggle_caps, toggle_ctrl, toggle_alt, handle_backspace
<1>6. CASE read_wait \/ UNCHANGED vars
  BY <1>1, <1>6 DEF read_wait, vars
<1>7. CASE handle_enter
  BY <1>7, ReadEnter
<1>8. CASE read_call \/ read_return
  BY <1>8, ReadCallReturn
<1>9. CASE read_poll
  BY <1>9, ReadPoll
<1>10. CASE retrieve_skip
  BY <1>10, ReadSkip
<1>11. CASE retrieve_copy
  BY <1>11, ReadCopy
<1>12. QED
  BY <1>2, <1>3, <1>4, <1>5, <1>6, <1>7, <1>8, <1>9, <1>10, <1>11 DEF Next, Thread

\* No step reaches a line, a flag or a read of a terminal in the background.
LEMMA PrivateStep ==
  ASSUME TypeOK, [Next]_vars, NEW t \in Terminals \ {curr_terminal}
  PROVE  /\ buffer'[t] = buffer[t] /\ save_buff'[t] = save_buff[t]
         /\ caps_shift_flag'[t] = caps_shift_flag[t] /\ got'[t] = got[t]
<1> DEFINE Same == /\ buffer'[t] = buffer[t] /\ save_buff'[t] = save_buff[t]
                   /\ caps_shift_flag'[t] = caps_shift_flag[t] /\ got'[t] = got[t]
<1>0. SUFFICES Same
  OBVIOUS
<1>1. /\ DOMAIN buffer = Terminals /\ DOMAIN save_buff = Terminals
      /\ DOMAIN caps_shift_flag = Terminals /\ DOMAIN got = Terminals
  BY DEF TypeOK
<1>2. ASSUME NEW key, StoreKey(key) PROVE Same
  BY <1>1, <1>2 DEF StoreKey, flags, reader
<1>3. ASSUME NEW new \in Terminals, FnKey(new) PROVE Same
  BY <1>2, <1>3 DEF FnKey, reader
<1>4. ASSUME NEW key, process_key(key) PROVE Same
  BY <1>2, <1>4 DEF process_key
<1>5. ASSUME NEW key, toggle_shift(key) PROVE Same
  BY <1>1, <1>5 DEF toggle_shift, reader
<1>6. CASE toggle_caps \/ toggle_ctrl \/ toggle_alt
  BY <1>1, <1>6 DEF toggle_caps, toggle_ctrl, toggle_alt, reader
<1>7. CASE handle_backspace \/ handle_enter
  BY <1>1, <1>7 DEF handle_backspace, handle_enter, flags, reader
<1>8. CASE read_call \/ read_poll \/ read_return
  BY <1>1, <1>8 DEF read_call, read_poll, read_return, flags
<1>9. CASE retrieve_skip \/ retrieve_copy
  BY <1>1, <1>9 DEF retrieve_skip, retrieve_copy, flags
<1>10. CASE read_wait \/ UNCHANGED vars
  BY <1>10 DEF read_wait, vars, flags, reader
<1> HIDE DEF Same
<1>11. QED
  BY <1>3, <1>4, <1>5, <1>6, <1>7, <1>8, <1>9, <1>10 DEF Next, Thread

\* What a read of the keyboard returns, with switches and Enter at any moment
\* and buffers of any size: one whole line typed on the caller's own terminal
\* after the call, or the line from before it when Enter on another terminal
\* set the shared flag, or bytes of such lines when Enter interrupted the copy;
\* never more than was asked for and a newline.  No key or read reaches the
\* lines of a terminal in the background (keyboard_read, handle_enter of
\* keyboard.c, terminal_retrieve of terminal.c).
THEOREM ReadsAreFresh ==
  ASSUME Sizes
  PROVE  Spec => [](TypeOK /\ ReadsFreshLine /\ ReadFits) /\ LinesPrivate
<1>1. Init => TypeOK /\ ReadInv
  BY TypedInit, ReadInit
<1>2. TypeOK /\ ReadInv /\ [Next]_vars => (TypeOK /\ ReadInv)'
  BY TypedStep, ReadStep
<1>3. TypeOK /\ ReadInv => TypeOK /\ ReadsFreshLine /\ ReadFits
  BY DEF ReadInv, Delivered, Fits, ReadsFreshLine, ReadFits
<1>4. TypeOK /\ [Next]_vars =>
          [\A t \in Terminals \ {curr_terminal} :
              /\ buffer'[t] = buffer[t]
              /\ save_buff'[t] = save_buff[t]
              /\ caps_shift_flag'[t] = caps_shift_flag[t]
              /\ got'[t] = got[t]]_vars
  BY PrivateStep
<1>5. QED
  BY <1>1, <1>2, <1>3, <1>4, PTL DEF Spec, LinesPrivate
=============================================================================
