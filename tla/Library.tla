------------------------------- MODULE Library ------------------------------
(***************************************************************************)
(* The string, memory and number routines of lib.c and of the programs'    *)
(* ece391support.c, as functions on a small memory, with the loops the     *)
(* code has: the head, double word and tail loops of memset and memcpy,    *)
(* the two directions of memmove, the digits of itoa written backwards and *)
(* reversed in place, the padding of printf's %#x inside one buffer.       *)
(*                                                                         *)
(* A query is asked and answered; the properties compare the answer with   *)
(* what the routine is for.  Bytes are numbers up to 255, 0 ends a string; *)
(* numbers have WordBits bits; a digit is its value (lookup's character).  *)
(***************************************************************************)
EXTENDS Integers, Sequences, FiniteSetsExt

CONSTANTS
    WordBits,     \* 32 in the code; a multiple of 4
    MemSize,      \* the bytes of the memory
    Bytes,        \* the bytes strings are made of, 0 not among them
    MaxLen,       \* the length of the longest string
    Fills         \* what memset is asked to write

VARIABLES q, out

vars == <<q, out>>

Word == 0 .. 2 ^ WordBits - 1
Signed(v) == IF v >= 2 ^ (WordBits - 1) THEN v - 2 ^ WordBits ELSE v
HexDigits == WordBits \div 4

Addr == 0 .. MemSize - 1

\* A memory whose bytes are all different.
Fresh == [a \in Addr |-> a + 1]

\* The memory with string s and its zero byte at address a.
Put(m, a, s) ==
    [b \in DOMAIN m |-> IF b - a \in 0 .. Len(s) - 1 THEN s[b - a + 1]
                        ELSE IF b = a + Len(s) THEN 0 ELSE m[b]]

-----------------------------------------------------------------------------
(* Strings. *)

strlen(m, s) == Min({k \in 0 .. MemSize - 1 : s + k \in DOMAIN m /\ m[s + k] = 0})

RECURSIVE Swap(_, _, _)
Swap(m, beg, end) ==
    IF beg < end
    THEN Swap([m EXCEPT ![beg] = m[end], ![end] = m[beg]], beg + 1, end - 1)
    ELSE m

strrev(m, s) == Swap(m, s, s + strlen(m, s) - 1)

\* The memory after the copy loop of strcpy, from index i.
RECURSIVE strcpy(_, _, _, _)
strcpy(m, dest, src, i) ==
    IF m[src + i] # 0
    THEN strcpy([m EXCEPT ![dest + i] = m[src + i]], dest, src, i + 1)
    ELSE [m EXCEPT ![dest + i] = 0]

\* The copy loop and the filling loop of strncpy.
RECURSIVE strncpy(_, _, _, _, _)
strncpy(m, dest, src, n, i) ==
    IF m[src + i] # 0 /\ i < n
    THEN strncpy([m EXCEPT ![dest + i] = m[src + i]], dest, src, n, i + 1)
    ELSE [a \in DOMAIN m |-> IF a - dest \in i .. n - 1 THEN 0 ELSE m[a]]

\* A byte as an int8_t, the kernel's character; the programs' is a uint8_t.
Int8(b) == IF b >= 128 THEN b - 256 ELSE b

\* strncmp of lib.c on two memories, from index i.
RECURSIVE strncmp(_, _, _, _)
strncmp(s1, s2, n, i) ==
    IF i >= n THEN 0
    ELSE IF s1[i] # s2[i] \/ s1[i] = 0 THEN Int8(s1[i]) - Int8(s2[i])
    ELSE strncmp(s1, s2, n, i + 1)

\* The programs' strncmp counts n down and tests it after a match.
RECURSIVE Ece391Compare(_, _, _, _)
Ece391Compare(s1, s2, n, i) ==
    IF s1[i] # s2[i] THEN s1[i] - s2[i]
    ELSE IF s1[i] = 0 \/ n - 1 = 0 THEN 0
    ELSE Ece391Compare(s1, s2, n - 1, i + 1)

ece391_strncmp(s1, s2, n) == IF n = 0 THEN 0 ELSE Ece391Compare(s1, s2, n, 0)

RECURSIVE ece391_strcmp(_, _, _)
ece391_strcmp(s1, s2, i) ==
    IF s1[i] = s2[i]
    THEN IF s1[i] = 0 THEN 0 ELSE ece391_strcmp(s1, s2, i + 1)
    ELSE s1[i] - s2[i]

-----------------------------------------------------------------------------
(* Memory. *)

Least(a, b) == IF a < b THEN a ELSE b

\* The bytes up to the next aligned address, n at most.
HeadBytes(s, n) == Least(n, (4 - (s % 4)) % 4)

SetBytes(m, s, n, c) == [a \in DOMAIN m |-> IF a - s \in 0 .. n - 1 THEN c ELSE m[a]]

\* Byte k of c << 24 | c << 16 | c << 8 | c, lowest first, for a c below 256:
\* byte k - j of c comes from the shift by j bytes.
Replicated(c) == [k \in 0 .. 3 |-> MapThenSumSet(LAMBDA j : (c \div 256 ^ (k - j)) % 256, 0 .. k)]

\* Bytes to an aligned address, double words of eax, and the bytes that are left,
\* all but the double words from its lowest byte.
memset(m, s, c, n) ==
    LET eax == Replicated(c % 256)
        h == HeadBytes(s, n)
        d == 4 * ((n - h) \div 4)
        t == (n - h) % 4
        head == SetBytes(m, s, h, eax[0])
        body == [a \in DOMAIN m |-> IF a - (s + h) \in 0 .. d - 1
                                    THEN eax[(a - (s + h)) % 4] ELSE head[a]]
    IN  SetBytes(body, s + h + d, t, eax[0])

\* n moves of size bytes each; step is size or -size (the direction flag).
RECURSIVE Moves(_, _, _, _, _, _)
Moves(m, dest, src, n, size, step) ==
    IF n = 0 THEN m
    ELSE Moves([a \in DOMAIN m |-> IF a - dest \in 0 .. size - 1
                                   THEN m[src + a - dest] ELSE m[a]],
               dest + step, src + step, n - 1, size, step)

memcpy(m, dest, src, n) ==
    LET h == HeadBytes(dest, n)
        d == (n - h) \div 4
        m1 == Moves(m, dest, src, h, 1, 1)
        m2 == Moves(m1, dest + h, src + h, d, 4, 4)
    IN  Moves(m2, dest + h + 4 * d, src + h + 4 * d, (n - h) % 4, 1, 1)

\* Mutant of memmove: always upwards.
memmove_up(m, dest, src, n) == Moves(m, dest, src, n, 1, 1)

\* Downwards from the last byte when the source is below the destination.  The
\* direction flag stays set then; every routine with a string instruction clears
\* it first.
memmove(m, dest, src, n) ==
    IF src >= dest THEN Moves(m, dest, src, n, 1, 1)
    ELSE Moves(m, dest + n - 1, src + n - 1, n, 1, -1)

-----------------------------------------------------------------------------
(* Numbers.  A digit d is stored as the byte d + 1, 0 being the end. *)

Digit(d) == d + 1

\* The loop of itoa, lowest digit first, and the terminating zero.
RECURSIVE Digits(_, _, _, _)
Digits(m, a, value, radix) ==
    IF value > 0
    THEN Digits([m EXCEPT ![a] = Digit(value % radix)], a + 1, value \div radix, radix)
    ELSE [m EXCEPT ![a] = 0]

itoa(m, buf, value, radix) ==
    IF value = 0 THEN [m EXCEPT ![buf] = Digit(0), ![buf + 1] = 0]
    ELSE strrev(Digits(m, buf, value, radix), buf)

\* puts prints the string at an address.
puts(m, s) == [i \in 1 .. strlen(m, s) |-> m[s + i - 1]]

Minus == -1
conv_buf == [a \in 0 .. 2 * WordBits |-> 99]

\* What printf prints for %x, %#x, %u and %d.  For %#x the digits go to index
\* HexDigits, and the zeros in front of them from index strlen on.
printf(spec, v) ==
    CASE spec = "x" -> puts(itoa(conv_buf, 0, v, 16), 0)
      [] spec = "#x" ->
            LET m == itoa(conv_buf, HexDigits, v, 16)
                starting_index == strlen(m, HexDigits)
            IN  puts(SetBytes(m, starting_index, HexDigits - starting_index, Digit(0)),
                     starting_index)
      [] spec = "u" -> puts(itoa(conv_buf, 0, v, 10), 0)
      [] spec = "d" ->
            IF Signed(v) < 0
            THEN puts(itoa([conv_buf EXCEPT ![0] = Minus], 1,
                           (0 - v) % 2 ^ WordBits, 10), 0)
            ELSE puts(itoa(conv_buf, 0, v, 10), 0)

-----------------------------------------------------------------------------
(* Queries. *)

Strings == UNION {[1 .. k -> Bytes] : k \in 0 .. MaxLen}

\* A string at the beginning of a memory, and one in front of other bytes.
Mem(s) == Put(Fresh, 0, s)
Mem2(s) == Put([a \in Addr |-> a + 2], 0, s)

Queries ==
    [f : {"strrev"}, s : Strings]
    \cup [f : {"strcpy", "strncpy"}, s : Strings, n : 0 .. MaxLen + 1]
    \cup [f : {"strncmp"}, s : Strings, t : Strings, n : 0 .. MaxLen + 1]
    \cup [f : {"memset"}, d : Addr, n : 0 .. MemSize, c : Fills]
    \cup [f : {"memcpy", "memmove"}, d : Addr, src : Addr, n : 0 .. MemSize]
    \cup [f : {"x", "#x", "u", "d"}, v : Word]

\* Where strcpy and strncpy copy to.
Dest == MaxLen + 1

Answer(r) ==
    CASE r.f = "strrev" -> strrev(Mem(r.s), 0)
      [] r.f = "strcpy" -> strcpy(Mem(r.s), Dest, 0, 0)
      [] r.f = "strncpy" -> strncpy(Mem(r.s), Dest, 0, r.n, 0)
      [] r.f = "strncmp" -> <<strncmp(Mem(r.s), Mem2(r.t), r.n, 0),
                              ece391_strncmp(Mem(r.s), Mem2(r.t), r.n),
                              ece391_strcmp(Mem(r.s), Mem2(r.t), 0)>>
      [] r.f = "memset" -> memset(Fresh, r.d, r.c, r.n)
      [] r.f = "memcpy" -> memcpy(Fresh, r.d, r.src, r.n)
      [] r.f = "memmove" -> memmove(Fresh, r.d, r.src, r.n)
      [] OTHER -> printf(r.f, r.v)

\* The blocks lie in the memory.
InMemory(r) ==
    /\ r.f \in {"memset", "memcpy", "memmove"} => r.d + r.n <= MemSize
    /\ r.f \in {"memcpy", "memmove"} => r.src + r.n <= MemSize

Idle == [f |-> "none"]

Init == q = Idle /\ out = <<>>

Ask == q = Idle /\ q' \in {r \in Queries : InMemory(r)} /\ out' = Answer(q')

Return == q # Idle /\ q' = Idle /\ out' = <<>>

Next == Ask \/ Return

Spec == Init /\ [][Next]_vars

-----------------------------------------------------------------------------
\* The memory that holds v[a] for the addresses of a block and is Fresh elsewhere.
Only(block, v(_)) == \A a \in Addr : out[a] = IF a \in block THEN v(a) ELSE Fresh[a]

\* strrev reverses a string in place; strcpy and strncpy copy a string, strncpy
\* n bytes of it with zeros behind a shorter one; none touches another byte.
StringsExact ==
    /\ q.f = "strrev" =>
          out = Put(Fresh, 0, [i \in 1 .. Len(q.s) |-> q.s[Len(q.s) + 1 - i]])
    /\ q.f = "strcpy" => out = Put(Mem(q.s), Dest, q.s)
    /\ q.f = "strncpy" =>
          out = [a \in Addr |-> IF a - Dest \notin 0 .. q.n - 1 THEN Mem(q.s)[a]
                                ELSE IF a - Dest < Len(q.s) THEN q.s[a - Dest + 1] ELSE 0]

\* Byte i of a string, 0 at its end and after it.
At(s, i) == IF i <= Len(s) THEN s[i] ELSE 0

\* The first n bytes of two strings are compared, up to the end of both, and the
\* difference of the first two that differ is returned: for lib.c "the first
\* character that does not match has a greater value in str1 than in str2" as
\* an int8_t, for the programs' strncmp, and their strcmp on the whole strings,
\* as a uint8_t.  So kernel and programs agree on which strings are the same,
\* and order two strings the opposite way exactly when one of the two bytes is
\* 0x80 or more and the other is not.
ComparisonsAgree ==
    q.f = "strncmp" =>
        LET diff(n) == {i \in 1 .. n : At(q.s, i) # At(q.t, i)}
            a(n) == At(q.s, Min(diff(n)))
            b(n) == At(q.t, Min(diff(n)))
        IN  /\ (out[1] = 0) = (out[2] = 0)
            /\ (out[1] < 0) # (out[2] < 0) <=>
                   diff(q.n) # {} /\ (a(q.n) >= 128) # (b(q.n) >= 128)
            /\ out[1] = IF diff(q.n) = {} THEN 0 ELSE Int8(a(q.n)) - Int8(b(q.n))
            /\ out[2] = IF diff(q.n) = {} THEN 0 ELSE a(q.n) - b(q.n)
            /\ out[3] = IF diff(MaxLen + 1) = {} THEN 0 ELSE a(MaxLen + 1) - b(MaxLen + 1)

\* memset writes the low byte of its argument n times and memcpy copies n bytes, whatever the alignment, and
\* no other; memcpy also when the destination overlaps the source from below.
BlocksExact ==
    /\ q.f = "memset" =>
          LET v(a) == q.c % 256 IN Only(q.d .. q.d + q.n - 1, v)
    /\ q.f = "memcpy" /\ (q.d <= q.src \/ q.src + q.n <= q.d) =>
          LET v(a) == Fresh[q.src + a - q.d] IN Only(q.d .. q.d + q.n - 1, v)

\* memmove is right for every overlap of its two blocks.
MoveExact ==
    q.f = "memmove" =>
        LET v(a) == Fresh[q.src + a - q.d] IN Only(q.d .. q.d + q.n - 1, v)

\* The value of a sequence of digits.
Value(ds, radix) ==
    FoldSet(LAMBDA i, acc : acc + (ds[i] - Digit(0)) * radix ^ (Len(ds) - i), 0, DOMAIN ds)

IsNumeral(ds, radix, v) ==
    /\ \A i \in DOMAIN ds : ds[i] - Digit(0) \in 0 .. radix - 1
    /\ Value(ds, radix) = v

\* printf prints the value it is given: %x and %u without leading zeros, %d with
\* the sign (also the smallest number, which has no negative), %#x with "8
\* hexadecimal digits, zero-padded on the left" (lib.c:41).
NumbersExact ==
    /\ q.f = "x" => IsNumeral(out, 16, q.v) /\ (out[1] # Digit(0) \/ Len(out) = 1)
    /\ q.f = "u" => IsNumeral(out, 10, q.v) /\ (out[1] # Digit(0) \/ Len(out) = 1)
    /\ q.f = "#x" => IsNumeral(out, 16, q.v) /\ Len(out) = HexDigits
    /\ q.f = "d" =>
          IF Signed(q.v) < 0
          THEN out[1] = Minus /\ IsNumeral(SubSeq(out, 2, Len(out)), 10, -Signed(q.v))
          ELSE IsNumeral(out, 10, q.v)
=============================================================================
