------------------------------ MODULE FileOps ------------------------------
(***************************************************************************)
(* The routines of filesystem.c on a file system image.  An image is the   *)
(* boot block's counts, the directory entries and the inodes; the byte at  *)
(* offset k of data block b is the pair <<b, k>>, so that every byte of    *)
(* the image is different from every other.  A string is the sequence of   *)
(* its characters before the terminating zero.                             *)
(***************************************************************************)
EXTENDS Integers, Sequences, FiniteSetsExt

CONSTANTS
    MAX_NAME_CHARACTERS,     \* 32 in the code
    MAX_ENTRIES,             \* 63 in the code
    MAX_INODE_DATA_BLOCKS,   \* 1023 in the code
    MAX_CHARS_IN_DATA,       \* bytes of a data block, 4096 in the code
    WORD                     \* 2^32

ASSUME FileSizes ==
    /\ {MAX_NAME_CHARACTERS, MAX_ENTRIES, MAX_INODE_DATA_BLOCKS, MAX_CHARS_IN_DATA}
           \subseteq Nat \ {0}
    /\ WORD \in Nat
    /\ 2 * MAX_INODE_DATA_BLOCKS * MAX_CHARS_IN_DATA < WORD

NUL    == "nul"
Failed == [ret |-> -1, buf |-> <<>>]

Entries == 0 .. MAX_ENTRIES - 1

\* str[k] of a C string
CharAt(str, k) == IF k < Len(str) THEN str[k + 1] ELSE NUL

\* character_count: the length of an entry's name, which fills its 32 bytes
\* without a zero when it is that long.
create_char_count(img) ==
    [e \in Entries |->
        Min({MAX_NAME_CHARACTERS} \cup
            {k \in 0 .. MAX_NAME_CHARACTERS - 1 : img.entries[e].file_name[k] = NUL})]

\* Mutant of read_dentry_by_name: only a zero ends the name asked for.
read_dentry_whole(img, fname) ==
    LET given == Min({MAX_NAME_CHARACTERS} \cup {k \in 0 .. Len(fname) : CharAt(fname, k) = NUL})
        same  == {e \in Entries :
                    /\ create_char_count(img)[e] = given
                    /\ \A k \in 0 .. given - 1 : img.entries[e].file_name[k] = CharAt(fname, k)}
    IN  IF given = 0 \/ same = {} THEN -1 ELSE Min(same)

\* The entry whose name is the first word of fname, or -1.
read_dentry_by_name(img, fname) ==
    LET given == Min({MAX_NAME_CHARACTERS} \cup
                     {k \in 0 .. Len(fname) : CharAt(fname, k) \in {" ", NUL}})
        same  == {e \in Entries :
                    /\ create_char_count(img)[e] = given
                    /\ \A k \in 0 .. given - 1 : img.entries[e].file_name[k] = CharAt(fname, k)}
    IN  IF given = 0 \/ same = {} THEN -1 ELSE Min(same)

\* 0 when an entry was copied, -1 when not.
read_dentry_by_index(index) == IF index > MAX_ENTRIES THEN -1 ELSE 0

\* The name of entry e as dir_read and print_name deliver it, up to nbytes.
EntryName(img, e, nbytes) ==
    LET len == Min({nbytes, MAX_NAME_CHARACTERS} \cup
                   {k \in 0 .. MAX_NAME_CHARACTERS - 1 : img.entries[e].file_name[k] = NUL})
    IN  [k \in 1 .. len |-> img.entries[e].file_name[k - 1]]

\* Mutant of BlockPart: the last block is read to its end.
BlockPart_to_end(img, inode, block, from, to) ==
    [k \in 1 .. MAX_CHARS_IN_DATA - from |->
        <<img.inodes[inode].datablock_idx[block], from + k - 1>>]

\* What one turn of the block loop of read_data copies.
BlockPart(img, inode, block, from, to) ==
    [k \in 1 .. Max({0, to - from}) |->
        <<img.inodes[inode].datablock_idx[block], from + k - 1>>]

\* buf after all turns of the block loop: chars_read goes on from one to the next.
Joined(parts) ==
    LET buf[n \in 1 .. Len(parts)] ==
            IF n = 1 THEN parts[n] ELSE buf[n - 1] \o parts[n]
    IN  IF Len(parts) = 0 THEN <<>> ELSE buf[Len(parts)]

\* The loop goes from the block of the first byte to the block of the byte
\* behind the last one, and ends early at a block index that is out of range.
read_data(img, inode, offset, length) ==
    LET size        == img.inodes[inode].file_size
        end_search  == Min({size, (offset + length) % WORD})
        start_block == offset \div MAX_CHARS_IN_DATA
        end_block   == end_search \div MAX_CHARS_IN_DATA
        bad  == {b \in start_block .. end_block :
                    img.inodes[inode].datablock_idx[b] > img.num_data_blocks}
        stop == IF bad = {} THEN end_block ELSE Min(bad) - 1
        got  == Joined([n \in 1 .. stop - start_block + 1 |->
                    LET b == start_block + n - 1
                    IN  BlockPart(img, inode, b,
                            IF b = start_block THEN offset % MAX_CHARS_IN_DATA ELSE 0,
                            IF b = end_block THEN end_search % MAX_CHARS_IN_DATA
                                             ELSE MAX_CHARS_IN_DATA)])
    IN  IF inode >= img.num_inodes THEN Failed
        ELSE IF offset >= size \/ length = 0 THEN [ret |-> 0, buf |-> <<>>]
        ELSE IF got = <<>> /\ bad # {} THEN Failed
        ELSE [ret |-> Len(got), buf |-> got]
=============================================================================
