----------------------------- MODULE FileSystem -----------------------------
(***************************************************************************)
(* The three routines of filesystem.c asked over every small image: what   *)
(* they answer against what the image says.                                *)
(***************************************************************************)
EXTENDS FileOps, SequencesExt

CONSTANTS
    Images,     \* the file system images a boot loader may have loaded
    Names,      \* strings passed to read_dentry_by_name
    Indices,    \* indices passed to read_dentry_by_index
    Offsets,    \* offsets and lengths passed to read_data
    Lengths

VARIABLES
    img,   \* the image
    ask,   \* the last question ...
    ans    \* ... and its answer

vars == <<img, ask, ans>>

\* filesystem_init: the counts and the pointers come from the boot block.
Init ==
    /\ img \in Images
    /\ ask = [call |-> "none"]
    /\ ans = Failed

AskData(inode, offset, length) ==
    /\ ask' = [call |-> "data", inode |-> inode, offset |-> offset, length |-> length]
    /\ ans' = read_data(img, inode, offset, length)
    /\ UNCHANGED img

AskName(str) ==
    /\ ask' = [call |-> "name", str |-> str]
    /\ ans' = [ret |-> read_dentry_by_name(img, str), buf |-> <<>>]
    /\ UNCHANGED img

AskIndex(i) ==
    /\ ask' = [call |-> "index", index |-> i]
    /\ ans' = [ret |-> read_dentry_by_index(i), buf |-> <<>>]
    /\ UNCHANGED img

Return ==
    /\ ask.call # "none"
    /\ ask' = [call |-> "none"]
    /\ ans' = Failed
    /\ UNCHANGED img

Next ==
    \/ /\ ask.call = "none"
       /\ \/ \E i \in 0 .. img.num_inodes, o \in Offsets, n \in Lengths : AskData(i, o, n)
          \/ \E str \in Names : AskName(str)
          \/ \E i \in Indices : AskIndex(i)
    \/ Return

Spec == Init /\ [][Next]_vars

-----------------------------------------------------------------------------
ValidBlock(b) == b \in 0 .. img.num_data_blocks - 1

\* The bytes of a file from an offset on, up to its end or to the first block
\* from there that does not exist.
Rest(inode, offset) ==
    LET ind   == img.inodes[inode]
        Block(k) == ind.datablock_idx[k \div MAX_CHARS_IN_DATA]
        holes == {k \in offset .. ind.file_size - 1 : ~ValidBlock(Block(k))}
        stop  == Min({ind.file_size} \cup holes)
    IN  [n \in 1 .. Max({0, stop - offset}) |->
            <<Block(offset + n - 1), (offset + n - 1) % MAX_CHARS_IN_DATA>>]

\* read_data "reads up to 'length' number of bytes starting from position
\* offset": for every length an int32_t can hold, exactly the bytes of the
\* file from there on, across block boundaries and up to the end of the file;
\* it fails for an "invalid inode number" and when the first byte lies in an
\* "invalid data block" (filesystem.c:436-450).  For a negative length the
\* 32-bit sum of offset and length may wrap; then too the buffer gets bytes of
\* this file only, in order, from the offset on.
ReadDataExact ==
    ask.call = "data" =>
        IF ask.inode >= img.num_inodes THEN ans = Failed
        ELSE LET rest == Rest(ask.inode, ask.offset)
                 here == SubSeq(rest, 1, Min({Len(rest), ask.length}))
             IN  IF ask.length >= WORD \div 2 THEN IsPrefix(ans.buf, rest)
                 ELSE ans = IF rest = <<>> /\ ask.offset < img.inodes[ask.inode].file_size
                               /\ ask.length > 0
                            THEN Failed ELSE [ret |-> Len(here), buf |-> here]

\* What the directory lists can be opened: the name of an entry as dir_read
\* delivers it, of 32 characters or fewer, leads read_dentry_by_name to the
\* first entry of that name, also with a blank and more words behind it.
ListedNamesFound ==
    ask.call = "name" =>
        \A e \in Entries :
            LET name == EntryName(img, e, MAX_NAME_CHARACTERS)
            IN  name # <<>> /\ (ask.str = name \/ IsPrefix(Append(name, " "), ask.str)) =>
                    /\ ans.ret \in 0 .. e
                    /\ EntryName(img, ans.ret, MAX_NAME_CHARACTERS) = name

\* Nothing else is found: a shorter or a longer word is another name, as
\* err_open of ece391syserr.c expects of "helloo" and "shel".
OnlyNamesFound ==
    ask.call = "name" /\ ans.ret # -1 =>
        LET name == EntryName(img, ans.ret, MAX_NAME_CHARACTERS)
        IN  /\ IsPrefix(name, ask.str)
            /\ CharAt(ask.str, Len(name)) \in {" ", NUL} \/ Len(name) = MAX_NAME_CHARACTERS

\* read_dentry_by_index returns "-1 - Failure (invalid index)" for an index
\* that is no entry (filesystem.c:399), but for the first one behind the
\* directory, which "index > MAX_ENTRIES" lets through.
IndexChecked == ask.call = "index" => (ans.ret = 0 <=> ask.index \in Entries \cup {MAX_ENTRIES})
=============================================================================
