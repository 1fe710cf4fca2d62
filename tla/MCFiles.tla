------------------------------ MODULE MCFiles ------------------------------
(***************************************************************************)
(* Files as programs get them, one part in each behaviour: the descriptor  *)
(* calls and the test keys (FdTable), the lookups and reads of the file    *)
(* system, asked every question of a small domain (FileSystem), what grep  *)
(* and fish do with the bytes they read (Grep, Fish), and the string,      *)
(* memory and number routines of programs and kernel (Library).  The parts *)
(* that are not in a behaviour stay in one initial state.                  *)
(***************************************************************************)
EXTENDS FdTable, SequencesExt

VARIABLES
    part,                                                   \* the part in this behaviour
    fsimg, ask, ans,                                        \* FileSystem
    q, out,                                                 \* Library
    file, search, fill, printed,                            \* Grep
    frame, pos, c, eof, closed, row, col, blinks, fpc       \* Fish

svars == <<fsimg, ask, ans>>
lvars == <<q, out>>
gvars == <<file, search, fill, printed>>
fvars == <<frame, pos, c, eof, closed, row, col, blinks, fpc>>

-----------------------------------------------------------------------------
Entry(name, type, inode) ==
    [file_name |-> [k \in 0 .. MAX_NAME_CHARACTERS - 1 |-> CharAt(name, k)],
     file_type |-> type, inode_idx |-> inode]

\* A directory and a file of four bytes in two blocks.  Behind the only inode lie
\* other blocks, which would look like one.
GoodImage ==
    [num_entries |-> 2, num_inodes |-> 1, num_data_blocks |-> 2,
     entries |-> [e \in Entries |-> IF e = 0 THEN Entry(<<".">>, 1, 0)
                                    ELSE Entry(<<"f", "g">>, 2, 0)],
     inodes |-> [i \in {0, 1} |->
                    [file_size |-> 4, datablock_idx |-> (0 :> 1) @@ (1 :> 0) @@ (2 :> 0)]]]

FileNames   == {<<".">>, <<"f", "g">>}
Descriptors == -1 .. MAX_OPEN_FILES

\* Every directory of two names of up to two characters, duplicates included,
\* and every file of up to two blocks of three bytes.  The words of its block
\* list, and the one that follows them in memory, are in range (0, 1) or beyond
\* (3); 2, the number of blocks, is one the code takes for a block.
Named(names, size, blocks) ==
    [GoodImage EXCEPT !.entries = [e \in Entries |-> Entry(names[e], 2, 0)],
                      !.inodes[0] = [file_size |-> size, datablock_idx |-> blocks]]

DataImages == {Named([e \in Entries |-> <<>>], s, d) : s \in 0 .. 6, d \in [0 .. 2 -> {0, 1, 3}]}
NameImages == {Named(names, 0, [b \in 0 .. 2 |-> 0]) :
                  names \in [Entries -> BoundedSeq({"a", "b"}, MAX_NAME_CHARACTERS)]}

\* Every offset and every length up to one past the longest file, and two lengths
\* that are negative in a word of four bits.
Short == 0 .. 7

Data == INSTANCE FileSystem WITH Images <- DataImages, img <- fsimg, Names <- {}, Indices <- {},
    Offsets <- Short, Lengths <- Short \cup {9, 15}

\* Every string up to two characters longer than a name, every index up to the
\* first that is refused.
Directory == INSTANCE FileSystem WITH Images <- NameImages, img <- fsimg,
    Names <- BoundedSeq({"a", "b", " "}, MAX_NAME_CHARACTERS + 2), Indices <- 0 .. MAX_ENTRIES + 1,
    Offsets <- {}, Lengths <- {}

\* 12-bit words (three hexadecimal digits), a memory of three double words,
\* strings of up to three of two letters, one of them
\* negative as an int8_t; memset is given bytes and more than a byte.
Lib == INSTANCE Library WITH WordBits <- 12, MemSize <- 12, Bytes <- {1, 200},
    MaxLen <- 3, Fills <- {0, 200, 456}

\* A buffer of three bytes and files of up to seven: three reads and more.
Grepper == INSTANCE Grep WITH BUFSIZE <- 3, Letters <- {"a", "b"}, MaxFile <- 7,
    Searches <- {<<"a">>, <<"a", "b">>, <<"b", "b", "a">>}, Fillers <- {"a", "zero"}

\* Every pair of frames of up to three bytes: rows and files of different
\* lengths, empty ones, with and without a newline at the end.
Drawer == INSTANCE Fish WITH Ink <- {"x"}, MaxFrame <- 3, pc <- fpc

-----------------------------------------------------------------------------
\* The descriptor calls of two processes without a test key, or of one process
\* with test keys at every point.
Parts == {"calls", "keys", "data", "directory", "library", "grep", "fish"}

FilesInit ==
    /\ part \in Parts
    /\ Init
    /\ fsimg \in CASE part = "data" -> DataImages
                   [] part = "directory" -> NameImages
                   [] OTHER -> {GoodImage}
    /\ ask = [call |-> "none"] /\ ans = Failed
    /\ Lib!Init
    /\ Grepper!Init
    /\ frame \in IF part = "fish" THEN [Drawer!Sides -> Drawer!Frames]
                 ELSE {[i \in Drawer!Sides |-> <<>>]}
    /\ Drawer!Init

FilesNext ==
    /\ UNCHANGED part
    /\ \/ /\ part \in {"calls", "keys"} /\ Next
          /\ IF part = "calls" THEN key' = "none" ELSE Len(tables') = 1
          /\ UNCHANGED <<lvars, gvars, fvars, svars>>
       \/ part = "data" /\ Data!Next /\ UNCHANGED <<vars, lvars, gvars, fvars>>
       \/ part = "directory" /\ Directory!Next /\ UNCHANGED <<vars, lvars, gvars, fvars>>
       \/ part = "library" /\ Lib!Next /\ UNCHANGED <<vars, gvars, fvars, svars>>
       \/ part = "grep" /\ Grepper!Next /\ UNCHANGED <<vars, lvars, fvars, svars>>
       \/ part = "fish" /\ Drawer!Next /\ UNCHANGED <<vars, lvars, gvars, svars>>

\* The fairness of FdTable and of Fish.
FilesSpec ==
    /\ FilesInit
    /\ [][FilesNext]_<<part, vars, svars, lvars, gvars, fvars>>
    /\ WF_vars(Handler)
    /\ WF_fvars(part = "fish" /\ Drawer!Work)

-----------------------------------------------------------------------------
\* read_data gives the bytes the inode names, from any offset, for any length.
ReadDataExact == Data!ReadDataExact

\* What the directory lists can be opened, and no other string leads
\* read_dentry_by_name to an entry; an index is refused from one past the first
\* that is no entry.
NamesExact == Directory!ListedNamesFound /\ Directory!OnlyNamesFound /\ Directory!IndexChecked

\* grep prints the lines that contain the string, each once and whole.
PrintsMatches == Grepper!PrintsMatches

\* add_frames of fish returns, has then drawn exactly the places with ink in one
\* of the frames, and reads no file that it has closed.
FramesDrawn ==
    /\ [](Drawer!FramesDrawn /\ Drawer!NoReadAfterClose)
    /\ part = "fish" ~> fpc = "done"

\* The routines of the library do what their names say, on every small input:
\* lengths, copies and reversals of strings; the order of two strings, which
\* kernel and programs see the same way but for bytes of 0x80 and more; memset,
\* memcpy and memmove on blocks at every alignment
\* and overlap; the numeral of every number in every base.
LibraryExact ==
    /\ Lib!StringsExact
    /\ Lib!ComparisonsAgree
    /\ Lib!BlocksExact
    /\ Lib!MoveExact
    /\ Lib!NumbersExact
=============================================================================
