# A TLA+ model of the Linux-Base-Operating-System kernel

The repository is a small x86 teaching kernel (`src/student-distrib`, C and
assembly): three text terminals, up to eight processes, a read-only file system,
a keyboard, an RTC, ten system calls. This directory holds TLA+ modules that model
it, TLC configurations that check them on small instances, and TLAPS proofs that
hold for every number of terminals and processes.

## The system

One CPU, no scheduler: `pit_handler` only acknowledges the timer. Control moves
between terminals in one way: Alt+F1..F3 makes the keyboard handler call
`terminal_switch`, which parks the interrupted thread and continues, or starts, the
other terminal's. Interrupt and exception handlers run with interrupts off
(interrupt gates); system calls enter through a trap gate (`idt.c:85`), so **every
system call can be interrupted, and its terminal parked, between any two
instructions**. Nearly every hazard below comes from that.

### Inventory

| Part | State | Operations | Interacts with |
|---|---|---|---|
| process controller (`syscall.c`) | `in_use`, `process_array`, `current_process`, pcb fields, `extended_status`, `exception_flag` | `pc_init`, `execute`, `halt` | paging, tss, terminals, file system, fd table |
| terminals (`terminal.c`) | `curr_terminal`, `save_buff`, `return_esp` in the pcb | `terminal_switch`, `terminal_read/write/retrieve` | keyboard handler, paging, screen, processes |
| exceptions (`exceptions.c`) | `exception_flag` | `exception_handler` | `halt` |
| paging (`paging.c`) | program page, video mappings | `add_process`, `map_virt_to_phys` | `execute`, `halt`, `terminal_switch`, `vidmap` |
| screen (`lib.c`) | video memory, `screen_x`, `screen_y` | `putc`, `scroll`, `backspace`, `clear` | written from system calls and from the keyboard handler |
| keyboard (`keyboard.c`) | `buffer`, `buffer_index`, modifier flags, `kbdr_flag` | `keyboard_handler` and its helpers, `keyboard_read` | terminals, screen |
| descriptors (`fd_table.c`, `syscall.c`) | `fd_table` of each pcb | `open`, `close`, `read`, `write` | drivers, `execute`, `halt` |
| file system (`filesystem.c`) | read-only image, `character_count` | lookups, `read_data`, file and directory drivers | descriptors, `execute` |
| RTC (`rtc.c`) | `interrupt_flag`, `curr_rate`, register A | `rtc_handler`, `rtc_open/read/write/close`, `set_frequency` | descriptors |
| arguments (`syscall.c`) | `cmd_args`, pcb `args` | `parse_cmd_args`, `getargs` | `execute` |
| PIC (`i8259.c`), timer (`sched.c`), boot (`kernel.c`, `boot.S`, `idt.c`) | masks, gates | initialisation, `send_eoi` | all handlers |

The hard behaviours: a switch key at any instruction of `execute` or `halt`; a
second terminal's system call in the middle of the first's; a return through frames
saved many calls earlier on other stacks; calls that fail halfway; the shared
globals (`extended_status`, `exception_flag`, `kbdr_flag`, `interrupt_flag`,
`curr_rate`, `screen_x`); full tables; and boundary values. `PROJECT.json` lists each
at its line.

### Modules

| Module | Models | Checked by | Proofs |
|---|---|---|---|
| `ProcessControl`, abstract `Processes` | `execute`, `halt`, exceptions, `terminal_switch` as thread switch | `MCProcessControl`, `MCProcessRaces`, `MCKernelStacks` | `ProcessControlProofs`, `ProcessStepProofs`, `ProcessSlotProofs` |
| `KernelStacks` (on `ProcessControl`) | the frames on the kernel stacks, `tss.esp0`, what writes over what | `MCKernelStacks` | |
| `TerminalScreens`, abstract `Screens` | video memory, backup pages, page table, `vidmap`, hardware cursor | `MCConsole` | `SharedScreenProofs` |
| `ScreenOps`, `Screen` | `putc`, `scroll`, `backspace`, `clear`; program output and the edited line | `MCConsole` | `ScreenProofs` |
| `ScreenRace` | `putc` interrupted between its accesses to the cursor | `MCConsole` | `SharedScreenProofs` |
| `Keyboard` | `keyboard_handler`, `keyboard_read`, `terminal_retrieve` on several terminals | `MCConsole` | `KeyboardProofs` |
| `CommandLine` | a typed line through the shell, `execute` and `getargs`; `counter` | `MCConsole` | |
| `Interrupts` | boot order, IDT, 8259 pair, nesting of handlers, switches inside one | `MCServices` | `InterruptsProofs` |
| `Rtc` | RTC driver and Ctrl+4, instruction by instruction | `MCServices` | |
| `UserPrograms` (on `FdTable`) | `syserr`, `cat`, `ls`, `grep` | `MCServices` | |
| `FdTable` | descriptors, system calls, drivers, test keys | `MCFiles` | `FilesProofs` |
| `FileOps`, `FileSystem` | lookups and `read_data` over every small image | `MCFiles` | `FilesProofs` |
| `Library` | string, memory and number routines | `MCFiles` | |
| `Grep`, `Fish` | the search of `grep`, the frame merge of `fish` | `MCFiles` | |

A subject that several modules share is cut by what the properties tell apart.
`terminal_switch` moves threads and slots in `ProcessControl`, pages in
`TerminalScreens`, interrupt state in `Interrupts`, and only changes who is in front in `Keyboard`
and `Rtc`. `UserPrograms` composes programs with the descriptor layer, `FdTable` the descriptor
layer with the file system routines of `FileOps` and with the keyboard handler's test keys,
`CommandLine` the line discipline with the process controller's argument handling.

In every module the definitions commented "Mutant of ..." are variants of a definition with a plausible bug. They are not part of
any specification: `PROJECT.json` names, for each property, the one that breaks it.

### Runs of several parts

The process controller has nine runs of its own (below). The other modules share three: `console`
(`MCConsole`), `services` (`MCServices`) and `files` (`MCFiles`). In these a variable `part`, chosen in the
initial state and never changed, says which module moves; the variables of the others keep one initial value, so the state space
is the sum of the parts and not their product. Each part is a separate question with its own constants, given where
the MC module instantiates the component; where a component is extended, not instantiated, the `.cfg` gives them. A property
of one part holds in the others because its variables rest in an initial state. Fairness is stated per part. Properties that
concern an instance, such as `Kbd!ReadsFreshLine`, appear in the MC module under a name of their own, some of them as the
conjunction of what one component promises:

| Property of a run | Conjunction of |
|---|---|
| `ReadsFreshLine` (`console`) | `TypeOK`, `ReadsFreshLine`, `ReadFits`, `LinesPrivate` of `Keyboard` |
| `LineObeyed` (`console`) | `Obeyed`, `ArgsAsTyped` of `CommandLine` |
| `ControlKept` (`proc_disciplined`) | `EspWasSaved` of `ProcessControl`, and `FramesIntact` as long as the exception it names has not happened |
| `ClockExact` (`services`) | `TypeOK`, `WritesInRange`, `WritesAsAsked`, `ShownIsSet`, `ReadAfterTick` of `Rtc` |
| `ProgramsDeliver` (`services`) | `SyserrPasses`, `ReadersComplete`, `ReadersSucceed`, `ProgramsEnd` of `UserPrograms` |
| `NamesExact` (`files`) | `ListedNamesFound`, `OnlyNamesFound`, `IndexChecked` of `FileSystem` |
| `FramesDrawn` (`files`) | `FramesDrawn`, `NoReadAfterClose` and termination of `Fish` |
| `LibraryExact` (`files`) | `StringsExact`, `ComparisonsAgree`, `BlocksExact`, `MoveExact`, `NumbersExact` of `Library` |

## ProcessControl

Each terminal is one thread of control; only `curr_terminal`'s runs. `pc[t]` names the
stretch of `execute` or `halt` in which thread t stands, cut wherever another terminal
could tell the difference:

| `pc` | code | action |
|---|---|---|
| `user` | user program | `SysExecute`, `SysHalt`, `Exception` |
| `check` | `syscall.c` 166-200 | `ExecuteCheck` |
| `scan`, `claim` | 203-208: one turn of the loop; `in_use[i] = 1` | `ExecuteScan`, `ExecuteClaim` |
| `pcb` | 215-231 | `ExecutePcb` |
| `magic` | 233-247 | `ExecuteMagic` |
| `load` | 249-258 | `ExecuteLoad` |
| `enter` | 260-276, `user_context_switch` | `ExecuteEnter` |
| (entry of halt) | 60-72 | `halt` |
| `free`, `unlink`, `resume` | 74-88; 89; 91-107 | `HaltFree`, `HaltUnlink`, `HaltResume` |
| any, interrupts enabled | `terminal.c` 44-110 | `SwitchFirst`, `SwitchBack`, `SwitchLost` |

Abstractions. A command line is one of three kinds of file: missing (or a name too
long, or not a regular file), a text file, an executable. A saved ESP is the pair
(process whose user code lies below the frame, kernel stack the frame is on); once control
has returned through it, it is `NoFrame`, because what it points at is gone. A kernel stack is
the process it belongs to. `loaded[p]` is the process whose program physical page p holds.
`wild` becomes true when control would go through a pcb field in which no frame was
saved, or through `process_array[-1]`; what the machine does then is undefined and not
modelled. Whether the frame a saved ESP points at is still there is the subject of `KernelStacks`. `running`, `owner` and `due` are history variables: what really runs, whose chain a
slot is in, what status is owed.

**Windows.** In five stretches of kernel code a switch key does damage: the start of a terminal's
first shell (`first`), the replacement of a base shell (`restart`), between the test and the mark of a
slot (`claim`), between freeing and unlinking (`free`), and while the status is in its global
(`status`). The constant `OpenWindows` says in which of them a key may arrive. The code protects none
of them. A run with a window closed says what holds as long as no key arrives there, and nothing about a machine on which one
does; what holds with all of them open is the subject of `proc_races`.

**Kernel stacks.** `KernelStacks` takes every action of `ProcessControl` as it is and joins to it what the action does to the frames,
which have an order on each stack. The kernel is entered at `tss.esp0`. `execute` and `terminal_switch` set that to the top of the
process's own stack; `halt` sets it to the parent's `current_esp` (`syscall.c:95`), just below the frame of the `execute` that started
the parent, on whatever stack that frame is. A terminal's first shell starts below the frames the switch key interrupted. So one stack
may hold frames of several threads, and the running one may write over those below it (`Trample`: the depth of a call is not
modelled, so it may happen or not). `astray` becomes true when ESP is loaded with the address of a frame that is gone. `guest`
is history: a base shell was resumed with `tss.esp0` on another process's stack.

### Runs

| Run | Instance | Shows |
|---|---|---|
| `proc_disciplined` | 2 terminals, 4 slots, windows closed, executables and missing files, statuses 0 and 511; 1,469,700 states | the books of the controller; frames stay intact until `halt` resumes a base shell with `tss.esp0` on another process's stack (`ControlKept`). Once that has happened the frames are left out (`DisciplinedNext`) and only the other properties go on |
| `proc_leaky` | 2 terminals, 4 slots, text files, the windows `first` and `status` open; 1,790,000 states | also with calls that fail halfway, the process controller implements `Processes` |
| `proc_races` | 2 terminals, 3 slots, all windows open, at most 4 switch keys (`MaxSwitches`); 389,459 states | whatever happens, user code runs on the memory of the current process; calls come to an end |
| `proc_text_file`, `proc_shell_fault`, `proc_kernel_stack` | windows closed | violations: the code disagrees with its comments without any race |
| `proc_claim_race`, `proc_restart_race`, `proc_status_race` | one window open | violations: what one switch key in that window does |

`Processes` is what the controller promises: a stack of processes for each terminal, of which `execute` and `halt` move only
the top of the stack in front, and a switch key none. In the mapping (`Abstract`) the top is `current_process`, the stack of a
slot is that of its `owner`, and the process below is `parent_id`, for a slot that is in a chain. A text file's
`execute` pushes a process that never starts: the stacks stay stacks, which is why the refinement
holds in `proc_leaky` while `UserSeesItself` fails in `proc_text_file`.

Bounds. Two terminals have every interaction of three: the properties relate the running
terminal and one other, and all switches are between two. Four slots leave two for children, so
both terminals can compete for the last one, one terminal can have a chain of three, and the table fills.
With the windows open every key may corrupt a chain, hence 3 slots and at most 4 keys: enough to
leave and re-enter each terminal twice. 511 does not fit in the `uint8_t` of `halt`.

Fairness. `KernelCallsReturn` assumes weak fairness of the running thread's kernel steps: the
processor executes the next instruction, and handlers return (they contain no wait). Switch
keys and user programs are not assumed to act.

### Findings

* `execute` of a text file leaves `current_process` on a process that never started, and the slot
  marked, because the magic numbers are compared after the pcb is filled (`syscall.c:226,236`).
* A fault of a base shell leaves `exception_flag` set; the next `halt(s)` reports s + 1 (`syscall.c:65-72`).
* `halt` points `tss.esp0` into the stack the parent was started from (`syscall.c:95`). When that is another terminal's, a shell parked there is written
  over, and the switch back to it loads ESP with the address of frames that are gone (`FramesIntact`).
* Three races of a switch key with `execute` and `halt` (`syscall.c:204`, `66`, `71`).

With the window `first` or `free` open TLC also finds an ESP loaded that was never saved (`EspWasSaved`), and with `free` open
slots unaccounted for and broken chains (`SlotsAccounted`, `ClaimsExclusive`, `ChainsWellFormed`,
`FirstSlotsAreTerminals`). No comment of the code speaks of a switch at these points, so they are listed as hazards only.

### Proofs

For every `MAX_TERMINAL >= 1` and `MAX_PROCESSES > MAX_TERMINAL` (`SizesAssumption`), any set of
programs and statuses (`EnvironmentAssumption`):

| Theorem | Property | Hypotheses |
|---|---|---|
| `TypeCorrect` | `TypeOK` | none |
| `PageSafe` | `PageFollowsCurrent` | no text files |
| `StatusSafe` | `StatusFaithful` | windows `free` and `status` closed, base shells do not fault |
| `SlotsSafe`, `ClaimsSafe`, `FirstSlotsSafe`, `ChainsSafe`, `ParkedSafe`, `OthersSafe` | `SlotsAccounted`, `ClaimsExclusive`, `FirstSlotsAreTerminals`, `ChainsWellFormed`, `ParkedThreadsKept`, `OthersUntouched` | windows `restart`, `claim` and `free` closed |
| `ProcessesRefined` | `ImplementsProcesses` | the same |
| `UserSafe` | `UserSeesItself` | the same, no text files |
| `EspSaved` | `EspWasSaved`, the first half of `ControlKept` | the same, no text files, window `first` closed |

Where the hypotheses come from: "no text files" is `"text" \notin Programs` (`proc_text_file` violates `UserSeesItself` without it);
`proc_shell_fault` and `proc_status_race` violate `StatusFaithful`, `proc_claim_race` `ClaimsExclusive` and `proc_restart_race`
`FirstSlotsAreTerminals`; for `first` and `free` see Findings. The theorems that rest on one invariant share its hypotheses; it is not claimed
that each of them needs every one.

* `TypeCorrect` (`ProcessControlProofs`). `TypeOK` is not inductive: `execute`
  indexes with `slot[t]`, which ranges over `0 .. MAX_PROCESSES`, and with `current_process[t]`, which may be -1.
  `TypeAux` says at which `pc` they are in range (a thread past the search has a slot; a thread that can
  get back to user code has a process and a stack). `TypeInv` is their conjunction; one step per action.
* `PageSafe` (`ProcessControlProofs`), with every window open: `PageInv` says for each thread, parked ones included, at
  which `pc` its terminal's current process is loaded in its own page (`PageThread`), and for the
  thread in front that the page is mapped. A parked thread maps it again when it is resumed.
* `StatusSafe` (`ProcessControlProofs`): `StatusInv` says that no exception is pending between
  steps and that a thread inside `halt` is in front, with the status it owes in `extended_status`. No switch key may therefore find a
  thread inside `halt`, which is where the two windows enter (`InterruptOutsideHalt`).
* The theorems of `ProcessSlotProofs`. The properties are not inductive one by one. `IInv` in `ProcessStepProofs` is: next to
  `TypeInv` it says
  - that a parked thread is *settled* (`ParkedInv`): not between finding and marking a slot, not between
    freeing and unlinking one, not looking for its base slot. This is where the hypothesis on the windows enters
    (`InterruptSettled`);
  - what a thread knows at each `pc` (`ThreadInv`): a user's `execute` that found slot i found it above the
    terminals and in no chain; a base shell finds exactly its terminal's slot, because every lower one is marked;
  - that an unmarked slot in a chain is the running thread's own (`SlotInv`), so the search of another terminal cannot
    find it;
  - that claims are pairwise different, that `current_process[t]` is owned by t, and that the links by `parent_id`
    stay within a terminal, are injective, and never lead to the current process (`ClaimsApart`,
    `CurrentOwned`, `LinkInv`, `ParentsApart`). The last is what lets `halt` unlink the current process without
    breaking a link.

  There is one lemma per action: those of `execute` and `halt` in `ProcessStepProofs`, those of `terminal_switch` in
  `ProcessSlotProofs`, where `SlotStep` puts them together. `OthersSafe` follows from `IInv` by naming the one slot each action writes
  to (`OwnSlots`, `KeptFrame`).
* `ProcessesRefined`: the initial state maps to the abstract one; `ExecutePcb` is a push
  of a slot that by `IInv` is on no stack, or replaces a base shell by itself, which does not show (`PcbPushes`), `HaltUnlink` is a pop (`UnlinkPops`: the
  current process has a parent when `halt` gets there), a switch shows another stack, and all others stutter (`StacksKept`).
* `UserSafe` and `EspSaved` add `FrameInv` to `IInv` and `PageInv`: which processes have a saved frame, that
  it leads to the parent's code (`FrameSlot`), and whose user code a thread in the kernel goes back to
  (`FrameThread`). `EspSaved` shows from it, action by action, that each
  jump through a pcb finds an ESP saved for the thread that jumps. That the frame is still intact is not part of it, and is not true in general.

Only model-checked: liveness (`KernelCallsReturn`), which is out of the prover's reach, and the frames of `KernelStacks`, for which no inductive
invariant has been worked out.

## TerminalScreens

State: the physical pages (`mem`: video memory and one backup per terminal), the entry behind each
terminal's virtual video page (`user_page_table`), the pointer a program got from `vidmap`, each
terminal's writing position and the VGA cursor registers. `terminal_switch` runs with interrupts off and is one
step (`terminal.c` 44-110: remap, two copies, remap, cursor); `putc` and `vidmap` are cut where a
switch key can come in.

`console`, part `screens` (three terminals, one cell of two values, two cursor positions): the hardware cursor follows the terminal
in front (`CursorShown`), and the whole implements the abstract specification `Screens`, one private screen per terminal, under the
mapping "video memory for the terminal in front, the backup page for the others" (`ImplementsScreens`). One cell is enough because
copies treat cells alike.

`SharedScreenProofs` proves, for every number of terminals, cells and values, `ScreenInvariant` (`PagesOwned`, `PointerUsable`,
`CursorShown`) and `ScreensRefined` (`ImplementsScreens`). The inductive invariant `ScreenInv` is these three, the types, and
`PointersOwn`: without the last a step through a pointer could draw on another terminal's page.

## Screen and ScreenRace

`ScreenOps` gives each output routine of `lib.c` as a function of a screen (cursor, cells of the 4 KiB page, and
`wild` for a store outside it). `Screen` runs program output, echo, backspace, Enter and Ctrl+L in any order.

`console`, part `text` (3 rows of 2 columns, a page one cell larger, lines of at most 3, texts of at most 6 characters,
newlines included: enough to wrap and to scroll): cursor and stores stay in bounds (`CursorInBounds`), the typed line is what stands before the cursor
(`LineShown`), and the screen shows the last rows of the text as a sheet without a last row would (`TextLaidOut`).

`ScreenProofs` proves the three for every size of screen, page and line buffer, from `ScreenSizes` (the screen fits in the page):

* `CursorSafe`: `SInv` adds to `CursorInBounds` the shape of the screen record and that the line is a sequence. Each routine has a lemma
  (`putcKeeps`, ...). Ctrl+L prints a string of any length; `putsKeeps` is an induction written as a least counterexample (`LeastNatural`).
* `LineSafe` (`LineShown`), when no key without a character is typed (`DeadKeys = {}`, see Observations) and the longest line leaves
  a row to spare (`BUFFER_SIZE + NUM_COLS <= NUM_COLS * NUM_ROWS`; 128 on 80 x 25 in the code). `LineInv` says that the characters of
  the line stand in the cells before the cursor.
* `TextSafe` (`TextLaidOut`, which speaks of texts without a backspace since the last Ctrl+L), without hypotheses: `TextInv` says, next to what is on the screen, where the cursor is.

`ScreenRace` takes `putc` apart into its loads and stores (the Makefile compiles without optimisation) and lets the
handler's output run in between. Part `race`: when no `putc` is in progress, and no store
has left the page and faulted, the row is on the screen and the column at most one past the wrapping one (`RestsInBounds`). `SharedScreenProofs` proves it for every size of screen and page and any number of interruptions (`RaceRestsInBounds`),
from `KeyOpsAssumption`: the handler's output is echo, backspace, Enter or Ctrl+L. `RestsInBounds` speaks of the idle state only; `BoundsInv` gives, for
each access of `putc`, the rows and columns in which the cursor can then be and what the register that was loaded can hold. The
row is one above the screen or one below it at a few accesses, and each handler routine maps the range of an access into itself. What the race does to the text is not stated: no document promises anything.

## Keyboard

One action per key, because the handler has interrupts off; `keyboard_read` is cut into clearing the flag, polling
and copying byte by byte. Any key may come at any point. `held` and `locked` are history (the keys that are down), and so is what the properties
need to say exactly where the code departs from its comments: `stale` (a terminal's shift flag was left behind by a second shift key, or by a
switch with one down), `since` and `before` (the lines finished since a read began, and the one it found), `stray` (Enter on
another terminal set the flag a reader waits for), `torn` (Enter came during its copy), `erased` (a read elsewhere cleared the flag of its line).

* `ReadsFreshLine`: a read returns one whole line that its own terminal finished since the call; or the line from before the call, and then Enter
  elsewhere had set the shared flag; or bytes of such lines, each in its place, and then Enter came during the copy. It returns no
  more than was asked for, but for a newline behind a line that fills the buffer (`ReadFits`), and keys and reads touch the terminal in front only (`LinesPrivate`).
* `FlagsFollowKeys`: Ctrl and Caps Lock are exact; `alt_flag` is on while Alt is held, and stays on after it; shift is exact on every terminal that is not `stale`.
* `LineReachesReader`: a line finished while a reader waits reaches it, if the user keeps coming back to its terminal and no read
  elsewhere clears the shared flag first.

`console` has four parts, each with two terminals and at most two Enters (`MaxLines`): `lines` (switches, letters and Enter; lines of up to two keys, as
long as the reader's buffer), `modifiers` (both shift keys, Ctrl, Alt, Caps Lock and every kind of key they bear upon), `edited` (blanks, backspace and `exit`; lines of
up to three keys, longer than the reader's buffer) and `unmapped` (keys without an entry in the key map). Two terminals show who takes whose
Enter of the shared flag; two Enters are a stale line and a fresh one, or the two that a copy mixes.

`KeyboardProofs` proves the two safety properties for every number of terminals, every size of the line buffer and of the reader's (at least 1: `Sizes`), and every set of keys, with
no restriction on when a key is pressed:

* `FlagsAreKeys` (`FlagsFollowKeys`), which is inductive together with the types.
* `ReadsAreFresh` (`ReadsFreshLine`, with `ReadFits` and `LinesPrivate`). `ReadInv` says that the saved line is the last one typed or the one the
  read found (`LastSaved`), that a raised flag means a line on offer for every reader that waits (`FlagIsKnown`), and, for each stage of
  `terminal_retrieve`, how much has been skipped and copied: exactly as long as no Enter has come in between (`Skipped`, `Copied`), byte by byte in
  place after it (`Gathered`). Without `FlagIsKnown` a reader could leave its poll with no line to give.

Fairness: strong fairness of the thread of each terminal while it is in front, that is, the processor runs the code it is in; no
key is assumed to be pressed.

## CommandLine

Strings are short sequences over one letter, blank and the word `exit`. A line goes through `terminal_retrieve`,
`keyboard_read`, the shell's `main`, `parse_cmd_args`, the file name loop of `execute`, `strcpy` into the pcb, and
`getargs`. Pcbs are reused and never cleared. `console`, part `typed`, takes every line of up to 5 letters and blanks with `TERM_BUFF_SIZE` 6 and
`FILE_NAME_LENGTH` 3, so that names and lines reach their limits; part `nested` takes two slots, programs that start programs, and lines that leave arguments behind.
`getargs` is called with buffers smaller than, as large as and larger than `args`.

`LineObeyed` compares what the shell does with a reference that splits a line into words (`Obeyed`), and what `getargs` gives with what was typed
(`ArgsAsTyped`). Three departures of `getargs` from its comments are part of the statement: it fails for every buffer not larger than `args`; trailing
blanks stay when an earlier program's bytes lie behind them; and with no arguments and nothing left behind, the trimming goes below
the buffer. `counter` takes no answer at all for a choice, since the newline makes it two characters.

## FileOps, FileSystem, FdTable, UserPrograms

`FileOps` has the routines of `filesystem.c` on an image whose bytes are all different. `files`, part `data`, compares `read_data` with
the bytes the inode names (`ReadDataExact`), for files of up to two blocks of three bytes, offsets and lengths of 0 to 7, and two lengths that
are negative in a word of four bits, and for an inode number out of range; part `directory` compares the lookup with the directory for every two names of up to two
characters, and the lookup by index with the entries there are, one index too many being accepted (`NamesExact`).

`FdTable` is one terminal: a stack of descriptor tables, the running process's on top. A handler never touches a slot in use, so only
the four stores of `set_fd_info` inside an open, whose slot still looks free, are separate steps. The test keys
Ctrl+1, 3 and 4 run inside the interrupted process and use its table. Part `calls` (two processes, two free slots each, no keys) and part
`keys` (one process, keys at every point of every call) check that descriptors deliver files in order whatever else is done
(`ReadsInOrder`), that children leave their parents' tables alone (`ParentsUntouched`), that `open` takes a free slot or fails for a
reason, and fills that slot and no other (`OpenFillsSlot`; the stores made before a test key comes are lost, and the statement says which), that a test key leaves the table as
it found it but for the slot an interrupted open is filling (`KeysLeaveTable`) and that its handler ends (`HandlerEnds`; weak fairness
of the handler's steps, since nothing can hold it up with interrupts off). With every descriptor in use Ctrl+1 goes on with descriptor -1, whose position is
read from the argument array (`ArgBytes`). The runs take 0, what memory never written holds, with which the handler never ends, and
`HandlerEnds` says so. Its clause for bytes past the last entry is idle there; `files` with `ArgBytes = 9` in the `.cfg` exercises it, and
passes as well (no run of its own).

`FilesProofs` proves, for every number of descriptors and processes, every image and every window of the test keys, from `FdAssumption`:
`DescriptorsKept` (`StandardDescriptors`, `ParentsUntouched`), `ParentsSafe`, `KeysSafe` (`KeysLeaveTable`) and `OpenSafe` (`OpenFillsSlot`). The properties
are not inductive: `SlotInv` says that a slot that is off is empty, but for the one an open is filling, and what of the open's stores is in that one (`OpenInv`); `DInv` adds that an open in progress owns a slot above the standard ones, and that while Ctrl+1 reads the directory
the table differs from what the handler found only in a slot that was free (`OwnerInv`). `Kept` lists the five things an action may
do to the stack of tables; one lemma per action shows that it does one of them.

About `read_data`, `FilesProofs` assumes of the image (`ImageOK`) that entries of files name an inode that exists, that a file fits in the block list of its inode,
and that `read_data` accepts the blocks that hold its bytes:

* `ReadExact`: from every offset and for every length, `read_data` copies exactly the bytes up to the end of the file or of the buffer,
  and returns their number; when the 32-bit sum of offset and length wraps, the wrapped sum is where the read ends, so it may copy nothing.
  The joining of the blocks (`Joined`) is an induction written as a least counterexample (`JoinedBytes`, `LeastOf`).
* `ReadsSafe` (`ReadsInOrder`), with `Lengths \subseteq Nat`. `ReadInv` is `DInv` with `OrderInv` (what a slot in use delivered is the file up to
  its position, or the first names of the directory; the slot through which Ctrl+1 reads is exempt) and `OpeningInv` (the slot
  an open fills is off and, as far as it is filled and no test key has closed it, says what the open wants). Without `OpeningInv` the
  store of the flag, which puts the slot in use, could not be shown to keep `OrderInv`.

About the lookup, for every image and string, it proves the two directions of `NamesExact` as theorems on `read_dentry_by_name`:
`ListedNamesOpen` (the name of an entry, alone or followed by a blank and more words, leads to an entry of that name; the name must hold no blank, since the
lookup stops at the first one) and `OnlyNamesOpen` (what is found has the first word of the string, or its first 32 characters, as its name).

`UserPrograms` runs the self-test `ece391syserr`, `cat`, `ls` and `grep` as clients on `FdTable`, with test keys between their
calls. `services`, part `users` (5 entries, files of 0, 5 and 6 bytes, a buffer of 2): every test of `syserr` that concerns the kernel
passes, readers deliver whole files and end with status 0, and programs end, but for a `syserr` that Ctrl+1 stops while it has every descriptor open (`ProgramsDeliver`). Strong fairness of a program's
step: it is interrupted by handlers again and again, and goes on after each.

## Rtc

`set_frequency` is cut at every load and store of the shared `curr_rate`, a byte (`RATE_WORD`), as the unoptimised build does it; register C must be read for the next
interrupt to come. `curr_frequency` is left out: it is stored, one table entry off, and never read. `disturbed` is history: who stored to `curr_rate` during a thread's call. A crossed
call may write rate 0, which turns the interrupt off, or set a bit of the divider above the rate (`divider`); `Silent` says that one of these has happened.

`services` has three parts for it. In `rates` one terminal is in front, sets frequencies (the default, no power of two, an allowed one and a forbidden one, from a table of 6 of
which the first two are too high), and Ctrl+4 comes at every point. In `crossing` one terminal sets frequencies and another opens the clock, with switches at every
point; in `reads` both open it and wait for interrupts. In the last two the table has 2 entries, and no further call is begun once the chip has left its first
rate (`FewSets`), which bounds the state space; two crossed calls are enough for 0, for the divider and for a rate out of range.

Every write of the chip's register is in range, also with Ctrl+4 in between, unless another thread's `set_frequency` has crossed the call; an undisturbed call leaves
the frequency asked for; what Ctrl+4 shows is set; and no read returns before a tick (`ClockExact`). A read that stays in front returns, or the chip is `Silent`
(`ReadReturns`). Fairness: the processor runs the thread in front, the clock ticks while its interrupt is on, the handler is
delivered. That opening the RTC sets 2 Hz for every terminal is by design and no comment says otherwise, so it is listed as a
hazard without a property.

## Interrupts

The boot is the list of `entry`'s initialisers, from any mask the BIOS may leave. After it, each terminal has
a kernel stack of frames (system call, exception, handler), each with the saved interrupt flag. The two 8259s are external hardware: request, in-service and mask
bits with their priorities. A switch suspends a keyboard handler, after its end of interrupt, on the old stack and
continues the frame on top of the other.

`services`, part `delivery` (two terminals, two suspended handlers and one child per stack; the lines with a handler, the cascade and line 3, which nobody
unmasks): an enabled line has its handler behind its vector (`GatesReady`), no line stays in service once interrupts are on (`NothingInService`), user code
is always interruptible (`UserInterruptible`), and every request is delivered (`RequestServed`), under weak fairness of the kernel's steps and
strong fairness of each delivery (a higher line may come first, but not for ever).

`InterruptsProofs` proves the three safety properties (`DeliverySound`; `GatesSafe` and `UserSafe` for two of them alone) and the types
(`InterruptTypes`) for every set of terminals and lines and every nesting. The inductive invariant says that every saved flag is on, and
that interrupts are off only under a frame of a handler or exception on top of the running stack, whose lines are the only ones in service. That is
what makes a switch harmless: the frame it resumes has no line of its own.

## Library, Grep, Fish

Sequential code, checked in `files` against what it is for. Part `library` (`LibraryExact`): `memset`, `memcpy` and `memmove` at every alignment and overlap in
12 bytes, `memset` with more than a byte too, comparisons and copies of all strings of up to three characters, one of them negative as the `int8_t` of `lib.c` (whose
`strncmp` orders it before the others, the programs' after them; both agree on equality), number conversions for every 12-bit number and base. Part `grep`
(`PrintsMatches`): a buffer of 3 and every file of up to 7 bytes, so that pieces end in lines, at newlines and inside occurrences; lines that fit the
buffer are printed whole, once and in order. `data[line_end]` may be a byte that was never written; the run tries several values but not a
newline, for which a line would be split, which no comment excludes. Part `fish` (`FramesDrawn`): every pair of frames of up to three bytes; each
inked place is drawn once, no closed file is read, and the loop ends (weak fairness: one thread that runs).

## What is proved and what is only checked

Proved for all constants, under the hypotheses given with each theorem: every safety property of `ProcessControl`'s passing runs, of `ControlKept` the half about saved ESPs, and its refinement
of `Processes`; invariants and refinement of `TerminalScreens`; bounds, line and text of `Screen`;
`RestsInBounds` of `ScreenRace`; `FlagsFollowKeys` and `ReadsFreshLine` of `Keyboard`; `ReadsInOrder`, `ParentsUntouched`, `OpenFillsSlot` and
`KeysLeaveTable` of `FdTable`, `read_data` and the lookup of names; the safety of interrupt delivery.

Only model-checked:

* all liveness (`KernelCallsReturn`, `LineReachesReader`, `HandlerEnds`, `ReadReturns`, `RequestServed`, the ends of programs and of `fish`): the prover
  has no rule for fairness;
* `Library`, `Grep`, `Fish` and `CommandLine`, where the result of a loop over data is compared with a reference: an
  induction over data for each loop;
* `KernelStacks`, `Rtc` and `UserPrograms`, for which no inductive invariant has been worked out.

## Observations

Places, met while modelling, where the code and its comments part. The models follow the code there. Where a property bears on one of
them, its statement says what the code does in that case; the rest are kept out of a run by its constants (keys without a character in `text`, block index `num_data_blocks` in `data`). None is stated as a violation.

| Source (`src/student-distrib`) | What the code does |
|---|---|
| `keyboard.c:438` | Ctrl+L prints the line up to the first zero byte, which every key without a character stores |
| `lib.c:174` | `putc` increments `screen_y` before testing it; a key in between is echoed below the last row |
| `keyboard.c:55`, `49` | one `kbdr_flag` for all terminals: an Enter elsewhere releases a read with an old line, a read elsewhere erases an Enter |
| `terminal.c:209` | an Enter during the copy of `save_buff` gives bytes of two lines |
| `keyboard.c:64` | the newline is stored at `buf[nbytes]` when the line fills the buffer; it also makes `counter` refuse every number |
| `keyboard.c:336`, `383` | no break code for Alt, which stays on; both shift keys share one bit |
| `filesystem.c:492`, `406` | block index `num_data_blocks` and directory index 63 are accepted |
| `filesystem.c:66` | with a full table `print_file_info` goes on with descriptor -1, and may not end |
| `filesystem.c:268` | a failed read moves the position back by one |
| `fd_table.c:141` | a test key inside an open takes and closes the same slot, which is then in use with a NULL jump table |
| `rtc.c:112`, `123` | two terminals in `set_frequency` share `curr_rate` and can leave the chip without its interrupt; the frequency saved is one entry off and never read |
| `exceptions.c:159` | an exception ends in `halt(255)`; the comment at line 53 says it loops for ever |
| `syscall.c:461`, `455` | `getargs` trims from the end of an uncleared buffer, below its start when it is empty, and fails for every `nbytes` up to 128 |

## Not modelled

* The parsing of multiboot data, GDT, LDT, TSS and page directory layouts, `enablePaging` and the 8259 initialisation words: straight-line set-up of
  hardware, with no second actor and no state that changes later.
* The time-of-day functions of `rtc.c` behind "IGNORE STUFF BELOW", and the scheduler in comments in `sched.c`: never called.
* `printf`'s scanning of its format and the text of messages: no property is about them.
* Exceptions raised by kernel code: what the kernel does then depends on where it was, on the hardware's frame and on memory that is already wrong.
* `set_handler` and `sigreturn` (they return -1), and the programs `sigtest`, `hello`, `pingpong`, `testprint`, which only print or ask for signals;
  `emulate`, which replaces the kernel on another system; `blink.S` of `fish`; the image tools.
