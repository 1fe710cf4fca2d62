--------------------------- MODULE ProcessControl ---------------------------
(***************************************************************************)
(* The process controller: execute and halt (syscall.c), terminal_switch   *)
(* (terminal.c), the exception path into halt (exceptions.c) and the       *)
(* hardware state they hand over: the program page (paging.c) and          *)
(* tss.esp0.                                                               *)
(*                                                                         *)
(* There is one CPU and no scheduler: pit_handler only acknowledges the    *)
(* timer.  Every terminal is therefore one thread of control, and only     *)
(* that of curr_terminal runs.  System calls enter through a trap gate, so *)
(* the keyboard interrupt may arrive between any two of their              *)
(* instructions; Alt+Fn then runs terminal_switch, which parks the thread  *)
(* where it stands and continues, or starts, the other terminal's.  pc[t]  *)
(* names the stretch of execute or halt in which terminal t's thread       *)
(* stands; a stretch is cut wherever another terminal could tell.          *)
(***************************************************************************)
EXTENDS Integers

CONSTANTS
    MAX_TERMINAL,    \* 3 in the code; also the literal 3 of execute and halt
    MAX_PROCESSES,   \* 8 in the code
    Programs,        \* what a user program may name in execute
    Statuses,        \* what a user program may pass to halt in EBX
    ShellMayFault,   \* may a terminal's base shell raise an exception?
    OpenWindows      \* critical windows in which a switch key may arrive

Windows == {"first", "restart", "claim", "free", "status"}

ASSUME SizesAssumption ==
    /\ MAX_TERMINAL \in Nat \ {0}
    /\ MAX_PROCESSES \in Nat
    /\ MAX_TERMINAL < MAX_PROCESSES

ASSUME EnvironmentAssumption ==
    /\ Programs \subseteq {"missing", "text", "exe"}
    /\ Statuses \subseteq Nat
    /\ ShellMayFault \in BOOLEAN
    /\ OpenWindows \subseteq Windows

Terminals == 0 .. MAX_TERMINAL - 1
Pids      == 0 .. MAX_PROCESSES - 1
None      == -1

VARIABLES
    curr_terminal,    \* the terminal on the screen, whose thread runs
    current_process,  \* [Terminals -> Pids \cup {None}]
    in_use,           \* [Pids -> {0, 1}]
    parent_id,        \* pcb field
    current_esp,      \* pcb field: the execute frame that started the process
    return_esp,       \* pcb field: the terminal whose parked thread it leads to
    exception_flag,
    extended_status,
    page,             \* process whose memory page_directory[PROCESS_IDX] maps
    loaded,           \* [Pids -> ...]: whose program the physical page holds
    esp0,             \* tss.esp0, as the process whose kernel stack it is on
    pc,               \* where the terminal's thread stands
    cmd,              \* execute's arguments: the file and who called
    slot,             \* execute's i
    kstack,           \* the kernel stack the thread's frames are on, if any
    iflag,            \* EFLAGS.IF of the thread while in the kernel
    wild,             \* control went through a pcb field that holds no saved address
    running,          \* history: whose user code the thread returns to
    owner,            \* history: terminal whose chain of processes holds p
    due               \* history: the status halt owes to the parent

vars == << curr_terminal, current_process, in_use, parent_id, current_esp,
           return_esp, exception_flag, extended_status, page, loaded, esp0,
           pc, cmd, slot, kstack, iflag, wild, running, owner, due >>

\* pcb and slot state that only execute and halt change
pcbVars    == << in_use, parent_id, current_esp, owner, current_process >>
\* global state of halt's return value
statusVars == << exception_flag, extended_status, due >>
\* the locals of execute
localVars  == << cmd, slot >>
\* what the processor holds for the running process
cpuVars    == << page, loaded, esp0 >>

Labels == { "off", "user", "check", "scan", "claim", "pcb", "magic", "load", "enter",
            "free", "unlink", "resume" }
InExecute == { "check", "scan", "claim", "pcb", "magic", "load", "enter" }
InHalt    == { "free", "unlink", "resume" }

\* A saved ESP: the process whose user code lies below the frame, and the
\* kernel stack the frame is on.  NoFrame is a pcb field that was never written,
\* or whose frame has been left since.  What becomes of the bytes of a frame on
\* a stack that several threads use is modelled in KernelStacks.
Frame   == [caller : Pids \cup {None}, stack : Pids \cup {None}]
NoFrame == [caller |-> None, stack |-> None]

-----------------------------------------------------------------------------
\* Mutant of InitialSlots: terminal_init reserves nothing.
NothingReserved == [p \in Pids |-> 0]

\* terminal_init reserves the slots of the terminals that are not up yet.
InitialSlots == [p \in Pids |-> IF p \in 1 .. MAX_TERMINAL - 1 THEN 1 ELSE 0]

\* pc_init, terminal_init, then entry calls execute("shell") with interrupts on.
\* boot.S starts the kernel on 0x800000, which is also process 0's kernel stack.
Init ==
    /\ curr_terminal = 0
    /\ current_process = [t \in Terminals |-> None]
    /\ in_use = InitialSlots
    /\ parent_id = [p \in Pids |-> None]
    /\ current_esp = [p \in Pids |-> NoFrame]
    /\ return_esp = [p \in Pids |-> None]
    /\ exception_flag = 0
    /\ extended_status = 0
    /\ page = None
    /\ loaded = [p \in Pids |-> None]
    /\ esp0 = 0
    /\ pc = [t \in Terminals |-> IF t = 0 THEN "check" ELSE "off"]
    /\ cmd = [t \in Terminals |-> [file |-> "exe", by |-> "switch"]]
    /\ slot = [t \in Terminals |-> 0]
    /\ kstack = [t \in Terminals |-> IF t = 0 THEN 0 ELSE None]
    /\ iflag = [t \in Terminals |-> TRUE]
    /\ wild = FALSE
    /\ running = [t \in Terminals |-> None]
    /\ owner = [p \in Pids |-> None]
    /\ due = [t \in Terminals |-> 0]

\* Terminal t's thread is the one that runs, and it stands at l.
At(t, l) == ~wild /\ curr_terminal = t /\ pc[t] = l

GoTo(t, l) == pc' = [pc EXCEPT ![t] = l]

\* Control is transferred through memory nobody set up for it.  What the
\* machine does from here on is undefined, and is not modelled.
GoWild ==
    /\ wild' = TRUE
    /\ UNCHANGED << curr_terminal, return_esp, pc, kstack, iflag, running,
                    pcbVars, statusVars, localVars, cpuVars >>

\* A call of execute(f).
Call(t, f, caller) ==
    /\ GoTo(t, "check")
    /\ slot' = [slot EXCEPT ![t] = 0]
    /\ cmd' = [cmd EXCEPT ![t] = [file |-> f, by |-> caller]]

\* execute's locals are gone once it has left.
DropLocals(t) ==
    /\ slot' = [slot EXCEPT ![t] = 0]
    /\ cmd' = [cmd EXCEPT ![t] = [file |-> "exe", by |-> "user"]]

\* execute returns -1.  entry, halt and terminal_switch, which call it for a
\* base shell, go on as if it had not returned: with no process to return to.
Fail(t) ==
    IF cmd[t].by = "user"
    THEN /\ GoTo(t, "user")
         /\ DropLocals(t)
         /\ kstack' = [kstack EXCEPT ![t] = None]
         /\ UNCHANGED << curr_terminal, return_esp, iflag, wild, running,
                         pcbVars, statusVars, cpuVars >>
    ELSE GoWild

-----------------------------------------------------------------------------
\* The execute system call of a user program.
SysExecute(t, f) ==
    /\ At(t, "user")
    /\ Call(t, f, "user")
    /\ kstack' = [kstack EXCEPT ![t] = esp0]
    /\ UNCHANGED << curr_terminal, return_esp, iflag, wild, running,
                    pcbVars, statusVars, cpuVars >>

\* The file must exist, be a regular file and be readable.
ExecuteCheck(t) ==
    /\ At(t, "check")
    /\ IF cmd[t].file = "missing"
       THEN Fail(t)
       ELSE /\ GoTo(t, "scan")
            /\ UNCHANGED << curr_terminal, return_esp, kstack, iflag, wild,
                            running, pcbVars, statusVars, localVars, cpuVars >>

\* Mutant of ExecuteScan: the loop variable is not advanced.
ScanStandsStill(t) ==
    /\ At(t, "scan")
    /\ IF slot[t] >= MAX_PROCESSES
       THEN Fail(t)
       ELSE /\ IF in_use[slot[t]] = 0 THEN GoTo(t, "claim") ELSE pc' = pc
            /\ UNCHANGED << curr_terminal, return_esp, kstack, iflag, wild,
                            running, localVars, pcbVars, statusVars, cpuVars >>

\* One turn of the loop that looks for in_use[i] == 0.
ExecuteScan(t) ==
    /\ At(t, "scan")
    /\ IF slot[t] >= MAX_PROCESSES
       THEN Fail(t)
       ELSE /\ IF in_use[slot[t]] = 0
               THEN GoTo(t, "claim") /\ slot' = slot
               ELSE pc' = pc /\ slot' = [slot EXCEPT ![t] = @ + 1]
            /\ UNCHANGED << curr_terminal, return_esp, kstack, iflag, wild,
                            running, cmd, pcbVars, statusVars, cpuVars >>

\* Mutant of ExecuteClaim: the slot found is not marked.
ClaimNotMarked(t) ==
    /\ At(t, "claim")
    /\ GoTo(t, "pcb")
    /\ UNCHANGED << curr_terminal, return_esp, kstack, iflag, wild, running,
                    pcbVars, statusVars, localVars, cpuVars >>

\* in_use[i] = 1: the read that found 0 was an earlier instruction.
ExecuteClaim(t) ==
    /\ At(t, "claim")
    /\ in_use' = [in_use EXCEPT ![slot[t]] = 1]
    /\ GoTo(t, "pcb")
    /\ UNCHANGED << curr_terminal, current_process, parent_id, current_esp,
                    return_esp, kstack, iflag, wild, running, owner,
                    statusVars, localVars, cpuVars >>

\* Mutant of ParentOf: current_process is overwritten before it is read.
ParentReadLate(t, i) == IF i < MAX_TERMINAL THEN None ELSE i

\* The base shells have no parent.
ParentOf(t, i) == IF i < MAX_TERMINAL THEN None ELSE current_process[t]

\* The pcb of slot i is filled in and becomes the terminal's current process.
ExecutePcb(t) ==
    LET i == slot[t] IN
    /\ At(t, "pcb")
    /\ parent_id' = [parent_id EXCEPT ![i] = ParentOf(t, i)]
    /\ current_process' = [current_process EXCEPT ![t] = i]
    /\ owner' = [owner EXCEPT ![i] = t]
    /\ GoTo(t, "magic")
    /\ UNCHANGED << curr_terminal, in_use, current_esp, return_esp, kstack,
                    iflag, wild, running, statusVars, localVars, cpuVars >>

\* The ELF magic numbers are compared only now; then add_process maps the page.
ExecuteMagic(t) ==
    /\ At(t, "magic")
    /\ IF cmd[t].file = "text"
       THEN Fail(t)
       ELSE /\ page' = slot[t]
            /\ GoTo(t, "load")
            /\ UNCHANGED << curr_terminal, return_esp, loaded, esp0, kstack,
                            iflag, wild, running, pcbVars, statusVars,
                            localVars >>

\* read_data copies the program to PROGRAM_START, wherever that is mapped.
ExecuteLoad(t) ==
    /\ At(t, "load")
    /\ loaded' = [loaded EXCEPT ![page] = slot[t]]
    /\ GoTo(t, "enter")
    /\ UNCHANGED << curr_terminal, return_esp, page, esp0, kstack, iflag,
                    wild, running, pcbVars, statusVars, localVars >>

\* execute saves its own ESP in the pcb of the process it starts.
SavedFrame(t) ==
    [current_esp EXCEPT ![current_process[t]] =
        [caller |-> IF cmd[t].by = "user" THEN running[t] ELSE None,
         stack  |-> kstack[t]]]

\* IRET to the program's entry point, with interrupts enabled.
user_context_switch(t) ==
    /\ iflag' = [iflag EXCEPT ![t] = TRUE]
    /\ GoTo(t, "user")
    /\ DropLocals(t)
    /\ kstack' = [kstack EXCEPT ![t] = None]

\* tss.esp0, the frame that halt returns through, and the jump to user code.
ExecuteEnter(t) ==
    LET p == current_process[t] IN
    /\ At(t, "enter")
    /\ esp0' = p
    /\ current_esp' = SavedFrame(t)
    /\ running' = [running EXCEPT ![t] = p]
    /\ user_context_switch(t)
    /\ UNCHANGED << curr_terminal, current_process, in_use, parent_id, owner,
                    return_esp, page, loaded, wild, statusVars >>

-----------------------------------------------------------------------------
\* Mutant of ExtendedStatus: EBX is not cut to a byte.
StatusNotCut(status, flag) == status + flag

\* Mutant of ExtendedStatus: the exception is not added.
StatusWithoutFlag(status, flag) == status % 256

\* halt takes a uint8_t and widens it before the exception is added.
ExtendedStatus(status, flag) == (status % 256) + flag

\* halt, up to the stack switch, with the interrupt flag left at f.  A base
\* shell is replaced in place; exception_flag is then left as it is.
halt(t, status, flag, f) ==
    LET p == current_process[t] IN
    /\ At(t, "user")
    /\ kstack' = [kstack EXCEPT ![t] = esp0]
    /\ iflag' = [iflag EXCEPT ![t] = f]
    /\ IF p < MAX_TERMINAL
       THEN /\ in_use' = [in_use EXCEPT ![p] = 0]
            /\ Call(t, "exe", "halt")
            /\ exception_flag' = flag
            /\ UNCHANGED << extended_status, due >>
       ELSE /\ extended_status' = ExtendedStatus(status, flag)
            /\ exception_flag' = 0
            /\ GoTo(t, "free")
            /\ UNCHANGED << in_use, localVars >>
            /\ due' = [due EXCEPT ![t] = IF f THEN status % 256 ELSE 256]
    /\ UNCHANGED << curr_terminal, current_process, parent_id, current_esp,
                    owner, return_esp, wild, running, cpuVars >>

\* The halt system call: interrupts stay enabled.
SysHalt(t, status) == halt(t, status, exception_flag, TRUE)

\* exception_handler: an interrupt gate, so interrupts are off until IRET.
Exception(t) ==
    /\ current_process[t] < MAX_TERMINAL => ShellMayFault
    /\ halt(t, 255, 1, FALSE)

\* Mutant of HaltFree: the slot is not released.
SlotNotFreed(t) ==
    LET p == current_process[t]
        frame == current_esp[p] IN
    /\ At(t, "free")
    /\ IF frame = NoFrame
       THEN GoWild
       ELSE /\ running' = [running EXCEPT ![t] = frame.caller]
            /\ kstack' = [kstack EXCEPT ![t] = frame.stack]
            /\ current_esp' = [current_esp EXCEPT ![p] = NoFrame]
            /\ GoTo(t, "unlink")
            /\ UNCHANGED << curr_terminal, current_process, in_use, parent_id,
                            owner, return_esp, iflag, wild, statusVars,
                            localVars, cpuVars >>

\* ESP and EBP are reloaded from the pcb, then in_use[p] = 0.  Whether execute's
\* frame is still there: KHaltFree of KernelStacks.
HaltFree(t) ==
    LET p == current_process[t]
        frame == current_esp[p] IN
    /\ At(t, "free")
    /\ IF frame = NoFrame
       THEN GoWild
       ELSE /\ running' = [running EXCEPT ![t] = frame.caller]
            /\ kstack' = [kstack EXCEPT ![t] = frame.stack]
            /\ current_esp' = [current_esp EXCEPT ![p] = NoFrame]
            /\ in_use' = [in_use EXCEPT ![p] = 0]
            /\ GoTo(t, "unlink")
            /\ UNCHANGED << curr_terminal, current_process, parent_id, owner,
                            return_esp, iflag, wild, statusVars, localVars,
                            cpuVars >>

\* Mutant of HaltUnlink: the terminal's base shell becomes current.
HaltToBase(t) ==
    LET p == current_process[t] IN
    /\ At(t, "unlink")
    /\ current_process' = [current_process EXCEPT ![t] = t]
    /\ owner' = [owner EXCEPT ![p] = None]
    /\ GoTo(t, "resume")
    /\ UNCHANGED << curr_terminal, in_use, parent_id, current_esp, return_esp,
                    kstack, iflag, wild, running, statusVars, localVars,
                    cpuVars >>

\* current_process[curr_terminal] = parent_id
HaltUnlink(t) ==
    LET p == current_process[t] IN
    /\ At(t, "unlink")
    /\ current_process' = [current_process EXCEPT ![t] = parent_id[p]]
    /\ owner' = [owner EXCEPT ![p] = None]
    /\ GoTo(t, "resume")
    /\ UNCHANGED << curr_terminal, in_use, parent_id, current_esp, return_esp,
                    kstack, iflag, wild, running, statusVars, localVars,
                    cpuVars >>

\* add_process(parent), tss.esp0 from the parent's own saved frame, EAX from
\* extended_status, and the jump to execute_return.
HaltResume(t) ==
    LET p == current_process[t] IN
    /\ At(t, "resume")
    /\ IF p = None \/ current_esp[p] = NoFrame
       THEN GoWild
       ELSE /\ page' = p
            /\ esp0' = current_esp[p].stack
            /\ iflag' = [iflag EXCEPT ![t] = TRUE]
            /\ due' = [due EXCEPT ![t] = 0]
            /\ kstack' = [kstack EXCEPT ![t] = None]
            /\ GoTo(t, "user")
            /\ UNCHANGED << curr_terminal, return_esp, loaded, wild, running,
                            exception_flag, extended_status, pcbVars,
                            localVars >>

-----------------------------------------------------------------------------
\* The stretches of kernel code in which a switch does damage.
InWindow(w, t) ==
    CASE w = "first"   -> cmd[t].by = "switch" /\ pc[t] \in InExecute
      [] w = "restart" -> cmd[t].by = "halt" /\ pc[t] \in {"check", "scan", "claim"}
      [] w = "claim"   -> cmd[t].by = "user" /\ pc[t] = "claim"
      [] w = "free"    -> pc[t] = "unlink"
      [] w = "status"  -> pc[t] \in {"free", "resume"}

\* A switch key can reach the processor, and does so outside closed windows.
Interruptible(t) ==
    /\ iflag[t]
    /\ \A w \in Windows \ OpenWindows : ~InWindow(w, t)

\* The stack the keyboard interrupt finds: that of tss.esp0 in user mode.
StackNow(t) == IF pc[t] = "user" THEN esp0 ELSE kstack[t]

\* Mutant of Parked: ESP is saved in the pcb of the terminal's base shell.
ParkedInBase(t) == [return_esp EXCEPT ![t] = t]

\* ESP is saved in the pcb of the current process of the terminal left.
Parked(t) == [return_esp EXCEPT ![current_process[t]] = t]

\* The common start of terminal_switch(n), when there is a pcb to save ESP in.
SwitchFrom(t, n) ==
    /\ ~wild
    /\ n # t
    /\ Interruptible(t)
    /\ current_process[t] # None
    /\ curr_terminal' = n

\* The terminal has no process yet: its slot is released and a base shell is
\* executed, on the stack of the thread that was interrupted.
SwitchFirst(n) ==
    LET t == curr_terminal IN
    /\ SwitchFrom(t, n)
    /\ current_process[n] = None
    /\ return_esp' = Parked(t)
    /\ in_use' = [in_use EXCEPT ![n] = 0]
    /\ Call(n, "exe", "switch")
    /\ kstack' = [kstack EXCEPT ![t] = StackNow(t), ![n] = StackNow(t)]
    /\ UNCHANGED << current_process, parent_id, current_esp, owner, iflag,
                    wild, running, statusVars, cpuVars >>

\* Mutant of SwitchBack: the page of the terminal's process is not mapped.
SwitchBackNoPage(n) ==
    LET t == curr_terminal IN
    /\ SwitchFrom(t, n)
    /\ current_process[n] # None
    /\ Parked(t)[current_process[n]] = n
    /\ return_esp' = [Parked(t) EXCEPT ![current_process[n]] = None]
    /\ esp0' = current_process[n]
    /\ kstack' = [kstack EXCEPT
           ![t] = StackNow(t),
           ![n] = IF pc[n] = "user" THEN None ELSE kstack[n]]
    /\ UNCHANGED << page, loaded, pc, iflag, wild, running, pcbVars,
                    statusVars, localVars >>

\* The terminal's thread continues where it was parked.
SwitchBack(n) ==
    LET t == curr_terminal IN
    /\ SwitchFrom(t, n)
    /\ current_process[n] # None
    /\ Parked(t)[current_process[n]] = n
    /\ return_esp' = [Parked(t) EXCEPT ![current_process[n]] = None]
    /\ page' = current_process[n]
    /\ esp0' = current_process[n]
    /\ kstack' = [kstack EXCEPT
           ![t] = StackNow(t),
           ![n] = IF pc[n] = "user" THEN None ELSE kstack[n]]
    /\ UNCHANGED << loaded, pc, iflag, wild, running, pcbVars, statusVars,
                    localVars >>

\* There is no pcb to save ESP in, or the one to load it from does not lead to
\* the terminal's own thread.
SwitchLost(n) ==
    LET t == curr_terminal IN
    /\ ~wild
    /\ n # t
    /\ Interruptible(t)
    /\ \/ current_process[t] = None
       \/ /\ current_process[t] # None
          /\ current_process[n] # None
          /\ Parked(t)[current_process[n]] # n
    /\ GoWild

terminal_switch(n) == SwitchFirst(n) \/ SwitchBack(n) \/ SwitchLost(n)

\* Once control is lost nothing more is said about the machine.
Lost == wild /\ UNCHANGED vars

KernelStep(t) ==
    \/ ExecuteCheck(t) \/ ExecuteScan(t)  \/ ExecuteClaim(t) \/ ExecutePcb(t)
    \/ ExecuteMagic(t) \/ ExecuteLoad(t)  \/ ExecuteEnter(t)
    \/ HaltFree(t)     \/ HaltUnlink(t)   \/ HaltResume(t)

UserStep(t) ==
    \/ \E f \in Programs : SysExecute(t, f)
    \/ \E s \in Statuses : SysHalt(t, s)
    \/ Exception(t)

Next ==
    \/ \E t \in Terminals : KernelStep(t) \/ UserStep(t)
    \/ \E n \in Terminals : terminal_switch(n)
    \/ Lost

Spec == Init /\ [][Next]_vars

\* The processor executes the next instruction of the thread it is in;
\* interrupt handlers return to it.
FairSpec == Spec /\ WF_vars(\E t \in Terminals : KernelStep(t))

-----------------------------------------------------------------------------
\* Every variable keeps the range its C type and use give it.
TypeOK ==
    /\ curr_terminal \in Terminals
    /\ current_process \in [Terminals -> Pids \cup {None}]
    /\ in_use \in [Pids -> {0, 1}]
    /\ parent_id \in [Pids -> Pids \cup {None}]
    /\ current_esp \in [Pids -> Frame]
    /\ return_esp \in [Pids -> Terminals \cup {None}]
    /\ exception_flag \in {0, 1}
    /\ extended_status \in 0 .. 256
    /\ page \in Pids \cup {None}
    /\ loaded \in [Pids -> Pids \cup {None}]
    /\ esp0 \in Pids
    /\ pc \in [Terminals -> Labels]
    /\ cmd \in [Terminals -> [file : {"missing", "text", "exe"},
                              by : {"user", "halt", "switch"}]]
    /\ slot \in [Terminals -> 0 .. MAX_PROCESSES]
    /\ kstack \in [Terminals -> Pids \cup {None}]
    /\ iflag \in [Terminals -> BOOLEAN]
    /\ wild \in BOOLEAN
    /\ running \in [Terminals -> Pids \cup {None}]
    /\ owner \in [Pids -> Terminals \cup {None}]
    /\ due \in [Terminals -> 0 .. 256]

\* Slot p is held by a process that sits in some terminal's chain.
Held(p) == owner[p] # None

\* Slot p has been found and taken by an execute that has not filled it yet.
Claimed(p) == \E t \in Terminals : pc[t] = "pcb" /\ slot[t] = p

\* Slot p is kept for the base shell of a terminal not yet visited.
Reserved(p) == p \in Terminals /\ current_process[p] = None

\* in_use marks exactly the slots that are held, claimed or reserved: execute
\* and halt neither leak a slot nor free one that is still in a chain.  The
\* exception is the slot the running thread is just freeing or replacing.
SlotsAccounted ==
    \A p \in Pids :
        /\ in_use[p] = 1 => Held(p) \/ Claimed(p) \/ Reserved(p)
        /\ in_use[p] = 0 /\ Held(p) =>
               /\ p = current_process[curr_terminal]
               /\ pc[curr_terminal] \in {"check", "scan", "claim", "unlink"}

\* No two executes hold the same slot: a claimed slot is in nobody's chain
\* (unless it is the base shell being replaced) and no other terminal has it.
ClaimsExclusive ==
    \A t \in Terminals :
        pc[t] = "pcb" =>
            /\ Held(slot[t]) => slot[t] = t
            /\ \A u \in Terminals \ {t} : pc[u] = "pcb" => slot[u] # slot[t]

\* "first three should always be the terminals" (syscall.h:38): the slots below
\* MAX_TERMINAL only ever hold the base shell of the terminal of that number.
FirstSlotsAreTerminals ==
    \A p \in Pids : Held(p) =>
        /\ p < MAX_TERMINAL => owner[p] = p
        /\ p < MAX_TERMINAL <=> parent_id[p] = None

\* The processes of a terminal form one chain that ends in current_process:
\* parents are held by the same terminal, no two processes share a parent, and
\* the current process is nobody's parent.
ChainsWellFormed ==
    /\ \A t \in Terminals : current_process[t] # None =>
           owner[current_process[t]] = t
    /\ \A p \in Pids : Held(p) /\ p >= MAX_TERMINAL =>
           /\ parent_id[p] \in Pids \ {p, current_process[owner[p]]}
           /\ owner[parent_id[p]] = owner[p]
    /\ \A p, q \in Pids :
           Held(p) /\ Held(q) /\ p # q /\ p >= MAX_TERMINAL =>
               parent_id[p] # parent_id[q]

\* While user code runs, current_process names the process whose code it is,
\* its memory is the one mapped at PROGRAM_PAGE, and that memory holds the
\* program that was loaded for it.
UserSeesItself ==
    LET t == curr_terminal IN
    ~wild /\ pc[t] = "user" =>
        /\ current_process[t] = running[t]
        /\ page = running[t]
        /\ loaded[page] = running[t]

\* Whatever interrupts whom, user code never runs on another process's memory
\* than the one the controller calls current.
PageFollowsCurrent ==
    LET t == curr_terminal IN
    ~wild /\ pc[t] = "user" => page = current_process[t] /\ loaded[page] = page

\* Every parked thread can be found again: the pcb that terminal_switch will
\* load ESP from still leads to that terminal's thread.
ParkedThreadsKept ==
    \A t \in Terminals \ {curr_terminal} :
        current_process[t] # None => return_esp[current_process[t]] = t

\* halt and terminal_switch load ESP only from pcb fields that were written for
\* the purpose and not left since, and terminal_switch always has a pcb to save
\* it in.  This is about the fields: whether the frames at the address are still
\* intact is the subject of KernelStacks.
EspWasSaved == ~wild

\* "Terminates a process, returning the specified value to its parent"
\* (syscall.c:48): the value halt is about to load into EAX is the one this
\* process passed, or 256 if it died by an exception (syscall.c:158).
StatusFaithful ==
    LET t == curr_terminal IN
    ~wild /\ pc[t] \in InHalt => extended_status = due[t]

\* What of terminal t a step of another terminal must leave alone: its current
\* process, and the pcb, slot and memory of every process in its chain.
Untouched(t) ==
    /\ current_process'[t] = current_process[t]
    /\ \A p \in Pids : owner[p] = t =>
           /\ owner'[p] = t
           /\ in_use'[p] = in_use[p]
           /\ parent_id'[p] = parent_id[p]
           /\ current_esp'[p] = current_esp[p]
           /\ loaded'[p] = loaded[p]

\* A step of the terminal in front never changes the process chain of another
\* terminal: neither its current process, nor the pcb, slot or memory of any
\* process in its chain.  A switch key is the only step that reaches another
\* terminal, and it only changes which thread runs.
OthersUntouched ==
    [][~wild => \A t \in Terminals \ {curr_terminal} : Untouched(t)]_vars

\* The process below p on its terminal's stack.
Beneath == [p \in Pids |-> IF Held(p) THEN parent_id[p] ELSE None]

Abstract == INSTANCE Processes WITH
    front <- curr_terminal, top <- current_process, home <- owner, beneath <- Beneath

\* The slot table, the pcbs and current_process implement one stack of processes
\* per terminal: whatever is parked where, a step of execute puts a process that
\* is on no stack on the front terminal's, on top of the one that called it, a
\* step of halt takes the top one off, never the bottom one, a switch key changes
\* no stack, and nothing else shows.
ImplementsProcesses == Abstract!Spec

\* execute and halt come to an end: while its terminal stays in front, a thread
\* in the kernel gets back to user code.
KernelCallsReturn ==
    \A t \in Terminals :
        (curr_terminal = t /\ pc[t] \in InExecute \cup InHalt)
            ~> (pc[t] = "user" \/ curr_terminal # t \/ wild)

=============================================================================
