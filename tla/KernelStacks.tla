---------------------------- MODULE KernelStacks ----------------------------
(***************************************************************************)
(* What lies on the kernel stacks while execute, halt and terminal_switch  *)
(* hand them over.  ProcessControl knows a saved ESP by the stack it is    *)
(* on; here the frames have an order, and frames that are written over are *)
(* gone.                                                                   *)
(*                                                                         *)
(* The kernel is entered from user mode at tss.esp0.  execute and          *)
(* terminal_switch set it to the top of the process's own stack            *)
(* (syscall.c:261, terminal.c:93); halt sets it to the parent's            *)
(* current_esp (syscall.c:95), just below the frame of the execute that    *)
(* started the parent, on whatever stack that frame is.  The first shell   *)
(* of a terminal is started below the frames of the process that the       *)
(* switch key interrupted (terminal.c:83).                                 *)
(*                                                                         *)
(* Every action of ProcessControl is taken as it is; it is joined by what  *)
(* it does to the frames.                                                  *)
(***************************************************************************)
EXTENDS ProcessControl, SequencesExt

VARIABLES
    frames,   \* [Pids -> the intact frames of the stack, the highest address first]
    below,    \* the process whose execute frame tss.esp0 is just below; None: the top
    astray,   \* ESP was loaded with the address of a frame that is gone
    guest     \* history: a base shell was resumed with esp0 on another's stack

kvars == << vars, frames, below, astray, guest >>

\* The frames of the kernel's work for a terminal, at work or parked, and those
\* of an execute, from the call to the IRET into process p.
Work(t)    == << "work", t >>
Started(p) == << "started", p >>

\* boot.S, on process 0's kernel stack.
KInit ==
    /\ Init
    /\ frames = [p \in Pids |-> IF p = 0 THEN << Work(0) >> ELSE <<>>]
    /\ below = None
    /\ astray = FALSE
    /\ guest = FALSE

-----------------------------------------------------------------------------
Intact(p, f) == f \in ToSet(frames[p])

\* How many frames of stack esp0 lie above esp0.  When the execute frame it
\* refers to is gone there is no telling what it points at.
AboveEsp0 ==
    IF below = None THEN {0}
    ELSE IF Intact(esp0, Started(below))
         THEN {i \in DOMAIN frames[esp0] : frames[esp0][i] = Started(below)}
         ELSE 0 .. Len(frames[esp0])

\* ... and above the point at which the running thread t next pushes something.
Above(t) ==
    IF pc[t] = "user" THEN AboveEsp0
    ELSE {i \in DOMAIN frames[kstack[t]] : frames[kstack[t]][i] = Work(t)}

Without(fs, f) == [p \in Pids |-> SelectSeq(fs[p], LAMBDA g : g # f)]

\* The frames once thread t is in the kernel: entered at esp0, or there already.
Entered(t) ==
    IF pc[t] # "user" THEN {frames}
    ELSE {[frames EXCEPT ![esp0] = InsertAt(@, i + 1, Work(t))] : i \in AboveEsp0}

\* Frame f just below frame g, wherever g is.
PutBelow(fs, g, f) ==
    [p \in Pids |->
        IF g \in ToSet(fs[p])
        THEN InsertAt(fs[p], 1 + CHOOSE i \in DOMAIN fs[p] : fs[p][i] = g, f)
        ELSE fs[p]]

Renamed(fs, f, g) == [p \in Pids |-> [i \in DOMAIN fs[p] |-> IF fs[p][i] = f THEN g ELSE fs[p][i]]]

-----------------------------------------------------------------------------
\* A step that leaves the kernel, or not: its frames go with it.
Left(t) == frames' = IF pc'[t] = "user" THEN Without(frames, Work(t)) ELSE frames

KEnter(t) ==
    /\ UserStep(t)
    /\ frames' \in Entered(t)
    /\ UNCHANGED << below, astray, guest >>

KWork(t) ==
    /\ \/ ExecuteCheck(t) \/ ExecuteScan(t) \/ ExecuteClaim(t) \/ ExecutePcb(t)
       \/ ExecuteMagic(t) \/ ExecuteLoad(t) \/ HaltUnlink(t)
    /\ Left(t)
    /\ UNCHANGED << below, astray, guest >>

\* execute's frames stay behind for halt; esp0 is the top of the new stack.
KExecuteEnter(t) ==
    LET p == current_process[t] IN
    /\ ExecuteEnter(t)
    /\ frames' = Renamed(Without(frames, Started(p)), Work(t), Started(p))
    /\ below' = None
    /\ UNCHANGED << astray, guest >>

\* ESP is loaded with the address of frame f of stack p.
Loads(p, f) == astray' = (astray \/ ~Intact(p, f))

\* ESP is loaded with current_esp: halt goes on in the frames of execute.
KHaltFree(t) ==
    LET p     == current_process[t]
        saved == current_esp[p]
    IN  /\ HaltFree(t)
        /\ IF saved = NoFrame THEN UNCHANGED << frames, astray >>
           ELSE /\ Loads(saved.stack, Started(p))
                /\ frames' = Renamed(Without(frames, Work(t)), Started(p), Work(t))
        /\ UNCHANGED << below, guest >>

\* Mutant of ResumeBelow: esp0 is the top of the stack current_esp is on.
ResumeAtTop(p) == None

\* tss.esp0 is the parent's current_esp.
ResumeBelow(p) == p

KHaltResume(t) ==
    LET p == current_process[t] IN
    /\ HaltResume(t)
    /\ Left(t)
    /\ below' = IF wild' THEN below ELSE ResumeBelow(p)
    /\ guest' = (guest \/ (p < MAX_TERMINAL /\ esp0' # p))
    /\ UNCHANGED astray

\* The new shell's execute is called in the frames of the interrupted thread.
KSwitchFirst(n) ==
    LET t == curr_terminal IN
    /\ SwitchFirst(n)
    /\ \E fs \in Entered(t) : frames' = PutBelow(fs, Work(t), Work(n))
    /\ UNCHANGED << below, astray, guest >>

\* ESP is loaded with return_esp; esp0 is the top of the process's stack.
KSwitchBack(n) ==
    LET t == curr_terminal IN
    /\ SwitchBack(n)
    /\ Loads(kstack[n], Work(n))
    /\ \E fs \in Entered(t) :
          frames' = IF pc[n] = "user" THEN Without(fs, Work(n)) ELSE fs
    /\ below' = None
    /\ UNCHANGED guest

KLost ==
    /\ Lost \/ \E n \in Terminals : SwitchLost(n)
    /\ UNCHANGED << frames, below, astray, guest >>

\* The kernel's work for the running thread, calls and interrupts that are no
\* actions of ProcessControl among it, reaches the next frame below.
Trample(t) ==
    /\ curr_terminal = t /\ ~wild
    /\ LET p == IF pc[t] = "user" THEN esp0 ELSE kstack[t]
       IN  \E i \in Above(t) :
              /\ i < Len(frames[p])
              /\ frames' = [frames EXCEPT ![p] = RemoveAt(@, i + 1)]
    /\ UNCHANGED << vars, below, astray, guest >>

\* Once ESP went astray nothing more is said about the machine.
KNext ==
    \/ /\ ~astray
       /\ \/ \E t \in Terminals :
                 \/ KEnter(t) \/ KWork(t) \/ KExecuteEnter(t) \/ KHaltFree(t)
                 \/ KHaltResume(t) \/ Trample(t)
          \/ \E n \in Terminals : KSwitchFirst(n) \/ KSwitchBack(n)
          \/ KLost
    \/ astray /\ UNCHANGED kvars

KSpec == KInit /\ [][KNext]_kvars

-----------------------------------------------------------------------------
\* halt and terminal_switch load ESP with addresses at which the frames saved
\* there still are.
FramesIntact == ~astray

\* halt and terminal_switch always find an ESP that was saved for the purpose, and
\* the frames there can be gone in no other way than through line 95 of
\* syscall.c: as long as no base shell has been resumed with tss.esp0 on the
\* stack of another process, they are intact.
ControlKept == EspWasSaved /\ (astray => guest)
=============================================================================
