----------------------------- MODULE Interrupts -----------------------------
(***************************************************************************)
(* Interrupt delivery: the order in which kernel.c's entry() sets up the   *)
(* IDT, the 8259 pair and the devices, and then the way control moves      *)
(* between user mode, system calls, exceptions and the three handlers,     *)
(* with terminal_switch leaving one kernel stack for another in the middle *)
(* of the keyboard handler.  What a handler does with its data is in the   *)
(* modules Keyboard, Rtc and ProcessControl; here only the interrupt flag, *)
(* the controller and the frames on the kernel stacks matter.              *)
(*                                                                         *)
(* A device's request that arrives while the flag is off waits in the      *)
(* controller and changes nothing else, so it is enough to let requests    *)
(* arrive during the boot and while the flag is on.  A request that can be *)
(* delivered is taken before the next instruction of the running thread.   *)
(***************************************************************************)
EXTENDS Integers, Sequences, FiniteSets

CONSTANTS
    Terminals,     \* 0 .. MAX_TERMINAL - 1
    Lines,         \* the lines of the two 8259s that exist in the instance
    MaxSwitched,   \* bound: handlers suspended in terminal_switch, per stack
    MaxChildren    \* bound: nested execute calls, per stack

ASSUME InterruptsAssumption ==
    /\ 0 \in Terminals
    /\ {0, 1, 2, 8} \subseteq Lines
    /\ Lines \subseteq 0 .. 15
    /\ MaxSwitched \in Nat
    /\ MaxChildren \in Nat

SLAVE_IRQ == 2
PIT_IRQ == 0
KBD_IRQ == 1
RTC_IRQ == 8

VARIABLES
    boot,           \* the next call of entry(), "running" once it is in execute
    iflag,          \* the interrupt flag of EFLAGS
    idt,            \* what each vector's gate holds, "absent" if not present
    icw2,           \* the vector bases of the master and of the slave
    mask,           \* the lines masked in the two mask registers
    irr,            \* the requests the controllers hold
    isr,            \* the lines in service
    curr_terminal,
    started,        \* the terminals that have a process
    stacks          \* per terminal, the kernel frames above its base shell

vars == <<boot, iflag, idt, icw2, mask, irr, isr, curr_terminal, started, stacks>>

Boot == <<boot, idt, icw2, mask>>

\* A frame: the handler that pushed it and the interrupt flag it saved.  "sys":
\* a system call; "child": execute, with the child in user mode above it;
\* "start": the kernel's own call of execute; "switched": a keyboard handler
\* inside terminal_switch, past the point where its terminal left the front;
\* "exc": an exception.
Handlers == {"pit", "kbd", "rtc"}
Frames == [h : Handlers \cup {"sys", "child", "start", "switched", "exc"},
           fl : BOOLEAN]
Gates == Handlers \cup {"absent", "exc", "sys"}

stack == stacks[curr_terminal]
Top(h) == stack # <<>> /\ stack[Len(stack)].h = h
InUser == boot = "running" /\ (stack = <<>> \/ Top("child"))
Push(h) == stacks' = [stacks EXCEPT ![curr_terminal] =
                          Append(stack, [h |-> h, fl |-> iflag])]
Replace(h) == [stack EXCEPT ![Len(stack)].h = h]

\* iret: the frame goes, and the flag comes back from it.
iret == /\ stacks' = [stacks EXCEPT ![curr_terminal] =
                          SubSeq(stack, 1, Len(stack) - 1)]
        /\ iflag' = stack[Len(stack)].fl

-----------------------------------------------------------------------------
\* boot.S enters with interrupts off; the IDT is empty and the controllers are
\* as the BIOS left them.
Init ==
    /\ boot = "idt_init"
    /\ iflag = FALSE
    /\ idt = [v \in 0 .. 255 |-> "absent"]
    /\ icw2 = <<8, 112>>
    /\ mask \in SUBSET Lines
    /\ irr = {}
    /\ isr = {}
    /\ curr_terminal = 0
    /\ started = {}
    /\ stacks = [t \in Terminals |-> <<>>]

enable_irq(m, irq_num) == m \ {irq_num}

Threads == <<iflag, isr, curr_terminal, started, stacks>>

idt_init ==
    /\ boot = "idt_init"
    /\ idt' = [v \in 0 .. 255 |-> IF v < 32 THEN "exc"
                                  ELSE IF v = 128 THEN "sys" ELSE "absent"]
    /\ boot' = "i8259_init"
    /\ UNCHANGED <<icw2, mask, irr, Threads>>

\* Mutant of i8259_init: the line the slave is on stays masked.
i8259_init_noslave ==
    /\ boot = "i8259_init"
    /\ icw2' = <<32, 40>>
    /\ mask' = Lines
    /\ irr' = {}
    /\ isr' = {}
    /\ boot' = "keyboard_init"
    /\ UNCHANGED <<idt, iflag, curr_terminal, started, stacks>>

\* ICW1 resets a controller: its requests and in-service lines are forgotten.
i8259_init ==
    /\ boot = "i8259_init"
    /\ icw2' = <<32, 40>>
    /\ mask' = enable_irq(Lines, SLAVE_IRQ)
    /\ irr' = {}
    /\ isr' = {}
    /\ boot' = "keyboard_init"
    /\ UNCHANGED <<idt, iflag, curr_terminal, started, stacks>>

\* The gate is filled first and the line unmasked last, with interrupts off.
Attach(init, vector, h, irq_num, next) ==
    /\ boot = init
    /\ idt' = [idt EXCEPT ![vector] = h]
    /\ mask' = enable_irq(mask, irq_num)
    /\ boot' = next
    /\ UNCHANGED <<icw2, irr, Threads>>

keyboard_init == Attach("keyboard_init", 33, "kbd", KBD_IRQ, "rtc_init")

rtc_init == Attach("rtc_init", 40, "rtc", RTC_IRQ, "pit_init")

\* Mutant of pit_init: the line is unmasked and the gate is not set.
pit_init_nogate ==
    /\ boot = "pit_init"
    /\ mask' = enable_irq(mask, PIT_IRQ)
    /\ boot' = "sti"
    /\ UNCHANGED <<idt, icw2, irr, Threads>>

pit_init == Attach("pit_init", 32, "pit", PIT_IRQ, "sti")

\* entry() enables interrupts and calls execute("shell").
entry ==
    /\ boot = "sti"
    /\ boot' = "running"
    /\ iflag' = TRUE
    /\ stacks' = [stacks EXCEPT ![0] = <<[h |-> "start", fl |-> TRUE]>>]
    /\ UNCHANGED <<idt, icw2, mask, irr, isr, curr_terminal, started>>

-----------------------------------------------------------------------------
(* The controllers (hardware). *)

Raise(l) ==
    /\ l \in Lines \ {SLAVE_IRQ}
    /\ l \notin irr
    /\ iflag \/ boot # "running"
    /\ irr' = irr \cup {l}
    /\ UNCHANGED <<Boot, Threads>>

\* The level of the controllers at which a line is served: the slave's lines
\* are all at the level of the master's line 2, in their own order.
Rank(l) == IF l >= 8 THEN 8 * SLAVE_IRQ + l - 8 ELSE 8 * l

Vector(l) == IF l >= 8 THEN icw2[2] + l - 8 ELSE icw2[1] + l

\* The lines a request sets in service: a slave's line also the master's 2.
Served(l) == IF l >= 8 THEN {l, SLAVE_IRQ} ELSE {l}

\* A line is blocked by its own level or a higher one in service, at the master
\* or at the slave.
Deliverable(l) ==
    /\ iflag
    /\ l \in irr
    /\ Served(l) \cap mask = {}
    /\ \A k \in isr, j \in Served(l) : (k >= 8) = (j >= 8) => k > j

Deliver(l) ==
    /\ boot = "running"
    /\ Deliverable(l)
    /\ \A k \in irr : Deliverable(k) => Rank(l) <= Rank(k)
    /\ irr' = irr \ {l}
    /\ isr' = isr \cup Served(l)
    /\ Push(idt[Vector(l)])
    /\ iflag' = FALSE
    /\ UNCHANGED <<Boot, curr_terminal, started>>

\* The thread in front takes a step only when no request is deliverable.
Step == boot = "running" /\ \A l \in irr : ~Deliverable(l)

-----------------------------------------------------------------------------
(* The handlers. *)

\* A specific end of interrupt: for a slave's line to both controllers.
send_eoi(irq_num) == isr' = isr \ Served(irq_num)

pit_handler ==
    /\ Step
    /\ Top("pit")
    /\ send_eoi(PIT_IRQ)
    /\ iret
    /\ UNCHANGED <<Boot, irr, curr_terminal, started>>

rtc_handler ==
    /\ Step
    /\ Top("rtc")
    /\ send_eoi(RTC_IRQ)
    /\ iret
    /\ UNCHANGED <<Boot, irr, curr_terminal, started>>

\* A key that switches no terminal: cli_and_save and restore_flags leave the
\* flag off, and the whole handler is one step.
keyboard_handler ==
    /\ Step
    /\ Top("kbd")
    /\ send_eoi(KBD_IRQ)
    /\ iret
    /\ UNCHANGED <<Boot, irr, curr_terminal, started>>

Count(s, h) == Cardinality({i \in 1 .. Len(s) : s[i].h = h})

\* What Alt+Fn does besides the end of interrupt: the handler is left in
\* terminal_switch with its stack.  A terminal seen for the first time starts
\* its shell, with interrupts on; another one continues in its own handler
\* where it left the front, with interrupts on again.  A switch during the
\* kernel's own execute is in module ProcessControl.
Leave(t) ==
    /\ Step
    /\ Top("kbd")
    /\ t # curr_terminal
    /\ Count(stack, "start") = 0
    /\ Count(stack, "switched") < MaxSwitched
    /\ curr_terminal' = t
    /\ stacks' = [stacks EXCEPT ![curr_terminal] = Replace("switched"),
                                ![t] = IF t \in started THEN @
                                       ELSE <<[h |-> "start", fl |-> TRUE]>>]
    /\ iflag' = TRUE
    /\ UNCHANGED <<Boot, irr, started>>

\* Mutant of terminal_switch: the end of interrupt comes after the key is
\* processed, that is when the terminal is in front again.
terminal_switch_late(t) == Leave(t) /\ UNCHANGED isr

terminal_switch(t) == Leave(t) /\ send_eoi(KBD_IRQ)

\* Mutant of keyboard_handler_end: the caller's flag is not put back.
keyboard_handler_end_off ==
    /\ Step
    /\ Top("switched")
    /\ stacks' = [stacks EXCEPT ![curr_terminal] = SubSeq(stack, 1, Len(stack) - 1)]
    /\ iflag' = FALSE
    /\ UNCHANGED <<Boot, irr, isr, curr_terminal, started>>

\* The handler returns in the terminal that came back to the front:
\* restore_flags turns interrupts off, and iret restores the interrupted flag.
keyboard_handler_end ==
    /\ Step
    /\ Top("switched")
    /\ iret
    /\ UNCHANGED <<Boot, irr, isr, curr_terminal, started>>

-----------------------------------------------------------------------------
(* User mode, system calls and exceptions. *)

\* 0x80 is a trap gate: the flag is saved and stays on.
Syscall ==
    /\ Step
    /\ InUser
    /\ Push(idt[128])
    /\ UNCHANGED <<Boot, iflag, irr, isr, curr_terminal, started>>

sys_ret ==
    /\ Step
    /\ Top("sys")
    /\ iret
    /\ UNCHANGED <<Boot, irr, isr, curr_terminal, started>>

\* user_context_switch turns interrupts off, pushes EFLAGS with bit 9 set and
\* enters the program by iret.
user_context_switch == iflag' = TRUE

execute ==
    /\ Step
    /\ Top("sys")
    /\ Count(stack, "child") < MaxChildren
    /\ stacks' = [stacks EXCEPT ![curr_terminal] = Replace("child")]
    /\ user_context_switch
    /\ UNCHANGED <<Boot, irr, isr, curr_terminal, started>>

\* The kernel's own execute("shell"): nothing returns to the frame.
execute_shell ==
    /\ Step
    /\ Top("start")
    /\ stacks' = [stacks EXCEPT ![curr_terminal] = <<>>]
    /\ started' = started \cup {curr_terminal}
    /\ user_context_switch
    /\ UNCHANGED <<Boot, irr, isr, curr_terminal>>

\* An exception, in user mode or in a system call, comes by an interrupt gate.
exception ==
    /\ Step
    /\ InUser \/ Top("sys")
    /\ Push(idt[14])
    /\ iflag' = FALSE
    /\ UNCHANGED <<Boot, irr, isr, curr_terminal, started>>

\* halt, called by the program or by exception_handler: the parent's execute
\* returns through its own frame; a base shell is executed again.
halt ==
    /\ Step
    /\ Top("sys") \/ Top("exc")
    /\ \/ \E i \in 1 .. Len(stack) :
            /\ stack[i].h = "child"
            /\ \A j \in i + 1 .. Len(stack) : stack[j].h # "child"
            /\ stacks' = [stacks EXCEPT ![curr_terminal] = SubSeq(stack, 1, i - 1)]
            /\ iflag' = stack[i].fl
       \/ /\ \A j \in 1 .. Len(stack) : stack[j].h # "child"
          /\ stacks' = [stacks EXCEPT ![curr_terminal] = <<>>]
          /\ user_context_switch
    /\ UNCHANGED <<Boot, irr, isr, curr_terminal, started>>

-----------------------------------------------------------------------------
BootStep == idt_init \/ i8259_init \/ keyboard_init \/ rtc_init \/ pit_init \/ entry

Handling == pit_handler \/ rtc_handler \/ keyboard_handler \/ keyboard_handler_end
                \/ execute_shell \/ (Top("exc") /\ halt)

Next ==
    \/ BootStep
    \/ \E l \in Lines : Raise(l) \/ Deliver(l)
    \/ pit_handler \/ rtc_handler \/ keyboard_handler \/ keyboard_handler_end
    \/ \E t \in Terminals : terminal_switch(t)
    \/ Syscall \/ sys_ret \/ execute \/ execute_shell \/ exception \/ halt

Spec == Init /\ [][Next]_vars

\* The processor keeps executing: the boot goes on, a handler ends.  A request
\* that is the first in order again and again is delivered: the devices' periods
\* are longer than the handlers.
Fairness ==
    /\ WF_vars(BootStep)
    /\ WF_vars(Handling)
    /\ \A l \in Lines : SF_vars(Deliver(l))

FairSpec == Spec /\ Fairness

-----------------------------------------------------------------------------
TypeOK ==
    /\ boot \in {"idt_init", "i8259_init", "keyboard_init", "rtc_init", "pit_init",
                 "sti", "running"}
    /\ iflag \in BOOLEAN
    /\ idt \in [0 .. 255 -> Gates]
    /\ icw2 \in {<<8, 112>>, <<32, 40>>}
    /\ mask \subseteq Lines
    /\ irr \subseteq Lines \ {SLAVE_IRQ}
    /\ isr \subseteq Lines
    /\ curr_terminal \in Terminals
    /\ started \subseteq Terminals
    /\ stacks \in [Terminals -> Seq(Frames)]

\* While interrupts are on, every line the controllers would deliver has its own
\* handler behind its vector: entry() unmasks no line before its gate is set, and
\* the vectors i8259_init programs are the ones the device inits fill.
GatesReady ==
    iflag => \A l \in Lines \ (mask \cup {SLAVE_IRQ}) :
              \/ l = PIT_IRQ /\ idt[Vector(l)] = "pit"
              \/ l = KBD_IRQ /\ idt[Vector(l)] = "kbd"
              \/ l = RTC_IRQ /\ idt[Vector(l)] = "rtc"

\* Whenever interrupts are on, no line is in service: every handler has sent its
\* end of interrupt before the code it runs can enable interrupts or leave its
\* stack, so no line is blocked by a handler suspended in terminal_switch.
NothingInService == iflag => isr = {}

\* A program in user mode always runs with interrupts on, whatever way it got
\* there: a fresh context, a return from a handler that another terminal ran in
\* between, a halt in an exception with interrupts off.
UserInterruptible == InUser => iflag

\* Every request of the timer, the keyboard and the clock is eventually
\* delivered once the kernel runs.
RequestServed ==
    \A l \in {PIT_IRQ, KBD_IRQ, RTC_IRQ} :
        (boot = "running" /\ l \in irr) ~> l \notin irr
=============================================================================
