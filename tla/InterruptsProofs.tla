-------------------------- MODULE InterruptsProofs --------------------------
(***************************************************************************)
(* Interrupt delivery is sound for every number of terminals, every set of *)
(* lines that contains the four in use, and every nesting of handlers: the *)
(* invariants of module Interrupts hold in every reachable state.          *)
(***************************************************************************)
EXTENDS Interrupts, TLAPS

\* The handler behind a line's vector.
Ready(l) ==
    \/ l = PIT_IRQ /\ idt[32] = "pit"
    \/ l = KBD_IRQ /\ idt[33] = "kbd"
    \/ l = RTC_IRQ /\ idt[40] = "rtc"

\* Every frame of a stack was pushed with interrupts on.
SavedOn(s) == \A i \in 1 .. Len(s) : s[i].fl = TRUE

\* While interrupts are off the frame on top says which lines are in service.
OffBy(h, lines) == Top(h) /\ isr = lines

Booting ==
    /\ ~iflag
    /\ isr = {}
    /\ stacks = [t \in Terminals |-> <<>>]
    /\ curr_terminal = 0

Programmed ==
    /\ icw2 = <<32, 40>>
    /\ \A l \in Lines \ (mask \cup {SLAVE_IRQ}) : Ready(l)

\* The inductive invariant: the saved flags are all on, and interrupts are off
\* only below the top frame of a handler or an exception, whose lines are the
\* only ones in service.
IInv ==
    /\ TypeOK
    /\ boot # "running" => Booting
    /\ boot \notin {"idt_init", "i8259_init"} => Programmed
    /\ boot # "idt_init" => idt[14] = "exc" /\ idt[128] = "sys"
    /\ iflag => isr = {}
    /\ \A t \in Terminals : SavedOn(stacks[t])
    /\ boot = "running" /\ ~iflag =>
          \/ OffBy("pit", {PIT_IRQ})
          \/ OffBy("kbd", {KBD_IRQ})
          \/ OffBy("rtc", {RTC_IRQ, SLAVE_IRQ})
          \/ OffBy("exc", {})

-----------------------------------------------------------------------------
\* The frames a kernel stack keeps when one is pushed, taken off, relabelled or
\* cut keep their saved flags.
LEMMA AppendSaved ==
    ASSUME NEW s \in Seq(Frames), SavedOn(s), NEW f \in Frames, f.fl = TRUE
    PROVE  /\ Append(s, f) \in Seq(Frames)
           /\ SavedOn(Append(s, f))
           /\ Append(s, f) # <<>>
           /\ Append(s, f)[Len(Append(s, f))] = f
<1>1. Append(s, f) \in Seq(Frames) /\ Len(Append(s, f)) = Len(s) + 1
  OBVIOUS
<1>2. Len(s) \in Nat /\ Append(s, f)[Len(s) + 1] = f
  OBVIOUS
<1>3. \A i \in 1 .. Len(s) : Append(s, f)[i] = s[i]
  OBVIOUS
<1>4. \A i \in 1 .. Len(s) + 1 : i = Len(s) + 1 \/ i \in 1 .. Len(s)
  BY <1>2
<1>5. SavedOn(Append(s, f))
  BY <1>1, <1>2, <1>3, <1>4 DEF SavedOn
<1>6. Append(s, f) # <<>>
  BY <1>1, <1>2
<1> QED BY <1>1, <1>2, <1>5, <1>6

LEMMA CutSaved ==
    ASSUME NEW s \in Seq(Frames), SavedOn(s), NEW n \in Nat, n <= Len(s)
    PROVE  SubSeq(s, 1, n) \in Seq(Frames) /\ SavedOn(SubSeq(s, 1, n))
BY DEF SavedOn

LEMMA RelabelSaved ==
    ASSUME NEW s \in Seq(Frames), SavedOn(s), s # <<>>,
           NEW h \in {"child", "switched"}
    PROVE  /\ [s EXCEPT ![Len(s)].h = h] \in Seq(Frames)
           /\ SavedOn([s EXCEPT ![Len(s)].h = h])
<1>1. Len(s) \in 1 .. Len(s) /\ s[Len(s)] \in Frames
  OBVIOUS
<1>2. [s[Len(s)] EXCEPT !.h = h] \in Frames
  BY <1>1 DEF Frames
<1>3. [s[Len(s)] EXCEPT !.h = h].fl = s[Len(s)].fl
  BY <1>1 DEF Frames
<1> DEFINE f == [s[Len(s)] EXCEPT !.h = h]
<1>4. [s EXCEPT ![Len(s)].h = h] = [s EXCEPT ![Len(s)] = f]
  OBVIOUS
<1> HIDE DEF f
<1>5. [s EXCEPT ![Len(s)] = f] \in Seq(Frames) /\ Len([s EXCEPT ![Len(s)] = f]) = Len(s)
  BY <1>1, <1>2 DEF f
<1>6. SavedOn([s EXCEPT ![Len(s)] = f])
  BY <1>1, <1>3, <1>5 DEF SavedOn, f
<1> QED BY <1>4, <1>5, <1>6

\* A step of entry() that only fills gates and unmasks lines.
LEMMA BootingKeeps ==
    ASSUME IInv, boot # "running", UNCHANGED <<irr, Threads>>,
           boot' \in {"i8259_init", "keyboard_init", "rtc_init", "pit_init", "sti"},
           idt' \in [0 .. 255 -> Gates], mask' \subseteq Lines,
           icw2' \in {<<8, 112>>, <<32, 40>>},
           boot' \notin {"idt_init", "i8259_init"} => Programmed',
           idt'[14] = "exc" /\ idt'[128] = "sys"
    PROVE  IInv'
<1>1. TypeOK'
  BY DEF IInv, TypeOK, Threads
<1>2. Booting'
  BY DEF IInv, Booting, Threads
<1>3. (\A t \in Terminals : SavedOn(stacks[t]))' /\ (iflag => isr = {})'
  BY DEF IInv, SavedOn, Threads
<1> QED BY <1>1, <1>2, <1>3 DEF IInv

LEMMA AttachKeeps ==
    ASSUME IInv, NEW init \in {"keyboard_init", "rtc_init", "pit_init"},
           NEW next \in {"rtc_init", "pit_init", "sti"},
           NEW v \in {32, 33, 40}, NEW h \in Handlers, NEW l \in Lines,
           \/ l = 0 /\ v = 32 /\ h = "pit"
           \/ l = 1 /\ v = 33 /\ h = "kbd"
           \/ l = 8 /\ v = 40 /\ h = "rtc",
           Attach(init, v, h, l, next)
    PROVE  IInv'
<1>1. boot = init /\ boot' = next /\ UNCHANGED <<icw2, irr, Threads>>
  BY DEF Attach
<1>2. idt \in [0 .. 255 -> Gates] /\ mask \subseteq Lines /\ h \in Gates
  BY DEF IInv, TypeOK, Gates
<1>3. idt' = [idt EXCEPT ![v] = h] /\ mask' = mask \ {l}
  BY DEF Attach, enable_irq
<1>4. idt' \in [0 .. 255 -> Gates] /\ mask' \subseteq Lines
  BY <1>2, <1>3
<1>5. idt'[v] = h /\ \A w \in 0 .. 255 : w # v => idt'[w] = idt[w]
  BY SMTT(60), ZenonT(60), <1>2, <1>3
<1>6. idt'[14] = "exc" /\ idt'[128] = "sys"
  BY <1>1, <1>5 DEF IInv
<1>7. Programmed
  BY <1>1 DEF IInv
<1>8. ASSUME NEW k \in Lines \ (mask' \cup {SLAVE_IRQ}) PROVE Ready(k)'
  <2>1. CASE k = l
    BY <2>1, <1>5 DEF Ready, PIT_IRQ, KBD_IRQ, RTC_IRQ
  <2>2. CASE k # l
    BY <2>2, <1>3, <1>5, <1>7 DEF Programmed, Ready, PIT_IRQ, KBD_IRQ, RTC_IRQ
  <2> QED BY <2>1, <2>2
<1>9. Programmed'
  BY <1>1, <1>7, <1>8 DEF Programmed
<1>10. icw2' \in {<<8, 112>>, <<32, 40>>}
  BY <1>1, <1>7 DEF Programmed
<1> QED BY <1>1, <1>4, <1>6, <1>9, <1>10, BootingKeeps

\* The boot steps.
LEMMA BootKeeps == ASSUME IInv, BootStep PROVE IInv'
<1> USE InterruptsAssumption DEF SLAVE_IRQ, PIT_IRQ, KBD_IRQ, RTC_IRQ
<1>1. CASE idt_init
  <2>1. idt' \in [0 .. 255 -> Gates] /\ idt'[14] = "exc" /\ idt'[128] = "sys"
    BY <1>1 DEF idt_init, Gates, Handlers
  <2>2. boot = "idt_init" /\ boot' = "i8259_init"
        /\ UNCHANGED <<icw2, mask, irr, Threads>>
    BY <1>1 DEF idt_init
  <2>3. icw2' \in {<<8, 112>>, <<32, 40>>} /\ mask' \subseteq Lines
    BY <2>2 DEF IInv, TypeOK
  <2> QED BY <2>1, <2>2, <2>3, BootingKeeps
<1>2. CASE i8259_init
  BY <1>2 DEF IInv, TypeOK, i8259_init, Booting, Programmed, enable_irq, SavedOn
<1>3. CASE keyboard_init
  BY <1>3, AttachKeeps DEF keyboard_init, Handlers
<1>4. CASE rtc_init
  BY <1>4, AttachKeeps DEF rtc_init, Handlers
<1>5. CASE pit_init
  BY <1>5, AttachKeeps DEF pit_init, Handlers
<1>6. CASE entry
  <2>1. [h |-> "start", fl |-> TRUE] \in Frames
    BY DEF Frames
  <2>2. <<[h |-> "start", fl |-> TRUE]>> \in Seq(Frames)
        /\ SavedOn(<<[h |-> "start", fl |-> TRUE]>>)
    BY <2>1 DEF SavedOn
  <2>3. TypeOK' /\ \A t \in Terminals : SavedOn(stacks'[t])
    BY SMTT(60), ZenonT(60), <1>6, <2>2 DEF IInv, TypeOK, entry, Booting, SavedOn
  <2>4. (iflag => isr = {})' /\ iflag' /\ boot' = "running"
    BY <1>6 DEF IInv, entry, Booting
  <2>5. Programmed' /\ (idt[14] = "exc" /\ idt[128] = "sys")'
    BY <1>6 DEF IInv, entry, Programmed, Ready
  <2> QED BY <2>3, <2>4, <2>5 DEF IInv, SavedOn
<1> QED BY <1>1, <1>2, <1>3, <1>4, <1>5, <1>6 DEF BootStep

\* Once the kernel runs, a step that leaves the gates and the controllers'
\* programming alone keeps the invariant if it keeps the types and the saved
\* flags and accounts for the lines in service.
LEMMA RunningKeeps ==
    ASSUME IInv, boot = "running", UNCHANGED Boot,
           irr' \subseteq Lines \ {SLAVE_IRQ}, isr' \subseteq Lines,
           curr_terminal' \in Terminals, started' \subseteq Terminals,
           iflag' \in BOOLEAN,
           stacks' \in [Terminals -> Seq(Frames)],
           \A t \in Terminals : SavedOn(stacks'[t]),
           iflag' => isr' = {},
           ~iflag' => \/ OffBy("pit", {PIT_IRQ})'
                      \/ OffBy("kbd", {KBD_IRQ})'
                      \/ OffBy("rtc", {RTC_IRQ, SLAVE_IRQ})'
                      \/ OffBy("exc", {})'
    PROVE  IInv'
<1>1. TypeOK' BY DEF IInv, TypeOK, Boot
<1>2. Programmed' BY DEF IInv, Programmed, Ready, Boot
<1>3. (boot = "running" /\ idt[14] = "exc" /\ idt[128] = "sys")'
  BY DEF IInv, Boot
<1>4. (\A t \in Terminals : SavedOn(stacks[t]))'
  BY DEF SavedOn
<1> QED BY <1>1, <1>2, <1>3, <1>4 DEF IInv

\* A frame pushed on the stack in front.
LEMMA PushSaved ==
    ASSUME IInv, iflag = TRUE, NEW h, [h |-> h, fl |-> TRUE] \in Frames, Push(h)
    PROVE  /\ stacks' \in [Terminals -> Seq(Frames)]
           /\ \A t \in Terminals : SavedOn(stacks'[t])
           /\ stacks'[curr_terminal] # <<>>
           /\ stacks'[curr_terminal][Len(stacks'[curr_terminal])].h = h
<1> DEFINE f == [h |-> h, fl |-> TRUE]
           s == Append(stack, f)
<1>1. /\ stacks \in [Terminals -> Seq(Frames)] /\ curr_terminal \in Terminals
      /\ \A t \in Terminals : SavedOn(stacks[t])
  BY DEF IInv, TypeOK
<1>2. stack \in Seq(Frames) /\ SavedOn(stack)
  BY <1>1 DEF stack
<1>3. f.fl = TRUE /\ f.h = h /\ f \in Frames
  OBVIOUS
<1>4. stacks' = [stacks EXCEPT ![curr_terminal] = s]
  BY DEF Push
<1> HIDE DEF f
<1>5. s \in Seq(Frames) /\ SavedOn(s) /\ s # <<>> /\ s[Len(s)] = f
  BY <1>2, <1>3, AppendSaved
<1> HIDE DEF s
<1> QED BY <1>1, <1>3, <1>4, <1>5

\* A stack in front replaced by another one with saved flags on.
LEMMA SetSaved ==
    ASSUME IInv, NEW s \in Seq(Frames), SavedOn(s),
           stacks' = [stacks EXCEPT ![curr_terminal] = s]
    PROVE  /\ stacks' \in [Terminals -> Seq(Frames)]
           /\ \A t \in Terminals : SavedOn(stacks'[t])
<1>1. stacks \in [Terminals -> Seq(Frames)] /\ curr_terminal \in Terminals
      /\ \A t \in Terminals : SavedOn(stacks[t])
  BY DEF IInv, TypeOK
<1>2. stacks' \in [Terminals -> Seq(Frames)]
  BY <1>1
<1>3. stacks'[curr_terminal] = s
      /\ \A t \in Terminals : t # curr_terminal => stacks'[t] = stacks[t]
  BY <1>1
<1> QED BY <1>1, <1>2, <1>3

\* Returning through the top frame turns interrupts on.
LEMMA IretSaved ==
    ASSUME IInv, NEW h, Top(h), iret
    PROVE  /\ stacks' \in [Terminals -> Seq(Frames)]
           /\ \A t \in Terminals : SavedOn(stacks'[t])
           /\ iflag' = TRUE
<1>1. stack \in Seq(Frames) /\ SavedOn(stack) /\ stack # <<>>
  BY DEF IInv, TypeOK, stack, Top
<1>2. Len(stack) \in 1 .. Len(stack) /\ Len(stack) - 1 \in Nat
      /\ Len(stack) - 1 <= Len(stack)
  BY <1>1
<1>3. SubSeq(stack, 1, Len(stack) - 1) \in Seq(Frames)
      /\ SavedOn(SubSeq(stack, 1, Len(stack) - 1))
  BY <1>1, <1>2, CutSaved
<1>4. iflag' = TRUE
  BY <1>1, <1>2 DEF iret, SavedOn
<1> QED BY <1>3, <1>4, SetSaved DEF iret

\* Which lines are in service when a given frame is on top.
LEMMA InService ==
    ASSUME IInv, boot = "running"
    PROVE  /\ Top("pit") => isr \subseteq {PIT_IRQ}
           /\ Top("kbd") => isr \subseteq {KBD_IRQ}
           /\ Top("rtc") => isr \subseteq {RTC_IRQ, SLAVE_IRQ}
           /\ Top("exc") => isr = {}
           /\ InUser \/ Top("sys") \/ Top("start") \/ Top("switched") =>
                 iflag = TRUE /\ isr = {}
<1>1. iflag \in BOOLEAN /\ (iflag => isr = {})
  BY DEF IInv, TypeOK
<1>2. ~iflag => \/ Top("pit") /\ isr = {PIT_IRQ}
                \/ Top("kbd") /\ isr = {KBD_IRQ}
                \/ Top("rtc") /\ isr = {RTC_IRQ, SLAVE_IRQ}
                \/ Top("exc") /\ isr = {}
  BY DEF IInv, OffBy
<1> QED BY <1>1, <1>2 DEF Top, InUser

\* Delivery finds a gate with the handler of the line, and the line in service
\* is the one of the frame it pushes.
LEMMA DeliverKeeps ==
    ASSUME IInv, NEW l \in Lines, Deliver(l) PROVE IInv'
<1> USE InterruptsAssumption DEF SLAVE_IRQ, PIT_IRQ, KBD_IRQ, RTC_IRQ
<1>1. boot = "running" /\ iflag = TRUE /\ isr = {} /\ l \in irr
      /\ Served(l) \cap mask = {}
  BY DEF Deliver, Deliverable, IInv, TypeOK
<1>2. l \notin mask /\ l # 2
  BY <1>1 DEF Served, IInv, TypeOK
<1>3. Programmed
  BY <1>1 DEF IInv
<1>4. Ready(l)
  BY <1>2, <1>3 DEF Programmed
<1> DEFINE h == idt[Vector(l)]
<1>5. isr' = Served(l) /\ Push(h) /\ iflag' = FALSE /\ irr' = irr \ {l}
      /\ UNCHANGED <<Boot, curr_terminal, started>>
  BY <1>1 DEF Deliver
<1>6. \/ l = 0 /\ h = "pit" /\ isr' = {0}
      \/ l = 1 /\ h = "kbd" /\ isr' = {1}
      \/ l = 8 /\ h = "rtc" /\ isr' = {8, 2}
  BY <1>3, <1>4, <1>5 DEF Ready, Vector, Served, Programmed
<1> HIDE DEF h
<1>7. [h |-> h, fl |-> TRUE] \in Frames
  BY <1>6 DEF Frames, Handlers
<1>8. /\ stacks' \in [Terminals -> Seq(Frames)]
      /\ \A t \in Terminals : SavedOn(stacks'[t])
      /\ stacks'[curr_terminal] # <<>>
      /\ stacks'[curr_terminal][Len(stacks'[curr_terminal])].h = h
  BY <1>1, <1>5, <1>7, PushSaved
<1>9. \/ OffBy("pit", {0})' \/ OffBy("kbd", {1})' \/ OffBy("rtc", {8, 2})'
  BY <1>5, <1>6, <1>8 DEF OffBy, Top, stack
<1>10. isr' \subseteq Lines
  BY <1>6
<1>11. irr' \subseteq Lines \ {2}
  BY <1>5 DEF IInv, TypeOK
<1>12. curr_terminal' \in Terminals /\ started' \subseteq Terminals
  BY <1>5 DEF IInv, TypeOK
<1> QED BY <1>1, <1>5, <1>8, <1>9, <1>10, <1>11, <1>12, RunningKeeps

\* The handlers send their end of interrupt before anything can enable
\* interrupts: after it no line is in service.
LEMMA HandlerKeeps ==
    ASSUME IInv, pit_handler \/ rtc_handler \/ keyboard_handler
                     \/ keyboard_handler_end \/ sys_ret
    PROVE  IInv'
<1>1. boot = "running" /\ UNCHANGED <<Boot, irr, curr_terminal, started>> /\ iret
  BY DEF pit_handler, rtc_handler, keyboard_handler, keyboard_handler_end, sys_ret, Step
<1>2. \/ Top("pit") /\ isr' = isr \ {PIT_IRQ}
      \/ Top("rtc") /\ isr' = isr \ {RTC_IRQ, SLAVE_IRQ}
      \/ Top("kbd") /\ isr' = isr \ {KBD_IRQ}
      \/ (Top("switched") \/ Top("sys")) /\ isr' = isr
  BY DEF pit_handler, rtc_handler, keyboard_handler, keyboard_handler_end, sys_ret,
         send_eoi, Served, PIT_IRQ, RTC_IRQ, KBD_IRQ
<1>3. isr' = {}
  BY <1>1, <1>2, InService
<1>4. PICK h : Top(h)
  BY <1>2
<1>5. /\ stacks' \in [Terminals -> Seq(Frames)]
      /\ \A t \in Terminals : SavedOn(stacks'[t])
      /\ iflag' = TRUE
  BY <1>1, <1>4, IretSaved
<1>6. irr' \subseteq Lines \ {SLAVE_IRQ} /\ curr_terminal' \in Terminals
      /\ started' \subseteq Terminals
  BY <1>1 DEF IInv, TypeOK
<1> QED BY <1>1, <1>3, <1>5, <1>6, RunningKeeps

\* A switch leaves the handler's stack with nothing in service.
LEMMA SwitchKeeps ==
    ASSUME IInv, NEW t \in Terminals, terminal_switch(t) PROVE IInv'
<1>1. boot = "running" /\ Top("kbd") /\ t # curr_terminal /\ curr_terminal' = t
      /\ iflag' = TRUE /\ UNCHANGED <<Boot, irr, started>>
  BY DEF terminal_switch, Leave, Step
<1>2. isr' = {}
  BY <1>1, InService DEF terminal_switch, send_eoi, Served, KBD_IRQ
<1>3. stack \in Seq(Frames) /\ SavedOn(stack) /\ stack # <<>>
  BY <1>1 DEF IInv, TypeOK, stack, Top
<1> DEFINE a == Replace("switched")
           b == <<[h |-> "start", fl |-> TRUE]>>
<1>4. a \in Seq(Frames) /\ SavedOn(a)
  BY <1>3, RelabelSaved DEF Replace
<1>5. [h |-> "start", fl |-> TRUE] \in Frames
  BY DEF Frames
<1>6. b \in Seq(Frames) /\ SavedOn(b)
  BY <1>5 DEF SavedOn
<1>7. stacks' = [stacks EXCEPT ![curr_terminal] = a,
                               ![t] = IF t \in started THEN @ ELSE b]
  BY DEF terminal_switch, Leave
<1> HIDE DEF a, b
<1>8. /\ stacks \in [Terminals -> Seq(Frames)] /\ curr_terminal \in Terminals
      /\ \A u \in Terminals : SavedOn(stacks[u])
  BY DEF IInv, TypeOK
<1>9. /\ stacks' \in [Terminals -> Seq(Frames)]
      /\ \A u \in Terminals : \/ stacks'[u] = stacks[u]
                               \/ stacks'[u] = a
                               \/ stacks'[u] = b
  BY <1>1, <1>4, <1>6, <1>7, <1>8
<1>10. \A u \in Terminals : SavedOn(stacks'[u])
  BY <1>4, <1>6, <1>8, <1>9
<1>11. irr' \subseteq Lines \ {SLAVE_IRQ} /\ started' \subseteq Terminals
  BY <1>1 DEF IInv, TypeOK
<1> QED BY <1>1, <1>2, <1>9, <1>10, <1>11, RunningKeeps

\* User mode is entered with interrupts on and nothing in service.
LEMMA UserKeeps ==
    ASSUME IInv, Syscall \/ execute \/ execute_shell \/ exception \/ halt
    PROVE  IInv'
<1>1. boot = "running" /\ UNCHANGED <<Boot, irr, isr, curr_terminal>>
  BY DEF Syscall, execute, execute_shell, exception, halt, Step
<1>2. irr' \subseteq Lines \ {SLAVE_IRQ} /\ curr_terminal' \in Terminals
      /\ started' \subseteq Terminals
  <2>1. irr' \subseteq Lines \ {SLAVE_IRQ} /\ curr_terminal' \in Terminals
    BY <1>1 DEF IInv, TypeOK
  <2>2. started' = started \/ started' = started \cup {curr_terminal}
    BY DEF Syscall, execute, execute_shell, exception, halt
  <2>3. started \subseteq Terminals /\ curr_terminal \in Terminals
    BY DEF IInv, TypeOK
  <2>4. started' \subseteq Terminals
    BY <2>2, <2>3
  <2> QED BY <2>1, <2>4
<1>3. idt[14] = "exc" /\ idt[128] = "sys"
  BY <1>1 DEF IInv
<1>4. [h |-> "sys", fl |-> TRUE] \in Frames /\ [h |-> "exc", fl |-> TRUE] \in Frames
  BY DEF Frames
<1>5. stack \in Seq(Frames) /\ SavedOn(stack)
  BY DEF IInv, TypeOK, stack
<1>6. isr' = {}
  BY <1>1, InService DEF Syscall, execute, execute_shell, exception, halt
<1>7. CASE Syscall
  <2>1. InUser /\ Push("sys") /\ iflag' = iflag
    BY <1>3, <1>7 DEF Syscall
  <2>2. iflag = TRUE
    BY <1>1, <2>1, InService
  <2> QED BY <1>1, <1>2, <1>4, <1>6, <2>1, <2>2, PushSaved, RunningKeeps
<1>8. CASE exception
  <2>1. (InUser \/ Top("sys")) /\ Push("exc") /\ iflag' = FALSE
    BY <1>3, <1>8 DEF exception
  <2>2. iflag = TRUE
    BY <1>1, <2>1, InService
  <2>3. /\ stacks' \in [Terminals -> Seq(Frames)]
        /\ \A t \in Terminals : SavedOn(stacks'[t])
        /\ stacks'[curr_terminal] # <<>>
        /\ stacks'[curr_terminal][Len(stacks'[curr_terminal])].h = "exc"
    BY <1>4, <2>1, <2>2, PushSaved
  <2>4. OffBy("exc", {})'
    BY <1>1, <1>6, <2>3 DEF OffBy, Top, stack
  <2> QED BY <1>1, <1>2, <1>6, <2>1, <2>3, <2>4, RunningKeeps
<1>9. CASE execute
  <2>1. stack # <<>> /\ iflag' = TRUE
        /\ stacks' = [stacks EXCEPT ![curr_terminal] = Replace("child")]
    BY <1>9 DEF execute, Top, user_context_switch
  <2>2. Replace("child") \in Seq(Frames) /\ SavedOn(Replace("child"))
    BY <1>5, <2>1, RelabelSaved DEF Replace
  <2> QED BY <1>1, <1>2, <1>6, <2>1, <2>2, SetSaved, RunningKeeps
<1>10. <<>> \in Seq(Frames) /\ SavedOn(<<>>)
  BY DEF SavedOn
<1>11. CASE execute_shell
  <2>1. iflag' = TRUE /\ stacks' = [stacks EXCEPT ![curr_terminal] = <<>>]
    BY <1>11 DEF execute_shell, user_context_switch
  <2> QED BY <1>1, <1>2, <1>6, <1>10, <2>1, SetSaved, RunningKeeps
<1>12. CASE halt
  <2>1. CASE \E i \in 1 .. Len(stack) :
               /\ stacks' = [stacks EXCEPT ![curr_terminal] = SubSeq(stack, 1, i - 1)]
               /\ iflag' = stack[i].fl
    <3>1. PICK i \in 1 .. Len(stack) :
               /\ stacks' = [stacks EXCEPT ![curr_terminal] = SubSeq(stack, 1, i - 1)]
               /\ iflag' = stack[i].fl
      BY <2>1
    <3>2. i - 1 \in Nat /\ i - 1 <= Len(stack)
      BY <1>5
    <3>3. SubSeq(stack, 1, i - 1) \in Seq(Frames) /\ SavedOn(SubSeq(stack, 1, i - 1))
      BY <1>5, <3>2, CutSaved
    <3>4. iflag' = TRUE
      BY <1>5, <3>1 DEF SavedOn
    <3> QED BY <1>1, <1>2, <1>6, <3>1, <3>3, <3>4, SetSaved, RunningKeeps
  <2>2. CASE iflag' = TRUE /\ stacks' = [stacks EXCEPT ![curr_terminal] = <<>>]
    BY <1>1, <1>2, <1>6, <1>10, <2>2, SetSaved, RunningKeeps
  <2> QED BY <1>12, <2>1, <2>2 DEF halt, user_context_switch
<1> QED BY <1>7, <1>8, <1>9, <1>11, <1>12

\* A step that changes at most the requests.
LEMMA RequestsKeep ==
    ASSUME IInv, irr' \subseteq Lines \ {SLAVE_IRQ}, UNCHANGED <<Boot, Threads>>
    PROVE  IInv'
<1>1. UNCHANGED <<boot, idt, icw2, mask>>
  BY DEF Boot
<1>2. UNCHANGED <<iflag, isr, curr_terminal, started, stacks>>
  BY DEF Threads
<1>3. TypeOK'
  BY SMTT(60), ZenonT(60), <1>1, <1>2 DEF IInv, TypeOK
<1>4. (boot # "running" => Booting)'
  BY <1>1, <1>2 DEF IInv, Booting
<1>5. (boot \notin {"idt_init", "i8259_init"} => Programmed)'
  BY <1>1, <1>2 DEF IInv, Programmed, Ready
<1>6. (\A t \in Terminals : SavedOn(stacks[t]))'
  BY <1>2 DEF IInv, SavedOn
<1>7. (boot # "idt_init" => idt[14] = "exc" /\ idt[128] = "sys")' /\ (iflag => isr = {})'
  BY <1>1, <1>2 DEF IInv
<1>8. (boot = "running" /\ ~iflag =>
          \/ OffBy("pit", {PIT_IRQ})
          \/ OffBy("kbd", {KBD_IRQ})
          \/ OffBy("rtc", {RTC_IRQ, SLAVE_IRQ})
          \/ OffBy("exc", {}))'
  BY <1>1, <1>2 DEF IInv, OffBy, Top, stack
<1> QED BY <1>3, <1>4, <1>5, <1>6, <1>7, <1>8 DEF IInv

LEMMA RaiseKeeps ==
    ASSUME IInv, NEW l \in Lines, Raise(l) PROVE IInv'
<1>1. l # SLAVE_IRQ /\ irr' = irr \cup {l} /\ UNCHANGED <<Boot, Threads>>
  BY DEF Raise
<1>2. irr \subseteq Lines \ {SLAVE_IRQ}
  BY DEF IInv, TypeOK
<1> QED BY <1>1, <1>2, RequestsKeep

\* The three facts the invariants need follow from the inductive invariant.
LEMMA IInvImplies ==
    ASSUME IInv PROVE GatesReady /\ NothingInService /\ UserInterruptible
<1>1. NothingInService
  BY DEF IInv, NothingInService
<1>2. UserInterruptible
  BY InService DEF UserInterruptible, InUser
<1>3. GatesReady
  <2> SUFFICES ASSUME iflag PROVE GatesReady
    BY DEF GatesReady
  <2>1. Programmed
    BY DEF IInv, Booting
  <2> QED BY <2>1 DEF GatesReady, Programmed, Ready, Vector, PIT_IRQ, KBD_IRQ, RTC_IRQ
<1> QED BY <1>1, <1>2, <1>3

LEMMA InitIInv == ASSUME Init PROVE IInv
<1>1. TypeOK
  <2>1. idt \in [0 .. 255 -> Gates]
    BY DEF Init, Gates
  <2>2. stacks \in [Terminals -> Seq(Frames)]
    BY DEF Init
  <2> QED BY <2>1, <2>2, InterruptsAssumption DEF Init, TypeOK, SLAVE_IRQ
<1>2. Booting /\ boot = "idt_init"
  BY DEF Init, Booting
<1>3. \A t \in Terminals : SavedOn(stacks[t])
  BY DEF Init, SavedOn
<1> QED BY <1>1, <1>2, <1>3 DEF IInv, Booting

LEMMA Inductive == Spec => []IInv
<1>1. ASSUME IInv, Next PROVE IInv'
  BY <1>1, BootKeeps, RaiseKeeps, DeliverKeeps, HandlerKeeps, SwitchKeeps, UserKeeps
     DEF Next
<1>2. ASSUME IInv, UNCHANGED vars PROVE IInv'
  <2>1. irr' \subseteq Lines \ {SLAVE_IRQ} /\ UNCHANGED <<Boot, Threads>>
    BY <1>2 DEF vars, Boot, Threads, IInv, TypeOK
  <2> QED BY <1>2, <2>1, RequestsKeep
<1>3. IInv /\ [Next]_vars => IInv'
  BY <1>1, <1>2
<1>4. Init => IInv
  BY InitIInv
<1> QED BY <1>3, <1>4, PTL DEF Spec

\* In every reachable state of the boot and of the running kernel, for any
\* number of terminals and any nesting: an enabled line has its handler, no line
\* stays in service while interrupts are on, and user mode is interruptible.
THEOREM DeliverySound ==
    Spec => [](GatesReady /\ NothingInService /\ UserInterruptible)
<1>1. IInv => GatesReady /\ NothingInService /\ UserInterruptible
  BY IInvImplies
<1> QED BY <1>1, Inductive, PTL

\* While interrupts are on, a line that can be delivered has its handler behind
\* its vector, at every point of entry's initialisers and after them.
THEOREM GatesSafe == Spec => []GatesReady
BY DeliverySound, PTL

\* Whatever nesting of handlers and switches led there, a program runs with
\* interrupts on: no path through the wrappers leaves them off.
THEOREM UserSafe == Spec => []UserInterruptible
BY DeliverySound, PTL

\* The state keeps its types, the interrupt flags and the stacks included.
THEOREM InterruptTypes == Spec => []TypeOK
<1>1. IInv => TypeOK
  BY DEF IInv
<1> QED BY <1>1, Inductive, PTL
=============================================================================
