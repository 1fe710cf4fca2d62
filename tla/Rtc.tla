-------------------------------- MODULE Rtc --------------------------------
(***************************************************************************)
(* The real-time clock: rtc.c, its interrupt, and the Ctrl+4 key that      *)
(* shows the rates.  curr_rate and interrupt_flag are globals that all     *)
(* terminals share (curr_frequency is stored and never read, and left      *)
(* out).  The system calls run with interrupts on; only the write of       *)
(* register A is inside cli.  A thread runs while its terminal is in front *)
(* and stops wherever it is when a switch comes: each load and each store  *)
(* of curr_rate is a step.                                                 *)
(***************************************************************************)
EXTENDS Integers, FiniteSetsExt

CONSTANTS
    Terminals,
    Writers,      \* the terminals whose programs open or write the RTC
    NUM_FREQ,     \* entries of frequencies, 14 in the code; 2 less than a power of two
    MAX_RATE,     \* the rate of the highest frequency allowed, 6 in the code
    RATE_WORD,    \* 256 in the code: curr_rate is a byte
    Writes,       \* frequencies programs ask for; opening the RTC asks for 2
    Keys          \* TRUE: Ctrl+4 is pressed

MIN_RATE == NUM_FREQ + 1    \* 15 in the code
BAD      == -1              \* what lies behind the table
HANDLER  == -1              \* the keyboard handler, beside the threads of Terminals

VARIABLES
    front,           \* curr_terminal
    pc, want, reg,   \* per thread: next step, frequency asked for, a register
    curr_rate, interrupt_flag,
    rateA,           \* the rate, the low bits of register A; 0 turns the interrupt off
    divider,         \* the bits above the rate are still those of the time base
    regC,            \* register C holds an interrupt flag that was not read yet
    irq,             \* the interrupt is pending at the PIC
    ticked,          \* per thread in rtc_read: an interrupt came since the call
    disturbed,       \* per thread in set_frequency: who has stored to curr_rate meanwhile
    CTR4, shown      \* Ctrl+4: the next shift, and the frequency on the screen

vars == <<front, pc, want, reg, curr_rate, interrupt_flag, rateA, divider,
          regC, irq, ticked, disturbed, CTR4, shown>>

Chip    == <<rateA, divider, regC, irq>>
Device  == <<Chip, interrupt_flag, ticked>>
Console == <<CTR4, shown, disturbed>>

\* No interrupts can be counted on: rate 0, or not the divider of the crystal.
Silent == rateA = 0 \/ ~divider

\* {32768, 16384, ..., 4}: 2 Hz is not in the table.
frequencies(i) == IF i \in 0 .. NUM_FREQ - 1 THEN 2 ^ (NUM_FREQ + 1 - i) ELSE BAD

\* "frequency = 32768 >> (rate-1)"
Hz(rate) == 2 ^ (NUM_FREQ + 2 - rate)

\* What set_frequency computes when it runs undisturbed.
Rate(f) ==
    LET i == Min({NUM_FREQ} \cup {k \in 0 .. NUM_FREQ - 1 : frequencies(k) = f})
    IN  Max({MAX_RATE, Min({i + 1, MIN_RATE})})

\* rtc_init: the periodic interrupt at 2 Hz.
Init ==
    /\ front \in Terminals
    /\ pc = [t \in Terminals |-> "user"]
    /\ want = [t \in Terminals |-> 2]
    /\ reg = [t \in Terminals |-> 0]
    /\ curr_rate = Rate(2)
    /\ interrupt_flag = 1
    /\ rateA = Rate(2)
    /\ divider = TRUE
    /\ regC = FALSE
    /\ irq = FALSE
    /\ ticked = [t \in Terminals |-> FALSE]
    /\ disturbed = [t \in Terminals |-> {}]
    /\ CTR4 = NUM_FREQ
    /\ shown = 2

Goto(t, l) == pc' = [pc EXCEPT ![t] = l]

\* rtc_open asks for 2 Hz, rtc_write for what it is given.
SetFrequency(t, f) ==
    /\ pc[t] = "user"
    /\ Goto(t, "zero")
    /\ want' = [want EXCEPT ![t] = f]
    /\ disturbed' = [disturbed EXCEPT ![t] = {}]
    /\ UNCHANGED <<front, reg, curr_rate, Device, CTR4, shown>>

\* A store to curr_rate disturbs the other threads that have begun their search.
Disturbs(who) ==
    disturbed' = [u \in Terminals |-> IF u = who \/ pc[u] \in {"user", "wait", "zero"}
                                      THEN disturbed[u] ELSE disturbed[u] \cup {who}]

Store(t, from, value, l) ==
    /\ pc[t] = from
    /\ curr_rate' = value
    /\ reg' = [reg EXCEPT ![t] = 0]
    /\ Goto(t, l)
    /\ Disturbs(t)
    /\ UNCHANGED <<front, want, Device, CTR4, shown>>

Test(t, from, cond, yes, no) ==
    /\ pc[t] = from
    /\ Goto(t, IF cond THEN yes ELSE no)
    /\ UNCHANGED <<front, want, reg, curr_rate, Device, Console>>

\* curr_rate++ is a load and a store.
Load(t, from, l) ==
    /\ pc[t] = from
    /\ reg' = [reg EXCEPT ![t] = (curr_rate + 1) % RATE_WORD]
    /\ Goto(t, l)
    /\ UNCHANGED <<front, want, curr_rate, Device, Console>>

\* The search, the increment, and the two limits.
Search(t) ==
    \/ Store(t, "zero", 0, "test")
    \/ Test(t, "test", curr_rate < NUM_FREQ, "match", "incr")
    \/ Test(t, "match", frequencies(curr_rate) = want[t], "incr", "next")
    \/ Load(t, "next", "next store")
    \/ Store(t, "next store", reg[t], "test")

Limit(t) ==
    \/ Load(t, "incr", "incr store")
    \/ Store(t, "incr store", reg[t], "cap")
    \/ Test(t, "cap", curr_rate > MIN_RATE, "cap store", "floor")
    \/ Store(t, "cap store", MIN_RATE, "floor")
    \/ Test(t, "floor", curr_rate < MAX_RATE, "floor store", "program")
    \/ Store(t, "floor store", MAX_RATE, "program")

\* Between cli and restore_flags: (prev_data & 0xF0) | curr_rate.  A curr_rate
\* of MIN_RATE + 1 or more sets a bit above the rate, which no later write clears.
Program(t) ==
    /\ pc[t] = "program"
    /\ rateA' = curr_rate % (MIN_RATE + 1)
    /\ divider' = (divider /\ curr_rate <= MIN_RATE)
    /\ Goto(t, "user")
    /\ want' = [want EXCEPT ![t] = 2]
    /\ disturbed' = [disturbed EXCEPT ![t] = {}]
    /\ UNCHANGED <<front, reg, curr_rate, regC, irq, interrupt_flag, ticked, CTR4, shown>>

\* Mutant of ReadClear: the flag is not cleared.
ReadClear_not(t) ==
    /\ pc[t] = "user"
    /\ Goto(t, "wait")
    /\ UNCHANGED <<front, want, reg, curr_rate, Device, Console>>

\* rtc_read: clear the flag and wait for the handler to set it.
ReadClear(t) ==
    /\ pc[t] = "user"
    /\ Goto(t, "wait")
    /\ interrupt_flag' = 0
    /\ UNCHANGED <<front, want, reg, curr_rate, Chip, ticked, Console>>

ReadReturn(t) ==
    /\ pc[t] = "wait"
    /\ interrupt_flag = 1
    /\ Goto(t, "user")
    /\ ticked' = [ticked EXCEPT ![t] = FALSE]
    /\ UNCHANGED <<front, want, reg, curr_rate, Chip, interrupt_flag, Console>>

Step(t) ==
    /\ t = front
    /\ Search(t) \/ Limit(t) \/ Program(t) \/ ReadReturn(t)

Begin(t) ==
    /\ t = front
    /\ \/ t \in Writers /\ \E f \in Writes : SetFrequency(t, f)
       \/ ReadClear(t)

\* The chip raises its interrupt at the programmed rate, but only after
\* register C has been read since the last one.
Tick ==
    /\ ~Silent /\ ~regC
    /\ regC' = TRUE
    /\ irq' = TRUE
    /\ UNCHANGED <<front, pc, want, reg, curr_rate, rateA, divider, interrupt_flag, ticked, Console>>

\* Mutant of rtc_handler: register C is not read.
rtc_handler_no_c ==
    /\ irq
    /\ interrupt_flag' = 1
    /\ irq' = FALSE
    /\ ticked' = [t \in Terminals |-> pc[t] = "wait"]
    /\ UNCHANGED <<front, pc, want, reg, curr_rate, rateA, divider, regC, Console>>

rtc_handler ==
    /\ irq
    /\ interrupt_flag' = 1
    /\ irq' = FALSE
    /\ regC' = FALSE
    /\ ticked' = [t \in Terminals |-> pc[t] = "wait"]
    /\ UNCHANGED <<front, pc, want, reg, curr_rate, rateA, divider, Console>>

Switch(t) ==
    /\ t # front
    /\ front' = t
    /\ UNCHANGED <<pc, want, reg, curr_rate, Device, Console>>

\* Ctrl+4, in the keyboard handler: rtc_open sets 2 Hz; with a free descriptor
\* the next frequency is shown and written.
ShowFreq(shift, ok) ==
    LET f == IF ok THEN 2 ^ (NUM_FREQ + 1) \div 2 ^ shift ELSE 2
    IN  /\ curr_rate' = Rate(f)
        /\ rateA' = Rate(f)
        /\ shown' = IF ok THEN 2 ^ (NUM_FREQ + 1) \div 2 ^ shift ELSE 0

CtrlFour(ok) ==
    /\ Keys
    /\ IF CTR4 = MAX_RATE - 2
       THEN CTR4' = NUM_FREQ /\ ShowFreq(NUM_FREQ, ok)
       ELSE CTR4' = CTR4 - 1 /\ ShowFreq(CTR4, ok)
    /\ Disturbs(HANDLER)
    /\ UNCHANGED <<front, pc, want, reg, divider, regC, irq, interrupt_flag, ticked>>

Next ==
    \/ \E t \in Terminals : Step(t) \/ Begin(t) \/ Switch(t)
    \/ Tick
    \/ rtc_handler
    \/ \E ok \in BOOLEAN : CtrlFour(ok)

\* The thread in front gets instructions, the chip keeps its rate and the
\* interrupt is taken, since nothing turns interrupts off for good.
Spec ==
    /\ Init /\ [][Next]_vars
    /\ \A t \in Terminals : WF_vars(Step(t))
    /\ WF_vars(Tick)
    /\ WF_vars(rtc_handler)

-----------------------------------------------------------------------------
TypeOK ==
    /\ front \in Terminals
    /\ curr_rate \in 0 .. RATE_WORD - 1 /\ rateA \in 0 .. MIN_RATE
    /\ interrupt_flag \in {0, 1}
    /\ CTR4 \in MAX_RATE - 2 .. NUM_FREQ
    /\ \A t \in Terminals : /\ reg[t] \in 0 .. RATE_WORD - 1 /\ ticked[t] \in BOOLEAN
                             /\ disturbed[t] \subseteq Terminals \cup {HANDLER}

\* "This function wil limit the frequency up to 1024 interrupts per second.
\* This is a rate of 6. So anything less than 6 will be forced to 6"
\* (rtc.c:97-98), and "can't be over 15" (rtc.c:118).  Every write of register A
\* keeps to this and leaves the divider alone, also when Ctrl+4 sets another
\* frequency in the middle of set_frequency, with one exception: curr_rate is
\* not locked (rtc.c:112-121), and a thread that another thread's set_frequency
\* has crossed writes whatever that one has left in it, 0 and 16 included.
WritesInRange ==
    \/ rateA' \in MAX_RATE .. MIN_RATE /\ divider' = divider
    \/ UNCHANGED <<rateA, divider>>
    \/ \E t \in Terminals : pc[t] = "program" /\ disturbed[t] \cap Terminals # {}

\* A set_frequency nobody interfered with leaves the chip at the frequency
\* asked for, up to the highest one allowed, and at 2 Hz when it is no power
\* of two (rtc.c:100-101).
WritesAsAsked ==
    \A t \in Terminals :
        pc[t] = "program" /\ pc'[t] = "user" /\ disturbed[t] = {} =>
            LET powers == {Hz(r) : r \in MAX_RATE .. MIN_RATE}
            IN  IF want[t] \in powers THEN Hz(rateA') = want[t]
                ELSE IF \E i \in 0 .. NUM_FREQ - 1 : frequencies(i) = want[t]
                     THEN Hz(rateA') = Max(powers) ELSE Hz(rateA') = 2

\* The frequency Ctrl+4 prints is the one the chip is set to, at each press.
ShownIsSet == shown' \notin {0, shown} => Hz(rateA') = shown'

\* rtc_read returns "only after an interrupt has occurred" (syscall.c:297)
\* since it was called, also when other terminals read the clock meanwhile.
ReadAfterTick == \A t \in Terminals : pc[t] = "wait" /\ pc'[t] = "user" => ticked[t]

\* Every step keeps to the four.
StepExact == WritesInRange /\ WritesAsAsked /\ ShownIsSet /\ ReadAfterTick

\* A read whose terminal stays in front returns, unless two crossed calls of
\* set_frequency have left the chip without its interrupt.
ReadReturns ==
    \A t \in Terminals :
        (pc[t] = "wait" /\ [](front = t)) ~> (pc[t] # "wait" \/ Silent)
=============================================================================
