----------------------------- MODULE MCServices -----------------------------
(***************************************************************************)
(* The services of the kernel, one part in each behaviour: boot and the    *)
(* delivery of interrupts (Interrupts), the real-time clock (Rtc), and     *)
(* programs that use descriptors (UserPrograms).  The parts that are not   *)
(* in a behaviour stay in one initial state.                               *)
(***************************************************************************)
EXTENDS Interrupts, SequencesExt, TLC

VARIABLES
    part,                                                  \* the part in this behaviour
    front, pc, want, reg, curr_rate,       \* Rtc
    interrupt_flag, rateA, divider, regC, irq, ticked, disturbed, CTR4, shown,
    ptables, ppc, popening, pret, pgot, pkey, pdir_fd,     \* UserPrograms
    pseen, pCTR3, pfreq, prog, wait

cvars == <<front, pc, want, reg, curr_rate, interrupt_flag, rateA,
           divider, regC, irq, ticked, disturbed, CTR4, shown>>
pvars == <<ptables, ppc, popening, pret, pgot, pkey, pdir_fd, pseen, pCTR3, pfreq, prog, wait>>

-----------------------------------------------------------------------------
\* A program that sets frequencies, and Ctrl+4.  A table of six frequencies, 128
\* down to 4 Hz, the first two of them too high; programs ask for the default,
\* for no power of two, for one that is allowed and for one that is not.
Clock == INSTANCE Rtc WITH Terminals <- {0, 1}, Writers <- {0}, NUM_FREQ <- 6, MAX_RATE <- 3,
    RATE_WORD <- 16, Writes <- {2, 3, 8, 128}, Keys <- TRUE

\* Programs on two terminals that set frequencies and read the clock.  A table of
\* 8 and 4 Hz, the first too high.
Crossing == INSTANCE Rtc WITH Terminals <- {0, 1}, Writers <- {0, 1}, NUM_FREQ <- 2,
    MAX_RATE <- 2, RATE_WORD <- 8, Writes <- {2, 4, 8}, Keys <- FALSE

-----------------------------------------------------------------------------
\* For the programs: more files than a process has free descriptors, of 0, 5
\* and 6 bytes.
Item(name, type, inode) ==
    [file_name |-> [i \in 0 .. 2 |-> IF i < Len(name) THEN name[i + 1] ELSE "nul"],
     file_type |-> type, inode_idx |-> inode]

SoundImage ==
    [num_entries |-> 5, num_inodes |-> 3, num_data_blocks |-> 2,
     entries |-> [e \in 0 .. 4 |-> CASE e = 0 -> Item(<<".">>, 1, 0)
                                      [] e = 1 -> Item(<<"s", "h">>, 2, 1)
                                      [] e = 2 -> Item(<<"r">>, 0, 0)
                                      [] e = 3 -> Item(<<"h", "i">>, 2, 2)
                                      [] e = 4 -> Item(<<"e">>, 2, 0)],
     inodes |-> [i \in 0 .. 2 |->
                    [file_size |-> IF i = 0 THEN 0 ELSE 4 + i,
                     datablock_idx |-> (0 :> 1) @@ (1 :> 0) @@ (2 :> 0)]]]

Wrong     == <<<<"h", "i", "i">>, <<"s">>, <<>>>>
Arguments == {<<".">>, <<"s", "h">>, <<"r">>, <<"h", "i">>, <<"e">>, <<"s">>}

\* All programs in any order, the test keys between their calls.
Users == INSTANCE UserPrograms WITH MAX_NAME_CHARACTERS <- 3, MAX_ENTRIES <- 5,
    MAX_INODE_DATA_BLOCKS <- 2, MAX_CHARS_IN_DATA <- 3, WORD <- 32, MAX_OPEN_FILES <- 5,
    img <- SoundImage, CatNames <- Arguments, WrongNames <- Wrong, BUFSIZE <- 2, Names <- {},
    AnyFd <- {}, Lengths <- {}, Frequencies <- {2}, ArgBytes <- 0, MaxDepth <- 2,
    KeyWindow <- {"user"}, tables <- ptables, pc <- ppc, opening <- popening, ret <- pret,
    got <- pgot, key <- pkey, dir_fd <- pdir_fd, seen <- pseen, CTR3 <- pCTR3, freq <- pfreq

-----------------------------------------------------------------------------
\* The clock in three parts: frequencies set in front with Ctrl+4 at any point,
\* frequencies set on one terminal and the clock opened on another with switches
\* at any point, and it opened and interrupts awaited on both.  In the last two
\* the programs set no further frequency once the chip has left its first one.
Parts == {"rates", "crossing", "reads", "delivery", "users"}

TwoSet == part \in {"crossing", "reads"}
NoReads == ~irq' /\ interrupt_flag' = 1
FewSets == \A t \in {0, 1} : pc'[t] = "zero" =>
               pc[t] = "zero" \/ (rateA = Crossing!Rate(2) /\ divider)

ServicesInit ==
    /\ part \in Parts
    /\ Init
    /\ part # "delivery" => mask = {}
    /\ IF TwoSet THEN Crossing!Init ELSE Clock!Init /\ front = 0
    /\ Users!UInit

ServicesNext ==
    /\ UNCHANGED part
    /\ \/ part = "delivery" /\ Next /\ UNCHANGED <<cvars, pvars>>
       \/ /\ \/ part = "rates" /\ Clock!Next /\ front' = 0 /\ NoReads
             \/ part = "crossing" /\ Crossing!Next /\ want'[1] = 2 /\ NoReads /\ FewSets
             \/ part = "reads" /\ Crossing!Next /\ want' = want /\ FewSets
          /\ UNCHANGED <<vars, pvars>>
       \/ part = "users" /\ Users!UNext /\ UNCHANGED <<vars, cvars>>

\* The fairness of Interrupts, Rtc and UserPrograms, each in its own part.
ServicesSpec ==
    /\ ServicesInit
    /\ [][ServicesNext]_<<part, vars, cvars, pvars>>
    /\ WF_vars(part = "delivery" /\ BootStep)
    /\ WF_vars(part = "delivery" /\ Handling)
    /\ \A l \in Lines : SF_vars(part = "delivery" /\ Deliver(l))
    /\ \A t \in {0, 1} : WF_cvars(part = "reads" /\ Crossing!Step(t))
    /\ WF_cvars(part = "reads" /\ Crossing!Tick)
    /\ WF_cvars(part = "reads" /\ Crossing!rtc_handler)
    /\ SF_pvars(part = "users" /\ Users!Run)
    /\ WF_pvars(part = "users" /\ Users!Keys /\ Users!Handler)

-----------------------------------------------------------------------------
\* Programs get what they run for: ece391syserr finds every refusal it tests
\* for, a reader that ends without an error has delivered all there is, and
\* readers of what exists end without an error, whatever ran before them.  Every
\* program ends, but for an ece391syserr stopped for ever by Ctrl+1 while it has
\* every descriptor open (filesystem.c:66-71).
ProgramsDeliver ==
    /\ [](Users!SyserrPasses /\ Users!ReadersComplete /\ Users!ReadersSucceed)
    /\ Users!ProgramsEnd

\* The clock does what it is asked: every write of its register is in the range
\* set_frequency allows, unless another thread's set_frequency has crossed the
\* one that writes; an undisturbed set_frequency leaves the frequency asked for,
\* Ctrl+4 shows the frequency it sets, and rtc_read returns only after an
\* interrupt that came after its call.
ClockExact ==
    /\ [](IF TwoSet THEN Crossing!TypeOK ELSE Clock!TypeOK)
    /\ [][IF TwoSet THEN Crossing!StepExact ELSE Clock!StepExact]_cvars

\* A read whose terminal stays in front returns, unless two crossed calls of
\* set_frequency have left the chip without its interrupt.
ReadReturns == Crossing!ReadReturns
=============================================================================
