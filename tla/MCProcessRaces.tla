--------------------------- MODULE MCProcessRaces ---------------------------
(***************************************************************************)
(* ProcessControl with a bounded number of switch keys, for instances in   *)
(* which the keys may arrive in every window.                              *)
(***************************************************************************)
EXTENDS ProcessControl

CONSTANT MaxSwitches   \* bound: how often the user changes terminals

VARIABLE switches

RaceInit == Init /\ switches = 0

RaceNext ==
    \/ /\ \/ \E t \in Terminals : KernelStep(t) \/ UserStep(t)
          \/ Lost
       /\ UNCHANGED switches
    \/ /\ switches < MaxSwitches
       /\ \E n \in Terminals : terminal_switch(n)
       /\ switches' = switches + 1

RaceVars == << vars, switches >>

RaceSpec ==
    /\ RaceInit
    /\ [][RaceNext]_RaceVars
    /\ WF_RaceVars(\E t \in Terminals : KernelStep(t) /\ UNCHANGED switches)

=============================================================================
