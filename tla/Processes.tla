----------------------------- MODULE Processes -----------------------------
(***************************************************************************)
(* What the process controller promises: every terminal has a stack of     *)
(* processes of its own.  execute puts a process that is on no stack on    *)
(* top of the stack of the terminal in front, halt takes the top one off   *)
(* and uncovers the process that started it, the bottom one stays, and     *)
(* Alt+Fn brings another terminal's stack to the front as it was left.     *)
(* ProcessControl implements this with the slot table and the pcbs.        *)
(***************************************************************************)
EXTENDS Integers

CONSTANTS MAX_TERMINAL, MAX_PROCESSES

Terminals == 0 .. MAX_TERMINAL - 1
Pids      == 0 .. MAX_PROCESSES - 1
None      == -1

VARIABLES
    front,     \* the terminal whose processes run
    top,       \* [Terminals -> Pids \cup {None}]: the process that runs
    home,      \* [Pids -> Terminals \cup {None}]: the stack a process is on
    beneath    \* [Pids -> Pids \cup {None}]: the process that started it

Init ==
    /\ front = 0
    /\ top = [t \in Terminals |-> None]
    /\ home = [p \in Pids |-> None]
    /\ beneath = [p \in Pids |-> None]

Push(p) ==
    /\ home[p] = None
    /\ top' = [top EXCEPT ![front] = p]
    /\ home' = [home EXCEPT ![p] = front]
    /\ beneath' = [beneath EXCEPT ![p] = top[front]]
    /\ UNCHANGED front

Pop ==
    LET p == top[front] IN
    /\ p # None /\ beneath[p] # None
    /\ top' = [top EXCEPT ![front] = beneath[p]]
    /\ home' = [home EXCEPT ![p] = None]
    /\ beneath' = [beneath EXCEPT ![p] = None]
    /\ UNCHANGED front

\* A terminal is left only once it has a process.
Show(t) ==
    /\ t # front /\ top[front] # None
    /\ front' = t
    /\ UNCHANGED <<top, home, beneath>>

Next ==
    \/ \E p \in Pids : Push(p)
    \/ Pop
    \/ \E t \in Terminals : Show(t)

Spec == Init /\ [][Next]_<<front, top, home, beneath>>
=============================================================================
