--------------------------- MODULE MCKernelStacks ---------------------------
\* Small instances of the process controller with its kernel stacks for TLC.
EXTENDS KernelStacks

\* ControlKept says nothing of the frames once a base shell was resumed on
\* another's stack: from there on they are left out.
DisciplinedNext ==
    IF guest
    THEN /\ Next
         /\ frames' = [p \in Pids |-> <<>>]
         /\ below' = None
         /\ UNCHANGED << astray, guest >>
    ELSE KNext

DisciplinedSpec == KInit /\ [][DisciplinedNext]_kvars

=============================================================================
