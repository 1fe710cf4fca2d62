------------------------- MODULE ProcessSlotProofs --------------------------
(****************************************************************************)
(* Every switch keeps the invariant of ProcessStepProofs too.  What         *)
(* follows for the slot table, the process chains, the parked threads and   *)
(* the isolation of terminals, for every number of terminals and slots,     *)
(* while no switch key arrives inside the windows of CoreWindows; that the  *)
(* chains are the stacks of Processes; and, in the second half, where a     *)
(* thread returns to.                                                       *)
(****************************************************************************)
EXTENDS ProcessStepProofs

\* A switch starts a terminal.
LEMMA SlotSwitchFirst ==
    ASSUME IInv, TypeInv', NEW t \in Terminals,
           OpenWindows \cap CoreWindows = {}, SwitchFirst(t)
    PROVE  IInv'
<1> USE DEF IInv
<1>1. /\ curr_terminal' = t
      /\ return_esp' = [return_esp EXCEPT ![current_process[curr_terminal]] = curr_terminal]
      /\ in_use' = [in_use EXCEPT ![t] = 0]
      /\ pc' = [pc EXCEPT ![t] = "check"]
      /\ slot' = [slot EXCEPT ![t] = 0]
      /\ cmd' = [cmd EXCEPT ![t] = [file |-> "exe", by |-> "switch"]]
      /\ UNCHANGED << current_process, parent_id, page, owner >>
    BY DEF pcbVars, statusVars, localVars, cpuVars, SwitchFirst, SwitchFrom,
       Parked, Call, GoTo
<1>2. /\ t # curr_terminal /\ current_process[t] = None
      /\ current_process[curr_terminal] \in Pids
    BY Shape DEF SwitchFirst, SwitchFrom
<1>3. Settled(curr_terminal)
    BY Ids, Shape, InterruptSettled, <1>2
       DEF ThreadInv, SwitchFirst, SwitchFrom
<1>4. pc[t] = "off"
    BY <1>2 DEF ParkedInv, Settled
<1>5. ~Held(t)
    BY <1>2, Ids DEF LinkInv, LinkOK, SlotInv, SlotOK
<1>6. ASSUME NEW u \in Terminals, u # t PROVE ThreadOK(u)' /\ Settled(u)'
  <2>1. ThreadOK(u) /\ Settled(u)
    BY Ids, Shape, <1>1, <1>2, <1>3, <1>4, <1>5, <1>6 DEF ThreadInv, ParkedInv
  <2>2. pc[u] = "pcb" => /\ in_use'[slot[u]] = in_use[slot[u]]
                        /\ owner'[slot[u]] = owner[slot[u]]
    BY Ids, Shape, <1>1, <1>2, <1>3, <1>4, <1>5, <1>6, <2>1
       DEF ThreadOK, ClaimsApart, Held
  <2>3. QED
    BY Ids, Shape, <1>1, <1>2, <1>3, <1>4, <1>5, <1>6, <2>1, <2>2, ThreadFrame
<1>7. ParkedInv'
    BY <1>1, <1>2, <1>6 DEF ParkedInv
<1>8. ThreadInv'
  <2>1. ThreadOK(t)
    BY DEF ThreadInv
  <2>2. ThreadOK(t)'
    BY Ids, Shape, <1>1, <1>2, <1>3, <1>4, <1>5, <2>1
       DEF ThreadOK, SeeksBase, Held, InExecute
  <2>3. QED
    BY <1>6, <2>2 DEF ThreadInv
<1>9. ASSUME NEW p \in Pids PROVE SlotOK(p)'
  <2>1. SlotOK(p)
    BY DEF SlotInv
  <2>2. Claimed(p) => Claimed(p)'
    BY Shape, <1>1, <1>4 DEF Claimed
  <2>3. in_use[p] = 0 => ~Held(p) /\ p \notin Terminals
    BY <1>3, <2>1 DEF SlotOK, Settled
  <2>4. (Held(p)' <=> Held(p)) /\ (Reserved(p)' <=> Reserved(p))
    BY <1>1 DEF Held, Reserved
  <2>5. QED
    BY Ids, Shape, <1>1, <1>2, <1>3, <1>4, <1>5, <2>1, <2>2, <2>3, <2>4
       DEF SlotOK, Held, SeeksBase
<1>10. ClaimsApart'
    BY Ids, Shape, <1>1, <1>2, <1>3, <1>4, <1>5 DEF ClaimsApart
<1>11. CurrentOwned' /\ LinkInv' /\ ParentsApart'
    BY <1>1, LinkFrame
<1>12. ParkedThreadsKept'
  <2>1. ASSUME NEW u \in Terminals, u # t, current_process[u] # None
        PROVE  return_esp'[current_process[u]] = u
    <3>1. current_process[u] \in Pids
      BY <2>1, Shape
    <3>2. CASE u = curr_terminal
      BY Ids, Shape, <1>1, <1>2, <1>3, <1>4, <1>5, <2>1, <3>1, <3>2,
         CurrentApart
    <3>3. CASE u # curr_terminal
      <4>1. return_esp[current_process[u]] = u
        BY <2>1, <3>3 DEF ParkedThreadsKept
      <4>2. current_process[u] # current_process[curr_terminal]
        BY <2>1, <3>3, CurrentApart, Shape
      <4>3. current_process[u] # current_process[t]
        BY <2>1, CurrentApart
      <4>4. QED
        BY <1>1, <1>2, <2>1, <3>1, <4>1, <4>2, <4>3, Shape
    <3>4. QED
      BY <3>2, <3>3
  <2>2. QED
    BY <1>1, <2>1 DEF ParkedThreadsKept
<1>13. QED
    BY <1>7, <1>8, <1>9, <1>10, <1>11, <1>12 DEF SlotInv

\* A switch continues a terminal.
LEMMA SlotSwitchBack ==
    ASSUME IInv, TypeInv', NEW t \in Terminals,
           OpenWindows \cap CoreWindows = {}, SwitchBack(t)
    PROVE  IInv'
<1> USE DEF IInv
<1>1. /\ curr_terminal' = t
      /\ page' = current_process[t]
      /\ return_esp' = [[return_esp EXCEPT ![current_process[curr_terminal]] = curr_terminal]
                            EXCEPT ![current_process[t]] = None]
      /\ UNCHANGED << current_process, in_use, parent_id, pc, cmd, slot,
                      owner >>
    BY DEF pcbVars, statusVars, localVars, cpuVars, SwitchBack, SwitchFrom,
       Parked
<1>2. /\ t # curr_terminal /\ current_process[t] \in Pids
      /\ current_process[curr_terminal] \in Pids
    BY Shape DEF SwitchBack, SwitchFrom
<1>3. Settled(curr_terminal)
    BY Ids, Shape, InterruptSettled, <1>2
       DEF ThreadInv, SwitchBack, SwitchFrom
<1>4. Settled(t)
    BY <1>2 DEF ParkedInv
<1>5. ASSUME NEW u \in Terminals, u # t PROVE ThreadOK(u)' /\ Settled(u)'
  <2>1. ThreadOK(u) /\ Settled(u)
    BY Ids, Shape, <1>1, <1>2, <1>3, <1>4, <1>5 DEF ThreadInv, ParkedInv
  <2>2. QED
    BY Ids, Shape, <1>1, <1>2, <1>3, <1>4, <1>5, <2>1, ThreadFrame
<1>6. ParkedInv'
    BY <1>1, <1>2, <1>5 DEF ParkedInv
<1>7. ThreadInv'
  <2>1. ThreadOK(t)
    BY Zenon DEF ThreadInv
  <2>2. ThreadOK(t)'
    BY Ids, Shape, <1>1, <1>2, <1>3, <1>4, <2>1, ThreadFrame
  <2>3. QED
    BY Zenon, <1>5, <2>2 DEF ThreadInv
<1>8. ASSUME NEW p \in Pids PROVE SlotOK(p)'
  <2>1. SlotOK(p)
    BY Zenon DEF SlotInv
  <2>2. Claimed(p) => Claimed(p)'
    BY Shape, <1>1, <1>4 DEF Claimed
  <2>3. in_use[p] = 0 => ~Held(p) /\ p \notin Terminals
    BY Zenon, <1>3, <2>1 DEF SlotOK, Settled
  <2>4. (Held(p)' <=> Held(p)) /\ (Reserved(p)' <=> Reserved(p))
    BY <1>1 DEF Held, Reserved
  <2>5. QED
    BY Ids, Shape, <1>1, <1>2, <1>3, <1>4, <2>1, <2>2, <2>3, <2>4
       DEF SlotOK, Held, SeeksBase
<1>9. ClaimsApart'
    BY Ids, Shape, <1>1, <1>2, <1>3, <1>4 DEF ClaimsApart
<1>10. CurrentOwned' /\ LinkInv' /\ ParentsApart'
    BY <1>1, LinkFrame
<1>11. ParkedThreadsKept'
  <2>1. ASSUME NEW u \in Terminals, u # t, current_process[u] # None
        PROVE  return_esp'[current_process[u]] = u
    <3>1. current_process[u] \in Pids
      BY Zenon, <2>1, Shape
    <3>2. CASE u = curr_terminal
      BY Ids, Shape, <1>1, <1>2, <1>3, <1>4, <2>1, <3>1, <3>2, CurrentApart
    <3>3. CASE u # curr_terminal
      <4>1. return_esp[current_process[u]] = u
        BY Zenon, <2>1, <3>3 DEF ParkedThreadsKept
      <4>2. current_process[u] # current_process[curr_terminal]
        BY Zenon, <2>1, <3>3, CurrentApart, Shape
      <4>3. current_process[u] # current_process[t]
        BY Zenon, <2>1, CurrentApart
      <4>4. QED
        BY <1>1, <1>2, <2>1, <3>1, <4>1, <4>2, <4>3, Shape
    <3>4. QED
      BY Zenon, <3>2, <3>3
  <2>2. QED
    BY Zenon, <1>1, <2>1 DEF ParkedThreadsKept
<1>12. QED
    BY Zenon, <1>6, <1>7, <1>8, <1>9, <1>10, <1>11 DEF SlotInv

\* A failing execute, whoever called it.
LEMMA SlotFails ==
    ASSUME IInv, TypeInv', NEW t \in Terminals, t = curr_terminal,
           pc[t] \in {"check", "scan", "magic"}, Fail(t)
    PROVE  IInv'
<1>1. CASE cmd[t].by = "user"
    BY <1>1, SlotFail
<1>2. CASE cmd[t].by # "user"
    BY <1>2, SlotWild DEF Fail
<1>3. QED
    BY <1>1, <1>2

\* The invariant is inductive while the core windows are closed.
LEMMA SlotStep ==
    ASSUME OpenWindows \cap CoreWindows = {}, IInv, [Next]_vars
    PROVE  IInv'
<1>1. TypeInv'
    BY TypeStep DEF IInv
<1>2. ASSUME NEW t \in Terminals, ExecuteCheck(t) PROVE IInv'
  <2>1. CASE cmd[t].file = "missing"
    BY <1>1, <1>2, <2>1, SlotFails DEF ExecuteCheck, At
  <2>2. CASE cmd[t].file # "missing"
    BY <1>1, <1>2, <2>2, SlotCheck
  <2>3. QED
    BY <2>1, <2>2
<1>3. ASSUME NEW t \in Terminals, ExecuteScan(t) PROVE IInv'
  <2>1. CASE slot[t] >= MAX_PROCESSES
    BY <1>1, <1>3, <2>1, SlotFails DEF ExecuteScan, At
  <2>2. CASE ~(slot[t] >= MAX_PROCESSES)
    <3>1. slot[t] \in Pids
      <4>1. slot[t] \in 0 .. MAX_PROCESSES
        BY Shape DEF IInv
      <4>2. QED
        BY <2>2, <4>1, SizesAssumption DEF Pids
    <3>2. CASE in_use[slot[t]] = 0
      BY <1>1, <1>3, <2>2, <3>1, <3>2, SlotScanHit
    <3>3. CASE in_use[slot[t]] # 0
      BY <1>1, <1>3, <2>2, <3>1, <3>3, SlotScanMiss
    <3>4. QED
      BY <3>2, <3>3
  <2>3. QED
    BY SMTT(30), <2>1, <2>2
<1>4. ASSUME NEW t \in Terminals, ExecuteClaim(t) PROVE IInv'
    BY <1>1, <1>4, SlotClaim
<1>5. ASSUME NEW t \in Terminals, ExecutePcb(t) PROVE IInv'
    BY <1>1, <1>5, SlotPcb
<1>6. ASSUME NEW t \in Terminals, ExecuteMagic(t) PROVE IInv'
  <2>1. CASE cmd[t].file = "text"
    BY <1>1, <1>6, <2>1, SlotFails DEF ExecuteMagic, At
  <2>2. CASE cmd[t].file # "text"
    BY <1>1, <1>6, <2>2, SlotMagic
  <2>3. QED
    BY <2>1, <2>2
<1>7. ASSUME NEW t \in Terminals, ExecuteLoad(t) PROVE IInv'
    BY Zenon, <1>1, <1>7, SlotLoad
<1>8. ASSUME NEW t \in Terminals, ExecuteEnter(t) PROVE IInv'
    BY Zenon, <1>1, <1>8, SlotEnter
<1>9. ASSUME NEW t \in Terminals, HaltFree(t) PROVE IInv'
  <2>1. CASE current_esp[current_process[t]] = NoFrame
    BY <1>9, <2>1, SlotWild DEF HaltFree
  <2>2. CASE current_esp[current_process[t]] # NoFrame
    BY <1>1, <1>9, <2>2, SlotFree
  <2>3. QED
    BY <2>1, <2>2
<1>10. ASSUME NEW t \in Terminals, HaltUnlink(t) PROVE IInv'
    BY Zenon, <1>1, <1>10, SlotUnlink
<1>11. ASSUME NEW t \in Terminals, HaltResume(t) PROVE IInv'
  <2>1. CASE current_process[t] = None \/ current_esp[current_process[t]] = NoFrame
    BY <1>11, <2>1, SlotWild DEF HaltResume
  <2>2. CASE current_process[t] # None /\ current_esp[current_process[t]] # NoFrame
    BY <1>1, <1>11, <2>2, SlotResume
  <2>3. QED
    BY <2>1, <2>2
<1>12. ASSUME NEW t \in Terminals, NEW f \in Programs, SysExecute(t, f) PROVE IInv'
    BY <1>1, <1>12, SlotExecute
<1>13. ASSUME NEW t \in Terminals, NEW s, NEW x, NEW f, halt(t, s, x, f) PROVE IInv'
  <2>1. CASE current_process[t] < MAX_TERMINAL
    BY <1>1, <1>13, <2>1, SlotHaltBase
  <2>2. CASE ~(current_process[t] < MAX_TERMINAL)
    BY <1>1, <1>13, <2>2, SlotHaltChild
  <2>3. QED
    BY <2>1, <2>2
<1>14. ASSUME NEW t \in Terminals, UserStep(t) PROVE IInv'
    BY Zenon, <1>12, <1>13, <1>14 DEF UserStep, SysHalt, Exception
<1>15. ASSUME NEW t \in Terminals, KernelStep(t) PROVE IInv'
    BY <1>2, <1>3, <1>4, <1>5, <1>6, <1>7, <1>8, <1>9, <1>10, <1>11, <1>15
       DEF KernelStep
<1>16. ASSUME NEW n \in Terminals, terminal_switch(n) PROVE IInv'
    BY <1>1, <1>16, SlotSwitchFirst, SlotSwitchBack, SlotWild
       DEF terminal_switch, SwitchLost
<1>17. CASE UNCHANGED vars
    BY <1>1, <1>17, SlotFrame
       DEF vars, pcbVars, statusVars, localVars, cpuVars
<1>18. QED
    BY <1>14, <1>15, <1>16, <1>17 DEF Next, Lost

\* It holds in every reachable state.
LEMMA SlotInvariant ==
    ASSUME OpenWindows \cap CoreWindows = {}
    PROVE  Spec => []IInv
<1>1. IInv /\ [Next]_vars => IInv'
    BY SlotStep
<1>2. QED
    BY <1>1, SlotInit, PTL DEF Spec

-----------------------------------------------------------------------------
\* execute and halt neither leak a slot nor free one that is in a chain.
THEOREM SlotsSafe ==
    ASSUME OpenWindows \cap CoreWindows = {}
    PROVE  Spec => []SlotsAccounted
<1>1. IInv => SlotsAccounted
    BY DEF IInv, SlotInv, SlotOK, SlotsAccounted, SeeksBase
<1>2. QED
    BY <1>1, SlotInvariant, PTL

\* No two executes ever hold the same slot, and none takes one from a chain.
THEOREM ClaimsSafe ==
    ASSUME OpenWindows \cap CoreWindows = {}
    PROVE  Spec => []ClaimsExclusive
<1>1. IInv => ClaimsExclusive
    BY DEF IInv, ThreadInv, ThreadOK, ClaimsApart, ClaimsExclusive
<1>2. QED
    BY <1>1, SlotInvariant, PTL

\* The first slots only ever hold base shells, each its own terminal's
\* (syscall.h:38).
THEOREM FirstSlotsSafe ==
    ASSUME OpenWindows \cap CoreWindows = {}
    PROVE  Spec => []FirstSlotsAreTerminals
<1>1. IInv => FirstSlotsAreTerminals
    BY Ids, Below DEF IInv, LinkInv, LinkOK, FirstSlotsAreTerminals
<1>2. QED
    BY <1>1, SlotInvariant, PTL

\* The processes of a terminal form one chain that ends in its current process.
THEOREM ChainsSafe ==
    ASSUME OpenWindows \cap CoreWindows = {}
    PROVE  Spec => []ChainsWellFormed
<1>1. IInv => ChainsWellFormed
    BY Below DEF IInv, CurrentOwned, LinkInv, LinkOK, ParentsApart, Apart,
                 ChainsWellFormed
<1>2. QED
    BY <1>1, SlotInvariant, PTL

\* The pcb terminal_switch will load ESP from always leads to the terminal's
\* own parked thread.
THEOREM ParkedSafe ==
    ASSUME OpenWindows \cap CoreWindows = {}
    PROVE  Spec => []ParkedThreadsKept
<1>1. IInv => ParkedThreadsKept
    BY DEF IInv
<1>2. QED
    BY <1>1, SlotInvariant, PTL

-----------------------------------------------------------------------------
\* A step that writes to one slot only, and to no other terminal's current
\* process, keeps the terminals that do not hold that slot.
LEMMA KeptFrame ==
    ASSUME TypeInv, NEW t \in Terminals, NEW q, owner[q] # t,
           current_process'[t] = current_process[t],
           \A p \in Pids \ {q} :
               /\ owner'[p] = owner[p] /\ in_use'[p] = in_use[p]
               /\ parent_id'[p] = parent_id[p] /\ loaded'[p] = loaded[p]
               /\ current_esp'[p] = current_esp[p]
    PROVE  Untouched(t)
BY DEF Untouched

\* The slots the running thread writes to are not held by another terminal.
LEMMA OwnSlots ==
    ASSUME IInv, NEW u \in Terminals, u = curr_terminal, NEW t \in Terminals, t # u
    PROVE  /\ pc[u] \in {"claim", "pcb"} => owner[slot[u]] # t
           /\ current_process[u] # None => owner[current_process[u]] # t
           /\ pc[u] = "load" => page = current_process[u]
<1>1. ThreadOK(u)
    BY DEF IInv, ThreadInv
<1>2. LinkOK(u)
    BY Ids DEF IInv, LinkInv
<1>3. pc[u] \in {"claim", "pcb"} => owner[slot[u]] # t
    BY Ids, <1>1, <1>2 DEF ThreadOK, LinkOK, Held
<1>4. current_process[u] # None => owner[current_process[u]] # t
    BY DEF IInv, CurrentOwned
<1>5. pc[u] = "load" => page = current_process[u]
    BY <1>1 DEF ThreadOK
<1>6. QED
    BY <1>3, <1>4, <1>5

\* Losing control writes to no slot.
LEMMA KeptWild ==
    ASSUME NEW t \in Terminals, GoWild
    PROVE  Untouched(t)
BY Zenon DEF Untouched, GoWild, pcbVars, cpuVars

LEMMA KeptFail ==
    ASSUME NEW t \in Terminals, NEW u \in Terminals, Fail(u)
    PROVE  Untouched(t)
BY KeptWild DEF Fail, Untouched, pcbVars, cpuVars

\* No step of a thread, and no switch, touches the processes of a terminal that
\* is not in front.
LEMMA KeptStep ==
    ASSUME OpenWindows \cap CoreWindows = {}, IInv, [Next]_vars,
           NEW t \in Terminals, t # curr_terminal
    PROVE  Untouched(t)
<1> DEFINE u == curr_terminal
<1>1. TypeInv /\ u \in Terminals
    BY Shape DEF IInv
<1>2. /\ current_process \in [Terminals -> Pids \cup {None}]
      /\ in_use \in [Pids -> {0, 1}] /\ parent_id \in [Pids -> Pids \cup {None}]
      /\ owner \in [Pids -> Terminals \cup {None}]
      /\ current_esp \in [Pids -> Frame] /\ loaded \in [Pids -> Pids \cup {None}]
    BY <1>1 DEF TypeInv, TypeOK
<1>3. /\ pc[u] \in {"claim", "pcb"} => owner[slot[u]] # t
      /\ current_process[u] # None => owner[current_process[u]] # t
      /\ pc[u] = "load" => page = current_process[u]
      /\ pc[u] \in {"load", "enter", "user", "free", "unlink"} => current_process[u] # None
    BY <1>1, OwnSlots, Ids DEF TypeInv, TypeAux
<1> USE DEF pcbVars, cpuVars, At
<1>4. ASSUME ExecuteCheck(u) PROVE Untouched(t)
    BY <1>1, <1>4, KeptFail DEF ExecuteCheck, Untouched
<1>5. ASSUME ExecuteScan(u) PROVE Untouched(t)
    BY Zenon, <1>1, <1>5, KeptFail DEF ExecuteScan, Untouched
<1>6. ASSUME ExecuteClaim(u) PROVE Untouched(t)
    BY Zenon, <1>1, <1>2, <1>3, <1>6, KeptFrame DEF ExecuteClaim
<1>7. ASSUME ExecutePcb(u) PROVE Untouched(t)
    BY Zenon, <1>1, <1>2, <1>3, <1>7, KeptFrame DEF ExecutePcb
<1>8. ASSUME ExecuteMagic(u) PROVE Untouched(t)
    BY Zenon, <1>1, <1>8, KeptFail DEF ExecuteMagic, Untouched
<1>9. ASSUME ExecuteLoad(u) PROVE Untouched(t)
    BY Zenon, <1>1, <1>2, <1>3, <1>9, KeptFrame DEF ExecuteLoad
<1>10. ASSUME ExecuteEnter(u) PROVE Untouched(t)
    BY Zenon, <1>1, <1>2, <1>3, <1>10, KeptFrame DEF ExecuteEnter, SavedFrame
<1>11. ASSUME HaltFree(u) PROVE Untouched(t)
    BY Zenon, <1>1, <1>2, <1>3, <1>11, KeptFrame, KeptWild DEF HaltFree
<1>12. ASSUME HaltUnlink(u) PROVE Untouched(t)
    BY Zenon, <1>1, <1>2, <1>3, <1>12, KeptFrame DEF HaltUnlink
<1>13. ASSUME HaltResume(u) PROVE Untouched(t)
    BY Zenon, <1>13, KeptWild DEF HaltResume, Untouched
<1>14. ASSUME NEW f, SysExecute(u, f) PROVE Untouched(t)
    BY Zenon, <1>14 DEF SysExecute, Untouched
<1>15. ASSUME NEW s, NEW x, NEW f, halt(u, s, x, f) PROVE Untouched(t)
    BY <1>1, <1>2, <1>3, <1>15, KeptFrame DEF halt
<1>16. ASSUME NEW n \in Terminals, SwitchFirst(n) PROVE Untouched(t)
  <2>1. owner[n] # t
    <3>1. SlotOK(n) /\ LinkOK(n) /\ current_process[n] = None
      BY <1>16, Ids DEF IInv, SlotInv, LinkInv, SwitchFirst
    <3>2. QED
      BY <3>1, Ids DEF SlotOK, LinkOK, Held
  <2>2. QED
    BY <1>1, <1>2, <1>16, <2>1, KeptFrame DEF SwitchFirst
<1>17. ASSUME NEW n \in Terminals, SwitchBack(n) PROVE Untouched(t)
    BY Zenon, <1>17 DEF SwitchBack, Untouched
<1>18. CASE UNCHANGED vars
    BY Zenon, <1>18 DEF vars, Untouched
<1>19. ASSUME NEW v \in Terminals, KernelStep(v) \/ UserStep(v) PROVE Untouched(t)
  <2>1. v = u
    BY Zenon, <1>19
       DEF KernelStep, UserStep, ExecuteCheck, ExecuteScan, ExecuteClaim,
              ExecutePcb, ExecuteMagic, ExecuteLoad, ExecuteEnter, HaltFree,
              HaltUnlink, HaltResume, SysExecute, SysHalt, Exception, halt
  <2>2. QED
    BY Zenon, <1>4, <1>5, <1>6, <1>7, <1>8, <1>9, <1>10, <1>11, <1>12, <1>13, <1>14,
       <1>15, <1>19, <2>1 DEF KernelStep, UserStep, SysHalt, Exception
<1>20. ASSUME NEW n \in Terminals, terminal_switch(n) PROVE Untouched(t)
    BY <1>16, <1>17, <1>20, KeptWild DEF terminal_switch, SwitchLost
<1>21. QED
    BY <1>18, <1>19, <1>20 DEF Next, Lost

\* Whatever the terminal in front does, the processes of the others stay as
\* they are.
THEOREM OthersSafe ==
    ASSUME OpenWindows \cap CoreWindows = {}
    PROVE  Spec => OthersUntouched
<1> DEFINE A == ~wild => \A t \in Terminals \ {curr_terminal} : Untouched(t)
<1>1. IInv /\ [Next]_vars => [A]_vars
    BY KeptStep
<1> HIDE DEF A
<1>2. Spec => [][A]_vars
    BY <1>1, SlotInvariant, PTL DEF Spec
<1>3. QED
    BY <1>2 DEF A, OthersUntouched

-----------------------------------------------------------------------------
(* The refinement of Processes. *)

stacks == << curr_terminal, current_process, owner, Beneath >>

\* A step that leaves terminals, chains and links alone shows on no stack.
LEMMA StacksKept ==
    ASSUME curr_terminal' = curr_terminal, current_process' = current_process,
           owner' = owner, parent_id' = parent_id
    PROVE  stacks' = stacks
BY DEF stacks, Beneath, Held

LEMMA StacksWild == ASSUME GoWild PROVE stacks' = stacks
BY StacksKept DEF GoWild, pcbVars

LEMMA StacksFail == ASSUME NEW t, Fail(t) PROVE stacks' = stacks
BY StacksKept, StacksWild DEF Fail, pcbVars

\* Filling the pcb pushes a process, or replaces a base shell by itself.
LEMMA PcbPushes ==
    ASSUME IInv, NEW t \in Terminals, ExecutePcb(t)
    PROVE  stacks' = stacks \/ Abstract!Push(slot[t])
<1> DEFINE i == slot[t]
<1>1. /\ t = curr_terminal /\ pc[t] = "pcb" /\ curr_terminal' = curr_terminal
      /\ parent_id' = [parent_id EXCEPT ![i] = ParentOf(t, i)]
      /\ current_process' = [current_process EXCEPT ![t] = i]
      /\ owner' = [owner EXCEPT ![i] = t]
    BY DEF ExecutePcb, At
<1>2. /\ current_process \in [Terminals -> Pids \cup {None}]
      /\ parent_id \in [Pids -> Pids \cup {None}]
      /\ owner \in [Pids -> Terminals \cup {None}]
      /\ cmd[t].by \in {"user", "halt", "switch"}
    BY DEF IInv, TypeInv, TypeOK
<1>3. ThreadOK(t) /\ SlotOK(t) /\ LinkOK(t)
    BY Zenon, Ids DEF IInv, ThreadInv, SlotInv, LinkInv
<1>4. i \in Pids
    BY Zenon, <1>1 DEF IInv, TypeInv, TypeAux
<1> HIDE DEF i
<1>5. CASE cmd[t].by = "halt"
  <2>1. i = t /\ current_process[t] = t
    BY <1>1, <1>3, <1>5 DEF ThreadOK, InExecute, i
  <2>2. owner[t] = t /\ parent_id[t] = None
    BY <1>3, <2>1, Ids DEF IInv, CurrentOwned, LinkOK, Held
  <2>3. ParentOf(t, i) = None
    BY <2>1, Below, Ids DEF ParentOf
  <2>4. current_process' = current_process /\ owner' = owner /\ parent_id' = parent_id
    BY <1>1, <1>2, <1>4, <2>1, <2>2, <2>3
  <2>5. QED
    BY Zenon, <1>1, <2>4, StacksKept
<1>6. CASE cmd[t].by # "halt"
  <2>1. ParentOf(t, i) = current_process[t] /\ owner[i] = None
    <3>1. CASE cmd[t].by = "switch"
      <4>1. i = t /\ current_process[t] = None
        BY <1>1, <1>3, <3>1 DEF ThreadOK, i
      <4>2. owner[t] = None
        BY Zenon, <1>3, <4>1 DEF SlotOK, LinkOK, Held
      <4>3. QED
        BY Zenon, <4>1, <4>2, Below, Ids DEF ParentOf
    <3>2. CASE cmd[t].by = "user"
      BY Zenon, <1>1, <1>3, <1>4, <3>2, Below DEF ThreadOK, Held, ParentOf, i
    <3>3. QED
      BY <1>2, <1>6, <3>1, <3>2
  <2>2. Beneath' = [Beneath EXCEPT ![i] = current_process[t]]
    BY Zenon, <1>1, <1>2, <1>4, <2>1, Ids DEF Beneath, Held
  <2>3. Abstract!Push(i)
    BY <1>1, <2>1, <2>2 DEF Abstract!Push, Abstract!None, None
  <2>4. QED
    BY <2>3 DEF i
<1>7. QED
    BY <1>5, <1>6

\* Making the parent current pops the process.
LEMMA UnlinkPops ==
    ASSUME IInv, NEW t \in Terminals, HaltUnlink(t)
    PROVE  Abstract!Pop
<1> DEFINE p == current_process[t]
<1>1. /\ t = curr_terminal /\ pc[t] = "unlink" /\ curr_terminal' = curr_terminal
      /\ parent_id' = parent_id
      /\ current_process' = [current_process EXCEPT ![t] = parent_id[p]]
      /\ owner' = [owner EXCEPT ![p] = None]
    BY Zenon DEF HaltUnlink, At
<1>2. /\ current_process \in [Terminals -> Pids \cup {None}]
      /\ parent_id \in [Pids -> Pids \cup {None}]
      /\ owner \in [Pids -> Terminals \cup {None}]
    BY DEF IInv, TypeInv, TypeOK
<1>3. ThreadOK(t)
    BY Zenon DEF IInv, ThreadInv
<1>4. p \in Pids /\ p \notin Terminals
    BY <1>1, <1>2, <1>3 DEF ThreadOK
<1>5. owner[p] = t /\ LinkOK(p)
    BY <1>4, Ids DEF IInv, CurrentOwned, LinkInv
<1> HIDE DEF p
<1>6. Held(p) /\ parent_id[p] \in Pids
    BY <1>4, <1>5, Ids DEF LinkOK, Held
<1>7. Beneath[p] = parent_id[p]
    BY <1>4, <1>6 DEF Beneath
<1>8. Beneath' = [Beneath EXCEPT ![p] = None]
    BY Zenon, <1>1, <1>2, <1>4 DEF Beneath, Held
<1>9. p # None /\ Beneath[p] # None
    BY <1>4, <1>6, <1>7, Ids
<1>10. QED
    BY Zenon, <1>1, <1>7, <1>8, <1>9 DEF Abstract!Pop, Abstract!None, None, p

\* Every step is a push, a pop, a switch or nothing on the stacks.
LEMMA StacksStep ==
    ASSUME IInv, [Next]_vars
    PROVE  Abstract!Next \/ stacks' = stacks
<1> USE DEF pcbVars, cpuVars
<1>1. ASSUME NEW t \in Terminals, ExecutePcb(t) PROVE Abstract!Next \/ stacks' = stacks
  <2>1. slot[t] \in Abstract!Pids
    BY <1>1 DEF ExecutePcb, At, IInv, TypeInv, TypeAux, Abstract!Pids, Pids
  <2>2. QED
    BY Zenon, <1>1, <2>1, PcbPushes DEF Abstract!Next
<1>2. ASSUME NEW t \in Terminals, HaltUnlink(t) PROVE Abstract!Next
    BY <1>2, UnlinkPops DEF Abstract!Next
<1>3. ASSUME NEW t \in Terminals,
             ExecuteCheck(t) \/ ExecuteScan(t) \/ ExecuteMagic(t) \/ HaltFree(t) \/ HaltResume(t)
      PROVE  stacks' = stacks
  <2>1. Fail(t) \/ GoWild \/
        UNCHANGED << curr_terminal, current_process, owner, parent_id >>
    BY Zenon, <1>3 DEF ExecuteCheck, ExecuteScan, ExecuteMagic, HaltFree, HaltResume
  <2>2. QED
    BY <2>1, StacksKept, StacksWild, StacksFail
<1>4. ASSUME NEW t \in Terminals,
             ExecuteClaim(t) \/ ExecuteLoad(t) \/ ExecuteEnter(t) \/ UserStep(t)
      PROVE  stacks' = stacks
  <2>1. UNCHANGED << curr_terminal, current_process, owner, parent_id >>
    BY Zenon, <1>4 DEF ExecuteClaim, ExecuteLoad, ExecuteEnter, UserStep, SysExecute,
                SysHalt, Exception, halt
  <2>2. QED
    BY <2>1, StacksKept
<1>5. ASSUME NEW n \in Terminals, terminal_switch(n) PROVE Abstract!Next \/ stacks' = stacks
  <2>1. CASE SwitchLost(n)
    BY <2>1, StacksWild DEF SwitchLost
  <2>2. CASE SwitchFirst(n) \/ SwitchBack(n)
    <3>1. /\ n # curr_terminal /\ current_process[curr_terminal] # None
          /\ curr_terminal' = n
          /\ UNCHANGED << current_process, owner, parent_id >>
      BY Zenon, <2>2 DEF SwitchFirst, SwitchBack, SwitchFrom
    <3>2. Beneath' = Beneath
      BY <3>1 DEF Beneath, Held
    <3>3. Abstract!Show(n)
      BY <3>1, <3>2 DEF Abstract!Show, Abstract!None, None
    <3>4. QED
      BY <3>3 DEF Abstract!Next, Abstract!Terminals, Terminals
  <2>3. QED
    BY <1>5, <2>1, <2>2 DEF terminal_switch
<1>6. CASE UNCHANGED vars
    BY <1>6, StacksKept DEF vars
<1>7. QED
    BY <1>1, <1>2, <1>3, <1>4, <1>5, <1>6 DEF Next, KernelStep, Lost

\* For every number of terminals and slots, and with text files, faulting shells
\* and the windows "first" and "status" open: execute, halt and terminal_switch
\* implement one stack of processes per terminal.
THEOREM ProcessesRefined ==
    ASSUME OpenWindows \cap CoreWindows = {}
    PROVE  Spec => ImplementsProcesses
<1>1. Init => Abstract!Init
    BY DEF Init, Abstract!Init, Beneath, Held, Abstract!None, None,
           Abstract!Terminals, Terminals, Abstract!Pids, Pids
<1>2. IInv /\ [Next]_vars =>
          [Abstract!Next]_<< curr_terminal, current_process, owner, Beneath >>
    BY StacksStep DEF stacks
<1>3. QED
    BY <1>1, <1>2, SlotInvariant, PTL DEF Spec, ImplementsProcesses, Abstract!Spec

-----------------------------------------------------------------------------
(****************************************************************************)
(* Where a thread returns to.  The frame that execute saves in a pcb is the *)
(* only way back from a process to its parent: halt reloads ESP from it.    *)
(* The invariant here says which processes have such a frame, that it leads *)
(* to the parent's code, and whose code a thread in the kernel goes back    *)
(* to; on top of the chains above and the pages of ProcessControlProofs it  *)
(* is inductive.  With it user code always finds itself current, mapped and *)
(* loaded, and each ESP comes from a field that was saved.                  *)
(****************************************************************************)

\* Where a process that its terminal calls current has no frame to return
\* through: execute has not saved it yet, or halt has just left it.
NoFrameYet == {"magic", "load", "enter", "unlink"}

\* Whose user code thread t returns to: its current process's, or that of its
\* parent once execute has moved current_process or halt has left the frame.
\* Base shells are executed from a file that exists.
FrameThread(t) ==
    /\ cmd[t].by # "user" => cmd[t].file = "exe"
    /\ OwnCode(t) \/ pc[t] \in {"free", "resume"} =>
           running[t] = current_process[t] /\ current_process[t] # None
    /\ pc[t] \in {"magic", "load", "enter"} =>
           (cmd[t].by = "user" <=> current_process[t] \notin Terminals)
    /\ pc[t] = "unlink" \/ (cmd[t].by = "user" /\ pc[t] \in {"magic", "load", "enter"}) =>
           running[t] = parent_id[current_process[t]]

\* Every other process of a chain has a saved frame, and it leads to its parent.
FrameSlot(p) ==
    Held(p) /\ ~(p = current_process[owner[p]] /\ pc[owner[p]] \in NoFrameYet) =>
        /\ current_esp[p] # NoFrame
        /\ p \notin Terminals => current_esp[p].caller = parent_id[p]

\* What execute, halt and terminal_switch keep of frames and threads.
FrameInv ==
    /\ \A t \in Terminals : FrameThread(t)
    /\ \A p \in Pids : FrameSlot(p)

-----------------------------------------------------------------------------
\* At boot no process has a frame, and none needs one.
LEMMA FrameInit == Init => FrameInv
<1> SUFFICES ASSUME Init PROVE FrameInv
    OBVIOUS
<1>1. \A t \in Terminals : FrameThread(t)
    BY DEF Init, FrameThread, OwnCode
<1>2. \A p \in Pids : FrameSlot(p)
    BY Zenon DEF Init, FrameSlot, Held
<1>3. QED
    BY <1>1, <1>2 DEF FrameInv

\* A step that leaves thread u's own state alone keeps what is known of it.
LEMMA FrameParked ==
    ASSUME NEW u \in Terminals, FrameThread(u),
           current_process'[u] = current_process[u], pc'[u] = pc[u],
           cmd'[u] = cmd[u], running'[u] = running[u],
           parent_id'[current_process[u]] = parent_id[current_process[u]]
    PROVE  FrameThread(u)'
BY Zenon DEF FrameThread, OwnCode

\* A step that changes no chain and no frame, and moves no thread into or out of
\* the stretch without a frame, keeps the frames.
LEMMA FrameSlots ==
    ASSUME TypeInv, FrameInv,
           UNCHANGED << current_process, owner, parent_id, current_esp >>,
           \A u \in Terminals : pc'[u] \in NoFrameYet <=> pc[u] \in NoFrameYet
    PROVE  \A p \in Pids : FrameSlot(p)'
<1> SUFFICES ASSUME NEW p \in Pids, Held(p)' PROVE FrameSlot(p)'
    BY DEF FrameSlot
<1>1. FrameSlot(p) /\ Held(p) /\ owner[p] \in Terminals
    BY SMTT(30), Shape DEF FrameInv, Held
<1>2. QED
    BY <1>1 DEF FrameSlot, Held

\* A step of thread t that changes no chain and no frame and keeps t outside
\* the stretch without a frame, or inside it, keeps the invariant if it keeps
\* it for t.
LEMMA FrameOwn ==
    ASSUME TypeInv, FrameInv, NEW t \in Terminals,
           UNCHANGED << current_process, owner, parent_id, current_esp >>,
           pc'[t] \in NoFrameYet <=> pc[t] \in NoFrameYet,
           \A u \in Terminals \ {t} :
               pc'[u] = pc[u] /\ cmd'[u] = cmd[u] /\ running'[u] = running[u],
           FrameThread(t)'
    PROVE  FrameInv'
<1>1. ASSUME NEW u \in Terminals, u # t PROVE FrameThread(u)'
  <2>1. FrameThread(u)
    BY Zenon DEF FrameInv
  <2>2. QED
    BY <1>1, <2>1, FrameParked
<1>2. \A p \in Pids : FrameSlot(p)'
    BY FrameSlots
<1>3. QED
    BY Zenon, <1>1, <1>2 DEF FrameInv

\* Losing control writes to no pcb.
LEMMA FrameWild == TypeInv /\ FrameInv /\ GoWild => FrameInv'
<1> SUFFICES ASSUME TypeInv, FrameInv, GoWild PROVE FrameInv'
    OBVIOUS
<1> USE DEF GoWild, pcbVars, localVars
<1>1. \A t \in Terminals : FrameThread(t)'
    BY DEF FrameInv, FrameThread, OwnCode
<1>2. \A p \in Pids : FrameSlot(p)'
    BY FrameSlots
<1>3. QED
    BY <1>1, <1>2 DEF FrameInv

\* An execute that fails before it fills a pcb returns to its caller's code.
LEMMA FrameFail ==
    ASSUME IInv, FrameInv, NEW t \in Terminals, pc[t] \in {"check", "scan"}, Fail(t)
    PROVE  FrameInv'
<1>1. CASE cmd[t].by = "user"
  <2>1. /\ pc' = [pc EXCEPT ![t] = "user"]
        /\ cmd' = [cmd EXCEPT ![t] = [file |-> "exe", by |-> "user"]]
        /\ UNCHANGED << current_process, owner, parent_id, current_esp, running >>
    BY Zenon, <1>1 DEF Fail, GoTo, DropLocals, pcbVars
  <2>2. FrameThread(t)'
    BY Zenon, <1>1, <2>1, Shape DEF IInv, FrameInv, FrameThread, OwnCode
  <2>3. QED
    BY <2>1, <2>2, Shape, FrameOwn DEF IInv, NoFrameYet
<1>2. CASE cmd[t].by # "user"
    BY <1>2, FrameWild DEF IInv, Fail
<1>3. QED
    BY Zenon, <1>1, <1>2

\* execute fills the pcb of its slot: the caller's code is now its parent's.
LEMMA FramePcb ==
    ASSUME IInv, FrameInv, NEW t \in Terminals, ExecutePcb(t)
    PROVE  FrameInv'
<1> DEFINE i == slot[t]
<1>1. /\ t = curr_terminal /\ pc[t] = "pcb" /\ i \in Pids
      /\ parent_id' = [parent_id EXCEPT ![i] = ParentOf(t, i)]
      /\ current_process' = [current_process EXCEPT ![t] = i]
      /\ owner' = [owner EXCEPT ![i] = t]
      /\ pc' = [pc EXCEPT ![t] = "magic"]
      /\ UNCHANGED << cmd, running, current_esp >>
    BY DEF ExecutePcb, At, GoTo, localVars, IInv, TypeInv, TypeAux
<1>2. ThreadOK(t) /\ FrameThread(t)
    BY Zenon DEF IInv, ThreadInv, FrameInv
<1>3. FrameThread(t)'
  <2>1. cmd[t].by = "user" <=> i \notin Terminals
    BY Zenon, <1>1, <1>2 DEF ThreadOK
  <2>2. i \notin Terminals => ParentOf(t, i) = current_process[t]
    BY <1>1, Below DEF ParentOf
  <2>3. QED
    BY <1>1, <1>2, <2>1, <2>2, Shape DEF IInv, FrameThread, OwnCode
<1>4. ASSUME NEW u \in Terminals, u # t PROVE FrameThread(u)'
  <2>1. FrameThread(u)
    BY DEF FrameInv
  <2>2. current_process[u] # i
    <3>1. owner[i] # u
      BY <1>1, <1>4, OwnSlots
    <3>2. QED
      BY <1>1, <3>1, Ids DEF IInv, CurrentOwned
  <2>3. QED
    BY <1>1, <1>4, <2>1, <2>2, Shape, FrameParked DEF IInv
<1>5. ASSUME NEW p \in Pids PROVE FrameSlot(p)'
  <2>1. CASE p = i
    BY <1>1, <2>1, Shape DEF IInv, FrameSlot, NoFrameYet
  <2>2. CASE p # i
    <3>1. FrameSlot(p) /\ owner'[p] = owner[p] /\ parent_id'[p] = parent_id[p]
      BY Zenon, <1>1, <2>2, Shape DEF IInv, FrameInv
    <3>2. CASE owner[p] = t
      BY Zenon, <1>1, <2>2, <3>1, <3>2, Shape DEF IInv, FrameSlot, Held, NoFrameYet
    <3>3. CASE owner[p] # t
      BY <1>1, <2>2, <3>1, <3>3, Shape DEF IInv, FrameSlot, Held
    <3>4. QED
      BY <3>2, <3>3
  <2>3. QED
    BY Zenon, <2>1, <2>2
<1>6. QED
    BY Zenon, <1>3, <1>4, <1>5 DEF FrameInv

\* execute saves its frame: it leads to the code of the parent.
LEMMA FrameEnter ==
    ASSUME IInv, FrameInv, NEW t \in Terminals, ExecuteEnter(t)
    PROVE  FrameInv'
<1> DEFINE q == current_process[t]
           frame == [caller |-> IF cmd[t].by = "user" THEN running[t] ELSE None,
                     stack  |-> kstack[t]]
<1>1. /\ t = curr_terminal /\ pc[t] = "enter" /\ q \in Pids /\ kstack[t] \in Pids
      /\ current_esp' = [current_esp EXCEPT ![q] = frame]
      /\ running' = [running EXCEPT ![t] = q]
      /\ pc' = [pc EXCEPT ![t] = "user"]
      /\ cmd' = [cmd EXCEPT ![t] = [file |-> "exe", by |-> "user"]]
      /\ UNCHANGED << current_process, parent_id, owner >>
    BY Zenon DEF ExecuteEnter, At, SavedFrame, user_context_switch, GoTo, DropLocals,
           IInv, TypeInv, TypeAux
<1>2. /\ running \in [Terminals -> Pids \cup {None}]
      /\ current_esp \in [Pids -> Frame]
    BY Zenon DEF IInv, TypeInv, TypeOK
<1>3. FrameThread(t)'
    BY Zenon, <1>1, <1>2, Shape, Ids DEF IInv, FrameThread, OwnCode
<1>4. ASSUME NEW u \in Terminals, u # t PROVE FrameThread(u)'
  <2>1. FrameThread(u)
    BY Zenon DEF FrameInv
  <2>2. QED
    BY Zenon, <1>1, <1>2, <1>4, <2>1, Shape, FrameParked DEF IInv
<1>5. ASSUME NEW p \in Pids PROVE FrameSlot(p)'
  <2>1. CASE p = q
    <3>1. frame # NoFrame
      BY Zenon, <1>1, Ids DEF NoFrame
    <3>2. q \notin Terminals => frame.caller = parent_id[q]
      BY <1>1 DEF FrameInv, FrameThread
    <3>3. QED
      BY Zenon, <1>1, <1>2, <2>1, <3>1, <3>2 DEF FrameSlot
  <2>2. CASE p # q
    <3>1. FrameSlot(p) /\ current_esp'[p] = current_esp[p]
      BY Zenon, <1>1, <1>2, <2>2 DEF FrameInv
    <3>2. QED
      BY Zenon, <1>1, <2>2, <3>1, Shape DEF IInv, FrameSlot, Held
  <2>3. QED
    BY Zenon, <2>1, <2>2
<1>6. QED
    BY Zenon, <1>3, <1>4, <1>5 DEF FrameInv

\* The process that thread t calls current is held by its terminal.
LEMMA FrameOfCurrent ==
    ASSUME IInv, FrameInv, NEW t \in Terminals, current_process[t] # None,
           pc[t] \notin NoFrameYet
    PROVE  /\ current_process[t] \in Pids
           /\ current_esp[current_process[t]] # NoFrame
           /\ current_process[t] \notin Terminals =>
                  current_esp[current_process[t]].caller = parent_id[current_process[t]]
<1>1. current_process[t] \in Pids /\ owner[current_process[t]] = t
    BY Shape DEF IInv, CurrentOwned
<1>2. Held(current_process[t])
    BY <1>1, Ids DEF Held
<1>3. QED
    BY Zenon, <1>1, <1>2 DEF FrameInv, FrameSlot

\* halt leaves the frame of the process it ends, to the parent's.
LEMMA FrameFree ==
    ASSUME IInv, FrameInv, NEW t \in Terminals, HaltFree(t)
    PROVE  FrameInv'
<1> DEFINE q == current_process[t]
<1>1. /\ t = curr_terminal /\ pc[t] = "free" /\ q \in Pids /\ q \notin Terminals
    BY Zenon, Ids DEF HaltFree, At, IInv, TypeInv, TypeAux, ThreadInv, ThreadOK
<1>2. current_esp[q] # NoFrame /\ current_esp[q].caller = parent_id[q]
    BY Zenon, <1>1, Ids, FrameOfCurrent DEF NoFrameYet
<1>3. /\ current_esp' = [current_esp EXCEPT ![q] = NoFrame]
      /\ running' = [running EXCEPT ![t] = parent_id[q]]
      /\ pc' = [pc EXCEPT ![t] = "unlink"]
      /\ UNCHANGED << current_process, parent_id, owner, cmd >>
    BY Zenon, <1>2 DEF HaltFree, GoTo, localVars
<1>4. /\ running \in [Terminals -> Pids \cup {None}]
      /\ current_esp \in [Pids -> Frame]
    BY Zenon DEF IInv, TypeInv, TypeOK
<1>5. FrameThread(t)'
  <2>1. FrameThread(t)
    BY DEF FrameInv
  <2>2. QED
    BY <1>1, <1>3, <1>4, <2>1, Shape DEF IInv, FrameThread, OwnCode
<1>6. ASSUME NEW u \in Terminals, u # t PROVE FrameThread(u)'
  <2>1. FrameThread(u)
    BY Zenon DEF FrameInv
  <2>2. QED
    BY Zenon, <1>3, <1>4, <1>6, <2>1, Shape, FrameParked DEF IInv
<1>7. ASSUME NEW p \in Pids PROVE FrameSlot(p)'
  <2>1. CASE p = q
    <3>1. owner[q] = t
      BY Zenon, <1>1, Ids DEF IInv, CurrentOwned
    <3>2. QED
      BY <1>3, <2>1, <3>1, Shape DEF IInv, FrameSlot, NoFrameYet
  <2>2. CASE p # q
    <3>1. FrameSlot(p) /\ current_esp'[p] = current_esp[p]
      BY Zenon, <1>3, <1>4, <2>2 DEF FrameInv
    <3>2. QED
      BY <1>3, <2>2, <3>1, Shape DEF IInv, FrameSlot, Held
  <2>3. QED
    BY Zenon, <2>1, <2>2
<1>8. QED
    BY Zenon, <1>5, <1>6, <1>7 DEF FrameInv

\* halt makes the parent current, whose code it is on its way to.
LEMMA FrameUnlink ==
    ASSUME IInv, FrameInv, NEW t \in Terminals, HaltUnlink(t)
    PROVE  FrameInv'
<1> DEFINE q == current_process[t]
<1>1. /\ t = curr_terminal /\ pc[t] = "unlink" /\ q \in Pids /\ q \notin Terminals
    BY Zenon, Ids DEF HaltUnlink, At, IInv, TypeInv, TypeAux, ThreadInv, ThreadOK
<1>2. /\ current_process' = [current_process EXCEPT ![t] = parent_id[q]]
      /\ owner' = [owner EXCEPT ![q] = None]
      /\ pc' = [pc EXCEPT ![t] = "resume"]
      /\ UNCHANGED << parent_id, current_esp, cmd, running >>
    BY Zenon DEF HaltUnlink, GoTo, localVars
<1>3. owner[q] = t
    BY <1>1, Ids DEF IInv, CurrentOwned
<1>4. parent_id[q] \in Pids
  <2>1. LinkOK(q)
    BY Zenon, <1>1 DEF IInv, LinkInv
  <2>2. QED
    BY Zenon, <1>1, <1>3, <2>1, Ids DEF LinkOK, Held
<1>5. FrameThread(t)'
  <2>1. FrameThread(t)
    BY Zenon DEF FrameInv
  <2>2. QED
    BY Zenon, <1>1, <1>2, <1>4, <2>1, Shape, Ids DEF IInv, FrameThread, OwnCode
<1>6. ASSUME NEW u \in Terminals, u # t PROVE FrameThread(u)'
  <2>1. FrameThread(u)
    BY Zenon DEF FrameInv
  <2>2. QED
    BY Zenon, <1>2, <1>6, <2>1, Shape, FrameParked DEF IInv
<1>7. ASSUME NEW p \in Pids PROVE FrameSlot(p)'
  <2>1. CASE p = q
    BY Zenon, <1>2, <2>1, Shape DEF IInv, FrameSlot, Held
  <2>2. CASE p # q
    <3>1. FrameSlot(p) /\ owner'[p] = owner[p]
      BY Zenon, <1>2, <2>2, Shape DEF IInv, FrameInv
    <3>2. CASE owner[p] = t
      BY Zenon, <1>1, <1>2, <2>2, <3>1, <3>2 DEF FrameSlot, Held
    <3>3. CASE owner[p] # t
      BY <1>2, <3>1, <3>3, Shape DEF IInv, FrameSlot, Held
    <3>4. QED
      BY Zenon, <3>2, <3>3
  <2>3. QED
    BY Zenon, <2>1, <2>2
<1>8. QED
    BY Zenon, <1>5, <1>6, <1>7 DEF FrameInv

\* Every step keeps the invariant.
LEMMA FrameStep ==
    ASSUME OpenWindows \cap CoreWindows = {}, IInv, PageInv, FrameInv, [Next]_vars
    PROVE  FrameInv'
<1> USE DEF pcbVars, statusVars, localVars, cpuVars
<1>0. /\ TypeInv
      /\ pc \in [Terminals -> Labels]
      /\ cmd \in [Terminals -> [file : {"missing", "text", "exe"},
                                by : {"user", "halt", "switch"}]]
      /\ running \in [Terminals -> Pids \cup {None}]
    BY DEF IInv, TypeInv, TypeOK
<1>1. ASSUME NEW t \in Terminals, ExecuteCheck(t) PROVE FrameInv'
  <2>1. CASE cmd[t].file = "missing"
    BY Zenon, <1>1, <2>1, FrameFail DEF ExecuteCheck, At
  <2>2. CASE cmd[t].file # "missing"
    <3>1. FrameThread(t)'
      BY Zenon, <1>0, <1>1, <2>2 DEF FrameInv, FrameThread, OwnCode, ExecuteCheck, At, GoTo
    <3>2. QED
      BY Zenon, <1>0, <1>1, <2>2, <3>1, FrameOwn DEF ExecuteCheck, At, GoTo, NoFrameYet
  <2>3. QED
    BY <2>1, <2>2
<1>2. ASSUME NEW t \in Terminals, ExecuteScan(t) PROVE FrameInv'
  <2>1. CASE slot[t] >= MAX_PROCESSES
    BY Zenon, <1>2, <2>1, FrameFail DEF ExecuteScan, At
  <2>2. CASE ~(slot[t] >= MAX_PROCESSES)
    <3>1. FrameThread(t)'
      BY Zenon, <1>0, <1>2, <2>2 DEF FrameInv, FrameThread, OwnCode, ExecuteScan, At, GoTo
    <3>2. QED
      BY <1>0, <1>2, <2>2, <3>1, FrameOwn DEF ExecuteScan, At, GoTo, NoFrameYet
  <2>3. QED
    BY <2>1, <2>2
<1>3. ASSUME NEW t \in Terminals, ExecuteClaim(t) PROVE FrameInv'
  <2>1. FrameThread(t)'
    BY Zenon, <1>0, <1>3 DEF FrameInv, FrameThread, OwnCode, ExecuteClaim, At, GoTo
  <2>2. QED
    BY <1>0, <1>3, <2>1, FrameOwn DEF ExecuteClaim, At, GoTo, NoFrameYet
<1>4. ASSUME NEW t \in Terminals, ExecuteMagic(t) PROVE FrameInv'
  <2>1. cmd[t].file # "text"
    BY Zenon DEF PageInv, PageThread
  <2>2. FrameThread(t)'
    BY Zenon, <1>0, <1>4, <2>1 DEF FrameInv, FrameThread, OwnCode, ExecuteMagic, At, GoTo
  <2>3. QED
    BY <1>0, <1>4, <2>1, <2>2, FrameOwn DEF ExecuteMagic, At, GoTo, NoFrameYet
<1>5. ASSUME NEW t \in Terminals, ExecuteLoad(t) PROVE FrameInv'
  <2>1. FrameThread(t)'
    BY Zenon, <1>0, <1>5 DEF FrameInv, FrameThread, OwnCode, ExecuteLoad, At, GoTo
  <2>2. QED
    BY <1>0, <1>5, <2>1, FrameOwn DEF ExecuteLoad, At, GoTo, NoFrameYet
<1>6. ASSUME NEW t \in Terminals, HaltResume(t) PROVE FrameInv'
  <2>1. CASE current_process[t] = None \/ current_esp[current_process[t]] = NoFrame
    BY Zenon, <1>0, <1>6, <2>1, FrameWild DEF HaltResume
  <2>2. CASE current_process[t] # None /\ current_esp[current_process[t]] # NoFrame
    <3>1. /\ pc[t] = "resume" /\ pc' = [pc EXCEPT ![t] = "user"]
          /\ UNCHANGED << cmd, running, current_process, owner, parent_id, current_esp >>
      BY Zenon, <1>6, <2>2 DEF HaltResume, At, GoTo
    <3>2. FrameThread(t)'
      BY <1>0, <3>1 DEF FrameInv, FrameThread, OwnCode
    <3>3. QED
      BY Zenon, <1>0, <3>1, <3>2, FrameOwn DEF NoFrameYet
  <2>3. QED
    BY <2>1, <2>2
<1>7. ASSUME NEW t \in Terminals, NEW f, SysExecute(t, f) PROVE FrameInv'
  <2>1. FrameThread(t)'
    BY Zenon, <1>0, <1>7 DEF FrameInv, FrameThread, OwnCode, SysExecute, Call, At, GoTo
  <2>2. QED
    BY Zenon, <1>0, <1>7, <2>1, FrameOwn DEF SysExecute, Call, At, GoTo, NoFrameYet
<1>8. ASSUME NEW t \in Terminals, NEW s, NEW x, NEW f, halt(t, s, x, f) PROVE FrameInv'
  <2>1. CASE current_process[t] < MAX_TERMINAL
    <3>1. FrameThread(t)'
      BY SMTT(30), <1>0, <1>8, <2>1 DEF FrameInv, FrameThread, OwnCode, halt, Call, At, GoTo
    <3>2. QED
      BY Zenon, <1>0, <1>8, <2>1, <3>1, FrameOwn DEF halt, Call, At, GoTo, NoFrameYet
  <2>2. CASE ~(current_process[t] < MAX_TERMINAL)
    <3>1. FrameThread(t)'
      BY Zenon, <1>0, <1>8, <2>2 DEF FrameInv, FrameThread, OwnCode, halt, At, GoTo
    <3>2. QED
      BY Zenon, <1>0, <1>8, <2>2, <3>1, FrameOwn DEF halt, At, GoTo, NoFrameYet
  <2>3. QED
    BY Zenon, <2>1, <2>2
<1>9. ASSUME NEW n \in Terminals, SwitchFirst(n) PROVE FrameInv'
  <2>1. pc[n] = "off"
    BY Zenon, <1>9 DEF SwitchFirst, SwitchFrom, IInv, ParkedInv, Settled
  <2>2. /\ pc' = [pc EXCEPT ![n] = "check"]
        /\ cmd' = [cmd EXCEPT ![n] = [file |-> "exe", by |-> "switch"]]
        /\ UNCHANGED << running, current_process, owner, parent_id, current_esp >>
    BY Zenon, <1>9 DEF SwitchFirst, Call, GoTo
  <2>3. FrameThread(n)'
    BY Zenon, <1>0, <2>2 DEF FrameThread, OwnCode
  <2>4. QED
    BY <1>0, <2>1, <2>2, <2>3, FrameOwn DEF NoFrameYet
<1>10. ASSUME NEW n \in Terminals, SwitchBack(n) PROVE FrameInv'
  <2>1. FrameThread(n)'
    BY <1>10 DEF SwitchBack, FrameInv, FrameThread, OwnCode
  <2>2. QED
    BY Zenon, <1>0, <1>10, <2>1, FrameOwn DEF SwitchBack
<1>11. ASSUME NEW n \in Terminals, terminal_switch(n) PROVE FrameInv'
    BY Zenon, <1>0, <1>9, <1>10, <1>11, FrameWild DEF terminal_switch, SwitchLost
<1>12. ASSUME NEW t \in Terminals, KernelStep(t) PROVE FrameInv'
    BY <1>1, <1>2, <1>3, <1>4, <1>5, <1>6, <1>12, FramePcb, FrameEnter, FrameFree,
       FrameUnlink DEF KernelStep
<1>13. ASSUME NEW t \in Terminals, UserStep(t) PROVE FrameInv'
    BY Zenon, <1>7, <1>8, <1>13 DEF UserStep, SysHalt, Exception
<1>14. CASE UNCHANGED vars
  <2>1. \A t \in Terminals : FrameThread(t)'
    BY <1>14 DEF vars, FrameInv, FrameThread, OwnCode
  <2>2. \A p \in Pids : FrameSlot(p)'
    BY Zenon, <1>14 DEF vars, FrameInv, FrameSlot, Held
  <2>3. QED
    BY Zenon, <2>1, <2>2 DEF FrameInv
<1>15. QED
    BY Zenon, <1>11, <1>12, <1>13, <1>14 DEF Next, Lost

\* It holds in every reachable state.
LEMMA FrameInvariant ==
    ASSUME OpenWindows \cap CoreWindows = {}, "text" \notin Programs
    PROVE  Spec => [](IInv /\ PageInv /\ FrameInv)
<1>1. IInv /\ PageInv /\ FrameInv /\ [Next]_vars => IInv' /\ PageInv' /\ FrameInv'
    BY SlotStep, PageStep, FrameStep DEF IInv
<1>2. QED
    BY <1>1, SlotInit, PageInit, FrameInit, PTL DEF Spec

\* User code always finds itself current, mapped and loaded.
THEOREM UserSafe ==
    ASSUME OpenWindows \cap CoreWindows = {}, "text" \notin Programs
    PROVE  Spec => []UserSeesItself
<1>1. IInv /\ PageInv /\ FrameInv => UserSeesItself
    BY Zenon, Shape DEF IInv, PageInv, PageThread, FrameInv, FrameThread, OwnCode, UserSeesItself
<1>2. QED
    BY <1>1, FrameInvariant, PTL

\* No step goes through a frame that is not there, as long as no switch key
\* arrives while a first shell is started either.
LEMMA WildStep ==
    ASSUME OpenWindows \cap CoreWindows = {}, "first" \notin OpenWindows,
           IInv, PageInv, FrameInv, ~wild, [Next]_vars
    PROVE  ~wild'
<1> USE DEF pcbVars, statusVars, localVars, cpuVars
<1>1. ASSUME NEW t \in Terminals, Fail(t), cmd[t].by = "user" PROVE ~wild'
    BY Zenon, <1>1 DEF Fail
<1>2. ASSUME NEW t \in Terminals, ExecuteCheck(t) PROVE ~wild'
  <2>1. cmd[t].by # "user" => cmd[t].file # "missing"
    BY DEF FrameInv, FrameThread
  <2>2. QED
    BY Zenon, <1>1, <1>2, <2>1 DEF ExecuteCheck
<1>3. ASSUME NEW t \in Terminals, ExecuteScan(t) PROVE ~wild'
  <2>1. cmd[t].by # "user" => slot[t] <= t
    BY Zenon, <1>3 DEF IInv, ThreadInv, ThreadOK, SeeksBase, ExecuteScan, At
  <2>2. slot[t] \in 0 .. MAX_PROCESSES /\ t < MAX_PROCESSES /\ t \in Nat
    BY Shape, SizesAssumption DEF IInv, Terminals
  <2>3. cmd[t].by # "user" => ~(slot[t] >= MAX_PROCESSES)
    BY SMTT(30), <2>1, <2>2, SizesAssumption
  <2>4. QED
    BY Zenon, <1>1, <1>3, <2>3 DEF ExecuteScan
<1>4. ASSUME NEW t \in Terminals, ExecuteMagic(t) PROVE ~wild'
    BY <1>4 DEF ExecuteMagic, PageInv, PageThread
<1>5. ASSUME NEW t \in Terminals, HaltFree(t) PROVE ~wild'
  <2>1. pc[t] = "free" /\ current_process[t] # None
    BY Zenon, <1>5, Ids DEF HaltFree, At, IInv, TypeInv, TypeAux
  <2>2. current_esp[current_process[t]] # NoFrame
    BY Zenon, <2>1, FrameOfCurrent DEF NoFrameYet
  <2>3. QED
    BY <1>5, <2>2 DEF HaltFree
<1>6. ASSUME NEW t \in Terminals, HaltResume(t) PROVE ~wild'
  <2>1. pc[t] = "resume" /\ current_process[t] # None
    BY Zenon, <1>6 DEF HaltResume, At, FrameInv, FrameThread
  <2>2. current_esp[current_process[t]] # NoFrame
    BY Zenon, <2>1, FrameOfCurrent DEF NoFrameYet
  <2>3. QED
    BY Zenon, <1>6, <2>1, <2>2 DEF HaltResume
<1>7. ASSUME NEW t \in Terminals, KernelStep(t) PROVE ~wild'
    BY Zenon, <1>2, <1>3, <1>4, <1>5, <1>6, <1>7
       DEF KernelStep, ExecuteClaim, ExecutePcb, ExecuteLoad, ExecuteEnter, HaltUnlink
<1>8. ASSUME NEW t \in Terminals, UserStep(t) PROVE ~wild'
    BY Zenon, <1>8 DEF UserStep, SysExecute, SysHalt, Exception, halt
<1>9. ASSUME NEW n \in Terminals, SwitchLost(n) PROVE FALSE
  <2> DEFINE t == curr_terminal
  <2>1. t \in Terminals /\ n # t /\ Interruptible(t)
    BY Zenon, <1>9, Shape DEF IInv, SwitchLost
  <2>2. current_process[t] # None
    <3>1. ~InWindow("first", t)
      BY <2>1 DEF Interruptible, Windows
    <3>2. ~(cmd[t].by = "switch" /\ pc[t] \in InExecute) /\ pc[t] # "off"
      BY <3>1 DEF InWindow, IInv, TypeInv, TypeAux
    <3>3. ThreadOK(t)
      BY <2>1 DEF IInv, ThreadInv
    <3>4. QED
      BY Zenon, <3>2, <3>3 DEF ThreadOK, InExecute
  <2>3. current_process[n] # None /\ Parked(t)[current_process[n]] # n
    BY Zenon, <1>9, <2>2 DEF SwitchLost
  <2>4. return_esp[current_process[n]] = n
    BY Zenon, <2>1, <2>3 DEF IInv, ParkedThreadsKept
  <2>5. current_process[n] # current_process[t] /\ current_process[n] \in Pids
    BY Zenon, <2>1, <2>3, CurrentApart, Shape DEF IInv
  <2>6. QED
    BY Zenon, <2>3, <2>4, <2>5, Shape DEF IInv, Parked
<1>10. ASSUME NEW n \in Terminals, terminal_switch(n) PROVE ~wild'
    BY Zenon, <1>9, <1>10 DEF terminal_switch, SwitchFirst, SwitchBack
<1>11. QED
    BY <1>7, <1>8, <1>10 DEF Next, Lost, vars

\* Every pcb field that halt and terminal_switch load ESP from was written for
\* the purpose and not left since, with switch keys outside of the windows and no
\* text files executed.  The bytes of the frames are not part of this: see
\* KernelStacks.
THEOREM EspSaved ==
    ASSUME OpenWindows \cap CoreWindows = {}, "first" \notin OpenWindows,
           "text" \notin Programs
    PROVE  Spec => []EspWasSaved
<1>1. Init => EspWasSaved
    BY DEF Init, EspWasSaved
<1>2. IInv /\ PageInv /\ FrameInv /\ EspWasSaved /\ [Next]_vars => EspWasSaved'
    BY WildStep DEF EspWasSaved
<1>3. QED
    BY <1>1, <1>2, FrameInvariant, PTL DEF Spec
=============================================================================
