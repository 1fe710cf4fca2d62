------------------------ MODULE ProcessControlProofs ------------------------
(***************************************************************************)
(* Proofs about ProcessControl, for every number of terminals and slots.   *)
(*                                                                         *)
(* TypeOK holds wherever switch keys arrive, and so does                   *)
(* PageFollowsCurrent if no text file is executed.  StatusFaithful holds   *)
(* while no switch key arrives inside halt.                                *)
(***************************************************************************)
EXTENDS ProcessControl, TLAPS

\* What TypeOK needs to be inductive: a thread past the search has a slot, a
\* thread that can return to user code has a process, and a thread with kernel
\* frames has a stack.
TypeAux ==
    /\ pc[curr_terminal] # "off"
    /\ \A t \in Terminals :
        /\ pc[t] = "off" => current_process[t] = None
        /\ pc[t] \in {"claim", "pcb", "magic", "load", "enter"} => slot[t] \in Pids
        /\ pc[t] \in {"magic", "load", "enter", "user", "free", "unlink"} =>
               current_process[t] \in Pids
        /\ pc[t] \in InExecute /\ cmd[t].by = "user" => current_process[t] \in Pids
        /\ pc[t] \notin {"off", "user"} => kstack[t] \in Pids
    /\ \A p \in Pids : current_esp[p] # NoFrame => current_esp[p].stack \in Pids

\* The inductive form of TypeOK.
TypeInv == TypeOK /\ TypeAux

-----------------------------------------------------------------------------
\* What the sizes say about the sets built from them.
LEMMA Sets ==
    /\ 0 \in Terminals /\ 0 \in Pids /\ 0 \in 0 .. MAX_PROCESSES
    /\ Terminals \subseteq Pids /\ Pids \subseteq 0 .. MAX_PROCESSES
    /\ None \notin Pids /\ None \notin Terminals
    /\ \A p \in Pids : p \in Int /\ (p < MAX_TERMINAL <=> p \in Terminals)
    /\ \A i \in 0 .. MAX_PROCESSES :
           i < MAX_PROCESSES => i \in Pids /\ i + 1 \in 0 .. MAX_PROCESSES
BY SizesAssumption DEF Terminals, Pids, None

\* The initial state is well typed.
LEMMA TypeInit == Init => TypeInv
<1> SUFFICES ASSUME Init PROVE TypeInv
    OBVIOUS
<1>1. in_use \in [Pids -> {0, 1}] /\ current_esp \in [Pids -> Frame]
    BY DEF Init, InitialSlots, Frame, NoFrame
<1>2. kstack \in [Terminals -> Pids \cup {None}] /\ pc \in [Terminals -> Labels]
    BY Sets DEF Init, InitialSlots, Labels
<1>3. /\ cmd \in [Terminals -> [file : {"missing", "text", "exe"},
                              by : {"user", "halt", "switch"}]]
      /\ slot \in [Terminals -> 0 .. MAX_PROCESSES]
      /\ due \in [Terminals -> 0 .. 256] /\ extended_status \in 0 .. 256
    BY Sets DEF Init
<1>4. TypeOK
    BY Zenon, <1>1, <1>2, <1>3, Sets DEF Init, InitialSlots, TypeOK
<1>5. TypeAux
    BY Sets DEF Init, InitialSlots, TypeAux, NoFrame, InExecute
<1>6. QED
    BY <1>4, <1>5 DEF TypeInv

\* Losing control changes nothing that is typed but wild.
LEMMA TypeWild == TypeInv /\ GoWild => TypeInv'
<1> USE DEF TypeInv, GoWild, pcbVars, statusVars, localVars, cpuVars
<1>1. TypeInv /\ GoWild => TypeOK'
    BY DEF TypeOK
<1>2. TypeInv /\ GoWild => TypeAux'
    BY DEF TypeAux
<1>3. QED
    BY <1>1, <1>2

\* execute's return of -1 keeps the types.
LEMMA TypeFail ==
    ASSUME TypeInv, NEW t \in Terminals, pc[t] \in InExecute, Fail(t)
    PROVE  TypeInv'
<1>1. CASE cmd[t].by = "user"
  <2> USE <1>1, Sets DEF TypeInv, pcbVars, statusVars, cpuVars, Fail, GoTo,
                         DropLocals
  <2>1. TypeOK'
    BY SMTT(30) DEF TypeOK, Labels
  <2>2. TypeAux'
    BY DEF TypeOK, TypeAux, InExecute
  <2>3. QED
    BY <2>1, <2>2
<1>2. CASE cmd[t].by # "user"
    BY <1>2, TypeWild DEF Fail
<1>3. QED
    BY <1>1, <1>2

\* Every step of every action keeps the types and what they rest on.
LEMMA TypeStep == TypeInv /\ [Next]_vars => TypeInv'
<1> SUFFICES ASSUME TypeInv, [Next]_vars
             PROVE  TypeInv'
    OBVIOUS
<1> USE Sets DEF TypeInv, pcbVars, statusVars, localVars, cpuVars
<1>1. ASSUME NEW t \in Terminals, ExecuteCheck(t)
      PROVE  TypeInv'
  <2>1. CASE cmd[t].file = "missing"
    BY <1>1, <2>1, TypeFail DEF ExecuteCheck, At, InExecute
  <2>2. CASE ~(cmd[t].file = "missing")
    <3>1. TypeOK'
      BY <1>1, <2>2 DEF TypeOK, Labels, ExecuteCheck, At, GoTo
    <3>2. TypeAux'
      BY <1>1, <2>2 DEF TypeOK, TypeAux, InExecute, ExecuteCheck, At, GoTo
    <3>3. QED
      BY <3>1, <3>2
  <2>3. QED
    BY <2>1, <2>2
<1>2. ASSUME NEW t \in Terminals, ExecuteScan(t)
      PROVE  TypeInv'
  <2>1. CASE slot[t] >= MAX_PROCESSES
    BY <1>2, <2>1, TypeFail DEF ExecuteScan, At, InExecute
  <2>2. CASE ~(slot[t] >= MAX_PROCESSES)
    <3>1. /\ slot[t] \in Pids
          /\ slot[t] + 1 \in 0 .. MAX_PROCESSES
      BY SMTT(30), <2>2, SizesAssumption DEF TypeOK
    <3>2. CASE in_use[slot[t]] = 0
      <4>1. TypeOK'
        BY <1>2, <2>2, <3>2 DEF TypeOK, Labels, ExecuteScan, At, GoTo
      <4>2. TypeAux'
        BY SMTT(30), <1>2, <2>2, <3>1, <3>2
           DEF TypeOK, TypeAux, InExecute, ExecuteScan, At, GoTo
      <4>3. QED
        BY <4>1, <4>2
    <3>3. CASE in_use[slot[t]] # 0
      <4>1. TypeOK'
        BY SMTT(30), <1>2, <2>2, <3>1, <3>3 DEF TypeOK, ExecuteScan
      <4>2. TypeAux'
        BY ZenonT(60), SMTT(60), <1>2, <2>2, <3>3
           DEF TypeOK, TypeAux, InExecute, ExecuteScan, At, GoTo
      <4>3. QED
        BY <4>1, <4>2
    <3>4. QED
      BY <3>2, <3>3
  <2>3. QED
    BY <2>1, <2>2
<1>3. ASSUME NEW t \in Terminals, ExecuteClaim(t)
      PROVE  TypeInv'
  <2>1. TypeOK'
    BY Zenon, <1>3 DEF TypeOK, Labels, ExecuteClaim, At, GoTo
  <2>2. TypeAux'
    BY <1>3 DEF TypeOK, TypeAux, InExecute, ExecuteClaim, At, GoTo
  <2>3. QED
    BY <2>1, <2>2
<1>4. ASSUME NEW t \in Terminals, ExecutePcb(t)
      PROVE  TypeInv'
  <2>1. TypeOK'
    BY <1>4 DEF TypeOK, TypeAux, Labels, ExecutePcb, At, GoTo, ParentOf
  <2>2. TypeAux'
    BY <1>4 DEF TypeOK, TypeAux, InExecute, ExecutePcb, At, GoTo, ParentOf
  <2>3. QED
    BY <2>1, <2>2
<1>5. ASSUME NEW t \in Terminals, ExecuteMagic(t)
      PROVE  TypeInv'
  <2>1. CASE cmd[t].file = "text"
    BY <1>5, <2>1, TypeFail DEF ExecuteMagic, At, InExecute
  <2>2. CASE ~(cmd[t].file = "text")
    <3>1. TypeOK'
      BY <1>5, <2>2 DEF TypeOK, TypeAux, Labels, ExecuteMagic, At, GoTo
    <3>2. TypeAux'
      BY SMTT(30), <1>5, <2>2 DEF TypeOK, TypeAux, InExecute, ExecuteMagic, At, GoTo
    <3>3. QED
      BY <3>1, <3>2
  <2>3. QED
    BY <2>1, <2>2
<1>6. ASSUME NEW t \in Terminals, ExecuteLoad(t)
      PROVE  TypeInv'
  <2>1. TypeOK'
    BY Zenon, <1>6 DEF TypeOK, TypeAux, Labels, ExecuteLoad, At, GoTo
  <2>2. TypeAux'
    BY <1>6 DEF TypeOK, TypeAux, InExecute, ExecuteLoad, At, GoTo
  <2>3. QED
    BY <2>1, <2>2
<1>7. ASSUME NEW t \in Terminals, ExecuteEnter(t)
      PROVE  TypeInv'
  <2>1. TypeOK'
    BY <1>7 DEF TypeOK, TypeAux, Labels, Frame, ExecuteEnter, At, GoTo,
           DropLocals, SavedFrame, user_context_switch
  <2>2. TypeAux'
    BY SMTT(60), ZenonT(60), <1>7 DEF TypeOK, TypeAux, Frame, NoFrame, InExecute, ExecuteEnter, At,
           GoTo, DropLocals, SavedFrame, user_context_switch
  <2>3. QED
    BY <2>1, <2>2
<1>8. ASSUME NEW t \in Terminals, HaltFree(t)
      PROVE  TypeInv'
  <2> DEFINE p == current_process[t]
             frame == current_esp[p]
  <2>1. CASE frame = NoFrame
    BY Zenon, <1>8, <2>1, TypeWild DEF HaltFree
  <2>2. CASE frame # NoFrame
    <3>1. /\ p \in Pids
          /\ frame.caller \in Pids \cup {None}
          /\ frame.stack \in Pids
          /\ NoFrame \in Frame
      BY Zenon, <1>8, <2>2 DEF TypeOK, TypeAux, HaltFree, At, Frame, NoFrame
    <3>2. TypeOK'
      BY ZenonT(60), SMTT(60), <1>8, <2>2, <3>1 DEF TypeOK, Labels, HaltFree, At, GoTo
    <3>3. TypeAux'
      BY <1>8, <2>2, <3>1 DEF TypeOK, TypeAux, InExecute, HaltFree, At, GoTo
    <3>4. QED
      BY <3>2, <3>3
  <2>3. QED
    BY <2>1, <2>2
<1>9. ASSUME NEW t \in Terminals, HaltUnlink(t)
      PROVE  TypeInv'
  <2>1. TypeOK'
    BY Zenon, <1>9 DEF TypeOK, TypeAux, Labels, HaltUnlink, At, GoTo
  <2>2. TypeAux'
    BY <1>9 DEF TypeOK, TypeAux, InExecute, HaltUnlink, At, GoTo
  <2>3. QED
    BY <2>1, <2>2
<1>10. ASSUME NEW t \in Terminals, HaltResume(t)
      PROVE  TypeInv'
  <2> DEFINE p == current_process[t]
  <2>1. CASE p = None \/ current_esp[p] = NoFrame
    BY <1>10, <2>1, TypeWild DEF HaltResume
  <2>2. CASE p # None /\ current_esp[p] # NoFrame
    <3>1. p \in Pids
      BY <2>2 DEF TypeOK
    <3>2. current_esp[p].stack \in Pids
      BY Zenon, <2>2, <3>1 DEF TypeAux
    <3>3. p \in Pids /\ current_esp[p].stack \in Pids
      BY <3>1, <3>2
    <3>4. due' = [due EXCEPT ![t] = 0] /\ pc' = [pc EXCEPT ![t] = "user"]
      BY <1>10, <2>2 DEF HaltResume, GoTo
    <3>5. due' \in [Terminals -> 0 .. 256] /\ pc' \in [Terminals -> Labels]
      BY SMTT(30), <3>4 DEF TypeOK, Labels
    <3>6. page' \in Pids /\ esp0' \in Pids
      BY <1>10, <2>2, <3>3 DEF HaltResume
    <3>7. /\ iflag' = [iflag EXCEPT ![t] = TRUE]
          /\ kstack' = [kstack EXCEPT ![t] = None]
          /\ UNCHANGED << curr_terminal, return_esp, loaded, wild, running,
                          exception_flag, extended_status, pcbVars, localVars >>
      BY <1>10, <2>2 DEF HaltResume
    <3>8. iflag' \in [Terminals -> BOOLEAN]
      BY <3>7 DEF TypeOK
    <3>9. kstack' \in [Terminals -> Pids \cup {None}]
      BY Zenon, <3>7 DEF TypeOK
    <3>10. TypeOK'
      BY Zenon, <3>5, <3>6, <3>7, <3>8, <3>9 DEF TypeOK
    <3>11. TypeAux'
      BY <1>10, <2>2, <3>3 DEF TypeOK, TypeAux, InExecute, HaltResume, At, GoTo
    <3>12. QED
      BY <3>10, <3>11
  <2>3. QED
    BY <2>1, <2>2
<1>11. ASSUME NEW t \in Terminals, NEW f \in Programs, SysExecute(t, f)
      PROVE  TypeInv'
  <2>1. f \in {"missing", "text", "exe"}
    BY Zenon, EnvironmentAssumption
  <2>2. TypeOK'
    BY Zenon, <1>11, <2>1 DEF TypeOK, Labels, SysExecute, At, GoTo, Call
  <2>3. TypeAux'
    BY <1>11 DEF TypeOK, TypeAux, InExecute, SysExecute, At, GoTo, Call
  <2>4. QED
    BY <2>2, <2>3
<1>12. ASSUME NEW t \in Terminals, NEW s \in Nat, NEW x \in {0, 1},
             NEW f \in BOOLEAN, halt(t, s, x, f)
      PROVE  TypeInv'
  <2> DEFINE owed == IF f THEN s % 256 ELSE 256
  <2>1. s % 256 \in 0 .. 255 /\ (s % 256) + x \in 0 .. 256
    OBVIOUS
  <2> owed \in 0 .. 256
    BY <2>1
  <2> HIDE DEF owed
  <2>5. /\ current_process[t] \in Pids /\ esp0 \in Pids /\ t = curr_terminal
        /\ kstack' = [kstack EXCEPT ![t] = esp0] /\ iflag' = [iflag EXCEPT ![t] = f]
        /\ UNCHANGED << curr_terminal, current_process, parent_id, current_esp, owner,
                        return_esp, wild, running, page, loaded, esp0 >>
    BY Zenon, <1>12 DEF TypeOK, TypeAux, halt, At
  <2>6. kstack' \in [Terminals -> Pids \cup {None}] /\ iflag' \in [Terminals -> BOOLEAN]
    BY Zenon, <2>5 DEF TypeOK
  <2>7. kstack'[t] = esp0 /\ \A u \in Terminals : u # t => kstack'[u] = kstack[u]
    BY Zenon, <2>5 DEF TypeOK
  <2> DEFINE Share(u) ==
                 /\ pc[u] = "off" => current_process[u] = None
                 /\ pc[u] \in {"claim", "pcb", "magic", "load", "enter"} => slot[u] \in Pids
                 /\ pc[u] \in {"magic", "load", "enter", "user", "free", "unlink"} =>
                        current_process[u] \in Pids
                 /\ pc[u] \in InExecute /\ cmd[u].by = "user" => current_process[u] \in Pids
                 /\ pc[u] \notin {"off", "user"} => kstack[u] \in Pids
  <2>2. CASE current_process[t] < MAX_TERMINAL
    <3>1. /\ in_use' = [in_use EXCEPT ![current_process[t]] = 0]
          /\ pc' = [pc EXCEPT ![t] = "check"]
          /\ slot' = [slot EXCEPT ![t] = 0]
          /\ cmd' = [cmd EXCEPT ![t] = [file |-> "exe", by |-> "halt"]]
          /\ exception_flag' = x
          /\ UNCHANGED << extended_status, due >>
      BY Zenon, <1>12, <2>2 DEF halt, GoTo, Call
    <3>2. in_use' \in [Pids -> {0, 1}] /\ pc' \in [Terminals -> Labels]
      BY Zenon, <3>1 DEF TypeOK, Labels
    <3>3. slot' \in [Terminals -> 0 .. MAX_PROCESSES]
      BY Zenon, <3>1 DEF TypeOK
    <3>4. cmd' \in [Terminals -> [file : {"missing", "text", "exe"},
                                  by : {"user", "halt", "switch"}]]
      BY SMTT(30), <3>1 DEF TypeOK
    <3>5. TypeOK'
      BY Zenon, <2>5, <2>6, <3>1, <3>2, <3>3, <3>4 DEF TypeOK
    <3>6. /\ pc'[t] = "check" /\ cmd'[t].by = "halt"
          /\ \A u \in Terminals : u # t => pc'[u] = pc[u] /\ slot'[u] = slot[u] /\ cmd'[u] = cmd[u]
      BY Zenon, <3>1 DEF TypeOK
    <3>7. TypeAux'
      <4>1. Share(t)'
        BY SMTT(30), <2>5, <2>7, <3>6
      <4>2. ASSUME NEW u \in Terminals, u # t PROVE Share(u)'
        <5>1. Share(u)
          BY Zenon DEF TypeAux
        <5>2. QED
          BY Zenon, <2>5, <2>7, <3>6, <4>2, <5>1
      <4>3. \A u \in Terminals : Share(u)'
        BY Zenon, <4>1, <4>2
      <4>4. pc'[curr_terminal'] # "off"
        BY SMTT(30), <2>5, <3>6
      <4>5. \A p \in Pids : current_esp'[p] # NoFrame => current_esp'[p].stack \in Pids
        BY Zenon, <2>5 DEF TypeAux
      <4>6. QED
        BY Zenon, <4>3, <4>4, <4>5 DEF TypeAux
    <3>8. QED
      BY Zenon, <3>5, <3>7
  <2>3. CASE ~(current_process[t] < MAX_TERMINAL)
    <3>1. /\ due' = [due EXCEPT ![t] = owed]
          /\ pc' = [pc EXCEPT ![t] = "free"]
          /\ extended_status' = (s % 256) + x /\ exception_flag' = 0
          /\ UNCHANGED << in_use, slot, cmd >>
      BY Zenon, <1>12, <2>3 DEF halt, GoTo, ExtendedStatus, owed
    <3>2. due' \in [Terminals -> 0 .. 256] /\ pc' \in [Terminals -> Labels]
      BY Zenon, <3>1 DEF TypeOK, Labels
    <3>3. extended_status' \in 0 .. 256
      BY Zenon, <2>1, <3>1
    <3>4. TypeOK'
      BY Zenon, <2>5, <2>6, <3>1, <3>2, <3>3 DEF TypeOK
    <3>5. pc'[t] = "free" /\ \A u \in Terminals : u # t => pc'[u] = pc[u]
      BY Zenon, <3>1 DEF TypeOK
    <3>6. TypeAux'
      <4>1. Share(t)'
        BY SMTT(30), <2>5, <2>7, <3>5 DEF InExecute
      <4>2. ASSUME NEW u \in Terminals, u # t PROVE Share(u)'
        <5>1. Share(u)
          BY Zenon DEF TypeAux
        <5>2. QED
          BY Zenon, <2>5, <2>7, <3>1, <3>5, <4>2, <5>1
      <4>3. \A u \in Terminals : Share(u)'
        BY Zenon, <4>1, <4>2
      <4>4. pc'[curr_terminal'] # "off"
        BY SMTT(30), <2>5, <3>5
      <4>5. \A p \in Pids : current_esp'[p] # NoFrame => current_esp'[p].stack \in Pids
        BY Zenon, <2>5 DEF TypeAux
      <4>6. QED
        BY Zenon, <4>3, <4>4, <4>5 DEF TypeAux
    <3>7. QED
      BY Zenon, <3>4, <3>6
  <2>4. QED
    BY <2>2, <2>3
<1>13. ASSUME NEW n \in Terminals, SwitchFirst(n)
      PROVE  TypeInv'
  <2>1. TypeOK'
    BY Zenon, <1>13 DEF TypeOK, TypeAux, Labels, SwitchFirst, SwitchFrom, Parked,
           StackNow, Call, GoTo
  <2>2. TypeAux'
    BY ZenonT(60), SMTT(60), <1>13 DEF TypeOK, TypeAux, InExecute, SwitchFirst, SwitchFrom, Parked,
           StackNow, Call, GoTo
  <2>3. QED
    BY <2>1, <2>2
<1>14. ASSUME NEW n \in Terminals, SwitchBack(n)
      PROVE  TypeInv'
  <2>1. TypeOK'
    BY Zenon, <1>14 DEF TypeOK, TypeAux, SwitchBack, SwitchFrom, Parked, StackNow
  <2>2. TypeAux'
    BY <1>14 DEF TypeOK, TypeAux, InExecute, SwitchBack, SwitchFrom, Parked,
           StackNow
  <2>3. QED
    BY <2>1, <2>2
<1>15. ASSUME NEW n \in Terminals, SwitchLost(n)
      PROVE  TypeInv'
    BY Zenon, <1>15, TypeWild DEF SwitchLost
<1>16. CASE UNCHANGED vars
    BY <1>16 DEF vars, TypeOK, TypeAux
<1>17. ASSUME NEW t \in Terminals, UserStep(t)
      PROVE  TypeInv'
  <2>1. Statuses \subseteq Nat /\ 255 \in Nat /\ exception_flag \in {0, 1}
    BY EnvironmentAssumption DEF TypeOK
  <2>2. QED
    BY ZenonT(60), SMTT(60), <1>11, <1>12, <1>17, <2>1 DEF UserStep, SysHalt, Exception
<1>18. QED
    BY <1>1, <1>2, <1>3, <1>4, <1>5, <1>6, <1>7, <1>8, <1>9, <1>10, <1>13,
       <1>14, <1>15, <1>16, <1>17
       DEF Next, KernelStep, terminal_switch, Lost

\* Every variable keeps its type, wherever switch keys arrive.
THEOREM TypeCorrect == Spec => []TypeOK
<1>1. Spec => []TypeInv
    BY TypeInit, TypeStep, PTL DEF Spec
<1>2. QED
    BY <1>1, PTL DEF TypeInv

-----------------------------------------------------------------------------
\* The page a program runs on.  Nothing here depends on where switch keys
\* arrive; text files are excluded, after which execute leaves a process
\* without a program behind (syscall.c:233).

\* Thread t is in user code, or in a call of execute made from there that has
\* not become another process yet.
OwnCode(t) ==
    \/ pc[t] = "user"
    \/ cmd[t].by = "user" /\ pc[t] \in {"check", "scan", "claim", "pcb"}

\* A thread in its own code has a loaded process; in front, that process is
\* mapped.  execute works on the process it has just made current.
PageThread(t) ==
    /\ cmd[t].file # "text"
    /\ pc[t] \in {"magic", "load", "enter"} => current_process[t] = slot[t]
    /\ OwnCode(t) => loaded[current_process[t]] = current_process[t]
    /\ OwnCode(t) /\ t = curr_terminal => page = current_process[t]
    /\ pc[t] \in {"load", "enter"} /\ t = curr_terminal => page = slot[t]
    /\ pc[t] = "enter" => loaded[slot[t]] = slot[t]

\* A physical page holds no program but its own process's, and does hold that
\* one once the process has been entered.
PageSlot(p) ==
    /\ loaded[p] \in {None, p}
    /\ current_esp[p] # NoFrame => loaded[p] = p

\* What execute, halt and terminal_switch keep of pages and their contents.
PageInv ==
    /\ \A t \in Terminals : PageThread(t)
    /\ \A p \in Pids : PageSlot(p)

\* What a step of another thread leaves of thread u: everything, as long as
\* loaded programs stay loaded and u does not come to the front.
LEMMA PageParked ==
    ASSUME TypeInv, NEW u \in Terminals, PageThread(u), u # curr_terminal',
           current_process'[u] = current_process[u], pc'[u] = pc[u],
           cmd'[u] = cmd[u], slot'[u] = slot[u],
           \A p \in Pids : loaded[p] = p => loaded'[p] = p
    PROVE  PageThread(u)'
<1>1. /\ OwnCode(u) => current_process[u] \in Pids
      /\ pc[u] = "enter" => slot[u] \in Pids
    BY DEF TypeInv, TypeAux, OwnCode, InExecute
<1>2. QED
    BY <1>1 DEF PageThread, OwnCode

\* A step of thread t that loads nothing and saves no frame keeps the
\* invariant if it keeps it for t.
LEMMA PageOwn ==
    ASSUME TypeInv, PageInv, NEW t \in Terminals, t = curr_terminal,
           UNCHANGED << curr_terminal, loaded, current_esp >>,
           \A u \in Terminals \ {t} :
               /\ current_process'[u] = current_process[u] /\ pc'[u] = pc[u]
               /\ cmd'[u] = cmd[u] /\ slot'[u] = slot[u],
           PageThread(t)'
    PROVE  PageInv'
<1>1. ASSUME NEW u \in Terminals, u # t PROVE PageThread(u)'
  <2>1. PageThread(u) /\ u # curr_terminal'
    BY <1>1 DEF PageInv
  <2>2. QED
    BY <1>1, <2>1, PageParked
<1>2. \A p \in Pids : PageSlot(p)'
    BY DEF PageInv, PageSlot
<1>3. QED
    BY <1>1, <1>2 DEF PageInv

\* The initial state satisfies it: only execute("shell") is under way.
LEMMA PageInit == Init => PageInv
<1> SUFFICES ASSUME Init PROVE PageInv
    OBVIOUS
<1>1. \A t \in Terminals : PageThread(t)
    BY DEF Init, PageThread, OwnCode
<1>2. \A p \in Pids : PageSlot(p)
    BY DEF Init, PageSlot
<1>3. QED
    BY <1>1, <1>2 DEF PageInv

\* Losing control moves nothing.
LEMMA PageWild == PageInv /\ GoWild => PageInv'
<1> SUFFICES ASSUME PageInv, GoWild PROVE PageInv'
    OBVIOUS
<1> USE DEF GoWild, pcbVars, localVars, cpuVars
<1>1. \A t \in Terminals : PageThread(t)'
    BY DEF PageInv, PageThread, OwnCode
<1>2. \A p \in Pids : PageSlot(p)'
    BY DEF PageInv, PageSlot
<1>3. QED
    BY <1>1, <1>2 DEF PageInv

\* execute returns -1: to the program whose page is still mapped.
LEMMA PageFail ==
    ASSUME TypeInv, PageInv, NEW t \in Terminals, t = curr_terminal,
           pc[t] \in {"check", "scan"}, Fail(t)
    PROVE  PageInv'
<1>1. CASE cmd[t].by = "user"
  <2>1. /\ pc' = [pc EXCEPT ![t] = "user"]
        /\ slot' = [slot EXCEPT ![t] = 0]
        /\ cmd' = [cmd EXCEPT ![t] = [file |-> "exe", by |-> "user"]]
        /\ UNCHANGED << curr_terminal, current_process, current_esp, loaded, page >>
    BY Zenon, <1>1 DEF Fail, GoTo, DropLocals, pcbVars, cpuVars
  <2>2. PageThread(t)'
    BY <1>1, <2>1 DEF PageInv, PageThread, OwnCode, TypeInv, TypeOK
  <2>3. QED
    BY <2>1, <2>2, PageOwn DEF TypeInv, TypeOK
<1>2. CASE cmd[t].by # "user"
    BY <1>2, PageWild DEF Fail
<1>3. QED
    BY SMTT(30), <1>1, <1>2

\* Every step keeps it.
LEMMA PageStep ==
    ASSUME "text" \notin Programs, TypeInv, PageInv, [Next]_vars
    PROVE  PageInv'
<1> USE DEF pcbVars, statusVars, localVars, cpuVars
<1>0. /\ pc \in [Terminals -> Labels] /\ slot \in [Terminals -> 0 .. MAX_PROCESSES]
      /\ cmd \in [Terminals -> [file : {"missing", "text", "exe"},
                                by : {"user", "halt", "switch"}]]
      /\ current_process \in [Terminals -> Pids \cup {None}]
      /\ loaded \in [Pids -> Pids \cup {None}] /\ current_esp \in [Pids -> Frame]
      /\ curr_terminal \in Terminals
    BY DEF TypeInv, TypeOK
<1>1. ASSUME NEW t \in Terminals, ExecuteCheck(t) PROVE PageInv'
  <2>1. CASE cmd[t].file = "missing"
    BY <1>1, <2>1, PageFail DEF ExecuteCheck, At
  <2>2. CASE cmd[t].file # "missing"
    <3>1. PageThread(t)'
      BY <1>0, <1>1, <2>2 DEF PageInv, PageThread, OwnCode, ExecuteCheck, At, GoTo
    <3>2. QED
      BY <1>0, <1>1, <2>2, <3>1, PageOwn DEF ExecuteCheck, At, GoTo
  <2>3. QED
    BY Zenon, <2>1, <2>2
<1>2. ASSUME NEW t \in Terminals, ExecuteScan(t) PROVE PageInv'
  <2>1. CASE slot[t] >= MAX_PROCESSES
    BY Zenon, <1>2, <2>1, PageFail DEF ExecuteScan, At
  <2>2. CASE ~(slot[t] >= MAX_PROCESSES)
    <3>1. PageThread(t)'
      BY <1>0, <1>2, <2>2 DEF PageInv, PageThread, OwnCode, ExecuteScan, At, GoTo
    <3>2. QED
      BY Zenon, <1>0, <1>2, <2>2, <3>1, PageOwn DEF ExecuteScan, At, GoTo
  <2>3. QED
    BY Zenon, <2>1, <2>2
<1>3. ASSUME NEW t \in Terminals, ExecuteClaim(t) PROVE PageInv'
  <2>1. PageThread(t)'
    BY <1>0, <1>3 DEF PageInv, PageThread, OwnCode, ExecuteClaim, At, GoTo
  <2>2. QED
    BY Zenon, <1>0, <1>3, <2>1, PageOwn DEF ExecuteClaim, At, GoTo
<1>4. ASSUME NEW t \in Terminals, ExecutePcb(t) PROVE PageInv'
  <2>1. PageThread(t)'
    BY <1>0, <1>4 DEF PageInv, PageThread, OwnCode, ExecutePcb, At, GoTo
  <2>2. QED
    BY Zenon, <1>0, <1>4, <2>1, PageOwn DEF ExecutePcb, At, GoTo
<1>5. ASSUME NEW t \in Terminals, ExecuteMagic(t) PROVE PageInv'
  <2>1. cmd[t].file # "text"
    BY Zenon DEF PageInv, PageThread
  <2>2. PageThread(t)'
    BY <1>0, <1>5, <2>1 DEF PageInv, PageThread, OwnCode, ExecuteMagic, At, GoTo
  <2>3. QED
    BY Zenon, <1>0, <1>5, <2>1, <2>2, PageOwn DEF ExecuteMagic, At, GoTo
<1>6. ASSUME NEW t \in Terminals, ExecuteLoad(t) PROVE PageInv'
  <2>1. page = slot[t] /\ slot[t] \in Pids /\ t = curr_terminal
    BY <1>6 DEF PageInv, PageThread, ExecuteLoad, At, TypeInv, TypeAux
  <2>2. /\ loaded' = [loaded EXCEPT ![slot[t]] = slot[t]]
        /\ pc' = [pc EXCEPT ![t] = "enter"]
        /\ UNCHANGED << curr_terminal, current_process, cmd, slot, page, current_esp >>
    BY <1>6, <2>1 DEF ExecuteLoad, GoTo
  <2>3. \A p \in Pids : loaded[p] = p => loaded'[p] = p
    BY <1>0, <2>1, <2>2
  <2>4. \A u \in Terminals : PageThread(u)'
    <3>1. PageThread(t)'
      BY <1>0, <1>6, <2>1, <2>2 DEF PageInv, PageThread, OwnCode, ExecuteLoad, At
    <3>2. ASSUME NEW u \in Terminals, u # t PROVE PageThread(u)'
      <4>1. PageThread(u) /\ u # curr_terminal'
        BY Zenon, <2>1, <2>2, <3>2 DEF PageInv
      <4>2. QED
        BY <1>0, <2>2, <2>3, <3>2, <4>1, PageParked
    <3>3. QED
      BY Zenon, <3>1, <3>2
  <2>5. \A p \in Pids : PageSlot(p)'
    BY Zenon, <1>0, <2>1, <2>2 DEF PageInv, PageSlot
  <2>6. QED
    BY Zenon, <2>4, <2>5 DEF PageInv
<1>7. ASSUME NEW t \in Terminals, ExecuteEnter(t) PROVE PageInv'
  <2> DEFINE q == current_process[t]
  <2>1. /\ t = curr_terminal /\ q = slot[t] /\ q \in Pids
        /\ page = q /\ loaded[q] = q
    BY Zenon, <1>7 DEF PageInv, PageThread, ExecuteEnter, At, TypeInv, TypeAux
  <2>2. /\ pc' = [pc EXCEPT ![t] = "user"]
        /\ cmd' = [cmd EXCEPT ![t] = [file |-> "exe", by |-> "user"]]
        /\ slot' = [slot EXCEPT ![t] = 0]
        /\ \A p \in Pids \ {q} : current_esp'[p] = current_esp[p]
        /\ UNCHANGED << curr_terminal, current_process, page, loaded >>
    BY <1>0, <1>7 DEF ExecuteEnter, SavedFrame, user_context_switch, DropLocals, GoTo
  <2>3. \A u \in Terminals : PageThread(u)'
    <3>1. PageThread(t)'
      BY <1>0, <2>1, <2>2 DEF PageThread, OwnCode
    <3>2. ASSUME NEW u \in Terminals, u # t PROVE PageThread(u)'
      <4>1. PageThread(u) /\ u # curr_terminal'
        BY Zenon, <2>1, <2>2, <3>2 DEF PageInv
      <4>2. QED
        BY Zenon, <1>0, <2>2, <3>2, <4>1, PageParked
    <3>3. QED
      BY <3>1, <3>2
  <2>4. \A p \in Pids : PageSlot(p)'
    BY <2>1, <2>2 DEF PageInv, PageSlot
  <2>5. QED
    BY <2>3, <2>4 DEF PageInv
<1>8. ASSUME NEW t \in Terminals, HaltFree(t) PROVE PageInv'
  <2>1. CASE current_esp[current_process[t]] = NoFrame
    BY <1>8, <2>1, PageWild DEF HaltFree
  <2>2. CASE current_esp[current_process[t]] # NoFrame
    <3>1. /\ t = curr_terminal
          /\ pc' = [pc EXCEPT ![t] = "unlink"]
          /\ current_esp' = [current_esp EXCEPT ![current_process[t]] = NoFrame]
          /\ UNCHANGED << curr_terminal, current_process, cmd, slot, page, loaded >>
      BY <1>8, <2>2 DEF HaltFree, At, GoTo
    <3>2. ASSUME NEW u \in Terminals, u # t PROVE PageThread(u)'
      <4>1. PageThread(u) /\ u # curr_terminal'
        BY Zenon, <3>1, <3>2 DEF PageInv
      <4>2. QED
        BY <1>0, <3>1, <3>2, <4>1, PageParked
    <3>3. PageThread(t)'
      BY <1>0, <3>1 DEF PageInv, PageThread, OwnCode
    <3>4. \A p \in Pids : PageSlot(p)'
      BY Zenon, <1>0, <3>1 DEF PageInv, PageSlot
    <3>5. QED
      BY <3>2, <3>3, <3>4 DEF PageInv
  <2>3. QED
    BY <2>1, <2>2
<1>9. ASSUME NEW t \in Terminals, HaltUnlink(t) PROVE PageInv'
  <2>1. PageThread(t)'
    BY <1>0, <1>9 DEF PageInv, PageThread, OwnCode, HaltUnlink, At, GoTo
  <2>2. QED
    BY Zenon, <1>0, <1>9, <2>1, PageOwn DEF HaltUnlink, At, GoTo
<1>10. ASSUME NEW t \in Terminals, HaltResume(t) PROVE PageInv'
  <2> DEFINE q == current_process[t]
  <2>1. CASE q = None \/ current_esp[q] = NoFrame
    BY Zenon, <1>10, <2>1, PageWild DEF HaltResume
  <2>2. CASE q # None /\ current_esp[q] # NoFrame
    <3>1. loaded[q] = q
      BY Zenon, <1>0, <2>2 DEF PageInv, PageSlot
    <3>2. PageThread(t)'
      BY Zenon, <1>0, <1>10, <2>2, <3>1 DEF PageInv, PageThread, OwnCode, HaltResume, At, GoTo
    <3>3. QED
      BY <1>0, <1>10, <2>2, <3>2, PageOwn DEF HaltResume, At, GoTo
  <2>3. QED
    BY Zenon, <2>1, <2>2
<1>11. ASSUME NEW t \in Terminals, NEW f \in Programs, SysExecute(t, f) PROVE PageInv'
  <2>1. f # "text"
    OBVIOUS
  <2>2. PageThread(t)'
    BY <1>0, <1>11, <2>1 DEF PageInv, PageThread, OwnCode, SysExecute, At, Call, GoTo
  <2>3. QED
    BY <1>0, <1>11, <2>2, PageOwn DEF SysExecute, At, Call, GoTo
<1>12. ASSUME NEW t \in Terminals, NEW s, NEW x, NEW f, halt(t, s, x, f) PROVE PageInv'
  <2>1. CASE current_process[t] < MAX_TERMINAL
    <3>1. PageThread(t)'
      BY SMTT(30), <1>0, <1>12, <2>1 DEF PageInv, PageThread, OwnCode, halt, At, Call, GoTo
    <3>2. QED
      BY Zenon, <1>0, <1>12, <2>1, <3>1, PageOwn DEF halt, At, Call, GoTo
  <2>2. CASE ~(current_process[t] < MAX_TERMINAL)
    <3>1. PageThread(t)'
      BY Zenon, <1>0, <1>12, <2>2 DEF PageInv, PageThread, OwnCode, halt, At, GoTo
    <3>2. QED
      BY Zenon, <1>0, <1>12, <2>2, <3>1, PageOwn DEF halt, At, GoTo
  <2>3. QED
    BY Zenon, <2>1, <2>2
<1>13. ASSUME NEW n \in Terminals, SwitchFirst(n) PROVE PageInv'
  <2>1. /\ curr_terminal' = n
        /\ pc' = [pc EXCEPT ![n] = "check"] /\ slot' = [slot EXCEPT ![n] = 0]
        /\ cmd' = [cmd EXCEPT ![n] = [file |-> "exe", by |-> "switch"]]
        /\ UNCHANGED << current_process, page, loaded, current_esp >>
    BY Zenon, <1>13 DEF SwitchFirst, SwitchFrom, Call, GoTo
  <2>2. ASSUME NEW u \in Terminals, u # n PROVE PageThread(u)'
    <3>1. PageThread(u) /\ u # curr_terminal'
      BY Zenon, <2>1, <2>2 DEF PageInv
    <3>2. QED
      BY <1>0, <2>1, <2>2, <3>1, PageParked
  <2>3. PageThread(n)'
    BY Zenon, <1>0, <2>1 DEF PageThread, OwnCode
  <2>4. \A p \in Pids : PageSlot(p)'
    BY Zenon, <2>1 DEF PageInv, PageSlot
  <2>5. QED
    BY <2>2, <2>3, <2>4 DEF PageInv
<1>14. ASSUME NEW n \in Terminals, SwitchBack(n) PROVE PageInv'
  <2>1. /\ curr_terminal' = n /\ page' = current_process[n]
        /\ UNCHANGED << pc, slot, cmd, current_process, loaded, current_esp >>
    BY Zenon, <1>14 DEF SwitchBack, SwitchFrom
  <2>2. \A u \in Terminals : PageThread(u)'
    BY Zenon, <2>1 DEF PageInv, PageThread, OwnCode
  <2>3. \A p \in Pids : PageSlot(p)'
    BY Zenon, <2>1 DEF PageInv, PageSlot
  <2>4. QED
    BY <2>2, <2>3 DEF PageInv
<1>15. ASSUME NEW n \in Terminals, terminal_switch(n) PROVE PageInv'
    BY Zenon, <1>13, <1>14, <1>15, PageWild DEF terminal_switch, SwitchLost
<1>16. ASSUME NEW t \in Terminals, KernelStep(t) PROVE PageInv'
    BY <1>1, <1>2, <1>3, <1>4, <1>5, <1>6, <1>7, <1>8, <1>9, <1>10, <1>16
       DEF KernelStep
<1>17. ASSUME NEW t \in Terminals, UserStep(t) PROVE PageInv'
    BY Zenon, <1>11, <1>12, <1>17 DEF UserStep, SysHalt, Exception
<1>18. CASE UNCHANGED vars
  <2>1. \A t \in Terminals : PageThread(t)'
    BY Zenon, <1>18 DEF vars, PageInv, PageThread, OwnCode
  <2>2. \A p \in Pids : PageSlot(p)'
    BY Zenon, <1>18 DEF vars, PageInv, PageSlot
  <2>3. QED
    BY <2>1, <2>2 DEF PageInv
<1>19. QED
    BY <1>15, <1>16, <1>17, <1>18 DEF Next, Lost

\* It holds in every reachable state.
LEMMA PageInvariant ==
    ASSUME "text" \notin Programs
    PROVE  Spec => [](TypeInv /\ PageInv)
<1>1. TypeInv /\ PageInv /\ [Next]_vars => TypeInv' /\ PageInv'
    BY TypeStep, PageStep
<1>2. QED
    BY <1>1, TypeInit, PageInit, PTL DEF Spec

\* Wherever switch keys arrive, user code runs on the page of the process that
\* its terminal calls current, and that page holds the program loaded for it.
THEOREM PageSafe ==
    ASSUME "text" \notin Programs
    PROVE  Spec => []PageFollowsCurrent
<1>1. TypeInv /\ PageInv => PageFollowsCurrent
    BY DEF TypeInv, TypeOK, PageInv, PageThread, OwnCode, PageFollowsCurrent
<1>2. QED
    BY <1>1, PageInvariant, PTL

-----------------------------------------------------------------------------
\* The status of halt.  It waits in a global, so no switch key may arrive while
\* it does (the windows "free" and "status"); a base shell that faults would
\* leave exception_flag set.

\* No exception is pending, and a thread in halt is in front with the status it
\* owes in extended_status.
StatusInv ==
    /\ exception_flag = 0
    /\ \A t \in Terminals :
           pc[t] \in InHalt => t = curr_terminal /\ extended_status = due[t]

\* A switch key that arrives outside these windows finds no thread in halt.
LEMMA InterruptOutsideHalt ==
    ASSUME OpenWindows \cap {"free", "status"} = {}, NEW t, Interruptible(t)
    PROVE  pc[t] \notin InHalt
<1>1. ~InWindow("free", t) /\ ~InWindow("status", t)
    BY DEF Interruptible, Windows
<1>2. QED
    BY <1>1 DEF InWindow, InHalt

\* Every step keeps what is known of the status.
LEMMA StatusStep ==
    ASSUME OpenWindows \cap {"free", "status"} = {}, ~ShellMayFault,
           TypeInv, StatusInv, [Next]_vars
    PROVE  StatusInv'
<1> USE DEF pcbVars, statusVars, localVars, cpuVars
<1>0. /\ pc \in [Terminals -> Labels] /\ due \in [Terminals -> 0 .. 256]
      /\ curr_terminal \in Terminals
    BY Zenon DEF TypeInv, TypeOK
<1>1. ASSUME GoWild PROVE StatusInv'
    BY Zenon, <1>1 DEF StatusInv, GoWild
<1>2. ASSUME NEW t \in Terminals, Fail(t) PROVE StatusInv'
    BY Zenon, <1>0, <1>1, <1>2 DEF StatusInv, Fail, GoTo, InHalt
<1>3. ASSUME NEW t \in Terminals,
             \/ ExecuteCheck(t) \/ ExecuteScan(t) \/ ExecuteClaim(t) \/ ExecutePcb(t)
             \/ ExecuteMagic(t) \/ ExecuteLoad(t) \/ ExecuteEnter(t)
      PROVE  StatusInv'
  <2>1. CASE Fail(t)
    BY <1>2, <2>1
  <2>2. CASE /\ \/ \E l \in InExecute \cup {"user"} : pc' = [pc EXCEPT ![t] = l]
                \/ pc' = pc
             /\ UNCHANGED << curr_terminal, exception_flag, extended_status, due >>
    BY Zenon, <1>0, <2>2 DEF StatusInv, InExecute, InHalt
  <2>3. QED
    BY Zenon, <1>3, <2>1, <2>2
       DEF ExecuteCheck, ExecuteScan, ExecuteClaim, ExecutePcb, ExecuteMagic,
           ExecuteLoad, ExecuteEnter, user_context_switch, GoTo, InExecute
<1>4. ASSUME NEW t \in Terminals, HaltFree(t) \/ HaltUnlink(t) PROVE StatusInv'
  <2>1. CASE GoWild
    BY Zenon, <1>1, <2>1
  <2>2. CASE /\ \E l \in {"unlink", "resume"} : pc' = [pc EXCEPT ![t] = l]
             /\ UNCHANGED << curr_terminal, exception_flag, extended_status, due >>
    BY Zenon, <1>0, <1>4, <2>2 DEF StatusInv, InHalt, HaltFree, HaltUnlink, At
  <2>3. QED
    BY Zenon, <1>4, <2>1, <2>2 DEF HaltFree, HaltUnlink, GoTo
<1>5. ASSUME NEW t \in Terminals, HaltResume(t) PROVE StatusInv'
  <2>1. CASE GoWild
    BY <1>1, <2>1
  <2>2. CASE /\ pc' = [pc EXCEPT ![t] = "user"] /\ due' = [due EXCEPT ![t] = 0]
             /\ UNCHANGED << curr_terminal, exception_flag, extended_status >>
    BY Zenon, <1>0, <2>2 DEF StatusInv, InHalt
  <2>3. QED
    BY <1>5, <2>1, <2>2 DEF HaltResume, GoTo
<1>6. ASSUME NEW t \in Terminals, NEW f, SysExecute(t, f) PROVE StatusInv'
    BY <1>0, <1>6 DEF StatusInv, InHalt, SysExecute, Call, GoTo
<1>7. ASSUME NEW t \in Terminals, NEW s \in Nat, NEW x, NEW f, halt(t, s, x, f),
             \/ x = 0 /\ f = TRUE
             \/ x = 1 /\ f = FALSE /\ s = 255 /\ ~(current_process[t] < MAX_TERMINAL)
      PROVE  StatusInv'
  <2>1. CASE current_process[t] < MAX_TERMINAL
    BY <1>0, <1>7, <2>1 DEF StatusInv, InHalt, halt, Call, GoTo
  <2>2. CASE ~(current_process[t] < MAX_TERMINAL)
    <3>1. (s % 256) + x = IF f THEN s % 256 ELSE 256
      BY SMTT(30), <1>7
    <3>2. /\ pc' = [pc EXCEPT ![t] = "free"] /\ exception_flag' = 0
          /\ due' = [due EXCEPT ![t] = extended_status']
          /\ curr_terminal' = curr_terminal /\ t = curr_terminal /\ pc[t] = "user"
      BY <1>7, <2>2, <3>1 DEF halt, ExtendedStatus, GoTo, At
    <3>3. QED
      BY <1>0, <3>2 DEF StatusInv, InHalt
  <2>3. QED
    BY Zenon, <2>1, <2>2
<1>8. ASSUME NEW t \in Terminals, UserStep(t) PROVE StatusInv'
  <2>1. ASSUME NEW s \in Statuses, SysHalt(t, s) PROVE StatusInv'
    <3>1. s \in Nat /\ exception_flag = 0
      BY EnvironmentAssumption DEF StatusInv
    <3>2. QED
      BY Zenon, <1>7, <2>1, <3>1 DEF SysHalt
  <2>2. ASSUME Exception(t) PROVE StatusInv'
    <3>1. ~(current_process[t] < MAX_TERMINAL) /\ halt(t, 255, 1, FALSE)
      BY Zenon, <2>2 DEF Exception
    <3>2. 255 \in Nat
      OBVIOUS
    <3>3. QED
      BY Zenon, <1>7, <3>1, <3>2
  <2>3. QED
    BY <1>6, <1>8, <2>1, <2>2 DEF UserStep
<1>9. ASSUME NEW n \in Terminals, terminal_switch(n) PROVE StatusInv'
  <2>1. CASE GoWild
    BY <1>1, <2>1
  <2>2. CASE SwitchFirst(n) \/ SwitchBack(n)
    <3>1. pc[curr_terminal] \notin InHalt
      BY Zenon, <2>2, InterruptOutsideHalt DEF SwitchFirst, SwitchBack, SwitchFrom
    <3>2. \A t \in Terminals : pc[t] \notin InHalt
      BY Zenon, <3>1 DEF StatusInv
    <3>3. \A t \in Terminals : pc'[t] \notin InHalt
      BY Zenon, <1>0, <2>2, <3>2 DEF SwitchFirst, SwitchBack, Call, GoTo, InHalt
    <3>4. exception_flag' = exception_flag
      BY Zenon, <2>2 DEF SwitchFirst, SwitchBack
    <3>5. QED
      BY <3>3, <3>4 DEF StatusInv
  <2>3. QED
    BY <1>9, <2>1, <2>2 DEF terminal_switch, SwitchLost
<1>10. CASE UNCHANGED vars
    BY <1>10 DEF vars, StatusInv
<1>11. QED
    BY Zenon, <1>3, <1>4, <1>5, <1>8, <1>9, <1>10 DEF Next, KernelStep, Lost

\* halt hands its parent the status the process passed, or 256 after an
\* exception ("returning the specified value to its parent", syscall.c:48), for
\* every status.
THEOREM StatusSafe ==
    ASSUME OpenWindows \cap {"free", "status"} = {}, ~ShellMayFault
    PROVE  Spec => []StatusFaithful
<1>1. Init => StatusInv
    BY DEF Init, StatusInv, InHalt
<1>2. TypeInv /\ StatusInv /\ [Next]_vars => TypeInv' /\ StatusInv'
    BY Zenon, TypeStep, StatusStep
<1>3. TypeInv /\ StatusInv => StatusFaithful
    BY DEF TypeInv, TypeOK, StatusInv, StatusFaithful
<1>4. QED
    BY <1>1, <1>2, <1>3, TypeInit, PTL DEF Spec

=============================================================================
