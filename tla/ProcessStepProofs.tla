------------------------- MODULE ProcessStepProofs --------------------------
(****************************************************************************)
(* The inductive invariant behind the slot table, the process chains and    *)
(* the parked threads, and why every step of execute and of halt, and every *)
(* call of a user program, keeps it.                                        *)
(*                                                                          *)
(* The invariant holds while no switch key arrives inside one of the three  *)
(* windows of CoreWindows.  The windows "first" and "status" may be open,   *)
(* text files may be executed, and base shells may fault.                   *)
(****************************************************************************)
EXTENDS ProcessControlProofs

CoreWindows == {"restart", "claim", "free"}

\* A thread that looks for the slot of a base shell.
SeeksBase(t) == pc[t] \in {"check", "scan", "claim"} /\ cmd[t].by # "user"

\* Thread t holds no half-done change of the slot table, and has a process
\* unless it never ran.
Settled(t) ==
    /\ pc[t] \notin {"claim", "unlink"}
    /\ ~SeeksBase(t)
    /\ current_process[t] = None => pc[t] = "off"

\* The threads of the other terminals are settled.
ParkedInv == \A t \in Terminals \ {curr_terminal} : Settled(t)

\* Thread t has no process exactly while it is off or its first shell has not
\* filled its pcb; and what it knows of its slot while in execute or halt.
ThreadOK(t) ==
    /\ current_process[t] = None <=>
           \/ pc[t] = "off"
           \/ cmd[t].by = "switch" /\ pc[t] \in {"check", "scan", "claim", "pcb"}
    /\ pc[t] \in {"free", "unlink"} => current_process[t] \notin Terminals
    /\ cmd[t].by = "halt" /\ pc[t] \in InExecute => current_process[t] = t
    /\ SeeksBase(t) => slot[t] <= t /\ in_use[t] = 0
    /\ pc[t] \in {"claim", "pcb"} /\ cmd[t].by # "user" => slot[t] = t
    /\ pc[t] \in {"claim", "pcb"} /\ cmd[t].by = "user" =>
           slot[t] \notin Terminals /\ ~Held(slot[t])
    /\ pc[t] = "claim" => in_use[slot[t]] = 0
    /\ pc[t] = "pcb" => in_use[slot[t]] = 1
    /\ pc[t] = "unlink" => in_use[current_process[t]] = 0
    /\ pc[t] \in {"magic", "load", "enter"} => slot[t] = current_process[t]
    /\ pc[t] = "load" /\ t = curr_terminal => page = slot[t]

ThreadInv == \A t \in Terminals : ThreadOK(t)

\* A marked slot is accounted for; an unmarked one is held only by the process
\* that is just leaving or being replaced; a terminal's slot is unmarked only
\* while its own base shell is looking for it.
SlotOK(p) ==
    /\ in_use[p] = 1 => Held(p) \/ Claimed(p) \/ Reserved(p)
    /\ in_use[p] = 0 /\ Held(p) =>
           /\ p = current_process[curr_terminal]
           /\ pc[curr_terminal] = "unlink" \/ SeeksBase(curr_terminal)
    /\ in_use[p] = 0 /\ p \in Terminals => p = curr_terminal /\ SeeksBase(p)
    /\ Held(p) => current_process[owner[p]] # None

SlotInv == \A p \in Pids : SlotOK(p)

\* No two threads have claimed the same slot.
ClaimsApart ==
    \A t, u \in Terminals :
        t # u /\ pc[t] = "pcb" /\ pc[u] = "pcb" => slot[t] # slot[u]

\* The current process of a terminal belongs to it.
CurrentOwned ==
    \A t \in Terminals : current_process[t] # None => owner[current_process[t]] = t

\* A base shell is in its terminal's slot; any other process has its parent in
\* the same terminal, and that parent is not current.
LinkOK(p) ==
    Held(p) =>
        /\ p \in Terminals => owner[p] = p /\ parent_id[p] = None
        /\ p \notin Terminals =>
               /\ parent_id[p] \in Pids \ {p, current_process[owner[p]]}
               /\ owner[parent_id[p]] = owner[p]

LinkInv == \A p \in Pids : LinkOK(p)

\* No two processes share a parent.
Apart(p, q) ==
    Held(p) /\ Held(q) /\ p # q /\ p \notin Terminals => parent_id[p] # parent_id[q]

ParentsApart == \A p, q \in Pids : Apart(p, q)

\* The inductive invariant.
IInv ==
    /\ TypeInv
    /\ ParkedInv
    /\ ThreadInv
    /\ SlotInv
    /\ ClaimsApart
    /\ CurrentOwned
    /\ LinkInv
    /\ ParentsApart
    /\ ParkedThreadsKept

-----------------------------------------------------------------------------
\* What the proofs below use of the sizes and of the types.
LEMMA Ids ==
    /\ Terminals \subseteq Pids
    /\ None \notin Pids /\ None \notin Terminals
    /\ \A t \in Terminals : 0 <= t
BY Sets, SizesAssumption DEF Terminals

LEMMA Below ==
    \A p \in Pids : /\ p < MAX_TERMINAL <=> p \in Terminals
                    /\ p >= MAX_TERMINAL <=> p \notin Terminals
BY SizesAssumption DEF Terminals, Pids

LEMMA Shape ==
    TypeInv =>
        /\ curr_terminal \in Terminals
        /\ current_process \in [Terminals -> Pids \cup {None}]
        /\ in_use \in [Pids -> {0, 1}]
        /\ parent_id \in [Pids -> Pids \cup {None}]
        /\ return_esp \in [Pids -> Terminals \cup {None}]
        /\ owner \in [Pids -> Terminals \cup {None}]
        /\ pc \in [Terminals -> Labels]
        /\ slot \in [Terminals -> 0 .. MAX_PROCESSES]
        /\ cmd \in [Terminals -> [file : {"missing", "text", "exe"},
                                  by : {"user", "halt", "switch"}]]
BY DEF TypeInv, TypeOK

\* A step that leaves a settled thread's own state alone, and the slot it may
\* have claimed, keeps what is known of it.
LEMMA ThreadFrame ==
    ASSUME NEW u \in Terminals, ThreadOK(u), Settled(u),
           current_process'[u] = current_process[u], pc'[u] = pc[u],
           cmd'[u] = cmd[u], slot'[u] = slot[u],
           pc[u] = "pcb" => /\ in_use'[slot[u]] = in_use[slot[u]]
                            /\ owner'[slot[u]] = owner[slot[u]],
           u = curr_terminal' => page' = current_process[u]
    PROVE  ThreadOK(u)' /\ Settled(u)'
BY DEF ThreadOK, Settled, SeeksBase, Held, InExecute

\* A step that changes neither chain nor owner keeps the chains.
LEMMA LinkFrame ==
    ASSUME CurrentOwned, LinkInv, ParentsApart,
           UNCHANGED << current_process, owner, parent_id >>
    PROVE  CurrentOwned' /\ LinkInv' /\ ParentsApart'
<1>1. CurrentOwned'
    BY DEF CurrentOwned
<1>2. LinkInv'
    BY DEF LinkInv, LinkOK, Held
<1>3. ParentsApart'
    BY DEF ParentsApart, Apart, Held
<1>4. QED
    BY <1>1, <1>2, <1>3

\* The current processes of two terminals are different.
LEMMA CurrentApart ==
    ASSUME CurrentOwned, NEW t \in Terminals, NEW u \in Terminals, t # u,
           current_process[t] # None
    PROVE  current_process[t] # current_process[u]
BY DEF CurrentOwned

\* A switch key that reaches the processor outside the core windows, and is
\* not lost, finds its thread settled.
LEMMA InterruptSettled ==
    ASSUME OpenWindows \cap CoreWindows = {}, NEW t \in Terminals,
           Interruptible(t), TypeInv, ThreadOK(t), current_process[t] # None
    PROVE  Settled(t)
<1>1. \A w \in {"restart", "claim", "free"} : ~InWindow(w, t)
    BY DEF Interruptible, Windows, CoreWindows
<1>2. ~InWindow("restart", t) /\ ~InWindow("claim", t) /\ ~InWindow("free", t)
    BY <1>1
<1>3. cmd[t].by \in {"user", "halt", "switch"}
    BY DEF TypeInv, TypeOK
<1>4. QED
    BY <1>2, <1>3 DEF InWindow, Settled, SeeksBase, ThreadOK

-----------------------------------------------------------------------------
\* The initial state satisfies the invariant.
LEMMA SlotInit == Init => IInv
<1> SUFFICES ASSUME Init PROVE IInv
    OBVIOUS
<1>1. TypeInv
    BY TypeInit
<1> USE Sets DEF Init, InitialSlots
<1>2. ParkedInv
    BY DEF ParkedInv, Settled, SeeksBase
<1>3. ThreadInv
    BY DEF ThreadInv, ThreadOK, SeeksBase, InExecute, Terminals
<1>4. ASSUME NEW p \in Pids PROVE SlotOK(p)
  <2>1. ~Held(p)
    BY DEF Held
  <2>2. in_use[p] = 1 => p \in Terminals
    BY SizesAssumption DEF Terminals
  <2>3. in_use[p] = 0 /\ p \in Terminals => p = 0
    BY SizesAssumption DEF Terminals
  <2>4. QED
    BY <2>1, <2>2, <2>3 DEF SlotOK, Reserved, SeeksBase
<1>5. ClaimsApart /\ CurrentOwned /\ ParkedThreadsKept
    BY DEF ClaimsApart, CurrentOwned, ParkedThreadsKept
<1>6. LinkInv /\ ParentsApart
    BY DEF LinkInv, LinkOK, ParentsApart, Apart, Held
<1>7. QED
    BY <1>1, <1>2, <1>3, <1>4, <1>5, <1>6 DEF IInv, SlotInv

\* A step that changes none of the variables the invariant speaks of keeps it.
LEMMA SlotFrame ==
    ASSUME IInv, TypeInv',
           UNCHANGED << curr_terminal, current_process, in_use, parent_id,
                        return_esp, owner, pc, cmd, slot, page >>
    PROVE  IInv'
<1>1. ParkedInv'
    BY DEF IInv, ParkedInv, Settled, SeeksBase
<1>2. ThreadInv'
    BY DEF IInv, ThreadInv, ThreadOK, SeeksBase, Held, InExecute
<1>3. SlotInv'
  <2>1. \A p \in Pids : Held(p)' = Held(p) /\ Reserved(p)' = Reserved(p)
    BY DEF Held, Reserved
  <2>2. \A p \in Pids : Claimed(p)' = Claimed(p)
    BY DEF Claimed
  <2>3. QED
    BY <2>1, <2>2 DEF IInv, SlotInv, SlotOK, SeeksBase
<1>4. ClaimsApart' /\ ParkedThreadsKept'
    BY DEF IInv, ClaimsApart, ParkedThreadsKept
<1>5. QED
    BY <1>1, <1>2, <1>3, <1>4, LinkFrame DEF IInv

\* Losing control changes none of them.
LEMMA SlotWild == IInv /\ GoWild => IInv'
<1> SUFFICES ASSUME IInv, GoWild PROVE IInv'
    OBVIOUS
<1>1. TypeInv'
    BY TypeWild DEF IInv
<1>2. UNCHANGED << curr_terminal, current_process, in_use, parent_id, return_esp,
                   owner, pc, cmd, slot, page >>
    BY DEF GoWild, pcbVars, statusVars, localVars, cpuVars
<1>3. QED
    BY <1>1, <1>2, SlotFrame

-----------------------------------------------------------------------------
\* One lemma for each step of execute.
\* execute returns -1 to a user program.
LEMMA SlotFail ==
    ASSUME IInv, TypeInv', NEW t \in Terminals,
           t = curr_terminal, pc[t] \in {"check", "scan", "magic"},
           Fail(t), cmd[t].by = "user"
    PROVE  IInv'
<1> USE DEF IInv
<1>1. /\ pc' = [pc EXCEPT ![t] = "user"]
      /\ slot' = [slot EXCEPT ![t] = 0]
      /\ cmd' = [cmd EXCEPT ![t] = [file |-> "exe", by |-> "user"]]
      /\ UNCHANGED << curr_terminal, current_process, in_use, parent_id,
                      return_esp, page, owner >>
    BY DEF pcbVars, statusVars, localVars, cpuVars, Fail, GoTo, DropLocals
<1>2. current_process[t] # None
    BY DEF ThreadInv, ThreadOK
<1>3. ASSUME NEW u \in Terminals, u # t PROVE ThreadOK(u)' /\ Settled(u)'
  <2>1. ThreadOK(u) /\ Settled(u)
    BY Ids, Shape, <1>1, <1>2, <1>3 DEF ThreadInv, ParkedInv
  <2>2. QED
    BY Ids, Shape, <1>1, <1>2, <1>3, <2>1, ThreadFrame
<1>4. ParkedInv'
    BY <1>1, <1>2, <1>3 DEF ParkedInv
<1>5. ThreadInv'
  <2>1. ThreadOK(t)
    BY DEF ThreadInv
  <2>2. ThreadOK(t)'
    BY Ids, Shape, <1>1, <1>2, <2>1 DEF ThreadOK, SeeksBase, Held, InExecute
  <2>3. QED
    BY <1>3, <2>2 DEF ThreadInv
<1>6. ASSUME NEW p \in Pids PROVE SlotOK(p)'
  <2>1. SlotOK(p)
    BY DEF SlotInv
  <2>2. Claimed(p) => Claimed(p)'
    BY Shape, <1>1, <1>2 DEF Claimed
  <2>3. QED
    BY Ids, Shape, <1>1, <1>2, <2>1, <2>2
       DEF SlotOK, Held, Reserved, SeeksBase
<1>7. ClaimsApart'
    BY Ids, Shape, <1>1, <1>2 DEF ClaimsApart
<1>8. CurrentOwned' /\ LinkInv' /\ ParentsApart'
    BY <1>1, LinkFrame
<1>9. ParkedThreadsKept'
    BY Ids, Shape, <1>1, <1>2 DEF ParkedThreadsKept
<1>10. QED
    BY <1>4, <1>5, <1>6, <1>7, <1>8, <1>9 DEF SlotInv

\* execute accepts the file name.
LEMMA SlotCheck ==
    ASSUME IInv, TypeInv', NEW t \in Terminals,
           ExecuteCheck(t), cmd[t].file # "missing"
    PROVE  IInv'
<1> USE DEF IInv
<1>1. /\ pc' = [pc EXCEPT ![t] = "scan"]
      /\ UNCHANGED << curr_terminal, current_process, in_use, parent_id,
                      return_esp, page, cmd, slot, owner >>
    BY DEF pcbVars, statusVars, localVars, cpuVars, ExecuteCheck, GoTo
<1>2. t = curr_terminal /\ pc[t] = "check"
    BY DEF At, ExecuteCheck
<1>3. ASSUME NEW u \in Terminals, u # t PROVE ThreadOK(u)' /\ Settled(u)'
  <2>1. ThreadOK(u) /\ Settled(u)
    BY Ids, Shape, <1>1, <1>2, <1>3 DEF ThreadInv, ParkedInv
  <2>2. QED
    BY Ids, Shape, <1>1, <1>2, <1>3, <2>1, ThreadFrame
<1>4. ParkedInv'
    BY <1>1, <1>2, <1>3 DEF ParkedInv
<1>5. ThreadInv'
  <2>1. ThreadOK(t)
    BY DEF ThreadInv
  <2>2. ThreadOK(t)'
    BY Ids, Shape, <1>1, <1>2, <2>1 DEF ThreadOK, SeeksBase, Held, InExecute
  <2>3. QED
    BY <1>3, <2>2 DEF ThreadInv
<1>6. ASSUME NEW p \in Pids PROVE SlotOK(p)'
  <2>1. SlotOK(p)
    BY DEF SlotInv
  <2>2. Claimed(p) => Claimed(p)'
    BY Shape, <1>1, <1>2 DEF Claimed
  <2>3. QED
    BY Zenon, Ids, Shape, <1>1, <1>2, <2>1, <2>2
       DEF SlotOK, Held, Reserved, SeeksBase
<1>7. ClaimsApart'
    BY Ids, Shape, <1>1, <1>2 DEF ClaimsApart
<1>8. CurrentOwned' /\ LinkInv' /\ ParentsApart'
    BY <1>1, LinkFrame
<1>9. ParkedThreadsKept'
    BY Ids, Shape, <1>1, <1>2 DEF ParkedThreadsKept
<1>10. QED
    BY <1>4, <1>5, <1>6, <1>7, <1>8, <1>9 DEF SlotInv

\* The loop finds a free slot.
LEMMA SlotScanHit ==
    ASSUME IInv, TypeInv', NEW t \in Terminals,
           ExecuteScan(t), slot[t] \in Pids, ~(slot[t] >= MAX_PROCESSES),
           in_use[slot[t]] = 0
    PROVE  IInv'
<1> USE DEF IInv
<1>1. /\ pc' = [pc EXCEPT ![t] = "claim"]
      /\ UNCHANGED << curr_terminal, current_process, in_use, parent_id,
                      return_esp, page, cmd, slot, owner >>
    BY Zenon DEF pcbVars, statusVars, localVars, cpuVars, ExecuteScan, GoTo
<1>2. t = curr_terminal /\ pc[t] = "scan"
    BY DEF At, ExecuteScan
<1>3. SlotOK(slot[t]) /\ ThreadOK(t)
    BY DEF SlotInv, ThreadInv
<1>4. cmd[t].by # "user" => slot[t] \in Terminals
    BY SMTT(30), <1>2, <1>3, SizesAssumption DEF ThreadOK, SeeksBase, Terminals, Pids
<1>5. cmd[t].by # "user" => slot[t] = t
    BY <1>2, <1>3, <1>4 DEF SlotOK
<1>6. cmd[t].by = "user" => slot[t] \notin Terminals /\ ~Held(slot[t])
    BY <1>2, <1>3 DEF SlotOK, SeeksBase
<1>7. ASSUME NEW u \in Terminals, u # t PROVE ThreadOK(u)' /\ Settled(u)'
  <2>1. ThreadOK(u) /\ Settled(u)
    BY Ids, Shape, <1>1, <1>2, <1>3, <1>4, <1>5, <1>6, <1>7
       DEF ThreadInv, ParkedInv
  <2>2. QED
    BY Ids, Shape, <1>1, <1>2, <1>3, <1>4, <1>5, <1>6, <1>7, <2>1, ThreadFrame
<1>8. ParkedInv'
    BY <1>1, <1>2, <1>7 DEF ParkedInv
<1>9. ThreadInv'
  <2>1. ThreadOK(t)
    BY Zenon DEF ThreadInv
  <2>2. ThreadOK(t)'
    BY Zenon, Ids, Shape, <1>1, <1>2, <1>3, <1>4, <1>5, <1>6, <2>1
       DEF ThreadOK, SeeksBase, Held, InExecute
  <2>3. QED
    BY <1>7, <2>2 DEF ThreadInv
<1>10. ASSUME NEW p \in Pids PROVE SlotOK(p)'
  <2>1. SlotOK(p)
    BY DEF SlotInv
  <2>2. Claimed(p) => Claimed(p)'
    BY Shape, <1>1, <1>2 DEF Claimed
  <2>3. QED
    BY Ids, Shape, <1>1, <1>2, <1>3, <1>4, <1>5, <1>6, <2>1, <2>2
       DEF SlotOK, Held, Reserved, SeeksBase
<1>11. ClaimsApart'
    BY Ids, Shape, <1>1, <1>2, <1>3, <1>4, <1>5, <1>6 DEF ClaimsApart
<1>12. CurrentOwned' /\ LinkInv' /\ ParentsApart'
    BY <1>1, LinkFrame
<1>13. ParkedThreadsKept'
    BY Ids, Shape, <1>1, <1>2, <1>3, <1>4, <1>5, <1>6 DEF ParkedThreadsKept
<1>14. QED
    BY <1>8, <1>9, <1>10, <1>11, <1>12, <1>13 DEF SlotInv

\* The loop goes on to the next slot.
LEMMA SlotScanMiss ==
    ASSUME IInv, TypeInv', NEW t \in Terminals,
           ExecuteScan(t), slot[t] \in Pids, ~(slot[t] >= MAX_PROCESSES),
           in_use[slot[t]] # 0
    PROVE  IInv'
<1> USE DEF IInv
<1>1. /\ slot' = [slot EXCEPT ![t] = @ + 1]
      /\ UNCHANGED << curr_terminal, current_process, in_use, parent_id,
                      return_esp, page, pc, cmd, owner >>
    BY Zenon DEF pcbVars, statusVars, localVars, cpuVars, ExecuteScan, GoTo
<1>2. t = curr_terminal /\ pc[t] = "scan"
    BY DEF At, ExecuteScan
<1>3. slot[t] # t => (slot[t] <= t => slot[t] + 1 <= t)
    BY Ids, SizesAssumption DEF Terminals, Pids
<1>4. ASSUME NEW u \in Terminals, u # t PROVE ThreadOK(u)' /\ Settled(u)'
  <2>1. ThreadOK(u) /\ Settled(u)
    BY Ids, Shape, <1>1, <1>2, <1>3, <1>4 DEF ThreadInv, ParkedInv
  <2>2. QED
    BY Ids, Shape, <1>1, <1>2, <1>3, <1>4, <2>1, ThreadFrame
<1>5. ParkedInv'
    BY <1>1, <1>2, <1>4 DEF ParkedInv
<1>6. ThreadInv'
  <2>1. ThreadOK(t)
    BY DEF ThreadInv
  <2>2. ThreadOK(t)'
    BY SMTT(30), Ids, Shape, <1>1, <1>2, <1>3, <2>1
       DEF ThreadOK, SeeksBase, Held, InExecute
  <2>3. QED
    BY <1>4, <2>2 DEF ThreadInv
<1>7. ASSUME NEW p \in Pids PROVE SlotOK(p)'
  <2>1. SlotOK(p)
    BY DEF SlotInv
  <2>2. Claimed(p) => Claimed(p)'
    BY Shape, <1>1, <1>2 DEF Claimed
  <2>3. QED
    BY Ids, Shape, <1>1, <1>2, <1>3, <2>1, <2>2
       DEF SlotOK, Held, Reserved, SeeksBase
<1>8. ClaimsApart'
    BY Ids, Shape, <1>1, <1>2, <1>3 DEF ClaimsApart
<1>9. CurrentOwned' /\ LinkInv' /\ ParentsApart'
    BY <1>1, LinkFrame
<1>10. ParkedThreadsKept'
    BY Ids, Shape, <1>1, <1>2, <1>3 DEF ParkedThreadsKept
<1>11. QED
    BY <1>5, <1>6, <1>7, <1>8, <1>9, <1>10 DEF SlotInv

\* The slot is marked.
LEMMA SlotClaim ==
    ASSUME IInv, TypeInv', NEW t \in Terminals,
           ExecuteClaim(t)
    PROVE  IInv'
<1> USE DEF IInv
<1>1. /\ in_use' = [in_use EXCEPT ![slot[t]] = 1]
      /\ pc' = [pc EXCEPT ![t] = "pcb"]
      /\ UNCHANGED << curr_terminal, current_process, parent_id,
                      return_esp, page, cmd, slot, owner >>
    BY DEF pcbVars, statusVars, localVars, cpuVars, ExecuteClaim, GoTo
<1>2. t = curr_terminal /\ pc[t] = "claim"
    BY Zenon DEF At, ExecuteClaim
<1>3. slot[t] \in Pids /\ in_use[slot[t]] = 0
    BY Zenon, Ids, Shape, <1>1, <1>2 DEF ThreadInv, ThreadOK, TypeInv, TypeAux
<1>4. ASSUME NEW u \in Terminals, u # t PROVE ThreadOK(u)' /\ Settled(u)'
  <2>1. ThreadOK(u) /\ Settled(u)
    BY Zenon, Ids, Shape, <1>1, <1>2, <1>3, <1>4 DEF ThreadInv, ParkedInv
  <2>2. pc[u] = "pcb" => /\ in_use'[slot[u]] = in_use[slot[u]]
                        /\ owner'[slot[u]] = owner[slot[u]]
    BY Ids, Shape, <1>1, <1>2, <1>3, <1>4, <2>1
       DEF ThreadOK, ClaimsApart, Held
  <2>3. QED
    BY Zenon, Ids, Shape, <1>1, <1>2, <1>3, <1>4, <2>1, <2>2, ThreadFrame
<1>5. ParkedInv'
    BY <1>1, <1>2, <1>4 DEF ParkedInv
<1>6. ThreadInv'
  <2>1. ThreadOK(t)
    BY Zenon DEF ThreadInv
  <2>2. ThreadOK(t)'
    BY Ids, Shape, <1>1, <1>2, <1>3, <2>1
       DEF ThreadOK, SeeksBase, Held, InExecute
  <2>3. QED
    BY <1>4, <2>2 DEF ThreadInv
<1>7. ASSUME NEW p \in Pids PROVE SlotOK(p)'
  <2>1. SlotOK(p) /\ ThreadOK(t)
    BY DEF SlotInv, ThreadInv
  <2>2. Claimed(p) => Claimed(p)'
    BY Ids, Shape, <1>1, <1>2, <1>3 DEF Claimed
  <2>3. Claimed(slot[t])'
    BY Ids, Shape, <1>1, <1>2, <1>3 DEF Claimed
  <2>4. p # slot[t] => in_use'[p] = in_use[p]
    BY Ids, Shape, <1>1, <1>2, <1>3
  <2>5. in_use'[slot[t]] = 1
    BY Zenon, Ids, Shape, <1>1, <1>2, <1>3
  <2>6. p # slot[t] => SlotOK(p)'
    <3>1. p # slot[t] /\ in_use[p] = 0 => ~Held(p) /\ p \notin Terminals
      <4>1. in_use[p] = 0 /\ (Held(p) \/ p \in Terminals) =>
                SeeksBase(t) /\ p \in {t, current_process[t]}
        BY Zenon, <1>2, <2>1 DEF SlotOK
      <4>2. SeeksBase(t) => slot[t] = t /\ current_process[t] \in {t, None}
        BY Zenon, <1>2, <2>1, Shape DEF ThreadOK, SeeksBase, InExecute
      <4>3. QED
        BY Zenon, <4>1, <4>2, Ids
    <3>2. (Held(p)' <=> Held(p)) /\ (Reserved(p)' <=> Reserved(p))
      BY Zenon, <1>1 DEF Held, Reserved
    <3>3. QED
      BY <1>1, <2>1, <2>2, <2>4, <3>1, <3>2 DEF SlotOK
  <2>7. p = slot[t] => SlotOK(p)'
    BY SMTT(30), Ids, Shape, <1>1, <1>2, <1>3, <2>1, <2>3, <2>5 DEF SlotOK, Held
  <2>8. QED
    BY <2>6, <2>7
<1>8. ClaimsApart'
  <2>1. ASSUME NEW u \in Terminals, pc[u] = "pcb" PROVE slot[u] # slot[t]
    <3>1. in_use[slot[u]] = 1
      BY Zenon, <2>1 DEF ThreadInv, ThreadOK
    <3>2. in_use[slot[u]] # in_use[slot[t]]
      BY <1>3, <3>1
    <3>3. QED
      BY Zenon, <3>2
  <2>2. QED
    BY SMTT(30), Ids, Shape, <1>1, <1>2, <1>3, <2>1 DEF ClaimsApart
<1>9. CurrentOwned' /\ LinkInv' /\ ParentsApart'
    BY <1>1, LinkFrame
<1>10. ParkedThreadsKept'
    BY Ids, Shape, <1>1, <1>2, <1>3 DEF ParkedThreadsKept
<1>11. QED
    BY <1>5, <1>6, <1>7, <1>8, <1>9, <1>10 DEF SlotInv

\* The pcb is filled.
LEMMA SlotPcb ==
    ASSUME IInv, TypeInv', NEW t \in Terminals,
           ExecutePcb(t)
    PROVE  IInv'
<1> USE DEF IInv
<1>1. /\ parent_id' = [parent_id EXCEPT ![slot[t]] = ParentOf(t, slot[t])]
      /\ current_process' = [current_process EXCEPT ![t] = slot[t]]
      /\ owner' = [owner EXCEPT ![slot[t]] = t]
      /\ pc' = [pc EXCEPT ![t] = "magic"]
      /\ UNCHANGED << curr_terminal, in_use, return_esp, page, cmd,
                      slot >>
    BY DEF pcbVars, statusVars, localVars, cpuVars, ExecutePcb, GoTo
<1>2. t = curr_terminal /\ pc[t] = "pcb"
    BY Zenon DEF At, ExecutePcb
<1>3. slot[t] \in Pids /\ in_use[slot[t]] = 1
    BY Ids, Shape, <1>1, <1>2 DEF ThreadInv, ThreadOK, TypeInv, TypeAux
<1>4. ThreadOK(t)
    BY Zenon DEF ThreadInv
<1>5. /\ slot[t] \in Terminals => ParentOf(t, slot[t]) = None
      /\ slot[t] \notin Terminals => ParentOf(t, slot[t]) = current_process[t]
    BY <1>3, Below DEF ParentOf
<1>6. \/ /\ slot[t] \notin Terminals /\ ~Held(slot[t]) /\ current_process[t] \in Pids
      \/ /\ slot[t] = t /\ current_process[t] \in {t, None}
    BY Zenon, Ids, Shape, <1>2, <1>3, <1>4 DEF ThreadOK, InExecute
<1>7. ASSUME NEW u \in Terminals, u # t PROVE ThreadOK(u)' /\ Settled(u)'
  <2>1. ThreadOK(u) /\ Settled(u)
    BY Zenon, Ids, Shape, <1>1, <1>2, <1>3, <1>4, <1>5, <1>6, <1>7
       DEF ThreadInv, ParkedInv
  <2>2. pc[u] = "pcb" => /\ in_use'[slot[u]] = in_use[slot[u]]
                        /\ owner'[slot[u]] = owner[slot[u]]
    <3>1. ASSUME pc[u] = "pcb" PROVE slot[u] # slot[t]
      BY Zenon, <1>2, <1>7, <3>1 DEF ClaimsApart
    <3>2. slot[u] # slot[t] => owner'[slot[u]] = owner[slot[u]]
      BY SMTT(30), Shape, <1>1, <1>3
    <3>3. QED
      BY Zenon, <1>1, <3>1, <3>2
  <2>3. QED
    BY Ids, Shape, <1>1, <1>2, <1>3, <1>4, <1>5, <1>6, <1>7, <2>1, <2>2,
       ThreadFrame
<1>8. ParkedInv'
    BY Zenon, <1>1, <1>2, <1>7 DEF ParkedInv
<1>9. ThreadInv'
  <2>1. ThreadOK(t)
    BY Zenon DEF ThreadInv
  <2>2. ThreadOK(t)'
    BY Ids, Shape, <1>1, <1>2, <1>3, <1>4, <1>5, <1>6, <2>1
       DEF ThreadOK, SeeksBase, Held, InExecute
  <2>3. QED
    BY Zenon, <1>7, <2>2 DEF ThreadInv
<1>10. ASSUME NEW p \in Pids PROVE SlotOK(p)'
  <2>1. SlotOK(p)
    BY DEF SlotInv
  <2>2. Claimed(p) => Claimed(p)' \/ p = slot[t]
    BY Zenon, Ids, Shape, <1>1, <1>2, <1>3, <1>4, <1>5, <1>6 DEF Claimed
  <2>3. p # slot[t] => (Held(p)' <=> Held(p)) /\ owner'[p] = owner[p]
    BY Ids, Shape, <1>1, <1>2, <1>3, <1>4, <1>5, <1>6 DEF Held
  <2>4. Held(slot[t])'
    BY Zenon, Ids, Shape, <1>1, <1>2, <1>3, <1>4, <1>5, <1>6 DEF Held
  <2>5. \A u \in Terminals : current_process[u] # None => current_process'[u] # None
    BY Ids, Shape, <1>1, <1>2, <1>3, <1>4, <1>5, <1>6
  <2>6. p = slot[t] => SlotOK(p)'
    BY Ids, Shape, <1>1, <1>2, <1>3, <2>4 DEF SlotOK, Held
  <2>7. p # slot[t] => SlotOK(p)'
    <3>1. in_use[p] = 0 => ~Held(p) /\ p \notin Terminals
      BY <1>2, <2>1 DEF SlotOK, SeeksBase
    <3>2. p # slot[t] /\ Reserved(p) => Reserved(p)'
      BY Ids, Shape, <1>1, <1>6 DEF Reserved
    <3>3. Held(p) => owner[p] \in Terminals
      BY Shape DEF Held
    <3>4. QED
      BY Zenon, <1>1, <2>1, <2>2, <2>3, <2>5, <3>1, <3>2, <3>3 DEF SlotOK
  <2>8. QED
    BY <2>6, <2>7
<1>11. ClaimsApart'
    BY Ids, Shape, <1>1, <1>2, <1>3, <1>4, <1>5, <1>6 DEF ClaimsApart
<1>12. CurrentOwned' /\ LinkInv' /\ ParentsApart'
  <2> DEFINE i == slot[t]
  <2>1. current_process[t] # None => owner[current_process[t]] = t
    BY DEF CurrentOwned
  <2>2. \A u \in Terminals : u # t /\ current_process[u] # None => current_process[u] # i
    <3>1. Held(t) => owner[t] = t
      BY Ids DEF LinkInv, LinkOK
    <3>2. QED
      BY <1>6, <3>1, Ids, Shape DEF CurrentOwned, Held
  <2>3. CurrentOwned'
    BY Zenon, Ids, Shape, <1>1, <1>2, <1>3, <1>4, <1>5, <1>6, <2>2 DEF CurrentOwned
  <2>4. ASSUME NEW p \in Pids, p # i, Held(p), p \notin Terminals
        PROVE  /\ parent_id[p] \in Pids \ {p, i}
               /\ owner[parent_id[p]] = owner[p]
               /\ parent_id[p] # current_process[owner[p]]
    <3>1. LinkOK(p) /\ SlotOK(p) /\ LinkOK(i)
      BY Zenon, <1>3 DEF LinkInv, SlotInv
    <3>2. /\ parent_id[p] \in Pids \ {p}
          /\ owner[parent_id[p]] = owner[p]
          /\ parent_id[p] # current_process[owner[p]]
          /\ current_process[owner[p]] # None
      BY <3>1, <2>4 DEF LinkOK, SlotOK
    <3>3. parent_id[p] # i
      BY Zenon, <1>6, <2>4, <3>1, <3>2, Ids DEF LinkOK, Held
    <3>4. QED
      BY <3>2, <3>3
  <2>5. ASSUME NEW p \in Pids, p # i PROVE LinkOK(p)'
    <3>1. LinkOK(p) /\ parent_id'[p] = parent_id[p] /\ owner'[p] = owner[p]
      BY <1>1, <2>5, Shape DEF LinkInv
    <3>2. ASSUME Held(p), p \notin Terminals
          PROVE  /\ owner'[parent_id[p]] = owner[parent_id[p]]
                 /\ parent_id[p] # current_process'[owner[p]]
      BY <1>1, <2>4, <2>5, <3>2, Shape
    <3>3. QED
      BY <2>4, <2>5, <3>1, <3>2 DEF LinkOK, Held
  <2>6. ASSUME NEW p \in Pids, p = i PROVE LinkOK(p)'
    <3>1. /\ parent_id'[i] = ParentOf(t, i) /\ owner'[i] = t /\ current_process'[t] = i
      BY Zenon, Ids, Shape, <1>1, <1>2, <1>3, <1>4, <1>5, <1>6
    <3>2. CASE i \in Terminals
      BY Zenon, <1>5, <1>6, <2>6, <3>1, <3>2 DEF LinkOK
    <3>3. CASE i \notin Terminals
      <4>1. current_process[t] \in Pids /\ ~Held(i) /\ owner[current_process[t]] = t
        BY SMTT(30), <1>6, <2>1, <3>3, Ids
      <4>2. current_process[t] # i /\ owner'[current_process[t]] = t
        BY <1>1, <4>1, Ids, Shape DEF Held
      <4>3. QED
        BY <1>5, <2>6, <3>1, <3>3, <4>1, <4>2 DEF LinkOK
    <3>4. QED
      BY <3>2, <3>3
  <2>7. ASSUME NEW p \in Pids, NEW q \in Pids PROVE Apart(p, q)'
    <3>1. \A r \in Pids : r # i => parent_id'[r] = parent_id[r] /\ (Held(r)' <=> Held(r))
      BY Zenon, Ids, Shape, <1>1, <1>2, <1>3, <1>4, <1>5, <1>6 DEF Held
    <3>2. parent_id'[i] = ParentOf(t, i)
      BY Ids, Shape, <1>1, <1>2, <1>3, <1>4, <1>5, <1>6
    <3>3. ASSUME NEW r \in Pids, r # i, Held(r), i \notin Terminals
          PROVE  parent_id[r] # current_process[t]
      <4>1. current_process[t] \in Pids /\ owner[current_process[t]] = t
        BY Zenon, <1>6, <2>1, <3>3, Ids
      <4>2. r \in Terminals => parent_id[r] = None
        BY <3>3 DEF LinkInv, LinkOK
      <4>3. QED
        BY <2>4, <3>3, <4>1, <4>2, Ids
    <3>4. CASE p # i /\ q # i
      BY Zenon, <3>1, <3>4 DEF ParentsApart, Apart
    <3>5. CASE p = i
      BY <1>5, <3>1, <3>2, <3>3, <3>5 DEF Apart
    <3>6. CASE q = i /\ p # i
      BY SMTT(30), <1>5, <2>4, <3>1, <3>2, <3>3, <3>6, Ids DEF Apart
    <3>7. QED
      BY Zenon, <3>4, <3>5, <3>6
  <2>8. QED
    BY Zenon, <2>3, <2>5, <2>6, <2>7 DEF LinkInv, ParentsApart
<1>13. ParkedThreadsKept'
    BY Ids, Shape, <1>1, <1>2, <1>3, <1>4, <1>5, <1>6 DEF ParkedThreadsKept
<1>14. QED
    BY Zenon, <1>8, <1>9, <1>10, <1>11, <1>12, <1>13 DEF SlotInv

\* The program page is mapped.
LEMMA SlotMagic ==
    ASSUME IInv, TypeInv', NEW t \in Terminals,
           ExecuteMagic(t), cmd[t].file # "text"
    PROVE  IInv'
<1> USE DEF IInv
<1>1. /\ page' = slot[t]
      /\ pc' = [pc EXCEPT ![t] = "load"]
      /\ UNCHANGED << curr_terminal, current_process, in_use, parent_id,
                      return_esp, cmd, slot, owner >>
    BY Zenon DEF pcbVars, statusVars, localVars, cpuVars, ExecuteMagic, GoTo
<1>2. t = curr_terminal /\ pc[t] = "magic"
    BY Zenon DEF At, ExecuteMagic
<1>3. ASSUME NEW u \in Terminals, u # t PROVE ThreadOK(u)' /\ Settled(u)'
  <2>1. ThreadOK(u) /\ Settled(u)
    BY Zenon, Ids, Shape, <1>1, <1>2, <1>3 DEF ThreadInv, ParkedInv
  <2>2. QED
    BY Ids, Shape, <1>1, <1>2, <1>3, <2>1, ThreadFrame
<1>4. ParkedInv'
    BY Zenon, <1>1, <1>2, <1>3 DEF ParkedInv
<1>5. ThreadInv'
  <2>1. ThreadOK(t)
    BY Zenon DEF ThreadInv
  <2>2. ThreadOK(t)'
    BY Zenon, Ids, Shape, <1>1, <1>2, <2>1 DEF ThreadOK, SeeksBase, Held, InExecute
  <2>3. QED
    BY Zenon, <1>3, <2>2 DEF ThreadInv
<1>6. ASSUME NEW p \in Pids PROVE SlotOK(p)'
  <2>1. SlotOK(p)
    BY DEF SlotInv
  <2>2. Claimed(p) => Claimed(p)'
    BY Shape, <1>1, <1>2 DEF Claimed
  <2>3. QED
    BY Ids, Shape, <1>1, <1>2, <2>1, <2>2
       DEF SlotOK, Held, Reserved, SeeksBase
<1>7. ClaimsApart'
    BY Ids, Shape, <1>1, <1>2 DEF ClaimsApart
<1>8. CurrentOwned' /\ LinkInv' /\ ParentsApart'
    BY <1>1, LinkFrame
<1>9. ParkedThreadsKept'
    BY Ids, Shape, <1>1, <1>2 DEF ParkedThreadsKept
<1>10. QED
    BY Zenon, <1>4, <1>5, <1>6, <1>7, <1>8, <1>9 DEF SlotInv

\* The program is loaded.
LEMMA SlotLoad ==
    ASSUME IInv, TypeInv', NEW t \in Terminals,
           ExecuteLoad(t)
    PROVE  IInv'
<1> USE DEF IInv
<1>1. /\ pc' = [pc EXCEPT ![t] = "enter"]
      /\ UNCHANGED << curr_terminal, current_process, in_use, parent_id,
                      return_esp, page, cmd, slot, owner >>
    BY DEF pcbVars, statusVars, localVars, cpuVars, ExecuteLoad, GoTo
<1>2. t = curr_terminal /\ pc[t] = "load"
    BY DEF At, ExecuteLoad
<1>3. ASSUME NEW u \in Terminals, u # t PROVE ThreadOK(u)' /\ Settled(u)'
  <2>1. ThreadOK(u) /\ Settled(u)
    BY Ids, Shape, <1>1, <1>2, <1>3 DEF ThreadInv, ParkedInv
  <2>2. QED
    BY Ids, Shape, <1>1, <1>2, <1>3, <2>1, ThreadFrame
<1>4. ParkedInv'
    BY Zenon, <1>1, <1>2, <1>3 DEF ParkedInv
<1>5. ThreadInv'
  <2>1. ThreadOK(t)
    BY Zenon DEF ThreadInv
  <2>2. ThreadOK(t)'
    BY Zenon, Ids, Shape, <1>1, <1>2, <2>1 DEF ThreadOK, SeeksBase, Held, InExecute
  <2>3. QED
    BY Zenon, <1>3, <2>2 DEF ThreadInv
<1>6. ASSUME NEW p \in Pids PROVE SlotOK(p)'
  <2>1. SlotOK(p)
    BY Zenon DEF SlotInv
  <2>2. Claimed(p) => Claimed(p)'
    BY Shape, <1>1, <1>2 DEF Claimed
  <2>3. QED
    BY Ids, Shape, <1>1, <1>2, <2>1, <2>2
       DEF SlotOK, Held, Reserved, SeeksBase
<1>7. ClaimsApart'
    BY Ids, Shape, <1>1, <1>2 DEF ClaimsApart
<1>8. CurrentOwned' /\ LinkInv' /\ ParentsApart'
    BY <1>1, LinkFrame
<1>9. ParkedThreadsKept'
    BY Ids, Shape, <1>1, <1>2 DEF ParkedThreadsKept
<1>10. QED
    BY Zenon, <1>4, <1>5, <1>6, <1>7, <1>8, <1>9 DEF SlotInv

\* The program is entered.
LEMMA SlotEnter ==
    ASSUME IInv, TypeInv', NEW t \in Terminals,
           ExecuteEnter(t)
    PROVE  IInv'
<1> USE DEF IInv
<1>1. /\ pc' = [pc EXCEPT ![t] = "user"]
      /\ slot' = [slot EXCEPT ![t] = 0]
      /\ cmd' = [cmd EXCEPT ![t] = [file |-> "exe", by |-> "user"]]
      /\ UNCHANGED << curr_terminal, current_process, in_use, parent_id,
                      return_esp, page, owner >>
    BY DEF pcbVars, statusVars, localVars, cpuVars, ExecuteEnter,
       user_context_switch, DropLocals, GoTo
<1>2. t = curr_terminal /\ pc[t] = "enter"
    BY Zenon DEF At, ExecuteEnter
<1>3. ASSUME NEW u \in Terminals, u # t PROVE ThreadOK(u)' /\ Settled(u)'
  <2>1. ThreadOK(u) /\ Settled(u)
    BY Ids, Shape, <1>1, <1>2, <1>3 DEF ThreadInv, ParkedInv
  <2>2. QED
    BY Zenon, Ids, Shape, <1>1, <1>2, <1>3, <2>1, ThreadFrame
<1>4. ParkedInv'
    BY Zenon, <1>1, <1>2, <1>3 DEF ParkedInv
<1>5. ThreadInv'
  <2>1. ThreadOK(t)
    BY Zenon DEF ThreadInv
  <2>2. ThreadOK(t)'
    BY Zenon, Ids, Shape, <1>1, <1>2, <2>1 DEF ThreadOK, SeeksBase, Held, InExecute
  <2>3. QED
    BY Zenon, <1>3, <2>2 DEF ThreadInv
<1>6. ASSUME NEW p \in Pids PROVE SlotOK(p)'
  <2>1. SlotOK(p)
    BY Zenon DEF SlotInv
  <2>2. Claimed(p) => Claimed(p)'
    BY Zenon, Shape, <1>1, <1>2 DEF Claimed
  <2>3. QED
    BY Zenon, Ids, Shape, <1>1, <1>2, <2>1, <2>2
       DEF SlotOK, Held, Reserved, SeeksBase
<1>7. ClaimsApart'
    BY Ids, Shape, <1>1, <1>2 DEF ClaimsApart
<1>8. CurrentOwned' /\ LinkInv' /\ ParentsApart'
    BY Zenon, <1>1, LinkFrame
<1>9. ParkedThreadsKept'
    BY Ids, Shape, <1>1, <1>2 DEF ParkedThreadsKept
<1>10. QED
    BY Zenon, <1>4, <1>5, <1>6, <1>7, <1>8, <1>9 DEF SlotInv

-----------------------------------------------------------------------------
\* A base shell is to be replaced.
LEMMA SlotHaltBase ==
    ASSUME IInv, TypeInv', NEW t \in Terminals,
           NEW s, NEW x, NEW f, halt(t, s, x, f), current_process[t] < MAX_TERMINAL
    PROVE  IInv'
<1> USE DEF IInv
<1>1. /\ in_use' = [in_use EXCEPT ![current_process[t]] = 0]
      /\ pc' = [pc EXCEPT ![t] = "check"]
      /\ slot' = [slot EXCEPT ![t] = 0]
      /\ cmd' = [cmd EXCEPT ![t] = [file |-> "exe", by |-> "halt"]]
      /\ UNCHANGED << curr_terminal, current_process, parent_id,
                      return_esp, page, owner >>
    BY Zenon DEF pcbVars, statusVars, localVars, cpuVars, halt, Call, GoTo
<1>2. t = curr_terminal /\ pc[t] = "user"
    BY Zenon DEF At, halt
<1>3. current_process[t] \in Pids
    BY Zenon, Ids, Shape, <1>1, <1>2 DEF TypeInv, TypeAux
<1>4. current_process[t] \in Terminals
    BY <1>3, Below
<1>5. current_process[t] = t
    BY Zenon, Ids, <1>3, <1>4 DEF CurrentOwned, LinkInv, LinkOK, Held
<1>6. ASSUME NEW u \in Terminals, u # t PROVE ThreadOK(u)' /\ Settled(u)'
  <2>1. ThreadOK(u) /\ Settled(u)
    BY Zenon, Ids, Shape, <1>1, <1>2, <1>3, <1>4, <1>5, <1>6 DEF ThreadInv, ParkedInv
  <2>2. pc[u] = "pcb" => /\ in_use'[slot[u]] = in_use[slot[u]]
                        /\ owner'[slot[u]] = owner[slot[u]]
    BY SMTT(30), Ids, Shape, <1>1, <1>2, <1>3, <1>4, <1>5, <1>6, <2>1
       DEF ThreadOK, ClaimsApart, Held
  <2>3. QED
    BY Zenon, Ids, Shape, <1>1, <1>2, <1>3, <1>4, <1>5, <1>6, <2>1, <2>2, ThreadFrame
<1>7. ParkedInv'
    BY <1>1, <1>2, <1>6 DEF ParkedInv
<1>8. ThreadInv'
  <2>1. ThreadOK(t)
    BY Zenon DEF ThreadInv
  <2>2. ThreadOK(t)'
    BY Zenon, Ids, Shape, <1>1, <1>2, <1>3, <1>4, <1>5, <2>1
       DEF ThreadOK, SeeksBase, Held, InExecute
  <2>3. QED
    BY <1>6, <2>2 DEF ThreadInv
<1>9. ASSUME NEW p \in Pids PROVE SlotOK(p)'
  <2>1. SlotOK(p)
    BY Zenon DEF SlotInv
  <2>2. Claimed(p) => Claimed(p)'
    BY Zenon, Shape, <1>1, <1>2 DEF Claimed
  <2>3. QED
    BY Ids, Shape, <1>1, <1>2, <1>3, <1>4, <1>5, <2>1, <2>2
       DEF SlotOK, Held, Reserved, SeeksBase
<1>10. ClaimsApart'
    BY Ids, Shape, <1>1, <1>2, <1>3, <1>4, <1>5 DEF ClaimsApart
<1>11. CurrentOwned' /\ LinkInv' /\ ParentsApart'
    BY Zenon, <1>1, LinkFrame
<1>12. ParkedThreadsKept'
    BY Ids, Shape, <1>1, <1>2, <1>3, <1>4, <1>5 DEF ParkedThreadsKept
<1>13. QED
    BY Zenon, <1>7, <1>8, <1>9, <1>10, <1>11, <1>12 DEF SlotInv

\* A child process is to be left.
LEMMA SlotHaltChild ==
    ASSUME IInv, TypeInv', NEW t \in Terminals,
           NEW s, NEW x, NEW f, halt(t, s, x, f), ~(current_process[t] < MAX_TERMINAL)
    PROVE  IInv'
<1> USE DEF IInv
<1>1. /\ pc' = [pc EXCEPT ![t] = "free"]
      /\ UNCHANGED << curr_terminal, current_process, in_use, parent_id,
                      return_esp, page, cmd, slot, owner >>
    BY DEF pcbVars, statusVars, localVars, cpuVars, halt, GoTo
<1>2. t = curr_terminal /\ pc[t] = "user"
    BY Zenon DEF At, halt
<1>3. current_process[t] \in Pids
    BY Zenon, Ids, Shape, <1>1, <1>2 DEF TypeInv, TypeAux
<1>4. current_process[t] \notin Terminals
    BY Zenon, <1>3, Below
<1>5. ASSUME NEW u \in Terminals, u # t PROVE ThreadOK(u)' /\ Settled(u)'
  <2>1. ThreadOK(u) /\ Settled(u)
    BY Ids, Shape, <1>1, <1>2, <1>3, <1>4, <1>5 DEF ThreadInv, ParkedInv
  <2>2. QED
    BY Zenon, Ids, Shape, <1>1, <1>2, <1>3, <1>4, <1>5, <2>1, ThreadFrame
<1>6. ParkedInv'
    BY <1>1, <1>2, <1>5 DEF ParkedInv
<1>7. ThreadInv'
  <2>1. ThreadOK(t)
    BY Zenon DEF ThreadInv
  <2>2. ThreadOK(t)'
    BY Zenon, Ids, Shape, <1>1, <1>2, <1>3, <1>4, <2>1
       DEF ThreadOK, SeeksBase, Held, InExecute
  <2>3. QED
    BY <1>5, <2>2 DEF ThreadInv
<1>8. ASSUME NEW p \in Pids PROVE SlotOK(p)'
  <2>1. SlotOK(p)
    BY DEF SlotInv
  <2>2. Claimed(p) => Claimed(p)'
    BY Zenon, Shape, <1>1, <1>2 DEF Claimed
  <2>3. QED
    BY Ids, Shape, <1>1, <1>2, <1>3, <1>4, <2>1, <2>2
       DEF SlotOK, Held, Reserved, SeeksBase
<1>9. ClaimsApart'
    BY Ids, Shape, <1>1, <1>2, <1>3, <1>4 DEF ClaimsApart
<1>10. CurrentOwned' /\ LinkInv' /\ ParentsApart'
    BY <1>1, LinkFrame
<1>11. ParkedThreadsKept'
    BY Ids, Shape, <1>1, <1>2, <1>3, <1>4 DEF ParkedThreadsKept
<1>12. QED
    BY <1>6, <1>7, <1>8, <1>9, <1>10, <1>11 DEF SlotInv

\* halt releases the slot.
LEMMA SlotFree ==
    ASSUME IInv, TypeInv', NEW t \in Terminals,
           HaltFree(t), current_esp[current_process[t]] # NoFrame
    PROVE  IInv'
<1> USE DEF IInv
<1>1. /\ in_use' = [in_use EXCEPT ![current_process[t]] = 0]
      /\ pc' = [pc EXCEPT ![t] = "unlink"]
      /\ UNCHANGED << curr_terminal, current_process, parent_id,
                      return_esp, page, cmd, slot, owner >>
    BY Zenon DEF pcbVars, statusVars, localVars, cpuVars, HaltFree, GoTo
<1>2. t = curr_terminal /\ pc[t] = "free"
    BY DEF At, HaltFree
<1>3. current_process[t] \in Pids /\ current_process[t] \notin Terminals
    BY Zenon, Ids, Shape, <1>1, <1>2 DEF TypeInv, TypeAux, ThreadInv, ThreadOK
<1>4. owner[current_process[t]] = t
    BY Zenon, Ids, Shape, <1>1, <1>2, <1>3 DEF CurrentOwned
<1>5. ASSUME NEW u \in Terminals, u # t PROVE ThreadOK(u)' /\ Settled(u)'
  <2>1. ThreadOK(u) /\ Settled(u)
    BY Zenon, Ids, Shape, <1>1, <1>2, <1>3, <1>4, <1>5 DEF ThreadInv, ParkedInv
  <2>2. pc[u] = "pcb" => /\ in_use'[slot[u]] = in_use[slot[u]]
                        /\ owner'[slot[u]] = owner[slot[u]]
    BY Ids, Shape, <1>1, <1>2, <1>3, <1>4, <1>5, <2>1
       DEF ThreadOK, ClaimsApart, Held
  <2>3. QED
    BY Zenon, Ids, Shape, <1>1, <1>2, <1>3, <1>4, <1>5, <2>1, <2>2, ThreadFrame
<1>6. ParkedInv'
    BY Zenon, <1>1, <1>2, <1>5 DEF ParkedInv
<1>7. ThreadInv'
  <2>1. ThreadOK(t)
    BY Zenon DEF ThreadInv
  <2>2. ThreadOK(t)'
    BY Zenon, Ids, Shape, <1>1, <1>2, <1>3, <1>4, <2>1
       DEF ThreadOK, SeeksBase, Held, InExecute
  <2>3. QED
    BY Zenon, <1>5, <2>2 DEF ThreadInv
<1>8. ASSUME NEW p \in Pids PROVE SlotOK(p)'
  <2>1. SlotOK(p)
    BY Zenon DEF SlotInv
  <2>2. Claimed(p) => Claimed(p)'
    BY Zenon, Shape, <1>1, <1>2 DEF Claimed
  <2>3. QED
    BY Ids, Shape, <1>1, <1>2, <1>3, <1>4, <2>1, <2>2
       DEF SlotOK, Held, Reserved, SeeksBase
<1>9. ClaimsApart'
    BY Zenon, Ids, Shape, <1>1, <1>2, <1>3, <1>4 DEF ClaimsApart
<1>10. CurrentOwned' /\ LinkInv' /\ ParentsApart'
    BY Zenon, <1>1, LinkFrame
<1>11. ParkedThreadsKept'
    BY Ids, Shape, <1>1, <1>2, <1>3, <1>4 DEF ParkedThreadsKept
<1>12. QED
    BY Zenon, <1>6, <1>7, <1>8, <1>9, <1>10, <1>11 DEF SlotInv

\* halt makes the parent current.
LEMMA SlotUnlink ==
    ASSUME IInv, TypeInv', NEW t \in Terminals,
           HaltUnlink(t)
    PROVE  IInv'
<1> USE DEF IInv
<1>1. /\ current_process' = [current_process EXCEPT ![t] = parent_id[current_process[t]]]
      /\ owner' = [owner EXCEPT ![current_process[t]] = None]
      /\ pc' = [pc EXCEPT ![t] = "resume"]
      /\ UNCHANGED << curr_terminal, in_use, parent_id, return_esp, page,
                      cmd, slot >>
    BY Zenon DEF pcbVars, statusVars, localVars, cpuVars, HaltUnlink, GoTo
<1>2. t = curr_terminal /\ pc[t] = "unlink"
    BY Zenon DEF At, HaltUnlink
<1>3. current_process[t] \in Pids /\ current_process[t] \notin Terminals
    BY Zenon, Ids, Shape, <1>1, <1>2 DEF TypeInv, TypeAux, ThreadInv, ThreadOK
<1>4. owner[current_process[t]] = t
    BY Ids, <1>3 DEF CurrentOwned
<1>5. /\ parent_id[current_process[t]] \in Pids \ {current_process[t]}
      /\ owner[parent_id[current_process[t]]] = t
    BY Zenon, <1>3, <1>4, Ids DEF LinkInv, LinkOK, Held
<1>6. in_use[current_process[t]] = 0
    BY Zenon, <1>2 DEF ThreadInv, ThreadOK
<1>7. ASSUME NEW u \in Terminals, u # t PROVE ThreadOK(u)' /\ Settled(u)'
  <2>1. ThreadOK(u) /\ Settled(u)
    BY Zenon, Ids, Shape, <1>1, <1>2, <1>3, <1>4, <1>5, <1>6, <1>7
       DEF ThreadInv, ParkedInv
  <2>2. pc[u] = "pcb" => /\ in_use'[slot[u]] = in_use[slot[u]]
                        /\ owner'[slot[u]] = owner[slot[u]]
    BY Ids, Shape, <1>1, <1>2, <1>3, <1>4, <1>5, <1>6, <1>7, <2>1
       DEF ThreadOK, ClaimsApart, Held
  <2>3. QED
    BY Zenon, Ids, Shape, <1>1, <1>2, <1>3, <1>4, <1>5, <1>6, <1>7, <2>1, <2>2,
       ThreadFrame
<1>8. ParkedInv'
    BY Zenon, <1>1, <1>2, <1>7 DEF ParkedInv
<1>9. ThreadInv'
  <2>1. ThreadOK(t)
    BY Zenon DEF ThreadInv
  <2>2. ThreadOK(t)'
    BY Ids, Shape, <1>1, <1>2, <1>3, <1>4, <1>5, <1>6, <2>1
       DEF ThreadOK, SeeksBase, Held, InExecute
  <2>3. QED
    BY Zenon, <1>7, <2>2 DEF ThreadInv
<1>10. ASSUME NEW p \in Pids PROVE SlotOK(p)'
  <2>1. SlotOK(p)
    BY Zenon DEF SlotInv
  <2>2. Claimed(p) => Claimed(p)'
    BY Zenon, Ids, Shape, <1>1, <1>2, <1>3, <1>4, <1>5, <1>6 DEF Claimed
  <2>3. p # current_process[t] => owner'[p] = owner[p]
    BY Zenon, Ids, Shape, <1>1, <1>2, <1>3, <1>4, <1>5, <1>6
  <2>4. owner'[current_process[t]] = None
    BY Zenon, <1>1, <1>3, Shape
  <2>5. \A u \in Terminals : current_process[u] = None <=> current_process'[u] = None
    BY Ids, Shape, <1>1, <1>2, <1>3, <1>4, <1>5, <1>6
  <2>6. ASSUME p = current_process[t] PROVE SlotOK(p)'
    <3>1. in_use'[p] = 0 /\ p \notin Terminals
      BY Zenon, <1>1, <1>3, <1>6, <2>6
    <3>2. in_use'[p] # 1
      BY <3>1
    <3>3. ~Held(p)'
      BY Zenon, <2>4, <2>6 DEF Held
    <3>4. QED
      BY Zenon, <3>1, <3>2, <3>3 DEF SlotOK
  <2>7. p # current_process[t] => SlotOK(p)'
    BY Zenon, Ids, Shape, <1>1, <1>2, <2>1, <2>2, <2>3, <2>5
       DEF SlotOK, Held, Reserved, SeeksBase
  <2>8. QED
    BY Zenon, <2>6, <2>7
<1>11. ClaimsApart'
    BY Ids, Shape, <1>1, <1>2, <1>3, <1>4, <1>5, <1>6 DEF ClaimsApart
<1>12. CurrentOwned' /\ LinkInv' /\ ParentsApart'
  <2> DEFINE c == current_process[t]
  <2>1. \A u \in Terminals : u # t => current_process[u] # c
    BY Zenon, <1>3, <1>4, Ids, CurrentApart
  <2>2. CurrentOwned'
    BY Ids, Shape, <1>1, <1>2, <1>3, <1>4, <1>5, <1>6, <2>1 DEF CurrentOwned
  <2>3. ASSUME NEW p \in Pids PROVE LinkOK(p)'
    <3>1. LinkOK(p) /\ Apart(p, c) /\ Held(c)
      BY Zenon, <1>3, <1>4, Ids DEF LinkInv, ParentsApart, Held
    <3>2. /\ p # c => owner'[p] = owner[p]
          /\ owner'[c] = None
      BY <1>1, <1>3, Shape
    <3>3. ASSUME Held(p), p # c, p \notin Terminals
          PROVE  /\ parent_id[p] # current_process'[owner[p]]
                 /\ owner'[parent_id[p]] = owner[p]
      <4>1. /\ parent_id[p] \in Pids /\ parent_id[p] # current_process[owner[p]]
            /\ owner[parent_id[p]] = owner[p]
            /\ parent_id[p] # parent_id[c]
        BY Zenon, <3>1, <3>3 DEF LinkOK, Apart
      <4>2. parent_id[p] # c
        BY Zenon, <1>4, <4>1
      <4>3. owner'[parent_id[p]] = owner[p]
        BY <1>1, <4>1, <4>2, Shape
      <4>4. owner[p] \in Terminals
        BY Zenon, <3>3, Shape DEF Held
      <4>5. parent_id[p] # current_process'[owner[p]]
        BY <1>1, <4>1, <4>4, Shape
      <4>6. QED
        BY Zenon, <4>3, <4>5
    <3>4. QED
      BY Zenon, <1>1, <3>1, <3>2, <3>3 DEF LinkOK, Held
  <2>4. ASSUME NEW p \in Pids, NEW q \in Pids PROVE Apart(p, q)'
    <3>1. Apart(p, q)
      BY Zenon DEF ParentsApart
    <3>2. (Held(p)' => Held(p)) /\ (Held(q)' => Held(q))
      BY Zenon, <1>1, <1>3, Shape DEF Held
    <3>3. QED
      BY Zenon, <1>1, <3>1, <3>2 DEF Apart
  <2>5. QED
    BY <2>2, <2>3, <2>4 DEF LinkInv, ParentsApart
<1>13. ParkedThreadsKept'
    BY Ids, Shape, <1>1, <1>2, <1>3, <1>4, <1>5, <1>6 DEF ParkedThreadsKept
<1>14. QED
    BY Zenon, <1>8, <1>9, <1>10, <1>11, <1>12, <1>13 DEF SlotInv

\* halt returns to the parent.
LEMMA SlotResume ==
    ASSUME IInv, TypeInv', NEW t \in Terminals,
           HaltResume(t), current_process[t] # None,
           current_esp[current_process[t]] # NoFrame
    PROVE  IInv'
<1> USE DEF IInv
<1>1. /\ page' = current_process[t]
      /\ pc' = [pc EXCEPT ![t] = "user"]
      /\ UNCHANGED << curr_terminal, current_process, in_use, parent_id,
                      return_esp, cmd, slot, owner >>
    BY Zenon DEF pcbVars, statusVars, localVars, cpuVars, HaltResume, GoTo
<1>2. t = curr_terminal /\ pc[t] = "resume"
    BY Zenon DEF At, HaltResume
<1>3. ASSUME NEW u \in Terminals, u # t PROVE ThreadOK(u)' /\ Settled(u)'
  <2>1. ThreadOK(u) /\ Settled(u)
    BY Ids, Shape, <1>1, <1>2, <1>3 DEF ThreadInv, ParkedInv
  <2>2. QED
    BY Zenon, Ids, Shape, <1>1, <1>2, <1>3, <2>1, ThreadFrame
<1>4. ParkedInv'
    BY Zenon, <1>1, <1>2, <1>3 DEF ParkedInv
<1>5. ThreadInv'
  <2>1. ThreadOK(t)
    BY Zenon DEF ThreadInv
  <2>2. ThreadOK(t)'
    BY Zenon, Ids, Shape, <1>1, <1>2, <2>1 DEF ThreadOK, SeeksBase, Held, InExecute
  <2>3. QED
    BY Zenon, <1>3, <2>2 DEF ThreadInv
<1>6. ASSUME NEW p \in Pids PROVE SlotOK(p)'
  <2>1. SlotOK(p)
    BY Zenon DEF SlotInv
  <2>2. Claimed(p) => Claimed(p)'
    BY Zenon, Shape, <1>1, <1>2 DEF Claimed
  <2>3. QED
    BY Zenon, Ids, Shape, <1>1, <1>2, <2>1, <2>2
       DEF SlotOK, Held, Reserved, SeeksBase
<1>7. ClaimsApart'
    BY Ids, Shape, <1>1, <1>2 DEF ClaimsApart
<1>8. CurrentOwned' /\ LinkInv' /\ ParentsApart'
    BY Zenon, <1>1, LinkFrame
<1>9. ParkedThreadsKept'
    BY Ids, Shape, <1>1, <1>2 DEF ParkedThreadsKept
<1>10. QED
    BY Zenon, <1>4, <1>5, <1>6, <1>7, <1>8, <1>9 DEF SlotInv

\* A user program calls execute.
LEMMA SlotExecute ==
    ASSUME IInv, TypeInv', NEW t \in Terminals,
           NEW f \in Programs, SysExecute(t, f)
    PROVE  IInv'
<1> USE DEF IInv
<1>1. /\ pc' = [pc EXCEPT ![t] = "check"]
      /\ slot' = [slot EXCEPT ![t] = 0]
      /\ cmd' = [cmd EXCEPT ![t] = [file |-> f, by |-> "user"]]
      /\ UNCHANGED << curr_terminal, current_process, in_use, parent_id,
                      return_esp, page, owner >>
    BY DEF pcbVars, statusVars, localVars, cpuVars, SysExecute, Call, GoTo
<1>2. t = curr_terminal /\ pc[t] = "user"
    BY DEF At, SysExecute
<1>3. current_process[t] # None
    BY Zenon, Ids, Shape, <1>1, <1>2 DEF ThreadInv, ThreadOK
<1>4. ASSUME NEW u \in Terminals, u # t PROVE ThreadOK(u)' /\ Settled(u)'
  <2>1. ThreadOK(u) /\ Settled(u)
    BY Zenon, Ids, Shape, <1>1, <1>2, <1>3, <1>4 DEF ThreadInv, ParkedInv
  <2>2. QED
    BY Zenon, Ids, Shape, <1>1, <1>2, <1>3, <1>4, <2>1, ThreadFrame
<1>5. ParkedInv'
    BY <1>1, <1>2, <1>4 DEF ParkedInv
<1>6. ThreadInv'
  <2>1. ThreadOK(t)
    BY DEF ThreadInv
  <2>2. ThreadOK(t)'
    BY Zenon, Ids, Shape, <1>1, <1>2, <1>3, <2>1
       DEF ThreadOK, SeeksBase, Held, InExecute
  <2>3. QED
    BY <1>4, <2>2 DEF ThreadInv
<1>7. ASSUME NEW p \in Pids PROVE SlotOK(p)'
  <2>1. SlotOK(p)
    BY DEF SlotInv
  <2>2. Claimed(p) => Claimed(p)'
    BY Zenon, Shape, <1>1, <1>2 DEF Claimed
  <2>3. QED
    BY Zenon, Ids, Shape, <1>1, <1>2, <1>3, <2>1, <2>2
       DEF SlotOK, Held, Reserved, SeeksBase
<1>8. ClaimsApart'
    BY Zenon, Ids, Shape, <1>1, <1>2, <1>3 DEF ClaimsApart
<1>9. CurrentOwned' /\ LinkInv' /\ ParentsApart'
    BY Zenon, <1>1, LinkFrame
<1>10. ParkedThreadsKept'
    BY Zenon, Ids, Shape, <1>1, <1>2, <1>3 DEF ParkedThreadsKept
<1>11. QED
    BY Zenon, <1>5, <1>6, <1>7, <1>8, <1>9, <1>10 DEF SlotInv

=============================================================================
