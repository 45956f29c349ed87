-------------------------- MODULE PreforkPoolProofs --------------------------
(***************************************************************************)
(* Type correctness and the four safety invariants of PreforkPool, for any *)
(* number of workers, pids, mishaps and failing forks.                     *)
(*                                                                         *)
(* None of the invariants is inductive alone.  PoolInv relates workers[]   *)
(* to the kernel's table at every point of main(): while the loop runs a   *)
(* pid in a slot is an unreaped child, except that between wait() and the  *)
(* refill the slot of the dead worker holds a pid that is nobody's.        *)
(***************************************************************************)
EXTENDS PreforkPool, FiniteSetTheorems, TLAPS

Told(p) == stopping[p] \/ p \in pending

DistinctPids ==
    \A i, j \in Slots : workers[i] \in Pids /\ workers[i] = workers[j] => i = j

ChildrenHaveSlots ==
    \A p \in Pids : Own(p) => \E i \in Slots : workers[i] = p

SlotsHoldChildren ==
    ppc \in {"setup", "spawn", "check", "toWait", "waiting", "kill"} =>
        \A i \in Slots : workers[i] \in Pids => Own(workers[i])

OnlyGoneIsStale ==
    ppc = "sleep" =>
        /\ gone \in Pids
        /\ ~Own(gone)
        /\ \A i \in Slots : workers[i] \in Pids /\ workers[i] # gone => Own(workers[i])

EmptyBeforeFork ==
    /\ ppc \in {"setup", "down"} => \A i \in Slots : workers[i] = NONE
    /\ ppc = "setup" => slot = 1
    /\ ppc = "spawn" => \A i \in slot .. WORKER_COUNT : workers[i] = NONE

ToldSoFar ==
    /\ ppc = "kill" => \A i \in 1 .. slot - 1 :
                          workers[i] \in Pids /\ Live(workers[i]) => Told(workers[i])
    /\ ppc = "reap" => \A p \in Pids : Live(p) => Told(p)

NoneLeft == Over => NoChildren

PoolInv ==
    /\ DistinctPids
    /\ ChildrenHaveSlots
    /\ SlotsHoldChildren
    /\ OnlyGoneIsStale
    /\ EmptyBeforeFork
    /\ ToldSoFar
    /\ NoneLeft

-----------------------------------------------------------------------------
\* Every reachable state is within the types the code gives its variables.
THEOREM TypeCorrect == Spec => []TypeOK
<1>. USE WorkerCountAssumption, PidsAssumption, BoundsAssumption
<1>1. Init => TypeOK
  BY DEF Init, TypeOK, Slots, Processes, ParentStates, ProcStates, WorkerStates
<1>2. TypeOK /\ [Next]_vars => TypeOK'
  <2>. SUFFICES ASSUME TypeOK, [Next]_vars PROVE TypeOK'
    OBVIOUS
  <2>. USE DEF TypeOK, Slots, Processes, ParentStates, ProcStates, WorkerStates
  <2>1. CASE SetupFails \/ Setup
    BY <2>1 DEF SetupFails, Setup, bounds
  <2>2. ASSUME NEW i \in Slots, Fork(i)
        PROVE  /\ workers' \in [Slots -> Pids \cup {NONE, FORK_FAILED}]
               /\ proc' \in [Pids -> ProcStates]
               /\ wpc' \in [Pids -> WorkerStates]
               /\ stopping' \in [Processes -> BOOLEAN]
               /\ forkFailures' \in 0 .. MaxForkFailures
    BY <2>2 DEF Fork, ForkSucceeds, ForkFails
  <2>3. CASE SpawnNext
    BY <2>2, <2>3 DEF SpawnNext
  <2>4. CASE ParentChecks \/ ParentEntersWait \/ WaitHasNoChild
    BY <2>4 DEF ParentChecks, ParentEntersWait, WaitHasNoChild, bounds
  <2>5. CASE WaitReturns
    BY <2>5 DEF WaitReturns, Zombies, bounds
  <2>6. CASE Respawn
    <3>1. CASE \E i \in Slots : workers[i] = gone
      BY <2>2, <2>6, <3>1 DEF Respawn
    <3>2. CASE ~(\E i \in Slots : workers[i] = gone)
      BY <2>6, <3>2 DEF Respawn
    <3>. QED BY <3>1, <3>2
  <2>7. CASE KillNext
    BY <2>7 DEF KillNext, KillTarget, bounds
  <2>8. CASE ReapOne \/ ParentExits
    BY <2>8 DEF ReapOne, ParentExits, Zombies, parentVars, bounds
  <2>9. ASSUME NEW p \in Pids, WorkerStep(p) \/ WorkerTrouble(p) PROVE TypeOK'
    <3>1. CASE \/ OpenDatabase(p) \/ WorkerChecks(p) \/ WorkerEntersAccept(p)
              \/ FinishRequest(p)
      BY <3>1 DEF OpenDatabase, WorkerChecks, WorkerEntersAccept, FinishRequest,
           Goto, parentVars, bounds
    <3>2. CASE Accept(p) \/ AcceptAborted(p)
      BY <3>2 DEF Accept, AcceptAborted, Goto, parentVars, bounds
    <3>3. CASE AcceptFails(p)
      BY <3>3 DEF AcceptFails, Goto, Mishap, parentVars, bounds
    <3>4. CASE CloseAndExit(p)
      BY <3>4 DEF CloseAndExit, Exit, parentVars, bounds
    <3>5. CASE WorkerDies(p)
      BY <3>5 DEF WorkerDies, Exit, Mishap, parentVars, bounds
    <3>. QED
      BY <2>9, <3>1, <3>2, <3>3, <3>4, <3>5 DEF WorkerStep, WorkerTrouble
  <2>10. CASE DeliverToParent
    BY <2>10 DEF DeliverToParent, bounds
  <2>11. ASSUME NEW p \in Pids, DeliverToWorker(p) PROVE TypeOK'
    BY <2>11 DEF DeliverToWorker, parentVars, bounds
  <2>12. CASE Environment
    <3>1. CASE Terminate \/ ClientConnects
      BY <3>1 DEF Terminate, ClientConnects, parentVars, bounds
    <3>2. ASSUME NEW p \in Pids, StrayTerminate(p) PROVE TypeOK'
      BY <3>2 DEF StrayTerminate, Mishap, parentVars, bounds
    <3>3. ASSUME NEW p \in Pids, ForeignStarts(p) \/ ForeignEnds(p) PROVE TypeOK'
      BY <3>3 DEF ForeignStarts, ForeignEnds, parentVars, bounds
    <3>. QED
      BY <2>12, <3>1, <3>2, <3>3 DEF Environment
  <2>13. CASE UNCHANGED vars
    BY <2>13 DEF vars, parentVars, bounds
  <2>. QED
    BY <2>1, <2>3, <2>4, <2>5, <2>6, <2>7, <2>8, <2>9, <2>10, <2>11, <2>12, <2>13
       DEF Next, ParentStep, Stopped
<1>. QED BY <1>1, <1>2, PTL DEF Spec

-----------------------------------------------------------------------------
\* The empty table agrees with the kernel's: there is no child yet.
LEMMA InitPoolInv == Init => PoolInv
  BY WorkerCountAssumption, PidsAssumption
     DEF Init, PoolInv, DistinctPids, ChildrenHaveSlots, SlotsHoldChildren,
         OnlyGoneIsStale, EmptyBeforeFork, ToldSoFar, NoneLeft, Own, Live, Told,
         Over, NoChildren, Slots

\* What a fork into slot i does to the table, when slot i holds no child and
\* every other slot that holds a pid holds a child's.
LEMMA ForkKeepsTable ==
    ASSUME TypeOK, DistinctPids, ChildrenHaveSlots,
           NEW i \in Slots, Fork(i),
           ~(workers[i] \in Pids /\ Own(workers[i])),
           \A j \in Slots : j # i /\ workers[j] \in Pids => Own(workers[j])
    PROVE  /\ DistinctPids'
           /\ ChildrenHaveSlots'
           /\ \A j \in Slots : workers'[j] \in Pids => Own(workers[j])'
           /\ \A j \in Slots : j # i => workers'[j] = workers[j]
<1>. USE PidsAssumption DEF TypeOK, Slots, Own, DistinctPids, ChildrenHaveSlots
<1>1. CASE ForkSucceeds(i)
  <2>1. PICK q \in Pids : /\ proc[q] = "free"
                          /\ workers' = [workers EXCEPT ![i] = q]
                          /\ proc' = [proc EXCEPT ![q] = "live"]
    BY <1>1 DEF ForkSucceeds
  <2>2. \A j \in Slots : workers[j] # q \/ j = i
    BY <2>1
  <2>3. DistinctPids'
    BY <2>1, <2>2
  <2>4. ChildrenHaveSlots'
    <3>1. SUFFICES ASSUME NEW p \in Pids, Own(p)'
                   PROVE  \E j \in Slots : workers'[j] = p
      OBVIOUS
    <3>2. CASE p = q
      BY <2>1, <3>2
    <3>3. CASE p # q
      <4>1. Own(p)
        BY <2>1, <3>1, <3>3
      <4>2. PICK j \in Slots : workers[j] = p
        BY <4>1
      <4>3. j # i
        BY <4>1, <4>2
      <4>. QED BY <2>1, <4>2, <4>3
    <3>. QED BY <3>2, <3>3
  <2>5. \A j \in Slots : workers'[j] \in Pids => Own(workers[j])'
    BY <2>1
  <2>6. \A j \in Slots : j # i => workers'[j] = workers[j]
    BY <2>1
  <2>. QED BY <2>3, <2>4, <2>5, <2>6
<1>2. CASE ForkFails(i)
  <2>1. /\ workers' = [workers EXCEPT ![i] = FORK_FAILED]
        /\ proc' = proc
    BY <1>2 DEF ForkFails
  <2>2. ChildrenHaveSlots'
    BY <2>1
  <2>3. DistinctPids'
    BY <2>1
  <2>4. \A j \in Slots : workers'[j] \in Pids => Own(workers[j])'
    BY <2>1
  <2>. QED BY <2>1, <2>2, <2>3, <2>4
<1>. QED BY <1>1, <1>2 DEF Fork

\* A step that moves no child, no slot and no parent keeps the whole table;
\* the workers that remain live keep whatever they have been told.
LEMMA QuietStep ==
    ASSUME TypeOK, PoolInv, parentVars' = parentVars,
           \A p \in Pids : Own(p)' = Own(p),
           \A p \in Pids : Live(p)' => Live(p) /\ (Told(p) => Told(p)')
    PROVE  PoolInv'
<1>. USE DEF TypeOK, PoolInv, parentVars, Slots
<1>1. DistinctPids' /\ ChildrenHaveSlots' /\ SlotsHoldChildren'
  BY DEF DistinctPids, ChildrenHaveSlots, SlotsHoldChildren
<1>2. OnlyGoneIsStale' /\ EmptyBeforeFork'
  BY DEF OnlyGoneIsStale, EmptyBeforeFork
<1>3. ToldSoFar'
  BY DEF ToldSoFar
<1>4. NoneLeft'
  BY DEF NoneLeft, NoChildren, Over
<1>. QED BY <1>1, <1>2, <1>3, <1>4

-----------------------------------------------------------------------------
\* The fork loop and the respawn fill exactly the slot that holds no child.
LEMMA ForkingSteps ==
    ASSUME TypeOK, PoolInv, SpawnNext \/ Respawn
    PROVE  PoolInv'
<1>. USE WorkerCountAssumption, PidsAssumption DEF TypeOK, PoolInv, Slots
<1>1. CASE SpawnNext
  <2>1. /\ ppc = "spawn"
        /\ Fork(slot)
        /\ workers[slot] = NONE
    BY <1>1 DEF SpawnNext, EmptyBeforeFork
  <2>2. \A j \in Slots : workers[j] \in Pids => Own(workers[j])
    BY <2>1 DEF SlotsHoldChildren
  <2>3. /\ DistinctPids'
        /\ ChildrenHaveSlots'
        /\ \A j \in Slots : workers'[j] \in Pids => Own(workers[j])'
        /\ \A j \in Slots : j # slot => workers'[j] = workers[j]
    BY <2>1, <2>2, ForkKeepsTable
  <2>4. /\ ppc' \in {"spawn", "check"}
        /\ ppc' = "spawn" => slot' = slot + 1
    BY <1>1 DEF SpawnNext
  <2>5. EmptyBeforeFork'
    BY <2>1, <2>3, <2>4 DEF EmptyBeforeFork
  <2>6. SlotsHoldChildren' /\ OnlyGoneIsStale' /\ ToldSoFar' /\ NoneLeft'
    BY <2>3, <2>4 DEF SlotsHoldChildren, OnlyGoneIsStale, ToldSoFar, NoneLeft, Over
  <2>. QED BY <2>3, <2>5, <2>6
<1>2. CASE Respawn
  <2>1. /\ ppc = "sleep"
        /\ ppc' = "check"
        /\ gone \in Pids
        /\ ~Own(gone)
        /\ \A j \in Slots : workers[j] \in Pids /\ workers[j] # gone => Own(workers[j])
    BY <1>2 DEF Respawn, OnlyGoneIsStale
  <2>2. /\ DistinctPids'
        /\ ChildrenHaveSlots'
        /\ \A j \in Slots : workers'[j] \in Pids => Own(workers[j])'
    <3>1. CASE \E i \in Slots : workers[i] = gone
      <4>1. PICK i \in Slots : workers[i] = gone /\ Fork(i)
        BY <1>2, <3>1 DEF Respawn
      <4>2. \A j \in Slots : j # i /\ workers[j] \in Pids => Own(workers[j])
        BY <2>1, <4>1 DEF DistinctPids
      <4>. QED BY <2>1, <4>1, <4>2, ForkKeepsTable
    <3>2. CASE ~(\E i \in Slots : workers[i] = gone)
      <4>1. workers' = workers /\ proc' = proc
        BY <1>2, <3>2 DEF Respawn
      <4>. QED BY <2>1, <3>2, <4>1 DEF DistinctPids, ChildrenHaveSlots, Own
    <3>. QED BY <3>1, <3>2
  <2>. QED
    BY <2>1, <2>2 DEF SlotsHoldChildren, OnlyGoneIsStale, EmptyBeforeFork,
         ToldSoFar, NoneLeft, Over
<1>. QED BY <1>1, <1>2

\* The steps of the wait loop: only wait() makes a slot stale, and only one.
LEMMA WaitingSteps ==
    ASSUME TypeOK, PoolInv,
           \/ SetupFails \/ Setup \/ ParentChecks \/ ParentEntersWait
           \/ WaitReturns \/ WaitHasNoChild \/ DeliverToParent
    PROVE  PoolInv'
<1>. USE WorkerCountAssumption, PidsAssumption DEF TypeOK, PoolInv, Slots
<1>1. CASE \/ SetupFails \/ Setup \/ ParentChecks \/ ParentEntersWait
           \/ WaitHasNoChild \/ DeliverToParent
  <2>1. /\ workers' = workers
        /\ proc' = proc
        /\ gone' = gone
        /\ \A p \in Pids : Told(p)' = Told(p)
    BY <1>1 DEF SetupFails, Setup, ParentChecks, ParentEntersWait, WaitHasNoChild,
         DeliverToParent, Told, Processes
  <2>2. \/ ppc' = ppc /\ slot' = slot
        \/ ppc = "setup" /\ ppc' = "down"
        \/ ppc = "setup" /\ ppc' = "spawn" /\ slot' = slot
        \/ ppc = "check" /\ ppc' \in {"kill", "toWait"} /\ slot' = 1
        \/ ppc = "toWait" /\ ppc' = "waiting"
        \/ ppc = "waiting" /\ ppc' = "kill" /\ slot' = 1
        \/ ppc = "waiting" /\ ppc' = "check"
    BY <1>1 DEF SetupFails, Setup, ParentChecks, ParentEntersWait, WaitHasNoChild,
         DeliverToParent
  <2>3. DistinctPids' /\ ChildrenHaveSlots'
    BY <2>1 DEF DistinctPids, ChildrenHaveSlots, Own
  <2>4. SlotsHoldChildren' /\ OnlyGoneIsStale'
    BY <2>1, <2>2 DEF SlotsHoldChildren, OnlyGoneIsStale, Own
  <2>5. EmptyBeforeFork'
    BY <2>1, <2>2 DEF EmptyBeforeFork
  <2>6. ToldSoFar'
    BY <2>1, <2>2 DEF ToldSoFar, Live
  <2>7. NoneLeft'
    BY <2>1, <2>2 DEF NoneLeft, NoChildren, Over, Own, ChildrenHaveSlots,
         EmptyBeforeFork
  <2>. QED BY <2>3, <2>4, <2>5, <2>6, <2>7
<1>2. CASE WaitReturns
  <2>1. PICK p \in Pids : /\ proc[p] = "zombie"
                          /\ gone' = p
                          /\ proc' = [proc EXCEPT ![p] = "free"]
    BY <1>2 DEF WaitReturns, Zombies
  <2>2. /\ workers' = workers
        /\ ppc = "waiting"
        /\ ppc' = "sleep"
    BY <1>2 DEF WaitReturns
  <2>3. DistinctPids' /\ ChildrenHaveSlots' /\ OnlyGoneIsStale'
    BY <2>1, <2>2 DEF DistinctPids, ChildrenHaveSlots, OnlyGoneIsStale,
         SlotsHoldChildren, Own
  <2>. QED
    BY <2>2, <2>3 DEF SlotsHoldChildren, EmptyBeforeFork, ToldSoFar, NoneLeft, Over
<1>. QED BY <1>1, <1>2

\* The kill loop and the last waits keep the table, and tell one worker more.
LEMMA ShutdownSteps ==
    ASSUME TypeOK, PoolInv, KillNext \/ ReapOne \/ ParentExits
    PROVE  PoolInv'
<1>. USE WorkerCountAssumption, PidsAssumption DEF TypeOK, PoolInv, Slots
<1>1. CASE KillNext
  <2>1. /\ ppc = "kill"
        /\ workers' = workers /\ proc' = proc /\ stopping' = stopping /\ gone' = gone
        /\ \/ slot < WORKER_COUNT /\ slot' = slot + 1 /\ ppc' = "kill"
           \/ slot = WORKER_COUNT /\ ppc' = "reap"
    BY <1>1 DEF KillNext
  <2>2. /\ \A p \in Pids : Told(p) => Told(p)'
        /\ \A p \in Pids : workers[slot] = p /\ Live(p) => Told(p)'
    BY <1>1, <2>1 DEF KillNext, KillTarget, Told
  <2>3. \A i \in 1 .. slot : \A p \in Pids : workers[i] = p /\ Live(p) => Told(p)'
    <3>1. \A i \in 1 .. slot - 1 : \A p \in Pids : workers[i] = p /\ Live(p) => Told(p)
      BY <2>1 DEF ToldSoFar
    <3>. QED BY <2>2, <3>1
  <2>4. ToldSoFar'
    <3>1. CASE ppc' = "kill"
      BY <2>1, <2>3, <3>1 DEF ToldSoFar, Told, Live
    <3>2. CASE ppc' = "reap"
      <4>1. SUFFICES ASSUME NEW p \in Pids, Live(p) PROVE Told(p)'
        BY <2>1, <3>2 DEF ToldSoFar, Live
      <4>2. PICK i \in Slots : workers[i] = p
        BY <4>1 DEF ChildrenHaveSlots, Own, Live
      <4>. QED BY <2>1, <2>3, <3>2, <4>1, <4>2
    <3>. QED BY <2>1, <3>1, <3>2
  <2>5. DistinctPids' /\ ChildrenHaveSlots' /\ SlotsHoldChildren'
    BY <2>1 DEF DistinctPids, ChildrenHaveSlots, SlotsHoldChildren, Own
  <2>. QED
    BY <2>1, <2>4, <2>5 DEF OnlyGoneIsStale, EmptyBeforeFork, NoneLeft, Over
<1>2. CASE ReapOne
  <2>1. PICK p \in Pids : /\ proc[p] = "zombie"
                          /\ proc' = [proc EXCEPT ![p] = "free"]
    BY <1>2 DEF ReapOne, Zombies
  <2>2. /\ ppc = "reap" /\ ppc' = "reap"
        /\ workers' = workers /\ stopping' = stopping /\ pending' = pending
    BY <1>2 DEF ReapOne, parentVars
  <2>3. DistinctPids' /\ ChildrenHaveSlots' /\ ToldSoFar'
    BY <2>1, <2>2 DEF DistinctPids, ChildrenHaveSlots, ToldSoFar, Own, Live, Told
  <2>. QED
    BY <2>2, <2>3 DEF SlotsHoldChildren, OnlyGoneIsStale, EmptyBeforeFork,
         NoneLeft, Over
<1>3. CASE ParentExits
  <2>1. /\ ppc' = "exited" /\ NoChildren
        /\ workers' = workers /\ proc' = proc
    BY <1>3 DEF ParentExits, ReapingDone
  <2>. QED
    BY <2>1 DEF DistinctPids, ChildrenHaveSlots, SlotsHoldChildren, OnlyGoneIsStale,
         EmptyBeforeFork, ToldSoFar, NoneLeft, NoChildren, Own, Over
<1>. QED BY <1>1, <1>2, <1>3

\* Every step that is not main()'s: signals, workers, clients, strangers.
LEMMA QuietSteps ==
    ASSUME TypeOK, PoolInv,
           \/ \E p \in Pids : WorkerStep(p) \/ WorkerTrouble(p) \/ DeliverToWorker(p)
           \/ Environment
           \/ UNCHANGED vars
    PROVE  PoolInv'
<1>. USE PidsAssumption DEF TypeOK, Own, Live, Told
<1>1. ASSUME NEW p \in Pids,
             \/ OpenDatabase(p) \/ WorkerChecks(p) \/ WorkerEntersAccept(p)
             \/ Accept(p) \/ AcceptAborted(p) \/ FinishRequest(p) \/ AcceptFails(p)
      PROVE  PoolInv'
  <2>1. /\ parentVars' = parentVars
        /\ proc' = proc /\ stopping' = stopping /\ pending' = pending
    BY <1>1 DEF OpenDatabase, WorkerChecks, WorkerEntersAccept, Accept, AcceptAborted,
         FinishRequest, AcceptFails, parentVars
  <2>. QED BY <2>1, QuietStep
<1>2. ASSUME NEW p \in Pids, CloseAndExit(p) \/ WorkerDies(p)
      PROVE  PoolInv'
  <2>1. /\ parentVars' = parentVars
        /\ Live(p)
        /\ proc' = [proc EXCEPT ![p] = "zombie"]
        /\ pending' = pending \ {p}
        /\ stopping' = [stopping EXCEPT ![p] = FALSE]
    BY <1>2 DEF CloseAndExit, WorkerDies, Exit, At, parentVars
  <2>. QED BY <2>1, QuietStep DEF Processes
<1>3. ASSUME NEW p \in Pids, DeliverToWorker(p) \/ StrayTerminate(p)
      PROVE  PoolInv'
  <2>1. /\ parentVars' = parentVars
        /\ proc' = proc
        /\ \A q \in Pids : Told(q) => Told(q)'
    BY <1>3 DEF DeliverToWorker, StrayTerminate, parentVars, Processes
  <2>. QED BY <2>1, QuietStep
<1>4. CASE Terminate \/ ClientConnects \/ UNCHANGED vars
  <2>1. /\ parentVars' = parentVars
        /\ proc' = proc /\ stopping' = stopping
        /\ pending \subseteq pending'
    BY <1>4 DEF Terminate, ClientConnects, vars, parentVars
  <2>. QED BY <2>1, QuietStep
<1>5. ASSUME NEW p \in Pids, ForeignStarts(p) \/ ForeignEnds(p)
      PROVE  PoolInv'
  <2>1. /\ parentVars' = parentVars
        /\ stopping' = stopping /\ pending' = pending
        /\ \/ proc[p] = "free" /\ proc' = [proc EXCEPT ![p] = "foreign"]
           \/ proc[p] = "foreign" /\ proc' = [proc EXCEPT ![p] = "free"]
    BY <1>5 DEF ForeignStarts, ForeignEnds, parentVars
  <2>. QED BY <2>1, QuietStep
<1>. QED
  BY <1>1, <1>2, <1>3, <1>4, <1>5 DEF WorkerStep, WorkerTrouble, Environment

\* The table of main() agrees with the kernel's in every reachable state.
THEOREM PoolInvariant == Spec => [](TypeOK /\ PoolInv)
<1>1. Init => PoolInv
  BY InitPoolInv
<1>2. TypeOK /\ PoolInv /\ [Next]_vars => PoolInv'
  BY ForkingSteps, WaitingSteps, ShutdownSteps, QuietSteps
     DEF Next, ParentStep, Stopped
<1>. QED BY <1>1, <1>2, TypeCorrect, PTL DEF Spec

-----------------------------------------------------------------------------
\* Shutdown never signals a process that is not main()'s unreaped child, even
\* though the kernel may reuse a dead worker's pid before its slot is refilled.
THEOREM KillsOnlyOwn == Spec => []KillsOnlyOwnWorkers
<1>1. TypeOK /\ PoolInv => KillsOnlyOwnWorkers
  BY DEF TypeOK, PoolInv, SlotsHoldChildren, KillsOnlyOwnWorkers, KillTarget, Slots
<1>. QED BY <1>1, PoolInvariant, PTL

\* main() keeps every unreaped child in exactly one slot.
THEOREM OneSlotPerChild == Spec => []EveryChildHasOneSlot
<1>1. TypeOK /\ PoolInv => EveryChildHasOneSlot
  <2>1. SUFFICES ASSUME TypeOK, PoolInv, NEW p \in Pids, Own(p)
                 PROVE  Cardinality({i \in Slots : workers[i] = p}) = 1
    BY DEF EveryChildHasOneSlot
  <2>2. PICK i \in Slots : workers[i] = p
    BY <2>1 DEF PoolInv, ChildrenHaveSlots
  <2>3. {j \in Slots : workers[j] = p} = {i}
    BY <2>1, <2>2 DEF PoolInv, DistinctPids
  <2>. QED BY <2>3, FS_Singleton
<1>. QED BY <1>1, PoolInvariant, PTL

\* No worker is left running that has not been told to stop when main() waits
\* for the last of them.
THEOREM AllWorkersTold == Spec => []EveryWorkerIsTold
<1>1. TypeOK /\ PoolInv => EveryWorkerIsTold
  BY DEF PoolInv, ToldSoFar, EveryWorkerIsTold, Told
<1>. QED BY <1>1, PoolInvariant, PTL

\* No worker outlives main().
THEOREM ServerExitsLast == Spec => []NoWorkerOutlivesServer
<1>1. TypeOK /\ PoolInv => NoWorkerOutlivesServer
  BY DEF PoolInv, NoneLeft, NoWorkerOutlivesServer
<1>. QED BY <1>1, PoolInvariant, PTL
=============================================================================
