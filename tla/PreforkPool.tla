----------------------------- MODULE PreforkPool -----------------------------
(***************************************************************************)
(* The process pool of examples/server/server.c: main() forks WORKER_COUNT *)
(* workers, replaces the ones that die, and on SIGTERM tells every worker  *)
(* to stop and waits for all of them.                                      *)
(*                                                                         *)
(* A system call that can block is two states of its process: the process  *)
(* has passed its test of g_stopping and is still in user code ("toAccept",*)
(* "toWait"), or it is blocked in the kernel ("accept", "waiting").  Only  *)
(* in the second does a signal make the call return EINTR.                 *)
(***************************************************************************)
EXTENDS Integers, FiniteSets

CONSTANTS
    WORKER_COUNT,       \* size of workers[]
    Pids,               \* process ids the kernel may give to a child
    Parent,             \* the supervising process
    NONE,               \* a workers[] entry not yet written
    FORK_FAILED,        \* the -1 that fork() returned
    LISTEN_BACKLOG,     \* connections the kernel queues on the listener
    MaxMishaps,         \* bound: crashes, failed opens, failed accepts, stray signals
    MaxForkFailures,    \* bound: calls of fork() that return -1
    MaxStrangers        \* bound: foreign processes holding one of Pids at a time

ASSUME WorkerCountAssumption == WORKER_COUNT \in Nat \ {0}
ASSUME PidsAssumption == /\ Parent \notin Pids
                         /\ NONE \notin Pids
                         /\ FORK_FAILED \notin Pids
                         /\ NONE # FORK_FAILED
ASSUME BoundsAssumption == /\ LISTEN_BACKLOG \in Nat
                           /\ MaxMishaps \in Nat
                           /\ MaxForkFailures \in Nat
                           /\ MaxStrangers \in Nat

Slots == 1 .. WORKER_COUNT
Processes == Pids \cup {Parent}

VARIABLES
    ppc,            \* where main() is
    slot,           \* the loop index of the fork loop and of the kill loop
    workers,        \* workers[]: what main() believes its children are
    gone,           \* the pid wait() returned last
    proc,           \* what the kernel knows of each pid
    wpc,            \* where each worker is in worker_loop
    stopping,       \* g_stopping, one copy per process
    pending,        \* processes with a SIGTERM sent and not yet handled
    queue,          \* connections waiting to be accepted
    mishaps,        \* how many mishaps have happened
    forkFailures    \* how many forks have failed

parentVars == <<ppc, slot, workers, gone>>
bounds     == <<mishaps, forkFailures>>
vars == <<parentVars, proc, wpc, stopping, pending, queue, bounds>>

ParentStates == {"setup", "spawn", "check", "toWait", "waiting", "sleep",
                 "kill", "reap", "exited", "down"}
WorkerStates == {"none", "open", "check", "toAccept", "accept", "serve", "close"}
ProcStates   == {"free", "live", "zombie", "foreign"}

\* A child of main() that it has not waited for: its pid cannot be reused.
Own(p)   == proc[p] \in {"live", "zombie"}
Live(p)  == proc[p] = "live"
Zombies  == {p \in Pids : proc[p] = "zombie"}
NoChildren == \A p \in Pids : ~Own(p)

\* main() has returned.
Over == ppc \in {"exited", "down"}

Init ==
    /\ ppc = "setup"
    /\ slot = 1
    /\ workers = [i \in Slots |-> NONE]
    /\ gone = NONE
    /\ proc = [p \in Pids |-> "free"]
    /\ wpc = [p \in Pids |-> "none"]
    /\ stopping = [p \in Processes |-> FALSE]
    /\ pending = {}
    /\ queue = 0
    /\ mishaps = 0
    /\ forkFailures = 0

-----------------------------------------------------------------------------
(* main(): start-up and the fork loop.                                     *)

\* apply_journal_mode, check_site or listen_on refuses: main returns 1.
SetupFails ==
    /\ ppc = "setup"
    /\ ppc' = "down"
    /\ UNCHANGED <<slot, workers, gone, proc, wpc, stopping, pending, queue, bounds>>

Setup ==
    /\ ppc = "setup"
    /\ ppc' = "spawn"
    /\ UNCHANGED <<slot, workers, gone, proc, wpc, stopping, pending, queue, bounds>>

\* The child starts with the parent's g_stopping and without its signals.
ForkSucceeds(i) ==
    \E q \in Pids :
        /\ proc[q] = "free"
        /\ workers' = [workers EXCEPT ![i] = q]
        /\ proc' = [proc EXCEPT ![q] = "live"]
        /\ wpc' = [wpc EXCEPT ![q] = "open"]
        /\ stopping' = [stopping EXCEPT ![q] = stopping[Parent]]
        /\ UNCHANGED forkFailures

\* The -1 lands in workers[] like any pid; nothing looks at it again.
ForkFails(i) ==
    /\ forkFailures < MaxForkFailures
    /\ forkFailures' = forkFailures + 1
    /\ workers' = [workers EXCEPT ![i] = FORK_FAILED]
    /\ UNCHANGED <<proc, wpc, stopping>>

Fork(i) == ForkSucceeds(i) \/ ForkFails(i)

SpawnPastTheEnd ==
    /\ ppc = "spawn"
    /\ Fork(slot)
    /\ IF slot <= WORKER_COUNT
       THEN slot' = slot + 1 /\ ppc' = "spawn"
       ELSE slot' = 1 /\ ppc' = "check"
    /\ UNCHANGED <<gone, pending, queue, mishaps>>

SpawnNext ==
    /\ ppc = "spawn"
    /\ Fork(slot)
    /\ IF slot < WORKER_COUNT
       THEN slot' = slot + 1 /\ ppc' = "spawn"
       ELSE slot' = 1 /\ ppc' = "check"
    /\ UNCHANGED <<gone, pending, queue, mishaps>>

-----------------------------------------------------------------------------
(* main(): while (!g_stopping) wait, sleep, respawn.                       *)

ParentChecks ==
    /\ ppc = "check"
    /\ ppc' = IF stopping[Parent] THEN "kill" ELSE "toWait"
    /\ slot' = 1
    /\ UNCHANGED <<workers, gone, proc, wpc, stopping, pending, queue, bounds>>

ParentEntersWait ==
    /\ ppc = "toWait"
    /\ ppc' = "waiting"
    /\ UNCHANGED <<slot, workers, gone, proc, wpc, stopping, pending, queue, bounds>>

\* The kernel drops the zombie: its pid is free for any process from now on.
WaitReturns ==
    /\ ppc = "waiting"
    /\ \E p \in Zombies :
        /\ gone' = p
        /\ proc' = [proc EXCEPT ![p] = "free"]
    /\ ppc' = "sleep"
    /\ UNCHANGED <<slot, workers, wpc, stopping, pending, queue, bounds>>

\* ECHILD: every fork has failed or died; main leaves the loop.
WaitHasNoChild ==
    /\ ppc = "waiting"
    /\ NoChildren
    /\ ppc' = "kill"
    /\ slot' = 1
    /\ UNCHANGED <<workers, gone, proc, wpc, stopping, pending, queue, bounds>>

\* Variants a plausible edit would give: the loop tests g_stopping again after
\* the sleep; the refill ignores which slot the dead worker held.
RespawnUnlessStopping ==
    /\ ppc = "sleep"
    /\ IF ~stopping[Parent]
       THEN \E i \in Slots : workers[i] = gone /\ Fork(i)
       ELSE UNCHANGED <<workers, proc, wpc, stopping, forkFailures>>
    /\ ppc' = "check"
    /\ UNCHANGED <<slot, gone, pending, queue, mishaps>>

RespawnInFirstSlot ==
    /\ ppc = "sleep"
    /\ Fork(1)
    /\ ppc' = "check"
    /\ UNCHANGED <<slot, gone, pending, queue, mishaps>>

\* After sleep(RESPAWN_DELAY_SECONDS): refill the slot of the dead worker,
\* whether or not a signal ended the sleep.
Respawn ==
    /\ ppc = "sleep"
    /\ IF \E i \in Slots : workers[i] = gone
       THEN \E i \in Slots :
                /\ workers[i] = gone
                /\ \A j \in 1 .. i - 1 : workers[j] # gone
                /\ Fork(i)
       ELSE UNCHANGED <<workers, proc, wpc, stopping, forkFailures>>
    /\ ppc' = "check"
    /\ UNCHANGED <<slot, gone, pending, queue, mishaps>>

-----------------------------------------------------------------------------
(* main(): shutdown.                                                       *)

KillTarget(i) == workers[i] \in Pids

\* Variant: the loop stops one slot early.
KillAllButLast ==
    /\ ppc = "kill"
    /\ pending' = IF KillTarget(slot) /\ Live(workers[slot]) /\ slot < WORKER_COUNT
                  THEN pending \cup {workers[slot]} ELSE pending
    /\ IF slot < WORKER_COUNT
       THEN slot' = slot + 1 /\ ppc' = "kill"
       ELSE slot' = 1 /\ ppc' = "reap"
    /\ UNCHANGED <<workers, gone, proc, wpc, stopping, queue, bounds>>

KillNext ==
    /\ ppc = "kill"
    /\ pending' = IF KillTarget(slot) /\ Live(workers[slot])
                  THEN pending \cup {workers[slot]} ELSE pending
    /\ IF slot < WORKER_COUNT
       THEN slot' = slot + 1 /\ ppc' = "kill"
       ELSE slot' = 1 /\ ppc' = "reap"
    /\ UNCHANGED <<workers, gone, proc, wpc, stopping, queue, bounds>>

ReapOne ==
    /\ ppc = "reap"
    /\ \E p \in Zombies : proc' = [proc EXCEPT ![p] = "free"]
    /\ UNCHANGED <<parentVars, wpc, stopping, pending, queue, bounds>>

\* Variant: any failure of wait(), an interruption too, ends the loop.
ReapingDoneOrInterrupted == NoChildren \/ Parent \in pending

\* wait() fails with ECHILD: only then does main return.
ReapingDone == NoChildren

ParentExits ==
    /\ ppc = "reap"
    /\ ReapingDone
    /\ ppc' = "exited"
    /\ queue' = 0
    /\ UNCHANGED <<slot, workers, gone, proc, wpc, stopping, pending, bounds>>

-----------------------------------------------------------------------------
(* worker_loop().                                                          *)

At(p, state) == Live(p) /\ wpc[p] = state
Goto(p, state) == wpc' = [wpc EXCEPT ![p] = state]

\* The process and its memory are gone; its pid stays taken until wait().
Exit(p) ==
    /\ proc' = [proc EXCEPT ![p] = "zombie"]
    /\ wpc' = [wpc EXCEPT ![p] = "none"]
    /\ pending' = pending \ {p}
    /\ stopping' = [stopping EXCEPT ![p] = FALSE]

Mishap == mishaps < MaxMishaps /\ mishaps' = mishaps + 1

OpenDatabase(p) ==
    /\ At(p, "open")
    /\ Goto(p, "check")
    /\ UNCHANGED <<parentVars, proc, stopping, pending, queue, bounds>>

WorkerChecks(p) ==
    /\ At(p, "check")
    /\ Goto(p, IF stopping[p] THEN "close" ELSE "toAccept")
    /\ UNCHANGED <<parentVars, proc, stopping, pending, queue, bounds>>

WorkerEntersAccept(p) ==
    /\ At(p, "toAccept")
    /\ Goto(p, "accept")
    /\ UNCHANGED <<parentVars, proc, stopping, pending, queue, bounds>>

Accept(p) ==
    /\ At(p, "accept")
    /\ queue > 0
    /\ queue' = queue - 1
    /\ Goto(p, "serve")
    /\ UNCHANGED <<parentVars, proc, stopping, pending, bounds>>

\* ECONNABORTED: the client left while it was queued; not an error.
AcceptAborted(p) ==
    /\ At(p, "accept")
    /\ queue > 0
    /\ queue' = queue - 1
    /\ Goto(p, "check")
    /\ UNCHANGED <<parentVars, proc, stopping, pending, bounds>>

\* Any other error of accept(): the worker leaves its loop.
AcceptFails(p) ==
    /\ At(p, "accept")
    /\ Mishap
    /\ Goto(p, "close")
    /\ UNCHANGED <<parentVars, proc, stopping, pending, queue, forkFailures>>

\* Variant: no SO_RCVTIMEO and SO_SNDTIMEO, so a silent client holds the worker.
FinishWithoutTimeout(p) ==
    /\ At(p, "serve")
    /\ FALSE
    /\ Goto(p, "check")
    /\ UNCHANGED <<parentVars, proc, stopping, pending, queue, bounds>>

\* serve_connection ends: its reads, writes and queries all have timeouts.
FinishRequest(p) ==
    /\ At(p, "serve")
    /\ Goto(p, "check")
    /\ UNCHANGED <<parentVars, proc, stopping, pending, queue, bounds>>

\* sqlite3_close, then _exit.
CloseAndExit(p) ==
    /\ At(p, "close")
    /\ Exit(p)
    /\ UNCHANGED <<parentVars, queue, bounds>>

\* db_open fails (_exit(1)), or the process is killed anywhere.
WorkerDies(p) ==
    /\ Live(p)
    /\ Mishap
    /\ Exit(p)
    /\ UNCHANGED <<parentVars, queue, forkFailures>>

-----------------------------------------------------------------------------
(* Signals, clients and the rest of the machine.                           *)

\* An operator or the service manager signals the server.
Terminate ==
    /\ ~Over
    /\ pending' = pending \cup {Parent}
    /\ UNCHANGED <<parentVars, proc, wpc, stopping, queue, bounds>>

StrayTerminate(p) ==
    /\ Live(p)
    /\ Mishap
    /\ pending' = pending \cup {p}
    /\ UNCHANGED <<parentVars, proc, wpc, stopping, queue, forkFailures>>

\* on_terminate runs in the parent.  Before install_terminate_handler the
\* default action ends the process; a blocked wait() returns EINTR.
DeliverToParent ==
    /\ Parent \in pending
    /\ ~Over
    /\ pending' = pending \ {Parent}
    /\ stopping' = IF ppc = "setup" THEN stopping
                   ELSE [stopping EXCEPT ![Parent] = TRUE]
    /\ ppc' = IF ppc = "setup" THEN "down"
              ELSE IF ppc = "waiting" THEN "check" ELSE ppc
    /\ UNCHANGED <<slot, workers, gone, proc, wpc, queue, bounds>>

\* on_terminate runs in a worker; a blocked accept() returns EINTR.
DeliverToWorker(p) ==
    /\ p \in pending
    /\ Live(p)
    /\ pending' = pending \ {p}
    /\ stopping' = [stopping EXCEPT ![p] = TRUE]
    /\ wpc' = IF wpc[p] = "accept" THEN [wpc EXCEPT ![p] = "check"] ELSE wpc
    /\ UNCHANGED <<parentVars, proc, queue, bounds>>

ClientConnects ==
    /\ ppc \notin {"setup", "exited", "down"}
    /\ queue < LISTEN_BACKLOG
    /\ queue' = queue + 1
    /\ UNCHANGED <<parentVars, proc, wpc, stopping, pending, bounds>>

\* The kernel gives a free pid to a process that has nothing to do with the
\* server, and takes it back.
ForeignStarts(p) ==
    /\ proc[p] = "free"
    /\ Cardinality({q \in Pids : proc[q] = "foreign"}) < MaxStrangers
    /\ proc' = [proc EXCEPT ![p] = "foreign"]
    /\ UNCHANGED <<parentVars, wpc, stopping, pending, queue, bounds>>

ForeignEnds(p) ==
    /\ proc[p] = "foreign"
    /\ proc' = [proc EXCEPT ![p] = "free"]
    /\ UNCHANGED <<parentVars, wpc, stopping, pending, queue, bounds>>

-----------------------------------------------------------------------------
\* A legal end, not a deadlock.
Stopped == Over /\ UNCHANGED vars

ParentStep ==
    \/ SetupFails \/ Setup \/ SpawnNext
    \/ ParentChecks \/ ParentEntersWait \/ WaitReturns \/ WaitHasNoChild
    \/ Respawn \/ KillNext \/ ReapOne \/ ParentExits

WorkerStep(p) ==
    \/ OpenDatabase(p) \/ WorkerChecks(p) \/ WorkerEntersAccept(p)
    \/ Accept(p) \/ FinishRequest(p) \/ CloseAndExit(p)

WorkerTrouble(p) == AcceptAborted(p) \/ AcceptFails(p) \/ WorkerDies(p)

Environment ==
    \/ Terminate \/ ClientConnects
    \/ \E p \in Pids : StrayTerminate(p) \/ ForeignStarts(p) \/ ForeignEnds(p)

Next ==
    \/ ParentStep
    \/ DeliverToParent
    \/ \E p \in Pids : WorkerStep(p) \/ WorkerTrouble(p) \/ DeliverToWorker(p)
    \/ Environment
    \/ Stopped

Spec == Init /\ [][Next]_vars

(***************************************************************************)
(* The kernel runs every runnable process and delivers every signal.       *)
(* Nothing is assumed of clients, operators, crashes or failing forks.     *)
(***************************************************************************)
Fairness ==
    /\ WF_vars(ParentStep)
    /\ WF_vars(DeliverToParent)
    /\ \A p \in Pids : WF_vars(WorkerStep(p)) /\ WF_vars(DeliverToWorker(p))

FairSpec == Spec /\ Fairness

-----------------------------------------------------------------------------
\* Every variable stays within the values the code can give it.
TypeOK ==
    /\ ppc \in ParentStates
    /\ slot \in Slots
    /\ workers \in [Slots -> Pids \cup {NONE, FORK_FAILED}]
    /\ gone \in Pids \cup {NONE}
    /\ proc \in [Pids -> ProcStates]
    /\ wpc \in [Pids -> WorkerStates]
    /\ stopping \in [Processes -> BOOLEAN]
    /\ pending \subseteq Processes
    /\ queue \in 0 .. LISTEN_BACKLOG
    /\ mishaps \in 0 .. MaxMishaps
    /\ forkFailures \in 0 .. MaxForkFailures

\* The shutdown loop of main() signals only processes that are its own: a pid
\* still in workers[] has not been waited for, so the kernel cannot have given
\* it to another process, although wait() and sleep() come before the refill.
KillsOnlyOwnWorkers ==
    ppc = "kill" =>
        \A i \in slot .. WORKER_COUNT : KillTarget(i) => Own(workers[i])

\* main() never loses track of a child: every process it has forked and not
\* waited for is in exactly one slot, so the pool never exceeds WORKER_COUNT.
EveryChildHasOneSlot ==
    \A p \in Pids : Own(p) => Cardinality({i \in Slots : workers[i] = p}) = 1

\* When main() waits for the last workers, each one still running has been
\* told to stop: it has the flag, inherited or set, or the signal is on its way.
EveryWorkerIsTold ==
    ppc = "reap" => \A p \in Pids : Live(p) => stopping[p] \/ p \in pending

\* main() returns after its last worker is gone: no worker outlives the
\* server with the executable's database open.
NoWorkerOutlivesServer ==
    Over => NoChildren

-----------------------------------------------------------------------------
Asked == Parent \in pending \/ stopping[Parent]
Staffed(i) == workers[i] \in Pids /\ Live(workers[i])
Vacant(i) == workers[i] \in Pids /\ ~Live(workers[i])

\* A process blocked although its own flag says stop: the signal came after
\* the test of g_stopping and before the call that blocks.
LostWakeup ==
    \/ ppc = "waiting" /\ stopping[Parent]
    \/ \E p \in Pids : At(p, "accept") /\ stopping[p]

\* A worker that dies is replaced, unless the server is being stopped or the
\* fork that should replace it fails.
DeadWorkerIsReplaced ==
    \A i \in Slots :
        Vacant(i) ~> (Staffed(i) \/ workers[i] = FORK_FAILED \/ Asked)

\* A full backlog is relieved as long as some slot can be staffed: no client,
\* however slow, and no death of a worker stops the site for good.
BacklogIsRelieved ==
    queue = LISTEN_BACKLOG ~> \/ queue < LISTEN_BACKLOG
                              \/ Asked \/ Over
                              \/ \A i \in Slots : workers[i] = FORK_FAILED

\* SIGTERM ends the server, unless some process lost the wake-up.
StopsUnlessWakeupLost == Asked ~> (Over \/ LostWakeup)

\* What the comment over on_terminate asks for ("SIGTERM must interrupt
\* accept()"): a SIGTERM ends the server.
SigtermStopsServer == Asked ~> Over
=============================================================================
