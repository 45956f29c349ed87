------------------------------- MODULE StartUp -------------------------------
(***************************************************************************)
(* How an instance of self-httpd starts and stops over its own executable: *)
(* main() sets the journal mode, checks the site and takes the port, the   *)
(* workers connect and close (examples/server/server.c).  Another instance *)
(* may be started on the same file at any time, and any process may be     *)
(* killed.                                                                 *)
(*                                                                         *)
(* The part of SQLite used here: the mode lies in the file's header and    *)
(* every connection follows it with its next statement.  A connection that *)
(* has been in WAL holds a lock until it closes, so that leaving WAL needs *)
(* all others gone; entering WAL needs one moment without them.  The last  *)
(* one to close checkpoints and unlinks -wal and -shm.  A rollback journal *)
(* is created by the first write of a transaction and unlinked by its end; *)
(* a change of the mode is such a transaction itself, and exclusive.       *)
(***************************************************************************)
EXTENDS Naturals, FiniteSets

CONSTANTS
    Instances, Ports,
    WORKER_COUNT,
    MaxKills,           \* bound: processes killed
    NOBODY              \* no connection

ASSUME CountsAssumption == WORKER_COUNT \in Nat \ {0} /\ MaxKills \in Nat

Modes == {"delete", "wal"}
MAIN == 0
Processes == 0 .. WORKER_COUNT
Workers == 1 .. WORKER_COUNT

ASSUME NobodyAssumption == NOBODY \notin Instances \X Processes

VARIABLES
    header,     \* the mode in the file's header
    sidecars,   \* the files beside it: "-journal"; "-wal" (with -shm)
    at,         \* at[i]: where main() of instance i is
    asked,      \* asked[i]: the mode on its command line
    port,       \* port[i]: the port on its command line
    conn,       \* conn[i][p]: the connection of a process of i
    writer,     \* who is inside a write transaction with a rollback journal
    kills,
    unclean,    \* whoever used the file last was killed in the middle of it
    overruled   \* overruled[i]: whether another instance has changed the mode
                \* since i set it, and what i was when it first did: "no"; "early":
                \* not connected; "late": connected, not serving yet; "running":
                \* connected and serving

vars == <<header, sidecars, at, asked, port, conn, writer, kills, unclean, overruled>>

MainStates == {"off", "opened", "switching", "applied", "refused", "check", "checking", "listen",
               "serving", "stopping", "dead"}

\* "none": no such process, or main() without a connection; "new": forked and
\* not connected; "idle": connected; "joined": connected, and has been in WAL.
ConnStates == {"none", "new", "idle", "joined"}

Init ==
    /\ header \in Modes
    /\ sidecars = {}
    /\ at = [i \in Instances |-> "off"]
    /\ asked = [i \in Instances |-> "delete"]
    /\ port \in [Instances -> Ports]
    /\ conn = [i \in Instances |-> [p \in Processes |-> "none"]]
    /\ writer = NOBODY
    /\ kills = 0
    /\ unclean = FALSE
    /\ overruled = [i \in Instances |-> "no"]

-----------------------------------------------------------------------------
(* The file.                                                               *)

Connected(i, p) == conn[i][p] \in {"idle", "joined"}
Others(i, p) == {c \in Instances \X Processes : c # <<i, p>> /\ Connected(c[1], c[2])}
OthersJoined(i, p) == {c \in Others(i, p) : conn[c[1]][c[2]] = "joined"}

\* A connection follows the mode in the header.
Follow(i, p) ==
    conn' = [conn EXCEPT ![i][p] = IF header = "wal" THEN "joined" ELSE "idle"]

\* A statement that only reads, or any in WAL; the first one after a crash
\* recovers.  In delete mode it leaves the journal of a transaction that runs.
Statement(i, p) ==
    /\ writer # <<i, p>>
    /\ \A j \in Instances : at[j] # "switching"
    /\ Follow(i, p)
    /\ sidecars' = IF header = "wal" THEN {"-wal"}
                   ELSE IF writer = NOBODY THEN {} ELSE sidecars
    /\ unclean' = FALSE
    /\ UNCHANGED <<header, writer>>

\* The first write of a transaction with a rollback journal.
BeginTransaction(i, p) ==
    /\ writer = NOBODY
    /\ Follow(i, p)
    /\ writer' = <<i, p>>
    /\ sidecars' = {"-journal"}
    /\ unclean' = FALSE
    /\ UNCHANGED header

\* Commit, or rollback.
EndTransaction(i, p) ==
    /\ writer = <<i, p>>
    /\ writer' = NOBODY
    /\ UNCHANGED unclean

Close(i, p) ==
    /\ writer # <<i, p>>
    /\ conn' = [conn EXCEPT ![i][p] = "none"]
    /\ sidecars' = IF conn[i][p] = "joined" /\ OthersJoined(i, p) = {} THEN {} ELSE sidecars
    /\ UNCHANGED <<header, writer, unclean>>

\* PRAGMA journal_mode, when it is to change the mode.
BeginSwitch(i) ==
    /\ header # asked[i]
    /\ header = "wal" => OthersJoined(i, MAIN) = {}
    /\ BeginTransaction(i, MAIN)

\* SQLite says no by leaving the mode as it was.
SwitchRefused(i) ==
    /\ header # asked[i]
    /\ IF asked[i] = "delete" THEN OthersJoined(i, MAIN) # {} ELSE Others(i, MAIN) # {}
    /\ UNCHANGED <<header, conn, writer, sidecars, unclean>>

Goto(i, place) == at' = [at EXCEPT ![i] = place]

-----------------------------------------------------------------------------
(* main().                                                                 *)

Start(i) ==
    /\ at[i] = "off"
    /\ \E mode \in Modes, p \in Ports :
          asked' = [asked EXCEPT ![i] = mode] /\ port' = [port EXCEPT ![i] = p]
    /\ overruled' = [overruled EXCEPT ![i] = "no"]
    /\ Statement(i, MAIN)
    /\ Goto(i, "opened")
    /\ UNCHANGED kills

\* Variant: the mode that has come out is not looked at.
ApplyUnverified(i) ==
    /\ at[i] = "opened"
    /\ \/ header = asked[i] /\ Statement(i, MAIN) /\ Goto(i, "applied")
       \/ BeginSwitch(i) /\ Goto(i, "switching")
       \/ SwitchRefused(i) /\ Goto(i, "applied")
    /\ UNCHANGED <<asked, port, kills, overruled>>

\* apply_journal_mode: the mode is there already, is changed, or is refused.
Apply(i) ==
    /\ at[i] = "opened"
    /\ \/ header = asked[i] /\ Statement(i, MAIN) /\ Goto(i, "applied")
       \/ BeginSwitch(i) /\ Goto(i, "switching")
       \/ SwitchRefused(i) /\ Goto(i, "refused")
    /\ UNCHANGED <<asked, port, kills, overruled>>

\* The mode has changed, for everybody.
EndSwitch(i) ==
    /\ at[i] = "switching"
    /\ EndTransaction(i, MAIN)
    /\ header' = asked[i]
    /\ conn' = [conn EXCEPT ![i][MAIN] = IF asked[i] = "wal" THEN "joined" ELSE "idle"]
    /\ sidecars' = IF asked[i] = "wal" THEN {"-wal"} ELSE {}
    /\ overruled' = [j \in Instances |->
                        IF j = i \/ at[j] \in {"off", "opened"} \/ overruled[j] # "no"
                        THEN overruled[j]
                        ELSE IF ~\E p \in Processes : Connected(j, p) THEN "early"
                        ELSE IF at[j] = "serving" THEN "running"
                        ELSE "late"]
    /\ Goto(i, "applied")
    /\ UNCHANGED <<asked, port, kills>>

EndApply(i) ==
    /\ at[i] \in {"applied", "refused"}
    /\ Close(i, MAIN)
    /\ Goto(i, IF at[i] = "applied" THEN "check" ELSE "off")
    /\ UNCHANGED <<asked, port, kills, overruled>>

\* check_site, with a connection of its own.
BeginCheck(i) ==
    /\ at[i] = "check"
    /\ Statement(i, MAIN)
    /\ Goto(i, "checking")
    /\ UNCHANGED <<asked, port, kills, overruled>>

EndCheck(i) ==
    /\ at[i] = "checking"
    /\ Close(i, MAIN)
    /\ \E place \in {"listen", "off"} : Goto(i, place)
    /\ UNCHANGED <<asked, port, kills, overruled>>

\* A worker that outlives its parent keeps the socket open.
Bound(p) ==
    \E i \in Instances :
        port[i] = p /\ (at[i] \in {"serving", "stopping"} \/ \E w \in Workers : conn[i][w] # "none")

\* Variant: one worker too many.
ForkWorkersOneMore(i) ==
    conn' = [conn EXCEPT ![i] = [p \in 0 .. WORKER_COUNT + 1 |->
                                   IF p = MAIN THEN conn[i][MAIN] ELSE "new"]]

ForkWorkers(i) ==
    conn' = [conn EXCEPT ![i] = [p \in Processes |->
                                   IF p = MAIN THEN conn[i][MAIN] ELSE "new"]]

\* listen_on, and the fork loop.
Listen(i) ==
    /\ at[i] = "listen"
    /\ IF Bound(port[i])
       THEN Goto(i, "off") /\ UNCHANGED conn
       ELSE Goto(i, "serving") /\ ForkWorkers(i)
    /\ UNCHANGED <<header, sidecars, asked, port, writer, kills, unclean, overruled>>

Respawn(i) ==
    /\ at[i] = "serving"
    /\ \E w \in Workers :
          conn[i][w] = "none" /\ conn' = [conn EXCEPT ![i][w] = "new"]
    /\ UNCHANGED <<header, sidecars, at, asked, port, writer, kills, unclean, overruled>>

Terminate(i) ==
    /\ at[i] = "serving"
    /\ Goto(i, "stopping")
    /\ UNCHANGED <<header, sidecars, asked, port, conn, writer, kills, unclean, overruled>>

NoWorkers(i) == \A w \in Workers : conn[i][w] = "none"

MainExits(i) ==
    /\ at[i] \in {"stopping", "dead"}
    /\ NoWorkers(i)
    /\ Goto(i, "off")
    /\ UNCHANGED <<header, sidecars, asked, port, conn, writer, kills, unclean, overruled>>

-----------------------------------------------------------------------------
(* worker_loop().                                                          *)

\* db_open, or a statement of a request.
WorkerUsesFile(i) ==
    /\ \E w \in Workers : conn[i][w] # "none" /\ Statement(i, w)
    /\ UNCHANGED <<at, asked, port, kills, overruled>>

\* An INSERT in delete mode, and its commit or rollback.
WorkerBeginsWrite(i) ==
    /\ header = "delete"
    /\ \E w \in Workers : conn[i][w] # "none" /\ BeginTransaction(i, w)
    /\ UNCHANGED <<at, asked, port, kills, overruled>>

WorkerEndsWrite(i) ==
    /\ \E w \in Workers : EndTransaction(i, w)
    /\ sidecars' = {}
    /\ UNCHANGED <<header, conn, at, asked, port, kills, overruled>>

\* Variant: the worker exits and leaves the connection to the kernel.
WorkerJustExits(i) ==
    /\ \E w \in Workers :
          Connected(i, w) /\ conn' = [conn EXCEPT ![i][w] = "none"]
    /\ UNCHANGED <<header, sidecars, at, asked, port, writer, kills, unclean, overruled>>

\* On SIGTERM, or when accept() fails.
WorkerExits(i) ==
    /\ \E w \in Workers : Connected(i, w) /\ Close(i, w)
    /\ UNCHANGED <<at, asked, port, kills, overruled>>

\* SIGKILL, or a crash, of any process.  A transaction that is cut leaves its
\* journal to roll back; the last user of the WAL leaves the WAL.
Killed(i) ==
    /\ kills < MaxKills
    /\ kills' = kills + 1
    /\ \E p \in Processes :
          /\ IF p = MAIN THEN at[i] \notin {"off", "dead"} ELSE conn[i][p] # "none"
          /\ conn' = [conn EXCEPT ![i][p] = "none"]
          /\ at' = IF p = MAIN THEN [at EXCEPT ![i] = "dead"] ELSE at
          /\ writer' = IF writer = <<i, p>> THEN NOBODY ELSE writer
          /\ unclean' = \/ unclean
                        \/ writer = <<i, p>>
                        \/ conn[i][p] = "joined" /\ OthersJoined(i, p) = {}
    /\ UNCHANGED <<header, sidecars, asked, port, overruled>>

Next == \E i \in Instances :
    \/ Start(i) \/ Apply(i) \/ EndSwitch(i) \/ EndApply(i) \/ BeginCheck(i) \/ EndCheck(i) \/ Listen(i)
    \/ Respawn(i) \/ Terminate(i) \/ MainExits(i)
    \/ WorkerUsesFile(i) \/ WorkerBeginsWrite(i) \/ WorkerEndsWrite(i) \/ WorkerExits(i)
    \/ Killed(i)

Spec == Init /\ [][Next]_vars

-----------------------------------------------------------------------------
\* Every variable stays within the values the code can give it.
TypeOK ==
    /\ header \in Modes
    /\ sidecars \in SUBSET {"-journal", "-wal"}
    /\ at \in [Instances -> MainStates]
    /\ asked \in [Instances -> Modes]
    /\ port \in [Instances -> Ports]
    /\ conn \in [Instances -> [Processes -> ConnStates]]
    /\ writer \in (Instances \X Processes) \cup {NOBODY}
    /\ kills \in 0 .. MaxKills
    /\ unclean \in BOOLEAN
    /\ overruled \in [Instances -> {"no", "early", "late", "running"}]

Someone(state) == \E i \in Instances, p \in Processes : conn[i][p] = state

\* The executable is one file whenever nobody is connected, and in delete mode
\* while it serves, too, but for the length of a write transaction ("exists only
\* for the microseconds of a write transaction"), however instances overlap and
\* whatever order they end in; unless the one to use it last was killed, until
\* the next one comes.
OneFileAtRest ==
    ~unclean =>
        /\ ~Someone("idle") /\ ~Someone("joined") => sidecars = {}
        /\ header = "delete" /\ writer = NOBODY => sidecars = {}

\* A server serves in the mode it was asked for.  The exception is an instance
\* with another mode: it may overrule a server in delete mode at any time, even
\* if it then fails on the port and exits (ModeChangeIsRefused), but one in WAL
\* mode only before that has a connection again after having set the mode.
ServesInItsMode ==
    \A i \in Instances : at[i] = "serving" =>
        /\ header = asked[i] \/ overruled[i] # "no"
        /\ asked[i] = "wal" => overruled[i] \in {"no", "early"}

\* What the server's README says: "A mode change is therefore refused (loudly) if
\* another instance is running".
ModeChangeIsRefused ==
    \A i \in Instances : at[i] = "serving" => overruled[i] # "running"
=============================================================================
