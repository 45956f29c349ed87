------------------------------ MODULE SqliteFile ------------------------------
(***************************************************************************)
(* The SQLite database file that the server's workers share, as far as     *)
(* server.c relies on it: the locks of a rollback journal and of a         *)
(* write-ahead log, snapshots, and commits.  The library itself is outside *)
(* the repository; this module is its contract.                            *)
(*                                                                         *)
(* Rollback journal ("delete"): a writer takes RESERVED beside the readers *)
(* and PENDING when it commits; from then on no reader starts, and the     *)
(* commit happens when the last reader is gone.  Write-ahead log ("wal"):  *)
(* readers keep the commit they started from, and never meet the writer.   *)
(* Either way there is one writer at a time.                               *)
(***************************************************************************)
EXTENDS Integers, Sequences

CONSTANTS Connections, Modes

ASSUME ModesAssumption == Modes \subseteq {"delete", "wal"}

VARIABLES
    journal,    \* journal mode, in the database header
    commits,    \* every committed state of the database, in order
    lock,       \* the lock each connection holds
    snap        \* the commit each reading connection sees; 0 when it reads none

fileVars == <<journal, commits, lock, snap>>

Rows == [visits : Nat, presses : Nat, site : Nat]
Locks == {"none", "shared", "reserved", "pending"}

Now == Len(commits)
Latest == commits[Now]

FileTypeOK ==
    /\ journal \in Modes
    /\ commits \in Seq(Rows) /\ commits # <<>>
    /\ lock \in [Connections -> Locks]
    /\ snap \in [Connections -> 0 .. Now]

FileInit ==
    /\ journal \in Modes
    /\ commits = << [visits |-> 0, presses |-> 0, site |-> 0] >>
    /\ lock = [c \in Connections |-> "none"]
    /\ snap = [c \in Connections |-> 0]

Writing(c) == lock[c] \in {"reserved", "pending"}

\* A statement that reads may start.
CanRead == journal = "wal" \/ \A c \in Connections : lock[c] # "pending"

\* A statement that writes may start.
CanWrite == \A c \in Connections : ~Writing(c)

\* The commit of c may go through.
CanCommit(c) ==
    \/ journal = "wal" /\ lock[c] = "reserved"
    \/ lock[c] = "pending" /\ \A d \in Connections : lock[d] # "shared"

\* First sqlite3_step of a SELECT that is left open.
OpenRead(c) ==
    /\ CanRead
    /\ lock' = [lock EXCEPT ![c] = "shared"]
    /\ snap' = [snap EXCEPT ![c] = Now]
    /\ UNCHANGED <<journal, commits>>

\* sqlite3_finalize of it.
CloseRead(c) ==
    /\ lock' = [lock EXCEPT ![c] = "none"]
    /\ snap' = [snap EXCEPT ![c] = 0]
    /\ UNCHANGED <<journal, commits>>

BeginWrite(c) ==
    /\ CanWrite
    /\ lock' = [lock EXCEPT ![c] = "reserved"]
    /\ UNCHANGED <<journal, commits, snap>>

WaitForReaders(c) ==
    /\ journal = "delete"
    /\ lock[c] = "reserved"
    /\ lock' = [lock EXCEPT ![c] = "pending"]
    /\ UNCHANGED <<journal, commits, snap>>

CommitRow(c, table) ==
    /\ CanCommit(c)
    /\ commits' = Append(commits, [Latest EXCEPT ![table] = @ + 1])
    /\ lock' = [lock EXCEPT ![c] = "none"]
    /\ UNCHANGED <<journal, snap>>

\* SQLITE_BUSY: the statement is rolled back.
Rollback(c) ==
    /\ lock' = [lock EXCEPT ![c] = "none"]
    /\ UNCHANGED <<journal, commits, snap>>
=============================================================================
