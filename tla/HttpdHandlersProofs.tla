------------------------- MODULE HttpdHandlersProofs -------------------------
(***************************************************************************)
(* Type correctness and the six safety invariants of HttpdHandlers, for    *)
(* any number of workers, requests and edits, and in both journal modes.   *)
(*                                                                         *)
(* HandlersInv is inductive.  It says what a worker holds and has read at  *)
(* every place of its handler (WorkerInv), and that the counters of the    *)
(* database only grow (Ordered).  A step of one worker changes nothing     *)
(* that is its neighbours' own, and only appends to the commits, which     *)
(* cannot break WorkerInv of a neighbour (BystanderKeeps); so there is one *)
(* lemma for each action about the worker that takes it (Keeps).  What is  *)
(* special about the write-ahead log is one lemma: no statement of it is   *)
(* ever refused (NoBusyInWal).                                             *)
(***************************************************************************)
EXTENDS HttpdHandlers, SequenceTheorems, TLAPS

\* Nothing that was counted is ever counted less.
Ordered ==
    \A i, j \in 1 .. Now : \A v \in VarNames : i <= j => commits[i][v] <= commits[j][v]

\* The locks a worker may hold at each place, and the commits it looks back to.
LockInv(w) ==
    /\ pc[w] \in {"accept", "read", "count", "stats", "tables", "lookup", "respond"}
          => lock[w] = "none" /\ snap[w] = 0
    /\ pc[w] \in {"visit", "press"} => lock[w] # "shared" /\ snap[w] = 0
    /\ pc[w] \in {"list", "render", "send"}
          => lock[w] = "shared" /\ snap[w] \in began[w] .. Now
    /\ lock[w] = "pending" => journal = "delete"
    /\ pc[w] # "accept" => began[w] \in 1 .. Now

IsPress(w) == req[w].method = "POST" /\ req[w].path = "/api/press"

\* Which request brings a worker where, and what it can be answered from there.
RequestInv(w) ==
    /\ pc[w] \in {"press", "count"} => IsPress(w)
    /\ pc[w] = "stats" => Get(w, "/api/stats")
    /\ pc[w] \in {"tables", "list"} => Get(w, "/api/tables")
    /\ pc[w] \in {"lookup", "render", "send"} => IsRoute(w)
    /\ pc[w] \in {"render", "send"} => status[w] = 200
    /\ pc[w] = "respond" /\ status[w] = 200
          => (Get(w, "/api/stats") \/ Get(w, "/api/tables") \/ IsPress(w))
    /\ pc[w] = "respond" /\ status[w] = 500 => ~pressed[w]
    /\ pc[w] = "respond" /\ status[w] = 200 /\ IsPress(w) => pressed[w]
    /\ pc[w] = "count" => pressed[w]
    /\ pressed[w] => \/ pc[w] = "count"
                     \/ pc[w] = "respond" /\ status[w] = 200 /\ IsPress(w)

\* Where a worker has read some of Vars, and what it has read by then.
Begun == {"stats", "list", "render"}

ReadInv(w) ==
    /\ pc[w] \notin Begun \cup {"send", "respond"} => next[w] = 1 /\ seen[w].visits = Unread
    /\ pc[w] \in {"list", "render"} =>
          \A k \in 1 .. next[w] - 1 : seen[w][Vars[k]] = commits[snap[w]][Vars[k]]
    /\ pc[w] = "send" /\ seen[w].visits # Unread =>
          \A v \in VarNames : seen[w][v] = commits[snap[w]][v]
    /\ pc[w] = "respond" /\ status[w] = 200 /\ Get(w, "/api/tables") /\ seen[w].visits # Unread =>
          \E i \in Since(w) : \A v \in VarNames : seen[w][v] = commits[i][v]

\* What nobody makes wait in WAL mode.
WalInv(w) == journal = "wal" =>
    /\ pc[w] = "stats" =>
          \A k \in 1 .. next[w] - 1 :
             seen[w][Vars[k]] \in commits[began[w]][Vars[k]] .. Latest[Vars[k]]
    /\ pc[w] = "respond" /\ status[w] = 200 /\ Get(w, "/api/stats") =>
          \A v \in VarNames : seen[w][v] \in commits[began[w]][v] .. Latest[v]
    /\ pc[w] = "count" => commits[began[w]].presses + 1 <= Latest.presses
    /\ pc[w] = "respond" /\ pressed[w] =>
          seen[w].presses \in commits[began[w]].presses + 1 .. Latest.presses
    /\ pc[w] = "respond" /\ status[w] = 404 /\ IsRoute(w) =>
          \E i \in Since(w) : ~Exists(req[w].path, commits[i].site)
    /\ pc[w] \notin {"accept", "read", "visit"} /\ ~(pc[w] = "respond" /\ status[w] = 400)
          => visited[w]

WorkerInv(w) == LockInv(w) /\ RequestInv(w) /\ ReadInv(w) /\ WalInv(w)
HandlersInv == TypeOK /\ Ordered /\ \A w \in Workers : WorkerInv(w)

-----------------------------------------------------------------------------
\* The commits that were there are still there, and the database has only more.
Grown ==
    /\ Now \in Nat \ {0} /\ Now' \in Nat /\ Now <= Now'
    /\ \A i \in 1 .. Now : commits'[i] = commits[i]
    /\ \A v \in VarNames : Latest[v] \in Nat /\ Latest'[v] \in Nat /\ Latest[v] <= Latest'[v]

CommitsOK == commits \in Seq(Rows) /\ commits # <<>> /\ Ordered

\* A row is a function of the names of the counters.
LEMMA RowsAreFunctions == Rows = [{"visits", "presses", "site"} -> Nat]
  BY DEF Rows

\* Every committed state has numbers.
LEMMA RowValues ==
    ASSUME CommitsOK
    PROVE  /\ Now \in Nat \ {0}
           /\ \A i \in 1 .. Now : commits[i] \in Rows
           /\ \A i \in 1 .. Now : \A v \in VarNames : commits[i][v] \in Nat
<1>1. Now \in Nat \ {0}
    BY DEF CommitsOK, Now
<1>2. \A i \in 1 .. Now : commits[i] \in Rows
    BY DEF CommitsOK, Now
<1>3. ASSUME NEW i \in 1 .. Now, NEW v \in VarNames
      PROVE  commits[i][v] \in Nat
    BY <1>2, <1>3 DEF Rows, VarNames
<1> QED
    BY <1>1, <1>2, <1>3

\* A step that commits nothing.
LEMMA NoCommit ==
    ASSUME CommitsOK, UNCHANGED commits
    PROVE  CommitsOK' /\ Grown
<1>1. Now \in Nat \ {0} /\ \A v \in VarNames : Latest[v] \in Nat
    BY RowValues DEF Latest
<1>2. Now' = Now /\ Latest' = Latest
    BY DEF Now, Latest
<1>3. CommitsOK'
    BY <1>2 DEF CommitsOK, Ordered
<1> QED
    BY <1>1, <1>2, <1>3 DEF Grown

\* The commit of one row, or of one edit, appends a state that counts it.
LEMMA OneCommit ==
    ASSUME CommitsOK, NEW table \in VarNames,
           commits' = Append(commits, [Latest EXCEPT ![table] = @ + 1])
    PROVE  /\ CommitsOK' /\ Grown
           /\ Latest'[table] = Latest[table] + 1
<1> DEFINE row == [Latest EXCEPT ![table] = @ + 1]
<1>1. /\ Now \in Nat \ {0}
      /\ Latest \in Rows
      /\ \A v \in VarNames : Latest[v] \in Nat
      /\ commits \in Seq(Rows)
    BY RowValues DEF Latest, CommitsOK
<1>2. row \in Rows /\ row[table] = Latest[table] + 1 /\ \A v \in VarNames : Latest[v] <= row[v]
    <2>1. Latest \in [{"visits", "presses", "site"} -> Nat]
        BY <1>1 DEF Rows
    <2>2. ASSUME NEW f \in [VarNames -> Nat]
          PROVE  LET g == [f EXCEPT ![table] = @ + 1]
                 IN /\ g \in [VarNames -> Nat]
                    /\ g[table] = f[table] + 1
                    /\ \A v \in VarNames : f[v] <= g[v]
        OBVIOUS
    <2>3. row \in [{"visits", "presses", "site"} -> Nat]
        BY <2>1, <2>2 DEF VarNames
    <2>4. row[table] = Latest[table] + 1 /\ \A v \in VarNames : Latest[v] <= row[v]
        BY <2>1, <2>2 DEF VarNames
    <2> QED
        BY <2>3, <2>4, RowsAreFunctions
<1>3. commits' = Append(commits, row)
    OBVIOUS
<1> HIDE DEF row
<1>4. /\ commits' \in Seq(Rows)
      /\ Len(commits') = Now + 1
      /\ commits'[Now + 1] = row
      /\ \A i \in 1 .. Now : commits'[i] = commits[i]
    BY <1>1, <1>2, <1>3, AppendProperties DEF Now
<1>5. Now' = Now + 1 /\ Latest' = row
    BY <1>4 DEF Now, Latest
<1>6. \A v \in VarNames : row[v] \in Nat
    BY <1>2 DEF Rows, VarNames
<1>7. Ordered'
    <2>1. ASSUME NEW i \in 1 .. Now + 1, NEW j \in 1 .. Now + 1, NEW v \in VarNames, i <= j
          PROVE  commits'[i][v] <= commits'[j][v]
        <3>1. \A k \in 1 .. Now : commits[k][v] \in Nat
            BY RowValues
        <3>2. \A k \in 1 .. Now : commits[k][v] <= Latest[v]
            <4>1. Now \in 1 .. Now /\ \A k \in 1 .. Now : k <= Now
                BY <1>1
            <4> QED
                BY <4>1 DEF CommitsOK, Ordered, Latest
        <3>3. Latest[v] \in Nat /\ row[v] \in Nat /\ Latest[v] <= row[v]
            BY <1>1, <1>2, <1>6
        <3>4. CASE j = Now + 1 /\ i = Now + 1
            BY <1>4, <3>3, <3>4
        <3>5. CASE j = Now + 1 /\ i \in 1 .. Now
            <4>1. commits'[j] = row /\ commits'[i] = commits[i]
                BY <1>4, <3>5
            <4>2. commits[i][v] \in Nat /\ commits[i][v] <= Latest[v]
                BY <3>1, <3>2, <3>5
            <4>3. commits[i][v] <= row[v]
                BY <3>3, <4>2
            <4> QED
                BY <4>1, <4>3
        <3>6. CASE j \in 1 .. Now
            <4>1. i \in 1 .. Now
                BY <1>1, <2>1, <3>6
            <4>2. commits[i][v] <= commits[j][v]
                BY <2>1, <3>6, <4>1 DEF CommitsOK, Ordered
            <4> QED
                BY <1>4, <3>6, <4>1, <4>2
        <3>7. \/ j = Now + 1 /\ i = Now + 1
              \/ j = Now + 1 /\ i \in 1 .. Now
              \/ j \in 1 .. Now
            BY <1>1, <2>1
        <3> QED
            BY <3>4, <3>5, <3>6, <3>7
    <2> QED
        BY <1>5, <2>1 DEF Ordered
<1>8. CommitsOK'
    BY <1>1, <1>4, <1>7 DEF CommitsOK
<1> QED
    BY <1>1, <1>2, <1>4, <1>5, <1>6, <1>8 DEF Grown

\* All that one worker has of its own.
Same(v) ==
    /\ pc'[v] = pc[v] /\ req'[v] = req[v] /\ status'[v] = status[v] /\ seen'[v] = seen[v]
    /\ next'[v] = next[v] /\ visited'[v] = visited[v] /\ pressed'[v] = pressed[v]
    /\ began'[v] = began[v] /\ lock'[v] = lock[v] /\ snap'[v] = snap[v]
    /\ journal' = journal

\* Nothing another worker does can break what is known of a worker: what it has
\* read stays committed, and what it is compared with only grows.
LEMMA BystanderKeeps ==
    ASSUME TypeOK, CommitsOK, Grown, NEW v \in Workers, WorkerInv(v), Same(v)
    PROVE  WorkerInv(v)'
<1> USE DEF Same, WorkerInv, Since
<1>1. /\ Now \in Nat \ {0} /\ Now' \in Nat /\ Now <= Now'
      /\ \A i \in 1 .. Now : commits'[i] = commits[i]
      /\ \A x \in VarNames : Latest[x] \in Nat /\ Latest'[x] \in Nat /\ Latest[x] <= Latest'[x]
    BY DEF Grown
<1>2. LockInv(v)'
    <2>1. pc[v] \in {"list", "render", "send"} => snap[v] \in began[v] .. Now'
        BY <1>1 DEF LockInv, TypeOK, FileTypeOK
    <2>2. pc[v] # "accept" => began[v] \in 1 .. Now'
        BY <1>1 DEF LockInv
    <2> QED
        BY <2>1, <2>2 DEF LockInv
<1>3. RequestInv(v)'
    BY DEF RequestInv, IsPress, Get, IsRoute
<1>4. pc[v] # "accept" => began[v] \in 1 .. Now /\ commits'[began[v]] = commits[began[v]]
    BY <1>1 DEF LockInv
<1>5. pc[v] \in {"list", "render", "send"} => snap[v] \in 1 .. Now /\ commits'[snap[v]] = commits[snap[v]]
    <2>1. ASSUME pc[v] \in {"list", "render", "send"}
          PROVE  snap[v] \in 1 .. Now
        BY <1>1, <1>4, <2>1 DEF LockInv
    <2> QED
        BY <1>1, <2>1
<1>6. ReadInv(v)'
    <2>1. ASSUME pc[v] # "accept", NEW i \in began[v] .. Now
          PROVE  i \in began[v] .. Now' /\ commits'[i] = commits[i]
        BY <1>1, <1>4, <2>1
    <2> QED
        BY <1>5, <2>1 DEF ReadInv, Begun, Get
<1>7. WalInv(v)'
    <2>1. \A k \in 1 .. next[v] - 1 : Vars[k] \in VarNames
        <3>1. next[v] \in 1 .. 3
            BY DEF TypeOK, Vars
        <3>2. Vars[1] \in VarNames /\ Vars[2] \in VarNames
            BY DEF Vars, VarNames
        <3>3. \A k \in 1 .. next[v] - 1 : k = 1 \/ k = 2
            BY <3>1
        <3> QED
            BY <3>2, <3>3
    <2>2. ASSUME NEW x \in VarNames, NEW from \in Int, NEW y \in from .. Latest[x]
          PROVE  y \in from .. Latest'[x]
        BY <1>1
    <2> QED
        <3>1. SUFFICES ASSUME journal = "wal" PROVE WalInv(v)'
            BY DEF WalInv
        <3>2. pc[v] # "accept" => \A x \in VarNames : commits'[began[v]][x] = commits[began[v]][x]
                                                  /\ commits[began[v]][x] \in Int
            BY <1>4, RowValues
        <3>3. ASSUME pc[v] = "stats", NEW k \in 1 .. next[v] - 1
              PROVE  seen[v][Vars[k]] \in commits[began[v]][Vars[k]] .. Latest'[Vars[k]]
            BY <2>1, <2>2, <3>1, <3>2, <3>3 DEF WalInv
        <3>4. ASSUME pc[v] = "respond", status[v] = 200, Get(v, "/api/stats"), NEW x \in VarNames
              PROVE  seen[v][x] \in commits[began[v]][x] .. Latest'[x]
            BY <2>2, <3>1, <3>2, <3>4 DEF WalInv
        <3>5. ASSUME pc[v] = "count"
              PROVE  commits[began[v]].presses + 1 <= Latest'.presses
            <4>1. commits[began[v]].presses + 1 <= Latest.presses
                BY <3>1, <3>5 DEF WalInv
            <4>2. "presses" \in VarNames
                BY DEF VarNames
            <4>3. Latest.presses \in Nat /\ Latest'.presses \in Nat /\ Latest.presses <= Latest'.presses
                BY <1>1, <4>2
            <4>4. commits[began[v]].presses \in Int
                BY <3>2, <3>5, <4>2
            <4> QED
                BY <4>1, <4>3, <4>4
        <3>6. ASSUME pc[v] = "respond", pressed[v]
              PROVE  seen[v].presses \in commits[began[v]].presses + 1 .. Latest'.presses
            <4>1. seen[v].presses \in commits[began[v]].presses + 1 .. Latest.presses
                BY <3>1, <3>6 DEF WalInv
            <4>2. "presses" \in VarNames
                BY DEF VarNames
            <4> QED
                BY <2>2, <3>2, <3>6, <4>1, <4>2
        <3>7. ASSUME pc[v] = "respond", status[v] = 404, IsRoute(v)
              PROVE  \E i \in began[v] .. Now' : ~Exists(req[v].path, commits'[i].site)
            <4>1. PICK i \in began[v] .. Now : ~Exists(req[v].path, commits[i].site)
                BY <3>1, <3>7 DEF WalInv
            <4>2. i \in began[v] .. Now' /\ commits'[i] = commits[i]
                BY <1>1, <1>4, <3>7
            <4> QED
                BY <4>1, <4>2
        <3> QED
            BY <3>1, <3>2, <1>4, <3>3, <3>4, <3>5, <3>6, <3>7 DEF WalInv, Get, IsRoute, VarNames
<1> QED
    BY <1>2, <1>3, <1>6, <1>7

-----------------------------------------------------------------------------
\* What a step of worker w has to show.
Keeps(w) ==
    /\ TypeOK' /\ CommitsOK' /\ Grown
    /\ \A v \in Workers \ {w} : Same(v)
    /\ WorkerInv(w)'

\* The step of one worker, and its bystanders.
LEMMA KeepsIsEnough ==
    ASSUME HandlersInv, NEW w \in Workers, Keeps(w)
    PROVE  HandlersInv'
<1>1. CommitsOK
    BY DEF HandlersInv, CommitsOK, TypeOK, FileTypeOK
<1>2. ASSUME NEW v \in Workers \ {w}
      PROVE  WorkerInv(v)'
    BY <1>1, BystanderKeeps DEF HandlersInv, Keeps
<1> QED
    BY <1>2 DEF HandlersInv, Keeps, CommitsOK

\* The parts of the invariant, one by one.
LEMMA Types ==
    ASSUME HandlersInv
    PROVE  /\ Connections = Workers
           /\ CommitsOK
           /\ journal \in Modes /\ lock \in [Workers -> Locks] /\ snap \in [Workers -> 0 .. Now]
           /\ pc \in [Workers -> States]
           /\ req \in [Workers -> Requests \cup {Idle}]
           /\ status \in [Workers -> {0, 200, 400, 404, 405, 500}]
           /\ seen \in [Workers -> [VarNames -> Int]]
           /\ next \in [Workers -> 1 .. 3]
           /\ visited \in [Workers -> BOOLEAN]
           /\ pressed \in [Workers -> BOOLEAN]
           /\ began \in [Workers -> 0 .. Now]
           /\ arrived \in 0 .. MaxRequests
<1>1. Len(Vars) = 3
    BY DEF Vars
<1> QED
    BY <1>1, HandlersAssumption DEF HandlersInv, TypeOK, FileTypeOK, CommitsOK

\* What is known of one worker.
LEMMA Parts ==
    ASSUME HandlersInv, NEW w \in Workers
    PROVE  /\ CommitsOK
           /\ pc[w] \in States /\ lock[w] \in Locks
           /\ visited[w] \in BOOLEAN /\ pressed[w] \in BOOLEAN
           /\ next[w] \in 1 .. 3
           /\ LockInv(w) /\ RequestInv(w) /\ ReadInv(w) /\ WalInv(w)
    BY Types DEF HandlersInv, WorkerInv

\* read_request succeeds.
LEMMA ReadRequestKeeps ==
    ASSUME HandlersInv, NEW w \in Workers, ReadRequest(w), overdue' \subseteq Workers
    PROVE  Keeps(w)
<1>1. /\ pc[w] = "read"
      /\ pc' = [pc EXCEPT ![w] = "visit"]
      /\ UNCHANGED <<journal, commits, lock, snap, arrived>>
      /\ UNCHANGED <<req, status, seen, next, visited, pressed, began>>
    BY DEF ReadRequest, Goto, fileVars
<1>2. CommitsOK' /\ Grown
    BY <1>1, Parts, NoCommit
<1>3. TypeOK'
    BY <1>1, <1>2, Types DEF TypeOK, FileTypeOK, CommitsOK, States, Now, Vars
<1>4. /\ pc'[w] = "visit"
      /\ \A v \in Workers \ {w} : Same(v)
    BY <1>1, Types DEF Same
<1>5. WorkerInv(w)'
    BY <1>1, <1>4, Parts DEF WorkerInv, LockInv, RequestInv, ReadInv, WalInv, Begun, IsPress, Get, IsRoute, Now, Latest, Since
<1> QED
    BY <1>2, <1>3, <1>4, <1>5 DEF Keeps

\* In WAL mode no statement is refused: readers never wait, and of the writers
\* that wait for each other one is always able to commit.
LEMMA NoBusyInWal ==
    ASSUME HandlersInv, journal = "wal", NEW w \in Workers
    PROVE  ~BusyExpires(w)
<1> SUFFICES ASSUME BusyExpires(w) PROVE FALSE
    OBVIOUS
<1>1. \A v \in Workers : ~ReadBlocked(v) /\ lock[v] # "pending" /\ pc[v] \in States /\ LockInv(v)
    BY Parts DEF ReadBlocked, CanRead, LockInv
<1>2. ASSUME NEW v \in Workers, Blocked(v)
      PROVE  lock[v] = "none" /\ ~CanWrite
    BY <1>1, <1>2 DEF Blocked, InsertBlocked
<1>3. PICK c \in Workers : Writing(c)
    BY <1>2, Types DEF BusyExpires, CanWrite
<1>4. pc[c] \in {"visit", "press"}
    BY <1>1, <1>3 DEF Writing, LockInv, States
<1>5. Blocked(c)
    BY <1>4 DEF BusyExpires
<1> QED
    BY <1>2, <1>3, <1>5 DEF Writing

-----------------------------------------------------------------------------
\* The commits a worker looks back to are there, and count no more than the latest.
LEMMA ValuesAreNumbers ==
    ASSUME HandlersInv, NEW w \in Workers
    PROVE  /\ Now \in Nat \ {0}
           /\ \A v \in VarNames : Latest[v] \in Int
           /\ \A i \in 1 .. Now : \A v \in VarNames : commits[i][v] \in Int
           /\ \A i \in 1 .. Now : \A v \in VarNames : commits[i][v] <= Latest[v]
<1>1. CommitsOK
    BY Parts
<1>2. /\ Now \in Nat \ {0}
      /\ \A i \in 1 .. Now : \A v \in VarNames : commits[i][v] \in Int
    BY <1>1, RowValues
<1>3. Now \in 1 .. Now /\ \A i \in 1 .. Now : i <= Now
    BY <1>2
<1>4. \A i \in 1 .. Now : \A v \in VarNames : commits[i][v] <= Latest[v]
    BY <1>1, <1>3 DEF CommitsOK, Ordered, Latest
<1> QED
    BY <1>2, <1>3, <1>4 DEF Latest

\* Vars lists each name once.
LEMMA VarsAreVarNames ==
    /\ \A k \in 1 .. 3 : Vars[k] \in VarNames
    /\ \A k, l \in 1 .. 3 : Vars[k] = Vars[l] => k = l
    /\ \A v \in VarNames : \E k \in 1 .. 3 : v = Vars[k]
    /\ Len(Vars) = 3
<1>1. Vars[1] = "visits" /\ Vars[2] = "presses" /\ Vars[3] = "site" /\ Len(Vars) = 3
    BY DEF Vars
<1>2. \A k \in 1 .. 3 : k = 1 \/ k = 2 \/ k = 3
    OBVIOUS
<1> HIDE DEF Vars
<1>3. \A v \in VarNames : v = Vars[1] \/ v = Vars[2] \/ v = Vars[3]
    BY <1>1 DEF VarNames
<1>4. 1 \in 1 .. 3 /\ 2 \in 1 .. 3 /\ 3 \in 1 .. 3
    OBVIOUS
<1>5. \A k \in 1 .. 3 : Vars[k] \in VarNames
    BY <1>1, <1>2 DEF VarNames
<1>6. \A k, l \in 1 .. 3 : Vars[k] = Vars[l] => k = l
    BY <1>1, <1>2
<1> QED
    BY <1>1, <1>3, <1>4, <1>5, <1>6

\* See changes one value of one worker.
LEMMA SeeEffect ==
    ASSUME HandlersInv, NEW w \in Workers, NEW name \in VarNames, NEW value \in Int,
           See(w, name, value)
    PROVE  /\ seen' \in [Workers -> [VarNames -> Int]]
           /\ \A v \in Workers \ {w} : seen'[v] = seen[v]
           /\ seen'[w][name] = value
           /\ \A x \in VarNames : x # name => seen'[w][x] = seen[w][x]
<1>1. seen \in [Workers -> [VarNames -> Int]]
    BY Types
<1>2. /\ seen' = [seen EXCEPT ![w] = [seen[w] EXCEPT ![name] = value]]
      /\ [seen[w] EXCEPT ![name] = value] \in [VarNames -> Int]
    BY <1>1 DEF See
<1>3. seen'[w] = [seen[w] EXCEPT ![name] = value]
    BY <1>1, <1>2
<1>4. DOMAIN seen[w] = VarNames
    BY <1>1
<1> QED
    BY <1>1, <1>2, <1>3, <1>4

\* read_request fails.
LEMMA ReadFailsKeeps ==
    ASSUME HandlersInv, NEW w \in Workers, ReadFails(w), overdue' \subseteq Workers
    PROVE  Keeps(w)
<1>1. /\ pc[w] = "read"
      /\ pc' = [pc EXCEPT ![w] = "respond"]
      /\ status' = [status EXCEPT ![w] = 400]
      /\ UNCHANGED <<journal, commits, lock, snap, arrived, req, seen, next, visited, pressed, began>>
    BY DEF ReadFails, Answer, Goto, Choose, fileVars
<1>2. CommitsOK' /\ Grown
    BY <1>1, Parts, NoCommit
<1>3. TypeOK'
    BY <1>1, <1>2, Types DEF TypeOK, FileTypeOK, CommitsOK, States, Locks, Now, Vars, Grown
<1>4. /\ pc'[w] = "respond"
      /\ status'[w] = 400
      /\ \A v \in Workers \ {w} : Same(v)
    BY <1>1, Types DEF Same
<1>5. WorkerInv(w)'
    BY <1>1, <1>4, Parts DEF WorkerInv, LockInv, RequestInv, ReadInv, WalInv, Begun, IsPress, Get, IsRoute, Now, Latest, Since
<1> QED
    BY <1>2, <1>3, <1>4, <1>5 DEF Keeps

\* The INSERT of a press is refused: no row, 500.
LEMMA PressExpiresKeeps ==
    ASSUME HandlersInv, NEW w \in Workers, PressExpires(w), overdue' \subseteq Workers
    PROVE  Keeps(w)
<1>1. /\ pc[w] = "press" /\ BusyExpires(w)
      /\ pc' = [pc EXCEPT ![w] = "respond"]
      /\ status' = [status EXCEPT ![w] = 500]
      /\ lock' = [lock EXCEPT ![w] = "none"]
      /\ UNCHANGED <<journal, commits, snap, arrived, req, seen, next, visited, pressed, began>>
    BY DEF PressExpires, Rollback, Answer, Goto, Choose
<1>2. CommitsOK' /\ Grown
    BY <1>1, Parts, NoCommit
<1>3. TypeOK'
    BY <1>1, <1>2, Types DEF TypeOK, FileTypeOK, CommitsOK, States, Locks, Now, Vars, Grown
<1>4. /\ pc'[w] = "respond"
      /\ status'[w] = 500
      /\ lock'[w] = "none"
      /\ \A v \in Workers \ {w} : Same(v)
    BY <1>1, Types DEF Same
<1>5. journal # "wal"
    BY <1>1, NoBusyInWal
<1>6. WorkerInv(w)'
    BY <1>1, <1>4, <1>5, Parts DEF WorkerInv, LockInv, RequestInv, ReadInv, WalInv, Begun, IsPress, Get, IsRoute, Now, Latest, Since
<1> QED
    BY <1>2, <1>3, <1>4, <1>6 DEF Keeps

\* serve_tables is refused; in WAL mode it never is.
LEMMA TablesExpireKeeps ==
    ASSUME HandlersInv, NEW w \in Workers, TablesExpire(w), overdue' \subseteq Workers
    PROVE  Keeps(w)
<1>1. /\ pc[w] = "tables" /\ BusyExpires(w)
      /\ pc' = [pc EXCEPT ![w] = "respond"]
      /\ status' = [status EXCEPT ![w] = 200]
      /\ UNCHANGED <<journal, commits, lock, snap, arrived, req, seen, next, visited, pressed, began>>
    BY DEF TablesExpire, Answer, Goto, Choose, fileVars
<1>2. CommitsOK' /\ Grown
    BY <1>1, Parts, NoCommit
<1>3. TypeOK'
    BY <1>1, <1>2, Types DEF TypeOK, FileTypeOK, CommitsOK, States, Locks, Now, Vars, Grown
<1>4. /\ pc'[w] = "respond"
      /\ status'[w] = 200
      /\ \A v \in Workers \ {w} : Same(v)
    BY <1>1, Types DEF Same
<1>5. journal # "wal"
    BY <1>1, NoBusyInWal
<1>6. WorkerInv(w)'
    BY <1>1, <1>4, <1>5, Parts DEF WorkerInv, LockInv, RequestInv, ReadInv, WalInv, Begun, IsPress, Get, IsRoute, Now, Latest, Since
<1> QED
    BY <1>2, <1>3, <1>4, <1>6 DEF Keeps

\* serve_route is refused; in WAL mode it never is.
LEMMA LookupExpiresKeeps ==
    ASSUME HandlersInv, NEW w \in Workers, LookupExpires(w), overdue' \subseteq Workers
    PROVE  Keeps(w)
<1>1. /\ pc[w] = "lookup" /\ BusyExpires(w)
      /\ pc' = [pc EXCEPT ![w] = "respond"]
      /\ status' = [status EXCEPT ![w] = 404]
      /\ UNCHANGED <<journal, commits, lock, snap, arrived, req, seen, next, visited, pressed, began>>
    BY DEF LookupExpires, Answer, Goto, Choose, fileVars
<1>2. CommitsOK' /\ Grown
    BY <1>1, Parts, NoCommit
<1>3. TypeOK'
    BY <1>1, <1>2, Types DEF TypeOK, FileTypeOK, CommitsOK, States, Locks, Now, Vars, Grown
<1>4. /\ pc'[w] = "respond"
      /\ status'[w] = 404
      /\ \A v \in Workers \ {w} : Same(v)
    BY <1>1, Types DEF Same
<1>5. journal # "wal"
    BY <1>1, NoBusyInWal
<1>6. WorkerInv(w)'
    BY <1>1, <1>4, <1>5, Parts DEF WorkerInv, LockInv, RequestInv, ReadInv, WalInv, Begun, IsPress, Get, IsRoute, Now, Latest, Since
<1> QED
    BY <1>2, <1>3, <1>4, <1>6 DEF Keeps

\* serve_tables opens its statement on the latest commit.
LEMMA OpenTablesKeeps ==
    ASSUME HandlersInv, NEW w \in Workers, OpenTables(w), overdue' \subseteq Workers
    PROVE  Keeps(w)
<1>1. /\ pc[w] = "tables"
      /\ pc' = [pc EXCEPT ![w] = "list"]
      /\ lock' = [lock EXCEPT ![w] = "shared"]
      /\ snap' = [snap EXCEPT ![w] = Now]
      /\ UNCHANGED <<journal, commits, arrived, req, status, seen, next, visited, pressed, began>>
    BY DEF OpenTables, OpenRead, Goto
<1>2. CommitsOK' /\ Grown
    BY <1>1, Parts, NoCommit
<1>0. Now \in 0 .. Now /\ (pc[w] # "accept" => Now \in began[w] .. Now /\ Latest = commits[Now])
    BY ValuesAreNumbers, Parts DEF Latest, LockInv
<1>3. TypeOK'
    BY <1>1, <1>2, <1>0, Types DEF TypeOK, FileTypeOK, CommitsOK, States, Locks, Now, Vars, Grown
<1>4. /\ pc'[w] = "list"
      /\ lock'[w] = "shared"
      /\ snap'[w] = Now
      /\ \A v \in Workers \ {w} : Same(v)
    BY <1>1, Types DEF Same
<1>5. WorkerInv(w)'
    <2>1. LockInv(w)'
        BY <1>1, <1>4, Parts, <1>0 DEF LockInv, Now
    <2>2. RequestInv(w)'
        BY <1>1, <1>4, Parts, <1>0 DEF RequestInv, IsPress, Get, IsRoute
    <2>3. ReadInv(w)'
        <3>1. next'[w] = 1 /\ \A m \in 1 .. next'[w] - 1 : FALSE
            BY <1>1, Parts DEF ReadInv, Begun
        <3> QED
            BY <1>4, <3>1 DEF ReadInv, Begun
    <2>4. WalInv(w)'
        BY <1>1, <1>4, Parts, <1>0 DEF WalInv, LockInv, ReadInv, RequestInv, IsPress, Get, IsRoute, Now, Latest, Since
    <2> QED
        BY <2>1, <2>2, <2>3, <2>4 DEF WorkerInv
<1> QED
    BY <1>2, <1>3, <1>4, <1>5 DEF Keeps

\* serve_route finds no row in the latest commit.
LEMMA RouteMissingKeeps ==
    ASSUME HandlersInv, NEW w \in Workers, RouteMissing(w), overdue' \subseteq Workers
    PROVE  Keeps(w)
<1>1. /\ pc[w] = "lookup" /\ ~Exists(req[w].path, Latest.site)
      /\ pc' = [pc EXCEPT ![w] = "respond"]
      /\ status' = [status EXCEPT ![w] = 404]
      /\ UNCHANGED <<journal, commits, lock, snap, arrived, req, seen, next, visited, pressed, began>>
    BY DEF RouteMissing, Answer, Goto, Choose, fileVars
<1>2. CommitsOK' /\ Grown
    BY <1>1, Parts, NoCommit
<1>0. Now \in 0 .. Now /\ (pc[w] # "accept" => Now \in began[w] .. Now /\ Latest = commits[Now])
    BY ValuesAreNumbers, Parts DEF Latest, LockInv
<1>3. TypeOK'
    BY <1>1, <1>2, <1>0, Types DEF TypeOK, FileTypeOK, CommitsOK, States, Locks, Now, Vars, Grown
<1>4. /\ pc'[w] = "respond"
      /\ status'[w] = 404
      /\ \A v \in Workers \ {w} : Same(v)
    BY <1>1, Types DEF Same
<1>5. WorkerInv(w)'
    BY <1>1, <1>4, Parts, <1>0 DEF WorkerInv, LockInv, RequestInv, ReadInv, WalInv, Begun, IsPress, Get, IsRoute, Now, Latest, Since
<1> QED
    BY <1>2, <1>3, <1>4, <1>5 DEF Keeps

\* A response without a transaction ends.
LEMMA FinishRespondKeeps ==
    ASSUME HandlersInv, NEW w \in Workers, FinishRespond(w), overdue' \subseteq Workers
    PROVE  Keeps(w)
<1>1. /\ pc[w] = "respond"
      /\ pc' = [pc EXCEPT ![w] = "accept"]
      /\ req' = [req EXCEPT ![w] = Idle]
      /\ status' = [status EXCEPT ![w] = 0]
      /\ seen' = [seen EXCEPT ![w] = NothingRead]
      /\ next' = [next EXCEPT ![w] = 1]
      /\ visited' = [visited EXCEPT ![w] = FALSE]
      /\ pressed' = [pressed EXCEPT ![w] = FALSE]
      /\ began' = [began EXCEPT ![w] = 0]
      /\ UNCHANGED <<journal, commits, lock, snap, arrived>>
    BY DEF FinishRespond, Forget, Goto, fileVars
<1>2. CommitsOK' /\ Grown
    BY <1>1, Parts, NoCommit
<1>0. NothingRead \in [VarNames -> Int] /\ NothingRead.visits = Unread /\ 0 \in 0 .. Now
    BY ValuesAreNumbers DEF NothingRead, Unread, VarNames
<1>3. TypeOK'
    BY <1>1, <1>2, <1>0, Types DEF TypeOK, FileTypeOK, CommitsOK, States, Locks, Now, Vars, Grown
<1>4. /\ pc'[w] = "accept"
      /\ req'[w] = Idle
      /\ status'[w] = 0
      /\ seen'[w] = NothingRead
      /\ next'[w] = 1
      /\ visited'[w] = FALSE
      /\ pressed'[w] = FALSE
      /\ began'[w] = 0
      /\ \A v \in Workers \ {w} : Same(v)
    BY <1>1, Types DEF Same
<1>5. WorkerInv(w)'
    BY <1>1, <1>4, Parts, <1>0 DEF WorkerInv, LockInv, RequestInv, ReadInv, WalInv, Begun, IsPress, Get, IsRoute, Now, Latest, Since
<1> QED
    BY <1>2, <1>3, <1>4, <1>5 DEF Keeps

\* The response of serve_route ends, and its transaction.
LEMMA FinishSendKeeps ==
    ASSUME HandlersInv, NEW w \in Workers, FinishSend(w), overdue' \subseteq Workers
    PROVE  Keeps(w)
<1>1. /\ pc[w] = "send"
      /\ pc' = [pc EXCEPT ![w] = "accept"]
      /\ req' = [req EXCEPT ![w] = Idle]
      /\ status' = [status EXCEPT ![w] = 0]
      /\ seen' = [seen EXCEPT ![w] = NothingRead]
      /\ next' = [next EXCEPT ![w] = 1]
      /\ visited' = [visited EXCEPT ![w] = FALSE]
      /\ pressed' = [pressed EXCEPT ![w] = FALSE]
      /\ began' = [began EXCEPT ![w] = 0]
      /\ lock' = [lock EXCEPT ![w] = "none"]
      /\ snap' = [snap EXCEPT ![w] = 0]
      /\ UNCHANGED <<journal, commits, arrived>>
    BY DEF FinishSend, Forget, CloseRead, Goto
<1>2. CommitsOK' /\ Grown
    BY <1>1, Parts, NoCommit
<1>0. NothingRead \in [VarNames -> Int] /\ NothingRead.visits = Unread /\ 0 \in 0 .. Now
    BY ValuesAreNumbers DEF NothingRead, Unread, VarNames
<1>3. TypeOK'
    BY <1>1, <1>2, <1>0, Types DEF TypeOK, FileTypeOK, CommitsOK, States, Locks, Now, Vars, Grown
<1>4. /\ pc'[w] = "accept"
      /\ req'[w] = Idle
      /\ status'[w] = 0
      /\ seen'[w] = NothingRead
      /\ next'[w] = 1
      /\ visited'[w] = FALSE
      /\ pressed'[w] = FALSE
      /\ began'[w] = 0
      /\ lock'[w] = "none"
      /\ snap'[w] = 0
      /\ \A v \in Workers \ {w} : Same(v)
    BY <1>1, Types DEF Same
<1>5. WorkerInv(w)'
    BY <1>1, <1>4, Parts, <1>0 DEF WorkerInv, LockInv, RequestInv, ReadInv, WalInv, Begun, IsPress, Get, IsRoute, Now, Latest, Since
<1> QED
    BY <1>2, <1>3, <1>4, <1>5 DEF Keeps

\* An INSERT takes the write lock.
LEMMA InsertBeginsKeeps ==
    ASSUME HandlersInv, NEW w \in Workers, InsertBegins(w), overdue' \subseteq Workers
    PROVE  Keeps(w)
<1>1. /\ pc[w] \in {"visit", "press"}
      /\ lock' = [lock EXCEPT ![w] = "reserved"]
      /\ UNCHANGED <<journal, commits, snap, arrived, pc, req, status, seen, next, visited, pressed, began>>
    BY DEF InsertBegins, Inserting, BeginWrite, workerVars
<1>2. CommitsOK' /\ Grown
    BY <1>1, Parts, NoCommit
<1>3. TypeOK'
    BY <1>1, <1>2, Types DEF TypeOK, FileTypeOK, CommitsOK, States, Locks, Now, Vars, Grown
<1>4. /\ lock'[w] = "reserved"
      /\ \A v \in Workers \ {w} : Same(v)
    BY <1>1, Types DEF Same
<1>5. WorkerInv(w)'
    BY <1>1, <1>4, Parts DEF WorkerInv, LockInv, RequestInv, ReadInv, WalInv, Begun, IsPress, Get, IsRoute, Now, Latest, Since
<1> QED
    BY <1>2, <1>3, <1>4, <1>5 DEF Keeps

\* An INSERT of a rollback journal waits for the readers.
LEMMA InsertWaitsKeeps ==
    ASSUME HandlersInv, NEW w \in Workers, InsertWaits(w), overdue' \subseteq Workers
    PROVE  Keeps(w)
<1>1. /\ pc[w] \in {"visit", "press"} /\ journal = "delete"
      /\ lock' = [lock EXCEPT ![w] = "pending"]
      /\ UNCHANGED <<journal, commits, snap, arrived, pc, req, status, seen, next, visited, pressed, began>>
    BY DEF InsertWaits, Inserting, WaitForReaders, workerVars
<1>2. CommitsOK' /\ Grown
    BY <1>1, Parts, NoCommit
<1>3. TypeOK'
    BY <1>1, <1>2, Types DEF TypeOK, FileTypeOK, CommitsOK, States, Locks, Now, Vars, Grown
<1>4. /\ lock'[w] = "pending"
      /\ \A v \in Workers \ {w} : Same(v)
    BY <1>1, Types DEF Same
<1>5. WorkerInv(w)'
    BY <1>1, <1>4, Parts DEF WorkerInv, LockInv, RequestInv, ReadInv, WalInv, Begun, IsPress, Get, IsRoute, Now, Latest, Since
<1> QED
    BY <1>2, <1>3, <1>4, <1>5 DEF Keeps

-----------------------------------------------------------------------------
\* worker_loop accepts a connection: began is the latest commit.
LEMMA ArriveKeeps ==
    ASSUME HandlersInv, NEW w \in Workers, Arrive(w), UNCHANGED overdue
    PROVE  Keeps(w)
<1>1. PICK r \in Requests : req' = [req EXCEPT ![w] = r]
    BY DEF Arrive
<1>2. /\ pc[w] = "accept"
      /\ pc' = [pc EXCEPT ![w] = "read"]
      /\ began' = [began EXCEPT ![w] = Now]
      /\ arrived < MaxRequests /\ arrived' = arrived + 1
      /\ UNCHANGED <<journal, commits, lock, snap, status, seen, next, visited, pressed>>
    BY DEF Arrive, Goto, fileVars
<1>3. CommitsOK' /\ Grown
    BY <1>2, Parts, NoCommit
<1>4. Now \in Nat \ {0} /\ Now \in 0 .. Now
    BY ValuesAreNumbers
<1>5. TypeOK'
    <2>1. arrived' \in 0 .. MaxRequests
        BY <1>2, Types, HandlersAssumption
    <2>2. overdue' \subseteq Workers
        BY DEF HandlersInv, TypeOK
    <2> QED
        BY <1>1, <1>2, <1>3, <1>4, <2>1, <2>2, Types
           DEF TypeOK, FileTypeOK, CommitsOK, States, Now, Vars, Grown
<1>6. /\ pc'[w] = "read" /\ began'[w] = Now
      /\ \A v \in Workers \ {w} : Same(v)
    BY <1>1, <1>2, Types DEF Same
<1>7. WorkerInv(w)'
    BY <1>2, <1>4, <1>6, Parts
       DEF WorkerInv, LockInv, RequestInv, ReadInv, WalInv, Begun, Now
<1> QED
    BY <1>3, <1>5, <1>6, <1>7 DEF Keeps

\* Where handle goes after record_visit, request by request.
LEMMA DispatchEffect ==
    ASSUME HandlersInv, NEW w \in Workers, Dispatch(w, req[w])
    PROVE  /\ pc' \in [Workers -> States]
           /\ status' \in [Workers -> {0, 200, 400, 404, 405, 500}]
           /\ \A v \in Workers \ {w} : pc'[v] = pc[v] /\ status'[v] = status[v]
           /\ \/ pc'[w] = "press" /\ IsPress(w)
              \/ pc'[w] = "respond" /\ status'[w] \in {404, 405} /\ ~IsRoute(w)
              \/ pc'[w] = "stats" /\ Get(w, "/api/stats")
              \/ pc'[w] = "tables" /\ Get(w, "/api/tables")
              \/ pc'[w] = "lookup" /\ IsRoute(w)
<1> USE DEF Goto, Choose, Answer, Get, IsRoute, IsPress
<1>0. /\ pc \in [Workers -> States]
      /\ status \in [Workers -> {0, 200, 400, 404, 405, 500}]
    BY Types
<1>1. CASE req[w].method = "POST" /\ req[w].path = "/api/press"
    <2>1. pc' = [pc EXCEPT ![w] = "press"] /\ status' = status
        BY <1>1 DEF Dispatch
    <2> QED
        BY <1>0, <1>1, <2>1 DEF States
<1>2. CASE req[w].method = "POST" /\ req[w].path # "/api/press"
    <2>1. pc' = [pc EXCEPT ![w] = "respond"] /\ status' = [status EXCEPT ![w] = 404]
        BY <1>2 DEF Dispatch
    <2> QED
        BY <1>0, <1>2, <2>1 DEF States
<1>3. CASE req[w].method \notin {"GET", "HEAD", "POST"}
    <2>1. pc' = [pc EXCEPT ![w] = "respond"] /\ status' = [status EXCEPT ![w] = 405]
        BY <1>3 DEF Dispatch
    <2> QED
        BY <1>0, <1>3, <2>1 DEF States
<1>4. CASE req[w].method \in {"GET", "HEAD"}
    <2>1. status' = status
        BY <1>4 DEF Dispatch
    <2>2. CASE req[w].path = "/api/stats"
        <3>1. pc' = [pc EXCEPT ![w] = "stats"]
            BY <1>4, <2>2 DEF Dispatch
        <3> QED
            BY <1>0, <1>4, <2>1, <2>2, <3>1 DEF States
    <2>3. CASE req[w].path = "/api/tables"
        <3>1. pc' = [pc EXCEPT ![w] = "tables"]
            BY <1>4, <2>3 DEF Dispatch
        <3> QED
            BY <1>0, <1>4, <2>1, <2>3, <3>1 DEF States
    <2>4. CASE req[w].path \notin {"/api/stats", "/api/tables"}
        <3>1. pc' = [pc EXCEPT ![w] = "lookup"]
            BY <1>4, <2>4 DEF Dispatch
        <3> QED
            BY <1>0, <1>4, <2>1, <2>4, <3>1 DEF States
    <2> QED
        BY <2>2, <2>3, <2>4
<1> QED
    BY <1>1, <1>2, <1>3, <1>4

\* record_visit commits, then handle chooses a route.
LEMMA VisitRecordedKeeps ==
    ASSUME HandlersInv, NEW w \in Workers, VisitRecorded(w), overdue' \subseteq Workers
    PROVE  Keeps(w)
<1>1. /\ pc[w] = "visit"
      /\ commits' = Append(commits, [Latest EXCEPT !["visits"] = @ + 1])
      /\ lock' = [lock EXCEPT ![w] = "none"]
      /\ visited' = [visited EXCEPT ![w] = TRUE]
      /\ Dispatch(w, req[w])
      /\ UNCHANGED <<journal, snap, arrived, req, seen, next, pressed, began>>
    BY DEF VisitRecorded, CommitRow
<1>2. CommitsOK' /\ Grown
    <2>1. "visits" \in VarNames
        BY DEF VarNames
    <2> QED
        BY <1>1, <2>1, Parts, OneCommit
<1>3. Now' \in Nat /\ Now \in Nat /\ Now <= Now'
    BY <1>2 DEF Grown
<1>4. TypeOK'
    BY <1>1, <1>2, <1>3, DispatchEffect, Types
       DEF TypeOK, FileTypeOK, CommitsOK, Locks, Vars
<1>5. /\ lock'[w] = "none" /\ visited'[w] = TRUE
      /\ \A v \in Workers \ {w} : Same(v)
    BY <1>1, DispatchEffect, Types DEF Same
<1>6. WorkerInv(w)'
    BY <1>1, <1>3, <1>5, DispatchEffect, Parts
       DEF WorkerInv, LockInv, RequestInv, ReadInv, WalInv, Begun, IsPress, Get, IsRoute
<1> QED
    BY <1>2, <1>4, <1>5, <1>6 DEF Keeps

\* record_visit is refused; in WAL mode it never is.
LEMMA VisitExpiresKeeps ==
    ASSUME HandlersInv, NEW w \in Workers, VisitExpires(w), overdue' \subseteq Workers
    PROVE  Keeps(w)
<1>1. /\ pc[w] = "visit" /\ BusyExpires(w)
      /\ lock' = [lock EXCEPT ![w] = "none"]
      /\ Dispatch(w, req[w])
      /\ UNCHANGED <<journal, commits, snap, arrived, req, seen, next, visited, pressed, began>>
    BY DEF VisitExpires, Rollback
<1>2. CommitsOK' /\ Grown
    BY <1>1, Parts, NoCommit
<1>3. TypeOK'
    BY <1>1, <1>2, DispatchEffect, Types DEF TypeOK, FileTypeOK, CommitsOK, Locks, Vars, Now
<1>4. /\ lock'[w] = "none"
      /\ \A v \in Workers \ {w} : Same(v)
    BY <1>1, DispatchEffect, Types DEF Same
<1>5. journal # "wal"
    BY <1>1, NoBusyInWal
<1>6. WorkerInv(w)'
    <2>1. LockInv(w)'
        BY <1>1, <1>4, DispatchEffect, Parts DEF LockInv, Now
    <2>2. RequestInv(w)'
        BY <1>1, DispatchEffect, Parts DEF RequestInv, IsPress, Get, IsRoute
    <2>3. next'[w] = 1 /\ seen'[w].visits = Unread /\ \A m \in 1 .. next'[w] - 1 : FALSE
        BY <1>1, Parts DEF ReadInv, Begun
    <2>4. ReadInv(w)'
        BY <1>1, <2>3, DispatchEffect DEF ReadInv, Begun
    <2>5. WalInv(w)'
        BY <1>1, <1>5 DEF WalInv
    <2> QED
        BY <2>1, <2>2, <2>4, <2>5 DEF WorkerInv
<1> QED
    BY <1>2, <1>3, <1>4, <1>6 DEF Keeps

\* serve_press commits its row: the latest count is above that of any commit
\* there was when the request arrived.
LEMMA PressRecordedKeeps ==
    ASSUME HandlersInv, NEW w \in Workers, PressRecorded(w), overdue' \subseteq Workers
    PROVE  Keeps(w)
<1>1. /\ pc[w] = "press"
      /\ commits' = Append(commits, [Latest EXCEPT !["presses"] = @ + 1])
      /\ lock' = [lock EXCEPT ![w] = "none"]
      /\ pressed' = [pressed EXCEPT ![w] = TRUE]
      /\ pc' = [pc EXCEPT ![w] = "count"]
      /\ UNCHANGED <<journal, snap, arrived, req, status, seen, next, visited, began>>
    BY DEF PressRecorded, CommitRow, Goto
<1>2. CommitsOK' /\ Grown /\ Latest'["presses"] = Latest["presses"] + 1
    <2>1. "presses" \in VarNames
        BY DEF VarNames
    <2> QED
        BY <1>1, <2>1, Parts, OneCommit
<1>3. Now' \in Nat /\ Now \in Nat /\ Now <= Now'
    BY <1>2 DEF Grown
<1>4. TypeOK'
    BY <1>1, <1>2, <1>3, Types DEF TypeOK, FileTypeOK, CommitsOK, Locks, States, Vars
<1>5. /\ lock'[w] = "none" /\ pressed'[w] = TRUE /\ pc'[w] = "count"
      /\ \A v \in Workers \ {w} : Same(v)
    BY <1>1, Types DEF Same
<1>6. WorkerInv(w)'
    <2>1. LockInv(w)'
        BY <1>1, <1>3, <1>5, Parts DEF LockInv
    <2>2. RequestInv(w)' /\ ReadInv(w)'
        <3>1. RequestInv(w)'
            BY <1>1, <1>5, Parts DEF RequestInv, IsPress
        <3>2. next'[w] = 1 /\ seen'[w].visits = Unread
            BY <1>1, Parts DEF ReadInv, Begun
        <3>3. ReadInv(w)'
            BY <1>5, <3>2 DEF ReadInv, Begun
        <3> QED
            BY <3>1, <3>3
    <2>3. commits'[began'[w]].presses + 1 <= Latest'.presses
        <3>1. began[w] \in 1 .. Now /\ began'[w] = began[w]
            BY <1>1, Parts DEF LockInv
        <3>2. commits'[began[w]] = commits[began[w]]
            BY <1>2, <3>1 DEF Grown
        <3>3. "presses" \in VarNames
            BY DEF VarNames
        <3>4. /\ commits[began[w]].presses <= Latest.presses
              /\ commits[began[w]].presses \in Int /\ Latest.presses \in Int
            BY <3>1, <3>3, ValuesAreNumbers
        <3> QED
            BY <1>2, <3>1, <3>2, <3>4
    <2>4. WalInv(w)'
        BY <1>1, <1>5, <2>3, Parts DEF WalInv
    <2> QED
        BY <2>1, <2>2, <2>4 DEF WorkerInv
<1> QED
    BY <1>2, <1>4, <1>5, <1>6 DEF Keeps

\* The count of a press that is recorded.
LEMMA CountPressesKeeps ==
    ASSUME HandlersInv, NEW w \in Workers, CountPresses(w), overdue' \subseteq Workers
    PROVE  Keeps(w)
<1>1. /\ pc[w] = "count"
      /\ See(w, "presses", Latest.presses)
      /\ pc' = [pc EXCEPT ![w] = "respond"]
      /\ status' = [status EXCEPT ![w] = 200]
      /\ UNCHANGED <<journal, commits, lock, snap, arrived, req, next, visited, pressed, began>>
    BY DEF CountPresses, Answer, Goto, Choose, fileVars
<1>2. CommitsOK' /\ Grown
    BY <1>1, Parts, NoCommit
<1>3. "presses" \in VarNames /\ "visits" \in VarNames /\ "visits" # "presses"
    BY DEF VarNames
<1>4. Latest.presses \in Int
    BY <1>3, ValuesAreNumbers
<1>5. /\ seen' \in [Workers -> [VarNames -> Int]]
      /\ \A v \in Workers \ {w} : seen'[v] = seen[v]
      /\ seen'[w].presses = Latest.presses
    BY <1>1, <1>3, <1>4, SeeEffect
<1>6. TypeOK'
    BY <1>1, <1>2, <1>5, Types DEF TypeOK, FileTypeOK, CommitsOK, States, Vars, Now
<1>7. /\ pc'[w] = "respond" /\ status'[w] = 200
      /\ \A v \in Workers \ {w} : Same(v)
    BY <1>1, <1>5, Types DEF Same
<1>8. WorkerInv(w)'
    <2>1. LockInv(w)' /\ RequestInv(w)'
        BY <1>1, <1>7, Parts DEF LockInv, RequestInv, IsPress, Get, IsRoute, Now
    <2>4. IsPress(w)' /\ ~Get(w, "/api/tables")' /\ ~Get(w, "/api/stats")' /\ ~IsRoute(w)'
        BY <1>1, Parts DEF RequestInv, IsPress, Get, IsRoute
    <2>5. ReadInv(w)'
        BY <1>7, <2>4 DEF ReadInv, Begun
    <2>2. began[w] \in 1 .. Now /\ commits[began[w]].presses \in Int
        BY <1>1, <1>3, Parts, ValuesAreNumbers DEF LockInv
    <2>6. ASSUME journal = "wal"
          PROVE  seen'[w].presses \in commits[began[w]].presses + 1 .. Latest.presses
        BY <1>1, <1>4, <1>5, <2>2, <2>6, Parts DEF WalInv
    <2>7. journal' = journal /\ Latest' = Latest /\ commits'[began'[w]] = commits[began[w]]
          /\ visited'[w] = visited[w]
        BY <1>1 DEF Latest, Now
    <2>3. WalInv(w)'
        BY <1>1, <1>7, <2>4, <2>6, <2>7, Parts DEF WalInv
    <2> QED
        BY <2>1, <2>3, <2>5 DEF WorkerInv
<1> QED
    BY <1>2, <1>6, <1>7, <1>8 DEF Keeps

\* The count is refused; in WAL mode it never is.
LEMMA CountExpiresKeeps ==
    ASSUME HandlersInv, NEW w \in Workers, CountExpires(w), overdue' \subseteq Workers
    PROVE  Keeps(w)
<1>1. /\ pc[w] = "count" /\ BusyExpires(w)
      /\ See(w, "presses", 0)
      /\ pc' = [pc EXCEPT ![w] = "respond"]
      /\ status' = [status EXCEPT ![w] = 200]
      /\ UNCHANGED <<journal, commits, lock, snap, arrived, req, next, visited, pressed, began>>
    BY DEF CountExpires, Answer, Goto, Choose, fileVars
<1>2. CommitsOK' /\ Grown
    BY <1>1, Parts, NoCommit
<1>3. "presses" \in VarNames /\ 0 \in Int
    BY DEF VarNames
<1>4. /\ seen' \in [Workers -> [VarNames -> Int]]
      /\ \A v \in Workers \ {w} : seen'[v] = seen[v]
    BY <1>1, <1>3, SeeEffect
<1>5. TypeOK'
    BY <1>1, <1>2, <1>4, Types DEF TypeOK, FileTypeOK, CommitsOK, States, Vars, Now
<1>6. /\ pc'[w] = "respond" /\ status'[w] = 200
      /\ \A v \in Workers \ {w} : Same(v)
    BY <1>1, <1>4, Types DEF Same
<1>7. journal # "wal"
    BY <1>1, NoBusyInWal
<1>8. WorkerInv(w)'
    BY <1>1, <1>6, <1>7, Parts
       DEF WorkerInv, LockInv, RequestInv, ReadInv, WalInv, Begun, IsPress, Get, IsRoute, Now
<1> QED
    BY <1>2, <1>5, <1>6, <1>8 DEF Keeps

-----------------------------------------------------------------------------
\* What reading the next of Vars leaves in seen.
LEMMA SeeNext ==
    ASSUME HandlersInv, NEW w \in Workers, NEW value \in Int,
           See(w, Vars[next[w]], value)
    PROVE  /\ seen' \in [Workers -> [VarNames -> Int]]
           /\ \A v \in Workers \ {w} : seen'[v] = seen[v]
           /\ seen'[w][Vars[next[w]]] = value
           /\ \A k \in 1 .. next[w] - 1 : seen'[w][Vars[k]] = seen[w][Vars[k]]
<1>1. next[w] \in 1 .. 3
    BY Parts
<1>2. Vars[next[w]] \in VarNames
    BY <1>1, VarsAreVarNames
<1>3. ASSUME NEW k \in 1 .. next[w] - 1
      PROVE  Vars[k] \in VarNames /\ Vars[k] # Vars[next[w]]
    <2>1. k \in 1 .. 3 /\ k # next[w]
        BY <1>1
    <2> QED
        BY <1>1, <2>1, VarsAreVarNames
<1> QED
    BY <1>2, <1>3, SeeEffect

\* A statement of its own for each variable: what is shown has been committed
\* since the request arrived, unless the busy timeout has expired.
LEMMA StatShownKeeps ==
    ASSUME HandlersInv, NEW w \in Workers, pc[w] = "stats", NEW value \in Int,
           StatShown(w, value),
           journal = "wal" => value = Latest[Vars[next[w]]],
           overdue' \subseteq Workers
    PROVE  Keeps(w)
<1>1. /\ See(w, Vars[next[w]], value)
      /\ UNCHANGED <<journal, commits, lock, snap, arrived, req, visited, pressed, began>>
    BY DEF StatShown, fileVars
<1>2. CommitsOK' /\ Grown
    BY <1>1, Parts, NoCommit
<1>3. /\ next[w] \in 1 .. 3
      /\ \A k \in 1 .. next[w] : Vars[k] \in VarNames
    <2>1. next[w] \in 1 .. 3
        BY Parts
    <2>2. \A k \in 1 .. next[w] : k \in 1 .. 3
        BY <2>1
    <2> QED
        BY <2>1, <2>2, VarsAreVarNames
<1>4. /\ seen' \in [Workers -> [VarNames -> Int]]
      /\ \A v \in Workers \ {w} : seen'[v] = seen[v]
    BY <1>1, SeeNext
<1>5. began[w] \in 1 .. Now /\ Get(w, "/api/stats") /\ visited[w] \in BOOLEAN
    BY Parts DEF LockInv, RequestInv
<1>6. ASSUME journal = "wal", NEW k \in 1 .. next[w]
      PROVE  seen'[w][Vars[k]] \in commits[began[w]][Vars[k]] .. Latest[Vars[k]]
    <2>1. CASE k = next[w]
        <3>1. seen'[w][Vars[k]] = Latest[Vars[k]]
            BY <1>1, <1>6, <2>1, SeeNext
        <3>2. /\ commits[began[w]][Vars[k]] \in Int /\ Latest[Vars[k]] \in Int
              /\ commits[began[w]][Vars[k]] <= Latest[Vars[k]]
            BY <1>3, <1>5, <1>6, ValuesAreNumbers
        <3> QED
            BY <3>1, <3>2
    <2>2. CASE k # next[w]
        <3>1. k \in 1 .. next[w] - 1
            BY <1>3, <1>6, <2>2
        <3>2. seen'[w][Vars[k]] = seen[w][Vars[k]]
            BY <1>1, <3>1, SeeNext
        <3> QED
            BY <1>6, <3>1, <3>2, Parts DEF WalInv
    <2> QED
        BY <2>1, <2>2
<1>7. Latest' = Latest /\ Now' = Now /\ commits' = commits
    BY <1>1 DEF Latest, Now
<1>8. CASE LastVar(w)
    <2>1. /\ pc' = [pc EXCEPT ![w] = "respond"]
          /\ status' = [status EXCEPT ![w] = 200]
          /\ next' = next
        BY <1>8 DEF StatShown, Answer, Goto, Choose
    <2>2. TypeOK'
        BY <1>1, <1>2, <1>4, <2>1, Types DEF TypeOK, FileTypeOK, CommitsOK, States, Vars, Now
    <2>3. /\ pc'[w] = "respond" /\ status'[w] = 200
          /\ \A v \in Workers \ {w} : Same(v)
        BY <1>1, <1>4, <2>1, Types DEF Same
    <2>4. LockInv(w)' /\ RequestInv(w)'
        <3>1. LockInv(w)'
            BY <1>1, <1>5, <2>3, Parts DEF LockInv, Now
        <3>2. ~pressed'[w] /\ Get(w, "/api/stats")' /\ ~IsPress(w)'
            BY <1>1, <1>5, Parts DEF RequestInv, IsPress, Get
        <3> QED
            BY <2>3, <3>1, <3>2 DEF RequestInv
    <2>5. /\ ~Get(w, "/api/tables")' /\ ~IsRoute(w)' /\ ~pressed'[w]
          /\ (journal = "wal" => visited'[w])
        BY <1>1, <1>5, Parts DEF Get, IsRoute, RequestInv, WalInv
    <2>6. ASSUME journal = "wal", NEW v \in VarNames
          PROVE  seen'[w][v] \in commits[began[w]][v] .. Latest[v]
        <3>1. next[w] = 3
            BY <1>8, VarsAreVarNames DEF LastVar
        <3>2. PICK k \in 1 .. 3 : v = Vars[k]
            BY VarsAreVarNames
        <3> QED
            BY <1>6, <2>6, <3>1, <3>2
    <2>7. ReadInv(w)' /\ WalInv(w)'
        BY <1>1, <1>7, <2>3, <2>5, <2>6 DEF ReadInv, WalInv, Begun
    <2> QED
        BY <1>2, <2>2, <2>3, <2>4, <2>7 DEF Keeps, WorkerInv
<1>9. CASE ~LastVar(w)
    <2>1. /\ next' = [next EXCEPT ![w] = @ + 1]
          /\ UNCHANGED <<pc, status>>
        BY <1>9 DEF StatShown
    <2>2. next[w] + 1 \in 1 .. 3
        BY <1>3, <1>9, VarsAreVarNames DEF LastVar
    <2>3. TypeOK'
        BY <1>1, <1>2, <1>4, <2>1, <2>2, Types DEF TypeOK, FileTypeOK, CommitsOK, Vars, Now
    <2>4. /\ next'[w] = next[w] + 1 /\ next'[w] - 1 = next[w]
          /\ pc'[w] = "stats" /\ status'[w] = status[w]
          /\ \A v \in Workers \ {w} : Same(v)
        BY <1>1, <1>3, <1>4, <2>1, Types DEF Same
    <2>5. LockInv(w)' /\ RequestInv(w)'
        <3>1. LockInv(w)'
            BY <1>1, <1>5, <2>4, Parts DEF LockInv, Now
        <3>2. ~pressed'[w] /\ Get(w, "/api/stats")'
            BY <1>1, <1>5, Parts DEF RequestInv, Get
        <3> QED
            BY <2>4, <3>1, <3>2 DEF RequestInv
    <2>6. ~pressed'[w] /\ (journal = "wal" => visited'[w])
        BY <1>1, Parts DEF RequestInv, WalInv
    <2>7. ReadInv(w)'
        BY <2>4 DEF ReadInv, Begun
    <2>8. WalInv(w)'
        BY <1>1, <1>6, <1>7, <2>4, <2>6 DEF WalInv
    <2> QED
        BY <1>2, <2>3, <2>4, <2>5, <2>7, <2>8 DEF Keeps, WorkerInv
<1> QED
    BY <1>8, <1>9

\* serve_stats reads one variable.
LEMMA ReadStatKeeps ==
    ASSUME HandlersInv, NEW w \in Workers, ReadStat(w), overdue' \subseteq Workers
    PROVE  Keeps(w)
<1>1. Latest[Vars[next[w]]] \in Int
    BY Parts, VarsAreVarNames, ValuesAreNumbers
<1> QED
    BY <1>1, StatShownKeeps DEF ReadStat

\* serve_stats is refused one; in WAL mode it never is.
LEMMA StatExpiresKeeps ==
    ASSUME HandlersInv, NEW w \in Workers, StatExpires(w), overdue' \subseteq Workers
    PROVE  Keeps(w)
<1>1. journal # "wal"
    BY NoBusyInWal DEF StatExpires
<1>2. 0 \in Int
    OBVIOUS
<1> QED
    BY <1>1, <1>2, StatShownKeeps DEF StatExpires

\* What the open statement of a worker leads to, read by read.
LEMMA SnapshotRead ==
    ASSUME HandlersInv, NEW w \in Workers, pc[w] \in {"list", "render"},
           See(w, Vars[next[w]], commits[snap[w]][Vars[next[w]]]),
           UNCHANGED commits
    PROVE  /\ seen' \in [Workers -> [VarNames -> Int]]
           /\ \A v \in Workers \ {w} : seen'[v] = seen[v]
           /\ next[w] \in 1 .. 3
           /\ \A k \in 1 .. next[w] : seen'[w][Vars[k]] = commits[snap[w]][Vars[k]]
           /\ LastVar(w) => \A v \in VarNames : seen'[w][v] = commits[snap[w]][v]
           /\ ~LastVar(w) => next[w] + 1 \in 1 .. 3
<1>1. next[w] \in 1 .. 3
    BY Parts
<1>2. commits[snap[w]][Vars[next[w]]] \in Int
    <2>1. snap[w] \in 1 .. Now
        BY Parts, ValuesAreNumbers DEF LockInv
    <2> QED
        BY <1>1, <2>1, VarsAreVarNames, ValuesAreNumbers
<1>3. ASSUME NEW k \in 1 .. next[w]
      PROVE  seen'[w][Vars[k]] = commits[snap[w]][Vars[k]]
    <2>1. CASE k = next[w]
        BY <1>2, <2>1, SeeNext
    <2>2. CASE k # next[w]
        <3>1. k \in 1 .. next[w] - 1
            BY <1>1, <1>3, <2>2
        <3>2. seen'[w][Vars[k]] = seen[w][Vars[k]]
            BY <1>2, <3>1, SeeNext
        <3> QED
            BY <3>1, <3>2, Parts DEF ReadInv
    <2> QED
        BY <2>1, <2>2
<1>4. ASSUME LastVar(w), NEW v \in VarNames
      PROVE  seen'[w][v] = commits[snap[w]][v]
    <2>1. next[w] = 3
        BY <1>4, VarsAreVarNames DEF LastVar
    <2>2. PICK k \in 1 .. 3 : v = Vars[k]
        BY VarsAreVarNames
    <2> QED
        BY <1>3, <2>1, <2>2
<1>5. ~LastVar(w) => next[w] + 1 \in 1 .. 3
    BY <1>1, VarsAreVarNames DEF LastVar
<1> QED
    BY <1>1, <1>2, <1>3, <1>4, <1>5, SeeNext

\* render reads one variable.
LEMMA RenderVarKeeps ==
    ASSUME HandlersInv, NEW w \in Workers, RenderVar(w), overdue' \subseteq Workers
    PROVE  Keeps(w)
<1>1. /\ pc[w] = "render"
      /\ See(w, Vars[next[w]], commits[snap[w]][Vars[next[w]]])
      /\ UNCHANGED <<journal, commits, lock, snap, arrived, req, status, visited, pressed, began>>
    BY DEF RenderVar, fileVars
<1>2. CommitsOK' /\ Grown
    BY <1>1, Parts, NoCommit
<1>3. /\ seen' \in [Workers -> [VarNames -> Int]]
      /\ \A v \in Workers \ {w} : seen'[v] = seen[v]
      /\ next[w] \in 1 .. 3
      /\ \A k \in 1 .. next[w] : seen'[w][Vars[k]] = commits[snap[w]][Vars[k]]
    BY <1>1, SnapshotRead
<1>4. commits' = commits /\ snap'[w] = snap[w]
    BY <1>1
<1>5. CASE LastVar(w)
    <2>1. pc' = [pc EXCEPT ![w] = "send"] /\ next' = next
        BY <1>5 DEF RenderVar, Goto
    <2>2. TypeOK'
        BY <1>1, <1>2, <1>3, <2>1, Types DEF TypeOK, FileTypeOK, CommitsOK, States, Vars, Now
    <2>3. pc'[w] = "send" /\ \A v \in Workers \ {w} : Same(v)
        BY <1>1, <1>3, <2>1, Types DEF Same
    <2>4. LockInv(w)' /\ RequestInv(w)'
        BY <1>1, <2>3, Parts DEF LockInv, RequestInv, IsPress, Get, IsRoute, Now
    <2>5. ReadInv(w)'
        BY <1>1, <1>4, <1>5, <2>3, SnapshotRead DEF ReadInv, Begun
    <2>6. WalInv(w)'
        BY <1>1, <2>3, Parts DEF WalInv
    <2> QED
        BY <1>2, <2>2, <2>3, <2>4, <2>5, <2>6 DEF Keeps, WorkerInv
<1>6. CASE ~LastVar(w)
    <2>1. next' = [next EXCEPT ![w] = @ + 1] /\ pc' = pc
        BY <1>6 DEF RenderVar
    <2>2. next[w] + 1 \in 1 .. 3
        BY <1>1, <1>6, SnapshotRead
    <2>3. TypeOK'
        BY <1>1, <1>2, <1>3, <2>1, <2>2, Types DEF TypeOK, FileTypeOK, CommitsOK, Vars, Now
    <2>4. /\ next'[w] - 1 = next[w] /\ pc'[w] = "render"
          /\ \A v \in Workers \ {w} : Same(v)
        BY <1>1, <1>3, <2>1, Types DEF Same
    <2>5. LockInv(w)' /\ RequestInv(w)'
        BY <1>1, <2>4, Parts DEF LockInv, RequestInv, IsPress, Get, IsRoute, Now
    <2>6. ReadInv(w)'
        BY <1>3, <1>4, <2>4 DEF ReadInv, Begun
    <2>7. WalInv(w)'
        BY <1>1, <2>4, Parts DEF WalInv
    <2> QED
        BY <1>2, <2>3, <2>4, <2>5, <2>6, <2>7 DEF Keeps, WorkerInv
<1> QED
    BY <1>5, <1>6

\* serve_tables counts one table.
LEMMA CountTableKeeps ==
    ASSUME HandlersInv, NEW w \in Workers, CountTable(w), overdue' \subseteq Workers
    PROVE  Keeps(w)
<1>1. /\ pc[w] = "list"
      /\ See(w, Vars[next[w]], commits[snap[w]][Vars[next[w]]])
      /\ UNCHANGED <<journal, commits, arrived, req, visited, pressed, began>>
    BY DEF CountTable, CloseRead, fileVars
<1>2. CommitsOK' /\ Grown
    BY <1>1, Parts, NoCommit
<1>3. /\ seen' \in [Workers -> [VarNames -> Int]]
      /\ \A v \in Workers \ {w} : seen'[v] = seen[v]
      /\ next[w] \in 1 .. 3
      /\ \A k \in 1 .. next[w] : seen'[w][Vars[k]] = commits[snap[w]][Vars[k]]
    BY <1>1, SnapshotRead
<1>4. /\ snap[w] \in began[w] .. Now /\ began[w] \in 1 .. Now
      /\ Get(w, "/api/tables") /\ ~pressed[w]
      /\ (journal = "wal" => visited[w])
    BY <1>1, Parts DEF LockInv, RequestInv, WalInv
<1>5. CASE LastVar(w)
    <2>1. /\ lock' = [lock EXCEPT ![w] = "none"]
          /\ snap' = [snap EXCEPT ![w] = 0]
          /\ pc' = [pc EXCEPT ![w] = "respond"]
          /\ status' = [status EXCEPT ![w] = 200]
          /\ next' = next
        BY <1>5 DEF CountTable, CloseRead, Answer, Goto, Choose
    <2>2. 0 \in 0 .. Now
        BY ValuesAreNumbers
    <2>3. TypeOK'
        BY <1>1, <1>2, <1>3, <2>1, <2>2, Types
           DEF TypeOK, FileTypeOK, CommitsOK, States, Locks, Vars, Now
    <2>4. /\ pc'[w] = "respond" /\ status'[w] = 200 /\ lock'[w] = "none" /\ snap'[w] = 0
          /\ \A v \in Workers \ {w} : Same(v)
        BY <1>1, <1>3, <2>1, Types DEF Same
    <2>5. LockInv(w)' /\ RequestInv(w)'
        BY <1>1, <1>4, <2>4 DEF LockInv, RequestInv, IsPress, Get, IsRoute, Now
    <2>6. \E i \in Since(w)' : \A v \in VarNames : seen'[w][v] = commits'[i][v]
        <3>1. snap[w] \in Since(w)'
            BY <1>1, <1>4 DEF Since, Now
        <3> QED
            BY <1>1, <1>5, <3>1, SnapshotRead
    <2>7. ReadInv(w)'
        BY <2>4, <2>6 DEF ReadInv, Begun
    <2>8. WalInv(w)'
        BY <1>1, <1>4, <2>4 DEF WalInv, Get, IsRoute
    <2> QED
        BY <1>2, <2>3, <2>4, <2>5, <2>7, <2>8 DEF Keeps, WorkerInv
<1>6. CASE ~LastVar(w)
    <2>1. next' = [next EXCEPT ![w] = @ + 1] /\ UNCHANGED <<lock, snap, pc, status>>
        BY <1>6 DEF CountTable, fileVars
    <2>2. next[w] + 1 \in 1 .. 3
        BY <1>1, <1>6, SnapshotRead
    <2>3. TypeOK'
        BY <1>1, <1>2, <1>3, <2>1, <2>2, Types DEF TypeOK, FileTypeOK, CommitsOK, Vars, Now
    <2>4. /\ next'[w] - 1 = next[w] /\ pc'[w] = "list"
          /\ \A v \in Workers \ {w} : Same(v)
        BY <1>1, <1>3, <2>1, Types DEF Same
    <2>5. LockInv(w)' /\ RequestInv(w)'
        BY <1>1, <2>1, <2>4, Parts DEF LockInv, RequestInv, IsPress, Get, IsRoute, Now
    <2>6. commits' = commits /\ snap' = snap
        BY <1>1, <2>1
    <2>7. ReadInv(w)'
        BY <1>3, <2>4, <2>6 DEF ReadInv, Begun
    <2>8. WalInv(w)'
        BY <1>1, <1>4, <2>4 DEF WalInv
    <2> QED
        BY <1>2, <2>3, <2>4, <2>5, <2>7, <2>8 DEF Keeps, WorkerInv
<1> QED
    BY <1>5, <1>6

\* serve_route finds a row and keeps its snapshot.
LEMMA RouteFoundKeeps ==
    ASSUME HandlersInv, NEW w \in Workers, RouteFound(w), overdue' \subseteq Workers
    PROVE  Keeps(w)
<1>1. PICK place \in {"render", "send"} : pc' = [pc EXCEPT ![w] = place]
    BY DEF RouteFound, Goto
<1>2. /\ pc[w] = "lookup"
      /\ See(w, "site", Latest.site)
      /\ lock' = [lock EXCEPT ![w] = "shared"]
      /\ snap' = [snap EXCEPT ![w] = Now]
      /\ status' = [status EXCEPT ![w] = 200]
      /\ UNCHANGED <<journal, commits, arrived, req, next, visited, pressed, began>>
    BY DEF RouteFound, OpenRead, Choose
<1>3. CommitsOK' /\ Grown
    BY <1>2, Parts, NoCommit
<1>4. "site" \in VarNames /\ "visits" \in VarNames /\ "visits" # "site"
    BY DEF VarNames
<1>5. Latest.site \in Int /\ Now \in Nat \ {0} /\ Now \in 0 .. Now
    BY <1>4, ValuesAreNumbers
<1>6. /\ seen' \in [Workers -> [VarNames -> Int]]
      /\ \A v \in Workers \ {w} : seen'[v] = seen[v]
      /\ seen'[w].visits = seen[w].visits
    BY <1>2, <1>4, <1>5, SeeEffect
<1>7. TypeOK'
    BY <1>1, <1>2, <1>3, <1>5, <1>6, Types
       DEF TypeOK, FileTypeOK, CommitsOK, States, Locks, Vars, Now
<1>8. /\ pc'[w] = place /\ lock'[w] = "shared" /\ snap'[w] = Now /\ status'[w] = 200
      /\ \A v \in Workers \ {w} : Same(v)
    BY <1>1, <1>2, <1>6, Types DEF Same
<1>9. /\ next'[w] = 1 /\ seen'[w].visits = Unread /\ \A k \in 1 .. next'[w] - 1 : FALSE
      /\ IsRoute(w) /\ ~pressed[w] /\ began[w] \in 1 .. Now
      /\ (journal = "wal" => visited[w])
    BY <1>2, <1>6, Parts DEF ReadInv, RequestInv, LockInv, WalInv, Begun
<1>10. LockInv(w)'
    BY <1>2, <1>5, <1>8, <1>9 DEF LockInv, Now
<1>11. RequestInv(w)'
    BY <1>2, <1>8, <1>9 DEF RequestInv, IsRoute
<1>12. ReadInv(w)' /\ WalInv(w)'
    BY <1>2, <1>8, <1>9 DEF ReadInv, WalInv, Begun
<1> QED
    BY <1>3, <1>7, <1>8, <1>10, <1>11, <1>12 DEF Keeps, WorkerInv

-----------------------------------------------------------------------------
\* The operator's edit: every worker is a bystander.
LEMMA EditSiteKeeps ==
    ASSUME HandlersInv, EditSite, UNCHANGED overdue
    PROVE  HandlersInv'
<1>1. /\ commits' = Append(commits, [Latest EXCEPT !["site"] = @ + 1])
      /\ UNCHANGED <<journal, lock, snap, pc, req, status, seen, next, visited, pressed, began, arrived>>
    BY DEF EditSite, workerVars
<1>2. CommitsOK
    BY DEF HandlersInv, CommitsOK, TypeOK, FileTypeOK
<1>3. CommitsOK' /\ Grown
    <2>1. "site" \in VarNames
        BY DEF VarNames
    <2> QED
        BY <1>1, <1>2, <2>1, OneCommit
<1>4. Now' \in Nat /\ Now \in Nat /\ Now <= Now'
    BY <1>3 DEF Grown
<1>5. TypeOK'
    BY <1>1, <1>3, <1>4 DEF HandlersInv, TypeOK, FileTypeOK, CommitsOK
<1>6. ASSUME NEW v \in Workers
      PROVE  WorkerInv(v)'
    <2>1. Same(v)
        BY <1>1 DEF Same
    <2> QED
        BY <1>2, <1>3, <2>1, BystanderKeeps DEF HandlersInv
<1> QED
    BY <1>3, <1>5, <1>6 DEF HandlersInv, CommitsOK

\* Everybody waits in accept, over one committed state.
LEMMA InitHandlersInv == Init => HandlersInv
<1> SUFFICES ASSUME Init PROVE HandlersInv
    OBVIOUS
<1>1. /\ journal \in Modes
      /\ commits = << [visits |-> 0, presses |-> 0, site |-> 0] >>
      /\ lock = [c \in Workers |-> "none"]
      /\ snap = [c \in Workers |-> 0]
    BY HandlersAssumption DEF Init, FileInit
<1>2. /\ Now = 1 /\ commits \in Seq(Rows) /\ commits # <<>>
      /\ commits[1] = [visits |-> 0, presses |-> 0, site |-> 0]
    BY <1>1 DEF Now, Rows
<1>3. NothingRead \in [VarNames -> Int] /\ NothingRead.visits = Unread
    BY DEF NothingRead, VarNames, Unread
<1>4. TypeOK
    BY <1>1, <1>2, <1>3, HandlersAssumption DEF Init, TypeOK, FileTypeOK, Locks, States, Vars
<1>5. Ordered
    <2>1. \A v \in VarNames : commits[1][v] <= commits[1][v]
        BY <1>2 DEF VarNames
    <2>2. \A i \in 1 .. Now : i = 1
        BY <1>2
    <2> QED
        BY <2>1, <2>2 DEF Ordered
<1>6. ASSUME NEW w \in Workers
      PROVE  WorkerInv(w)
    BY <1>1, <1>3 DEF Init, WorkerInv, LockInv, RequestInv, ReadInv, WalInv, Begun
<1> QED
    BY <1>4, <1>5, <1>6 DEF HandlersInv

\* Every step keeps the invariant.
LEMMA NextHandlersInv ==
    ASSUME HandlersInv, [Next]_vars
    PROVE  HandlersInv'
<1>1. ASSUME NEW w \in Workers, Arrive(w) /\ UNCHANGED overdue
      PROVE  HandlersInv'
    BY <1>1, ArriveKeeps, KeepsIsEnough
<1>2. ASSUME NEW w \in Workers, Continue(w)
      PROVE  HandlersInv'
    <2>1. overdue' \subseteq Workers
        BY <1>2 DEF Continue, HandlersInv, TypeOK
    <2> QED
        BY <1>2, <2>1, InsertBeginsKeeps, InsertWaitsKeeps, KeepsIsEnough DEF Continue
<1>3. ASSUME NEW w \in Workers, Progress(w)
      PROVE  HandlersInv'
    <2>1. overdue' \subseteq Workers
        BY <1>3 DEF Progress, HandlersInv, TypeOK
    <2> QED
        BY <1>3, <2>1, KeepsIsEnough, ReadRequestKeeps, ReadFailsKeeps, VisitRecordedKeeps,
           PressRecordedKeeps, CountPressesKeeps, ReadStatKeeps, OpenTablesKeeps,
           CountTableKeeps, RouteFoundKeeps, RouteMissingKeeps, RenderVarKeeps,
           FinishSendKeeps, FinishRespondKeeps
           DEF Progress
<1>4. ASSUME NEW w \in Workers, Expire(w)
      PROVE  HandlersInv'
    <2>1. overdue' \subseteq Workers
        BY <1>4 DEF Expire, HandlersInv, TypeOK
    <2> QED
        BY <1>4, <2>1, KeepsIsEnough, VisitExpiresKeeps, PressExpiresKeeps, CountExpiresKeeps,
           StatExpiresKeeps, TablesExpireKeeps, LookupExpiresKeeps
           DEF Expire
<1>5. ASSUME UNCHANGED vars
      PROVE  HandlersInv'
    BY <1>5 DEF vars, fileVars, workerVars, HandlersInv, TypeOK, FileTypeOK, Ordered, Now, Latest,
       WorkerInv, LockInv, RequestInv, ReadInv, WalInv, IsPress, Get, IsRoute, Since
<1> QED
    BY <1>1, <1>2, <1>3, <1>4, <1>5, EditSiteKeeps DEF Next, WorkerStep, Quiet

\* HandlersInv holds in every reachable state.
THEOREM HandlersInvariant == Spec => []HandlersInv
<1>1. Init => HandlersInv
    BY InitHandlersInv
<1>2. HandlersInv /\ [Next]_vars => HandlersInv'
    BY NextHandlersInv
<1> QED
    BY <1>1, <1>2, PTL DEF Spec

\* Every variable stays within the values the code can give it, in every
\* interleaving of the handlers.
THEOREM HandlersTypeCorrect == Spec => []TypeOK
<1>1. HandlersInv => TypeOK
    BY DEF HandlersInv
<1> QED
    BY <1>1, HandlersInvariant, PTL

\* No worker waits in accept, in read_request or in the write of a finished
\* response with a lock or a snapshot of the database in its hand.
THEOREM NoLockWaits == Spec => []NoLockWhileWaitingForClient
<1>1. HandlersInv => NoLockWhileWaitingForClient
    BY DEF HandlersInv, WorkerInv, LockInv, NoLockWhileWaitingForClient
<1> QED
    BY <1>1, HandlersInvariant, PTL

\* serve_press answers 200 exactly when the row is committed, and 500 only when
\* it is not, whoever holds the database meanwhile.
THEOREM PressAnswersAreTrue == Spec => []PressAnswerIsTruthful
<1>1. ASSUME HandlersInv, NEW w \in Workers, Answering(w), req[w].method = "POST",
             status[w] \in {200, 500}
      PROVE  status[w] = 200 <=> pressed[w]
    BY <1>1, Parts DEF Answering, RequestInv, IsRoute, Get
<1>2. HandlersInv => PressAnswerIsTruthful
    BY <1>1 DEF PressAnswerIsTruthful
<1> QED
    BY <1>2, HandlersInvariant, PTL

\* In WAL mode the count serve_press returns includes its own row and nothing
\* that is not committed.
THEOREM CountsIncludeOwnPress == Spec => []CountIncludesOwnPress
<1>1. ASSUME HandlersInv, NEW w \in Workers, journal = "wal", Answering(w), pressed[w]
      PROVE  seen[w].presses \in commits[began[w]].presses + 1 .. Latest.presses
    BY <1>1, Parts DEF Answering, RequestInv, WalInv
<1>2. HandlersInv => CountIncludesOwnPress
    BY <1>1 DEF CountIncludesOwnPress
<1> QED
    BY <1>2, HandlersInvariant, PTL

\* In WAL mode serve_stats shows nothing older than the request, although other
\* workers commit between its statements.
THEOREM FreshStats == Spec => []StatsAreFresh
<1>1. ASSUME HandlersInv, NEW w \in Workers, journal = "wal", Answering(w),
             Get(w, "/api/stats"), status[w] = 200, NEW v \in VarNames
      PROVE  seen[w][v] \in commits[began[w]][v] .. Latest[v]
    BY <1>1, Parts DEF Answering, RequestInv, IsRoute, Get, WalInv
<1>2. HandlersInv => StatsAreFresh
    BY <1>1 DEF StatsAreFresh
<1> QED
    BY <1>2, HandlersInvariant, PTL

\* In WAL mode a slow client costs the others nothing: a 404 is true, and every
\* request that was read is in visits.
THEOREM SlowClientIsIsolated == Spec => []SlowClientIsIsolatedInWal
<1>1. ASSUME HandlersInv, NEW w \in Workers, journal = "wal"
      PROVE  NotFoundIsTrue(w) /\ VisitIsRecorded(w)
    BY <1>1, Parts
       DEF Answering, RequestInv, WalInv, NotFoundIsTrue, VisitIsRecorded
<1>2. HandlersInv => SlowClientIsIsolatedInWal
    BY <1>1 DEF SlowClientIsIsolatedInWal
<1> QED
    BY <1>2, HandlersInvariant, PTL

\* A page and a list of tables show one committed state, no older than the
\* request, however many workers commit while it is put together.
THEOREM PagesAreOneSnapshot == Spec => []PageIsOneSnapshot
<1>1. ASSUME HandlersInv, NEW w \in Workers, Answering(w), status[w] = 200,
             Get(w, "/api/tables") \/ IsRoute(w), seen[w].visits # Unread
      PROVE  \E i \in Since(w) : \A v \in VarNames : seen[w][v] = commits[i][v]
    <2>1. CASE pc[w] = "send"
        BY <1>1, <2>1, Parts DEF LockInv, ReadInv, Since
    <2>2. CASE pc[w] = "respond"
        <3>1. Get(w, "/api/tables")
            BY <1>1, <2>2, Parts DEF RequestInv, IsRoute, IsPress, Get
        <3> QED
            BY <1>1, <2>2, <3>1, Parts DEF ReadInv
    <2> QED
        BY <1>1, <2>1, <2>2 DEF Answering
<1>2. HandlersInv => PageIsOneSnapshot
    BY <1>1 DEF PageIsOneSnapshot
<1> QED
    BY <1>2, HandlersInvariant, PTL
=============================================================================
