---------------------------- MODULE HttpdHandlers ----------------------------
(***************************************************************************)
(* The request handlers of examples/server/server.c, running in several    *)
(* workers over one database file: the executable itself.                  *)
(*                                                                         *)
(* A worker's steps are its calls into SQLite and its waits for a client.  *)
(* sqlite3_busy_timeout makes a blocked statement fail after               *)
(* BUSY_TIMEOUT_MS; statements themselves are far shorter, so one can only *)
(* expire while some worker keeps a read transaction open during a send,   *)
(* which lasts as long as the client likes, up to SO_SNDTIMEO per write.   *)
(***************************************************************************)
EXTENDS SqliteFile

CONSTANTS
    Workers,        \* the pool; each has one connection
    Requests,       \* requests clients may send: [method, path] records
    MaxRequests,    \* bound: requests over a behaviour
    MaxEdits        \* bound: edits of the site by an operator

ASSUME HandlersAssumption == /\ Connections = Workers
                             /\ MaxRequests \in Nat
                             /\ MaxEdits \in Nat

VARIABLES
    pc,         \* where each worker is
    req,        \* the request it is serving
    status,     \* the status of the response it has chosen; 0 before that
    seen,       \* the values it has read for the response
    next,       \* index of the next value to read
    visited,    \* whether the request's row is in visits
    pressed,    \* whether the request's row is in presses
    began,      \* the latest commit when the request arrived
    arrived,    \* how many requests have arrived
    overdue     \* blocked workers that have already outwaited another one

workerVars == <<pc, req, status, seen, next, visited, pressed, began>>
vars == <<fileVars, workerVars, arrived, overdue>>

\* The counters of TEMPLATE_VARS and the content of the site, in the order
\* in which render, serve_stats and serve_tables read them.
Vars == <<"visits", "presses", "site">>
VarNames == {"visits", "presses", "site"}
Unread == -1
NothingRead == [v \in VarNames |-> Unread]

\* /new.html is added by the operator's edit; the other routes are there from
\* the start.  Only HTML goes through render.
Exists(path, site) == path # "/new.html" \/ site > 0
IsHtml(path) == path \in {"/index.html", "/new.html"}

States == {"accept", "read", "visit", "press", "count", "stats", "tables",
           "list", "lookup", "render", "send", "respond"}

Idle == [method |-> "none", path |-> "none"]

Init ==
    /\ FileInit
    /\ pc = [w \in Workers |-> "accept"]
    /\ req = [w \in Workers |-> Idle]
    /\ status = [w \in Workers |-> 0]
    /\ seen = [w \in Workers |-> NothingRead]
    /\ next = [w \in Workers |-> 1]
    /\ visited = [w \in Workers |-> FALSE]
    /\ pressed = [w \in Workers |-> FALSE]
    /\ began = [w \in Workers |-> 0]
    /\ arrived = 0
    /\ overdue = {}

-----------------------------------------------------------------------------
Goto(w, state) == pc' = [pc EXCEPT ![w] = state]
Choose(w, code) == status' = [status EXCEPT ![w] = code]
See(w, name, value) == seen' = [seen EXCEPT ![w][name] = value]

\* What is still to be sent needs no transaction: respond, then close.
Answer(w, code) == Goto(w, "respond") /\ Choose(w, code)

Inserting(w) == pc[w] \in {"visit", "press"}

InsertBlocked(w) ==
    \/ lock[w] = "none" /\ ~CanWrite
    \/ lock[w] = "pending" /\ ~CanCommit(w)

ReadBlocked(w) ==
    pc[w] \in {"count", "stats", "tables", "lookup"} /\ ~CanRead

Blocked(w) == (Inserting(w) /\ InsertBlocked(w)) \/ ReadBlocked(w)

\* A statement of w that is blocked gives up: SQLITE_BUSY.  That much time
\* passes only while every other worker is blocked too or waits for its client,
\* one of them in the middle of a response with its transaction open.  All
\* statements wait equally long, so those that were blocked when another one
\* gave up go before those blocked later; ties go either way.
BusyExpires(w) ==
    /\ Blocked(w)
    /\ \A v \in Workers :
          Blocked(v) \/ pc[v] \in {"accept", "read", "send", "respond"}
    /\ \E v \in Workers : lock[v] = "shared" /\ pc[v] = "send"
    /\ overdue = {} \/ w \in overdue

\* worker_loop accepts a connection.
Arrive(w) ==
    /\ pc[w] = "accept"
    /\ arrived < MaxRequests
    /\ arrived' = arrived + 1
    /\ \E r \in Requests : req' = [req EXCEPT ![w] = r]
    /\ Goto(w, "read")
    /\ began' = [began EXCEPT ![w] = Now]
    /\ UNCHANGED <<fileVars, status, seen, next, visited, pressed>>

\* read_request succeeds: handle starts with record_visit.
ReadRequest(w) ==
    /\ pc[w] = "read"
    /\ Goto(w, "visit")
    /\ UNCHANGED <<fileVars, arrived, req, status, seen, next, visited, pressed, began>>

\* Malformed, oversized, timed out, closed by the client or interrupted by a
\* signal: 400, and no row in visits.
ReadFails(w) ==
    /\ pc[w] = "read"
    /\ Answer(w, 400)
    /\ UNCHANGED <<fileVars, arrived, req, seen, next, visited, pressed, began>>

\* handle, after record_visit.
Dispatch(w, r) ==
    CASE r.method = "POST" /\ r.path = "/api/press" ->
            Goto(w, "press") /\ UNCHANGED status
      [] r.method = "POST" /\ r.path # "/api/press" ->
            Answer(w, 404)
      [] r.method \notin {"GET", "HEAD", "POST"} ->
            Answer(w, 405)
      [] r.method \in {"GET", "HEAD"} ->
            /\ Goto(w, CASE r.path = "/api/stats"  -> "stats"
                         [] r.path = "/api/tables" -> "tables"
                         [] OTHER                  -> "lookup")
            /\ UNCHANGED status

-----------------------------------------------------------------------------
(* The INSERTs of record_visit and serve_press: one autocommit statement.  *)

InsertBegins(w) ==
    /\ Inserting(w)
    /\ lock[w] = "none"
    /\ BeginWrite(w)
    /\ UNCHANGED <<workerVars, arrived>>

InsertWaits(w) ==
    /\ Inserting(w)
    /\ WaitForReaders(w)
    /\ UNCHANGED <<workerVars, arrived>>

VisitRecorded(w) ==
    /\ pc[w] = "visit"
    /\ CommitRow(w, "visits")
    /\ visited' = [visited EXCEPT ![w] = TRUE]
    /\ Dispatch(w, req[w])
    /\ UNCHANGED <<arrived, req, seen, next, pressed, began>>

\* Variant: without sqlite3_busy_timeout a blocked INSERT fails at once.
VisitFailsAtOnce(w) ==
    /\ pc[w] = "visit"
    /\ Blocked(w)
    /\ Rollback(w)
    /\ Dispatch(w, req[w])
    /\ UNCHANGED <<arrived, req, seen, next, visited, pressed, began>>

\* record_visit ignores the result of sqlite3_step.
VisitExpires(w) ==
    /\ pc[w] = "visit"
    /\ BusyExpires(w)
    /\ Rollback(w)
    /\ Dispatch(w, req[w])
    /\ UNCHANGED <<arrived, req, seen, next, visited, pressed, began>>

PressRecorded(w) ==
    /\ pc[w] = "press"
    /\ CommitRow(w, "presses")
    /\ pressed' = [pressed EXCEPT ![w] = TRUE]
    /\ Goto(w, "count")
    /\ UNCHANGED <<arrived, req, status, seen, next, visited, began>>

\* Variant: the result of the INSERT is ignored, as record_visit ignores it.
PressExpiresIgnored(w) ==
    /\ pc[w] = "press"
    /\ BusyExpires(w)
    /\ Rollback(w)
    /\ Goto(w, "count")
    /\ UNCHANGED <<arrived, req, status, seen, next, visited, pressed, began>>

PressExpires(w) ==
    /\ pc[w] = "press"
    /\ BusyExpires(w)
    /\ Rollback(w)
    /\ Answer(w, 500)
    /\ UNCHANGED <<arrived, req, seen, next, visited, pressed, began>>

\* Variant: the total is the one known when the request arrived.
CountBeforePress(w) ==
    /\ pc[w] = "count"
    /\ CanRead
    /\ See(w, "presses", commits[began[w]].presses)
    /\ Answer(w, 200)
    /\ UNCHANGED <<fileVars, arrived, req, next, visited, pressed, began>>

\* serve_press: SELECT count(*) FROM presses, a transaction of its own.
CountPresses(w) ==
    /\ pc[w] = "count"
    /\ CanRead
    /\ See(w, "presses", Latest.presses)
    /\ Answer(w, 200)
    /\ UNCHANGED <<fileVars, arrived, req, next, visited, pressed, began>>

\* sql_scalar returns NULL, shown as 0.
CountExpires(w) ==
    /\ pc[w] = "count"
    /\ BusyExpires(w)
    /\ See(w, "presses", 0)
    /\ Answer(w, 200)
    /\ UNCHANGED <<fileVars, arrived, req, next, visited, pressed, began>>

-----------------------------------------------------------------------------
(* serve_stats: every variable is read by a statement of its own.          *)

\* Variant: the loop over the variables runs once too often.
PastLastVar(w) == next[w] > Len(Vars)

LastVar(w) == next[w] = Len(Vars)

StatShown(w, value) ==
    /\ See(w, Vars[next[w]], value)
    /\ IF LastVar(w) THEN Answer(w, 200) /\ UNCHANGED next
       ELSE next' = [next EXCEPT ![w] = @ + 1] /\ UNCHANGED <<pc, status>>
    /\ UNCHANGED <<fileVars, arrived, req, visited, pressed, began>>

\* Variant: the numbers are read once, when the worker opens the database.
ReadCachedStat(w) ==
    /\ pc[w] = "stats"
    /\ CanRead
    /\ StatShown(w, commits[1][Vars[next[w]]])

ReadStat(w) ==
    /\ pc[w] = "stats"
    /\ CanRead
    /\ StatShown(w, Latest[Vars[next[w]]])

StatExpires(w) ==
    /\ pc[w] = "stats"
    /\ BusyExpires(w)
    /\ StatShown(w, 0)

-----------------------------------------------------------------------------
(* serve_tables: the outer SELECT over sqlite_schema stays open while each *)
(* table is counted, and is finalized before the response is sent.         *)

OpenTables(w) ==
    /\ pc[w] = "tables"
    /\ OpenRead(w)
    /\ Goto(w, "list")
    /\ UNCHANGED <<arrived, req, status, seen, next, visited, pressed, began>>

\* The first sqlite3_step is not SQLITE_ROW: the answer is an empty list.
TablesExpire(w) ==
    /\ pc[w] = "tables"
    /\ BusyExpires(w)
    /\ Answer(w, 200)
    /\ UNCHANGED <<fileVars, arrived, req, seen, next, visited, pressed, began>>

\* Variant: the outer statement is not finalized.
CountTableLeavesOpen(w) ==
    /\ pc[w] = "list"
    /\ See(w, Vars[next[w]], commits[snap[w]][Vars[next[w]]])
    /\ IF LastVar(w) THEN Answer(w, 200) /\ UNCHANGED next
       ELSE next' = [next EXCEPT ![w] = @ + 1] /\ UNCHANGED <<pc, status>>
    /\ UNCHANGED <<fileVars, arrived, req, visited, pressed, began>>

CountTable(w) ==
    /\ pc[w] = "list"
    /\ See(w, Vars[next[w]], commits[snap[w]][Vars[next[w]]])
    /\ IF LastVar(w)
       THEN CloseRead(w) /\ Answer(w, 200) /\ UNCHANGED next
       ELSE /\ next' = [next EXCEPT ![w] = @ + 1]
            /\ UNCHANGED <<fileVars, pc, status>>
    /\ UNCHANGED <<arrived, req, visited, pressed, began>>

-----------------------------------------------------------------------------
(* serve_route: the statement that finds the row stays open, because the   *)
(* body is sent out of it, until the client has taken the whole response.  *)

RouteFound(w) ==
    /\ pc[w] = "lookup"
    /\ Exists(req[w].path, Latest.site)
    /\ OpenRead(w)
    /\ See(w, "site", Latest.site)
    /\ Choose(w, 200)
    /\ Goto(w, IF IsHtml(req[w].path) THEN "render" ELSE "send")
    /\ UNCHANGED <<arrived, req, next, visited, pressed, began>>

RouteMissing(w) ==
    /\ pc[w] = "lookup"
    /\ CanRead
    /\ ~Exists(req[w].path, Latest.site)
    /\ Answer(w, 404)
    /\ UNCHANGED <<fileVars, arrived, req, seen, next, visited, pressed, began>>

\* Anything but SQLITE_ROW is a 404, SQLITE_BUSY too.
LookupExpires(w) ==
    /\ pc[w] = "lookup"
    /\ BusyExpires(w)
    /\ Answer(w, 404)
    /\ UNCHANGED <<fileVars, arrived, req, seen, next, visited, pressed, began>>

\* Variant: the statement is finalized before render, so that each variable
\* is read in a transaction of its own.
RenderVarUnprotected(w) ==
    /\ pc[w] = "render"
    /\ See(w, Vars[next[w]], Latest[Vars[next[w]]])
    /\ IF LastVar(w) THEN Goto(w, "send") /\ UNCHANGED next
       ELSE next' = [next EXCEPT ![w] = @ + 1] /\ UNCHANGED pc
    /\ UNCHANGED <<fileVars, arrived, req, status, visited, pressed, began>>

\* render substitutes the next {{name}}, inside the open transaction.
RenderVar(w) ==
    /\ pc[w] = "render"
    /\ See(w, Vars[next[w]], commits[snap[w]][Vars[next[w]]])
    /\ IF LastVar(w) THEN Goto(w, "send") /\ UNCHANGED next
       ELSE next' = [next EXCEPT ![w] = @ + 1] /\ UNCHANGED pc
    /\ UNCHANGED <<fileVars, arrived, req, status, visited, pressed, began>>

-----------------------------------------------------------------------------
(* The end of serve_connection: worker_loop closes the socket.             *)

Forget(w) ==
    /\ Goto(w, "accept")
    /\ req' = [req EXCEPT ![w] = Idle]
    /\ status' = [status EXCEPT ![w] = 0]
    /\ seen' = [seen EXCEPT ![w] = NothingRead]
    /\ next' = [next EXCEPT ![w] = 1]
    /\ visited' = [visited EXCEPT ![w] = FALSE]
    /\ pressed' = [pressed EXCEPT ![w] = FALSE]
    /\ began' = [began EXCEPT ![w] = 0]
    /\ UNCHANGED arrived

\* Variant: no SO_SNDTIMEO, and a client that never reads.
FinishSendWithoutTimeout(w) ==
    /\ pc[w] = "send"
    /\ FALSE
    /\ CloseRead(w)
    /\ Forget(w)

FinishSend(w) ==
    /\ pc[w] = "send"
    /\ CloseRead(w)
    /\ Forget(w)

FinishRespond(w) ==
    /\ pc[w] = "respond"
    /\ Forget(w)
    /\ UNCHANGED fileVars

\* "Editing a running site": an operator's own connection commits an UPDATE.
EditSite ==
    /\ Latest.site < MaxEdits
    /\ CanWrite
    /\ journal = "delete" => \A w \in Workers : lock[w] = "none"
    /\ commits' = Append(commits, [Latest EXCEPT !.site = @ + 1])
    /\ UNCHANGED <<journal, lock, snap, workerVars, arrived>>

-----------------------------------------------------------------------------
\* The statement of w is still under way: it keeps its place among the waiters.
Continue(w) ==
    /\ InsertBegins(w) \/ InsertWaits(w)
    /\ UNCHANGED overdue

Progress(w) ==
    /\ \/ ReadRequest(w) \/ ReadFails(w)
       \/ VisitRecorded(w) \/ PressRecorded(w) \/ CountPresses(w)
       \/ ReadStat(w) \/ OpenTables(w) \/ CountTable(w)
       \/ RouteFound(w) \/ RouteMissing(w) \/ RenderVar(w)
       \/ FinishSend(w) \/ FinishRespond(w)
    /\ overdue' = overdue \ {w}

Expire(w) ==
    /\ \/ VisitExpires(w) \/ PressExpires(w) \/ CountExpires(w)
       \/ StatExpires(w) \/ TablesExpire(w) \/ LookupExpires(w)
    /\ overdue' = (IF overdue = {} THEN {v \in Workers : Blocked(v)} ELSE overdue) \ {w}

WorkerStep(w) == Continue(w) \/ Progress(w) \/ Expire(w)

\* No request is left and every worker waits in accept.
Quiet ==
    /\ arrived = MaxRequests
    /\ \A w \in Workers : pc[w] = "accept"
    /\ UNCHANGED vars

Next ==
    \/ \E w \in Workers : Arrive(w) /\ UNCHANGED overdue
    \/ \E w \in Workers : WorkerStep(w)
    \/ EditSite /\ UNCHANGED overdue
    \/ Quiet

Spec == Init /\ [][Next]_vars

(***************************************************************************)
(* A worker that can move does: reads and sends end by SO_RCVTIMEO and     *)
(* SO_SNDTIMEO, and a blocked statement retries until it gets its lock or  *)
(* the busy timeout expires.  Nothing is assumed of clients and operators. *)
(***************************************************************************)
Fairness == \A w \in Workers : WF_vars(WorkerStep(w))

FairSpec == Spec /\ Fairness
-----------------------------------------------------------------------------
\* Every variable stays within the values the code can give it.
TypeOK ==
    /\ FileTypeOK
    /\ pc \in [Workers -> States]
    /\ req \in [Workers -> Requests \cup {Idle}]
    /\ status \in [Workers -> {0, 200, 400, 404, 405, 500}]
    /\ seen \in [Workers -> [VarNames -> Int]]
    /\ next \in [Workers -> 1 .. Len(Vars)]
    /\ visited \in [Workers -> BOOLEAN]
    /\ pressed \in [Workers -> BOOLEAN]
    /\ began \in [Workers -> 0 .. Now]
    /\ arrived \in 0 .. MaxRequests
    /\ overdue \subseteq Workers

Answering(w) == pc[w] \in {"send", "respond"}
Get(w, path) == req[w].method \in {"GET", "HEAD"} /\ req[w].path = path
IsRoute(w) == /\ req[w].method \in {"GET", "HEAD"}
              /\ req[w].path \notin {"/api/stats", "/api/tables"}
Since(w) == began[w] .. Now

\* A page or a list of tables shows one committed state of the database, no
\* older than the request, however many workers commit while it is put
\* together: the statement that stays open keeps one snapshot.
PageIsOneSnapshot ==
    \A w \in Workers :
        /\ Answering(w) /\ status[w] = 200
        /\ Get(w, "/api/tables") \/ IsRoute(w)
        /\ seen[w].visits # Unread
        => \E i \in Since(w) : \A v \in VarNames : seen[w][v] = commits[i][v]

\* No worker waits for a client with a lock in its hand, except while it
\* sends a row of routes: every other path finalizes its statements first.
NoLockWhileWaitingForClient ==
    \A w \in Workers :
        pc[w] \in {"accept", "read", "respond"} => lock[w] = "none" /\ snap[w] = 0

\* A press is acknowledged if and only if its row is committed: an answer of
\* 500 means that there is no row.
PressAnswerIsTruthful ==
    \A w \in Workers :
        Answering(w) /\ req[w].method = "POST" /\ status[w] \in {200, 500}
            => (status[w] = 200 <=> pressed[w])

\* In WAL mode the count a press returns includes the press itself and no
\* press that has not been committed.
CountIncludesOwnPress ==
    \A w \in Workers :
        journal = "wal" /\ Answering(w) /\ pressed[w]
            => seen[w].presses \in commits[began[w]].presses + 1 .. Latest.presses

\* In WAL mode statistics are never older than the request, although they are
\* read one statement at a time.
StatsAreFresh ==
    \A w \in Workers :
        journal = "wal" /\ Answering(w) /\ Get(w, "/api/stats") /\ status[w] = 200 =>
            \A v \in VarNames : seen[w][v] \in commits[began[w]][v] .. Latest[v]

NotFoundIsTrue(w) ==
    Answering(w) /\ IsRoute(w) /\ status[w] = 404
        => \E i \in Since(w) : ~Exists(req[w].path, commits[i].site)

VisitIsRecorded(w) == Answering(w) /\ status[w] # 400 => visited[w]

\* In WAL mode a slow client occupies only its own worker: a 404 is true, and
\* every well-formed request leaves its row in visits.
SlowClientIsIsolatedInWal ==
    journal = "wal" => \A w \in Workers : NotFoundIsTrue(w) /\ VisitIsRecorded(w)

\* Every request that is accepted is answered and its worker is free again.
EveryRequestIsAnswered ==
    \A w \in Workers : pc[w] = "read" ~> pc[w] = "accept"

\* What the README says of the pool ("one slow client occupies one worker"):
\* no client makes another one's existing page a 404.
SlowClientOccupiesOneWorker == \A w \in Workers : NotFoundIsTrue(w)
=============================================================================
