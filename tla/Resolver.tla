------------------------------- MODULE Resolver -------------------------------
(***************************************************************************)
(* The resolver database: `self scan` (selfconv/__main__.py) writes a row  *)
(* for each object of a tree, and loader/audit.c answers ld.so's searches  *)
(* for a soname from it, in a process that may start at any moment.        *)
(***************************************************************************)
EXTENDS FileTree

VARIABLES
    created,    \* the database file exists
    db,         \* its committed rows: path -> [kind, soname, machine]
    hot,        \* a scan died in its commit and left a journal to roll back
    scan,       \* where `self scan` is
    todo,       \* entries of the walk it has not looked at
    pend,       \* the rows as its transaction sees them
    still,      \* the tree has not changed since the walk
    synced,     \* nor since the commit of a scan that has found it still
    lookup      \* one search: [at, opened, asked, path, fresh, refused, got]

scanVars == <<created, db, hot, scan, todo, pend, still>>
resolverVars == <<scanVars, synced, lookup>>

NoLookup == [at |-> "start", opened |-> FALSE, asked |-> NONE, path |-> NONE,
             fresh |-> FALSE, refused |-> FALSE, got |-> NONE]

ResolverInit ==
    /\ created = FALSE /\ hot = FALSE
    /\ db = <<>> /\ pend = <<>>
    /\ scan = "idle" /\ todo = {}
    /\ still = FALSE /\ synced = FALSE
    /\ lookup = NoLookup

-----------------------------------------------------------------------------
\* cmd_scan.  The first entries of os.walk are all listed before any is opened.
BeginScan ==
    /\ scan = "idle"
    /\ created' = TRUE
    /\ hot' = FALSE
    /\ scan' = "walking"
    /\ todo' = DOMAIN tree
    /\ pend' = db
    /\ still' = TRUE
    /\ UNCHANGED <<db, synced, lookup>>

\* Variant: what the file starts with is not looked at.
SniffedUnchecked(p) ==
    IF p \notin DOMAIN tree THEN {}
    ELSE {[kind |-> tree[p].kind, soname |-> tree[p].soname, machine |-> tree[p].machine]}

\* _sniff: no row for what is gone or no object.  A .self that is not committed
\* has no soname yet.
Sniffed(p) ==
    IF p \notin DOMAIN tree \/ Is(p, "script") THEN {}
    ELSE IF Is(p, "half") THEN {[kind |-> "self", soname |-> NONE, machine |-> NONE]}
    ELSE {[kind |-> tree[p].kind, soname |-> tree[p].soname, machine |-> tree[p].machine]}

\* Variant: a conflict leaves the kind as it was.
UpsertKeepingKind(p, row) ==
    Put(pend, p, IF p \in DOMAIN pend THEN [row EXCEPT !.kind = pend[p].kind] ELSE row)

Upsert(p, row) == Put(pend, p, row)

Sniff ==
    /\ scan = "walking"
    /\ \E p \in todo :
          /\ todo' = todo \ {p}
          /\ \/ Sniffed(p) = {} /\ UNCHANGED pend
             \/ \E row \in Sniffed(p) : pend' = Upsert(p, row)
    /\ UNCHANGED <<created, db, hot, scan, still, synced, lookup>>

BeginCommit ==
    /\ scan = "walking" /\ todo = {}
    /\ scan' = "committing"
    /\ UNCHANGED <<created, db, hot, todo, pend, still, synced, lookup>>

\* The reader that is there is waited for, new ones are refused.
Commit ==
    /\ scan = "committing"
    /\ lookup.at # "found"
    /\ scan' = "idle"
    /\ db' = pend
    /\ synced' = still
    /\ UNCHANGED <<created, hot, todo, pend, still, lookup>>

ScanDies ==
    /\ scan # "idle"
    /\ hot' \in (IF scan = "committing" THEN BOOLEAN ELSE {FALSE})
    /\ scan' = "idle"
    /\ todo' = {}
    /\ pend' = db
    /\ UNCHANGED <<created, db, still, synced, lookup>>

-----------------------------------------------------------------------------
\* la_version: no database file, no answers.
LaVersion ==
    /\ lookup.at = "start"
    /\ lookup' = [lookup EXCEPT !.at = "ready", !.opened = created]
    /\ UNCHANGED <<scanVars, synced>>

Unreadable == ~lookup.opened \/ hot \/ scan = "committing"

Candidates(soname) == {p \in DOMAIN db : db[p].soname = soname}

\* la_objsearch of a soname, and the SELECT of resolve: LIMIT 1 takes any row.
\* Without a row ld.so searches as usual.
Search ==
    /\ lookup.at = "ready"
    /\ \E soname \in Sonames :
          IF Unreadable \/ Candidates(soname) = {}
          THEN lookup' = [lookup EXCEPT !.at = "search", !.asked = soname,
                                        !.fresh = synced /\ ~Unreadable]
          ELSE \E p \in Candidates(soname) :
                  lookup' = [lookup EXCEPT !.at = "found", !.asked = soname, !.path = p,
                                           !.fresh = synced]
    /\ UNCHANGED <<scanVars, synced>>

\* ld.so opens what it was given, and has nothing else to try.
Opened(p, kind) ==
    IF Is(p, kind) /\ tree[p].machine = "host"
    THEN [lookup EXCEPT !.at = "loaded", !.got = tree[p]]
    ELSE [lookup EXCEPT !.at = "failed"]

\* A .self is rebuilt into a memfd while the statement is open; what cannot be is
\* left to ld.so's search.  A statement on the .self may be refused: then it is
\* left to the search, too, or becomes a header without segments, which ld.so
\* rejects.  Of an ELF file the path is the answer.
Resolve ==
    /\ lookup.at = "found"
    /\ LET p == lookup.path
       IN \/ /\ db[p].kind = "elf"
             /\ lookup' = [lookup EXCEPT !.at = "path"]
          \/ /\ db[p].kind = "self" /\ Is(p, "self")
             /\ \/ lookup' = Opened(p, "self")
                \/ \E end \in {"search", "failed"} :
                      lookup' = [lookup EXCEPT !.at = end, !.refused = TRUE]
          \/ /\ db[p].kind = "self" /\ ~Is(p, "self")
             /\ lookup' = [lookup EXCEPT !.at = "search"]
    /\ UNCHANGED <<scanVars, synced>>

OpenPath ==
    /\ lookup.at = "path"
    /\ lookup' = Opened(lookup.path, "elf")
    /\ UNCHANGED <<scanVars, synced>>

SearchOver == lookup.at \in {"search", "loaded", "failed"}

\* Another search, in the same process or in a new one.
NextSearch ==
    /\ SearchOver
    /\ lookup' \in {NoLookup, [NoLookup EXCEPT !.at = "ready", !.opened = lookup.opened]}
    /\ UNCHANGED <<scanVars, synced>>

TreeChanged ==
    /\ still' = FALSE
    /\ synced' = FALSE
    /\ lookup' = [lookup EXCEPT !.fresh = FALSE]
    /\ UNCHANGED <<created, db, hot, scan, todo, pend>>

Resolving ==
    \/ BeginScan \/ Sniff \/ BeginCommit \/ Commit \/ ScanDies
    \/ LaVersion \/ Search \/ Resolve \/ OpenPath \/ NextSearch

-----------------------------------------------------------------------------
RowType == [kind : {"elf", "self"}, soname : Sonames \cup {NONE},
            machine : {"host", "foreign", NONE}]

ResolverTypeOK ==
    /\ \A p \in DOMAIN db : p \in Paths /\ db[p] \in RowType
    /\ \A p \in DOMAIN pend : p \in Paths /\ pend[p] \in RowType
    /\ scan \in {"idle", "walking", "committing"}
    /\ todo \subseteq Paths
    /\ lookup.at \in {"start", "ready", "found", "path", "search", "loaded", "failed"}

\* While the tree stays as the last scan has found it, a search that the
\* database answers ends with an object of that soname.  It fails only for a
\* row whose file is gone, or no object any more (a scan removes no row), or
\* whose object is for another machine (the SELECT does not look), and leaves
\* the search to ld.so only when there is no object of that soname; or either,
\* when SQLite has refused a statement on the .self itself.
AnswerIsRight ==
    SearchOver /\ lookup.fresh =>
        LET gone == lookup.path \notin DOMAIN tree \/ Is(lookup.path, "script")
        IN CASE lookup.at = "loaded" -> /\ lookup.got.soname = lookup.asked
                                        /\ lookup.got.machine = "host"
             [] lookup.at = "failed" -> \/ gone \/ lookup.refused
                                        \/ tree[lookup.path].machine = "foreign"
             [] lookup.at = "search" ->
                   \/ lookup.path # NONE /\ (gone \/ lookup.refused)
                   \/ \A p \in DOMAIN tree : tree[p].kind \in {"elf", "self"}
                                               => tree[p].soname # lookup.asked
=============================================================================
