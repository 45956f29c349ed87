---------------------------- MODULE ObjectsProofs ----------------------------
(***************************************************************************)
(* What the two databases of objects say, for any tree, any changes of it, *)
(* any lists of roots and any number of scans and searches: the answers of *)
(* the resolver are right, and a pack is the union of the closures of its  *)
(* programs, with edges that name each object's own providers.             *)
(*                                                                         *)
(* ResolverInv: what a scan has written agrees with the tree as long as    *)
(* the tree stood still (ScanInv, Indexed), and a search carries that from *)
(* its row to its answer (LookupInv), since a row that is being read makes *)
(* the next commit wait.                                                   *)
(*                                                                         *)
(* ClosureInv: at each point of build_closure the rows are exactly those   *)
(* of the roots it has done and of the part it has listed of the root it   *)
(* is at (Expected, over the queue that QueueInv keeps).                   *)
(*                                                                         *)
(* Both take what ldd says as it is.  That it names files of the tree is   *)
(* shown by induction over its walk (WalkedMap), and with it the types.    *)
(***************************************************************************)
EXTENDS Objects, WellFoundedInduction, NaturalsInduction, FiniteSetTheorems, TLAPS

\* One row for each object of the tree, but for what is still to be looked at.
Indexed(rows, later) ==
    \A p \in DOMAIN tree \ later :
        tree[p].kind # "script" =>
            /\ p \in DOMAIN rows
            /\ Is(p, "half") => rows[p].soname = NONE
            /\ tree[p].kind \in {"elf", "self"} =>
                  rows[p].kind = tree[p].kind /\ rows[p].soname = tree[p].soname

LookupType ==
    [at : {"start", "ready", "found", "path", "search", "loaded", "failed"},
     opened : BOOLEAN, asked : Sonames \cup {NONE}, path : Paths \cup {NONE},
     fresh : BOOLEAN, refused : BOOLEAN, got : Files \cup {NONE}]

\* What a search knows of its row; the commit waits while it is being read.
LookupInv ==
    /\ lookup.at \in {"start", "ready"} => lookup.path = NONE /\ ~lookup.fresh
    /\ lookup.at = "found" =>
          /\ lookup.asked \in Sonames
          /\ lookup.path \in DOMAIN db /\ db[lookup.path].soname = lookup.asked
          /\ lookup.fresh => synced
    /\ lookup.at = "path" /\ lookup.fresh /\ lookup.path \in DOMAIN tree
          => \/ tree[lookup.path].kind = "script"
             \/ tree[lookup.path].kind = "elf" /\ tree[lookup.path].soname = lookup.asked

RowsOK(rows) == \A p \in DOMAIN rows : p \in Paths /\ rows[p] \in RowType

ScanInv ==
    /\ scan = "committing" => todo = {}
    /\ scan # "idle" /\ still => Indexed(pend, todo)
    /\ synced => Indexed(db, {})

ResolverInv ==
    /\ TreeTypeOK
    /\ RowsOK(db) /\ RowsOK(pend)
    /\ scan \in {"idle", "walking", "committing"}
    /\ todo \subseteq Paths
    /\ created \in BOOLEAN /\ hot \in BOOLEAN /\ still \in BOOLEAN /\ synced \in BOOLEAN
    /\ lookup \in LookupType
    /\ ScanInv
    /\ LookupInv
    /\ AnswerIsRight

-----------------------------------------------------------------------------
\* A file is installed, replaced or removed.
LEMMA ChangeKeepsTree ==
    ASSUME TreeTypeOK, Change
    PROVE  TreeTypeOK'
<1>1. changes' \in 0 .. MaxChanges
    BY TreesAssumption DEF TreeTypeOK, Change
<1>2. PICK p \in Paths : InstallFile(p) \/ RemoveFile(p)
    BY DEF Change
<1>3. CASE InstallFile(p)
    <2>1. PICK file \in Versions[p] : tree' = Put(tree, p, file)
        BY <1>3 DEF InstallFile
    <2>2. file \in Files
        BY <2>1, TreesAssumption
    <2>3. /\ DOMAIN tree' = {p} \cup DOMAIN tree
          /\ \A q \in DOMAIN tree' : tree'[q] = IF q = p THEN file ELSE tree[q]
        BY <2>1 DEF Put
    <2> QED
        BY <1>1, <2>2, <2>3 DEF TreeTypeOK
<1>4. CASE RemoveFile(p)
    BY <1>1, <1>4 DEF RemoveFile, TreeTypeOK
<1> QED
    BY <1>2, <1>3, <1>4

\* _sniff, and a row for every object.
LEMMA SniffKeeps ==
    ASSUME ResolverInv, Sniff, UNCHANGED <<tree, changes>>
    PROVE  ResolverInv'
<1>1. PICK p \in todo : /\ todo' = todo \ {p}
                        /\ \/ Sniffed(p) = {} /\ UNCHANGED pend
                           \/ \E row \in Sniffed(p) : pend' = Upsert(p, row)
    BY DEF Sniff
<1>2. /\ scan = "walking" /\ p \in Paths
      /\ UNCHANGED <<created, db, hot, scan, still, synced, lookup, tree, changes>>
    BY <1>1 DEF Sniff, ResolverInv
<1>3. CASE Sniffed(p) = {} /\ UNCHANGED pend
    <2>1. p \notin DOMAIN tree \/ tree[p].kind = "script"
        BY <1>3 DEF Sniffed, Is
    <2>2. ScanInv'
        BY <1>1, <1>2, <1>3, <2>1 DEF ResolverInv, ScanInv, Indexed, Is
    <2> QED
        BY <1>1, <1>2, <1>3, <2>2 
        DEF ResolverInv, TreeTypeOK, RowsOK, LookupInv, AnswerIsRight, SearchOver, Is
<1>4. ASSUME NEW row \in Sniffed(p), pend' = Upsert(p, row)
      PROVE  ResolverInv'
    <2>1. /\ DOMAIN pend' = {p} \cup DOMAIN pend
          /\ \A q \in DOMAIN pend' : pend'[q] = IF q = p THEN row ELSE pend[q]
        BY <1>4 DEF Upsert, Put
    <2>2. /\ p \in DOMAIN tree
          /\ row = IF Is(p, "half") THEN [kind |-> "self", soname |-> NONE, machine |-> NONE]
                   ELSE [kind |-> tree[p].kind, soname |-> tree[p].soname, machine |-> tree[p].machine]
          /\ tree[p].kind # "script"
        BY <1>4 DEF Sniffed, Is
    <2>3. tree[p] \in Files
        BY <2>2 DEF ResolverInv, TreeTypeOK
    <2>4. row \in RowType
        BY <2>2, <2>3 DEF RowType, Files, Is
    <2>5. ScanInv'
        BY <1>1, <1>2, <2>1, <2>2 DEF ResolverInv, ScanInv, Indexed, Is
    <2>6. RowsOK(pend)'
        BY <1>2, <2>1, <2>4 DEF ResolverInv, RowsOK
    <2> QED
        BY <1>1, <1>2, <2>5, <2>6
        DEF ResolverInv, TreeTypeOK, RowsOK, LookupInv, AnswerIsRight, SearchOver, Is
<1> QED
    BY <1>1, <1>3, <1>4

-----------------------------------------------------------------------------
\* cmd_scan begins, commits or dies: only a commit changes what searches see.
LEMMA ScanStepKeeps ==
    ASSUME ResolverInv, BeginScan \/ BeginCommit \/ Commit \/ ScanDies,
           UNCHANGED <<tree, changes>>
    PROVE  ResolverInv'
<1> USE DEF ResolverInv
<1>1. UNCHANGED <<tree, changes, lookup>>
    BY DEF BeginScan, BeginCommit, Commit, ScanDies
<1>2. TreeTypeOK' /\ (lookup \in LookupType)' /\ AnswerIsRight'
    BY <1>1 DEF TreeTypeOK, AnswerIsRight, SearchOver, Is
<1>3. CASE BeginScan
    <2>1. RowsOK(db)' /\ RowsOK(pend)' /\ (todo \subseteq Paths)'
        BY <1>1, <1>3 DEF BeginScan, RowsOK, TreeTypeOK
    <2>2. ScanInv' /\ LookupInv'
        BY <1>1, <1>3 DEF BeginScan, ScanInv, LookupInv, Indexed, Is
    <2> QED
        BY <1>2, <1>3, <2>1, <2>2 DEF BeginScan
<1>4. CASE BeginCommit
    <2>1. ScanInv' /\ LookupInv'
        BY <1>1, <1>4 DEF BeginCommit, ScanInv, LookupInv, Indexed, Is
    <2> QED
        BY <1>1, <1>2, <1>4, <2>1 DEF BeginCommit, RowsOK
<1>5. CASE Commit
    <2>1. ScanInv' /\ LookupInv'
        BY <1>1, <1>5 DEF Commit, ScanInv, LookupInv, Indexed, Is
    <2> QED
        BY <1>1, <1>2, <1>5, <2>1 DEF Commit, RowsOK
<1>6. CASE ScanDies
    <2>1. ScanInv' /\ LookupInv'
        BY <1>1, <1>6 DEF ScanDies, ScanInv, LookupInv, Indexed, Is
    <2> QED
        BY <1>1, <1>2, <1>6, <2>1 DEF ScanDies, RowsOK
<1> QED
    BY <1>3, <1>4, <1>5, <1>6

\* A step of a search leaves the scan alone.
LEMMA LookupStepKeeps ==
    ASSUME ResolverInv, UNCHANGED <<scanVars, synced, tree, changes>>,
           lookup' \in LookupType, LookupInv', AnswerIsRight'
    PROVE  ResolverInv'
BY DEF ResolverInv, scanVars, TreeTypeOK, RowsOK, ScanInv, Indexed, Is

\* The SELECT of resolve: where there is no row there is no object.
LEMMA SearchKeeps ==
    ASSUME ResolverInv, Search, UNCHANGED <<tree, changes>>
    PROVE  ResolverInv'
<1> USE DEF ResolverInv
<1> DEFINE certain == synced /\ ~Unreadable
<1>1. /\ lookup \in LookupType /\ lookup.at = "ready" /\ lookup.path = NONE
      /\ UNCHANGED <<scanVars, synced, tree, changes>>
      /\ db' = db /\ synced' = synced
    BY DEF Search, LookupInv, scanVars
<1>2. PICK soname \in Sonames :
          IF Unreadable \/ Candidates(soname) = {}
          THEN lookup' = [lookup EXCEPT !.at = "search", !.asked = soname, !.fresh = certain]
          ELSE \E p \in Candidates(soname) :
                  lookup' = [lookup EXCEPT !.at = "found", !.asked = soname, !.path = p,
                                           !.fresh = synced]
    BY DEF Search
<1>3. certain \in BOOLEAN /\ synced \in BOOLEAN /\ (certain => synced /\ ~Unreadable)
    OBVIOUS
<1> HIDE DEF certain
<1>4. CASE Unreadable \/ Candidates(soname) = {}
    <2>0. lookup' = [lookup EXCEPT !.at = "search", !.asked = soname, !.fresh = certain]
        BY <1>2, <1>4
    <2>1. /\ lookup' \in LookupType
          /\ lookup'.at = "search" /\ lookup'.asked = soname /\ lookup'.fresh = certain
        BY <1>1, <1>3, <2>0 DEF LookupType
    <2>2. LookupInv'
        BY <2>1 DEF LookupInv
    <2>3. ASSUME lookup'.fresh, NEW p \in DOMAIN tree, tree[p].kind \in {"elf", "self"}
          PROVE  tree[p].soname # soname
        <3>1. p \in DOMAIN db /\ db[p].soname = tree[p].soname
            BY <1>3, <2>1, <2>3 DEF ScanInv, Indexed
        <3> QED
            BY <1>3, <1>4, <2>1, <2>3, <3>1 DEF Candidates
    <2>4. AnswerIsRight'
        BY <1>1, <2>1, <2>3 DEF AnswerIsRight
    <2> QED
        BY <1>1, <2>1, <2>2, <2>4, LookupStepKeeps
<1>5. CASE ~(Unreadable \/ Candidates(soname) = {})
    <2>1. PICK p \in Candidates(soname) :
                  lookup' = [lookup EXCEPT !.at = "found", !.asked = soname, !.path = p,
                                           !.fresh = synced]
        BY <1>2, <1>5
    <2>2. p \in DOMAIN db /\ db[p].soname = soname /\ p \in Paths
        BY <2>1 DEF Candidates, RowsOK
    <2>3. /\ lookup' \in LookupType
          /\ lookup'.at = "found" /\ lookup'.asked = soname /\ lookup'.path = p
          /\ lookup'.fresh => synced
        BY <1>1, <1>3, <2>1, <2>2 DEF LookupType
    <2>4. LookupInv' /\ AnswerIsRight'
        BY <1>1, <2>2, <2>3 DEF LookupInv, AnswerIsRight, SearchOver
    <2> QED
        BY <1>1, <2>3, <2>4, LookupStepKeeps
<1> QED
    BY <1>4, <1>5

\* ld.so opens what the row has promised.
LEMMA OpenedKeeps ==
    ASSUME ResolverInv, NEW kind \in {"elf", "self"},
           lookup' = Opened(lookup.path, kind),
           lookup.fresh /\ lookup.path \in DOMAIN tree
              => \/ tree[lookup.path].kind = "script"
                 \/ tree[lookup.path].kind = kind /\ tree[lookup.path].soname = lookup.asked,
           UNCHANGED <<scanVars, synced, tree, changes>>
    PROVE  ResolverInv'
<1> USE DEF ResolverInv
<1> DEFINE p == lookup.path
<1>1. lookup \in LookupType
    OBVIOUS
<1>2. CASE Is(p, kind) /\ tree[p].machine = "host"
    <2>1. tree[p] \in Files
        BY <1>2 DEF TreeTypeOK, Is
    <2>2. /\ lookup' \in LookupType
          /\ lookup'.at = "loaded" /\ lookup'.asked = lookup.asked /\ lookup'.got = tree[p]
          /\ lookup'.fresh = lookup.fresh /\ lookup'.path = p
        BY <1>1, <1>2, <2>1 DEF LookupType, Opened
    <2>3. lookup.fresh => tree[p].soname = lookup.asked
        BY <1>2 DEF Is
    <2>4. LookupInv' /\ AnswerIsRight'
        BY <1>2, <2>2, <2>3 DEF LookupInv, AnswerIsRight, SearchOver
    <2> QED
        BY <2>2, <2>4, LookupStepKeeps
<1>3. CASE ~(Is(p, kind) /\ tree[p].machine = "host")
    <2>1. /\ lookup' \in LookupType
          /\ lookup'.at = "failed" /\ lookup'.path = p /\ lookup'.fresh = lookup.fresh
        BY <1>1, <1>3 DEF LookupType, Opened
    <2>2. lookup.fresh => p \notin DOMAIN tree \/ Is(p, "script") \/ tree[p].machine = "foreign"
        BY <1>3 DEF TreeTypeOK, Files, Is
    <2>3. LookupInv' /\ AnswerIsRight'
        BY <1>1, <2>1, <2>2 DEF LookupInv, AnswerIsRight, SearchOver, Is
    <2> QED
        BY <2>1, <2>3, LookupStepKeeps
<1> QED
    BY <1>2, <1>3

\* What is done with the row, which is still there.
LEMMA ResolveKeeps ==
    ASSUME ResolverInv, Resolve, UNCHANGED <<tree, changes>>
    PROVE  ResolverInv'
<1>0. ASSUME lookup' = Opened(lookup.path, "self"),
             lookup.fresh /\ lookup.path \in DOMAIN tree
                => \/ tree[lookup.path].kind = "script"
                   \/ tree[lookup.path].kind = "self" /\ tree[lookup.path].soname = lookup.asked,
             UNCHANGED <<scanVars, synced>>
      PROVE  ResolverInv'
    <2>1. "self" \in {"elf", "self"}
        OBVIOUS
    <2> QED
        BY <1>0, <2>1, OpenedKeeps
<1> USE DEF ResolverInv
<1> DEFINE p == lookup.path
<1>1. /\ lookup \in LookupType /\ lookup.at = "found"
      /\ p \in DOMAIN db /\ db[p].soname = lookup.asked /\ lookup.asked \in Sonames
      /\ db[p] \in RowType
      /\ lookup.fresh => synced
      /\ UNCHANGED <<scanVars, synced, tree, changes>>
    BY DEF Resolve, LookupInv, RowsOK
<1>3. p # NONE
    BY <1>1, NoneAssumption DEF RowsOK
<1>4. ASSUME lookup.fresh, p \in DOMAIN tree
      PROVE  /\ tree[p].kind \in {"elf", "self", "script"}
             /\ tree[p].kind # "script" => /\ tree[p].kind = db[p].kind
                                           /\ tree[p].soname = lookup.asked
    <2>1. tree[p].kind \in {"elf", "self", "half", "script"}
        BY <1>4 DEF TreeTypeOK, Files
    <2>2. tree[p].kind # "half"
        BY <1>1, <1>4, NoneAssumption DEF ScanInv, Indexed, Is
    <2>3. tree[p].kind \in {"elf", "self"} => tree[p].kind = db[p].kind /\ tree[p].soname = db[p].soname
        BY <1>1, <1>4 DEF ScanInv, Indexed
    <2> QED
        BY <1>1, <2>1, <2>2, <2>3
<1>5. CASE db[p].kind = "elf" /\ lookup' = [lookup EXCEPT !.at = "path"]
    <2>1. /\ lookup' \in LookupType
          /\ lookup'.at = "path" /\ lookup'.asked = lookup.asked /\ lookup'.path = p
          /\ lookup'.fresh = lookup.fresh
        BY <1>1, <1>5 DEF LookupType
    <2>2. LookupInv' /\ AnswerIsRight'
        BY <1>1, <1>4, <1>5, <2>1 DEF LookupInv, AnswerIsRight, SearchOver
    <2> QED
        BY <1>1, <2>1, <2>2, LookupStepKeeps
<1>6. CASE db[p].kind = "self" /\ Is(p, "self") /\ lookup' = Opened(p, "self")
    <2>1. lookup.fresh /\ p \in DOMAIN tree
              => \/ tree[p].kind = "script"
                 \/ tree[p].kind = "self" /\ tree[p].soname = lookup.asked
        BY <1>4, <1>6
    <2> QED
        BY <1>0, <1>1, <1>6, <2>1
<1>7. ASSUME NEW end \in {"search", "failed"},
             lookup' = [lookup EXCEPT !.at = end, !.refused = TRUE]
      PROVE  ResolverInv'
    <2>1. /\ lookup' \in LookupType
          /\ lookup'.at = end /\ lookup'.path = p /\ lookup'.refused
        BY <1>1, <1>7 DEF LookupType
    <2>2. LookupInv' /\ AnswerIsRight'
        BY <1>3, <2>1 DEF LookupInv, AnswerIsRight, SearchOver
    <2> QED
        BY <1>1, <2>1, <2>2, LookupStepKeeps
<1>8. CASE db[p].kind = "self" /\ ~Is(p, "self") /\ lookup' = [lookup EXCEPT !.at = "search"]
    <2>1. /\ lookup' \in LookupType
          /\ lookup'.at = "search" /\ lookup'.asked = lookup.asked /\ lookup'.path = p
          /\ lookup'.fresh = lookup.fresh
        BY <1>1, <1>8 DEF LookupType
    <2>2. lookup.fresh => p \notin DOMAIN tree \/ Is(p, "script")
        BY <1>1, <1>4, <1>8 DEF RowType, Is
    <2>3. LookupInv' /\ AnswerIsRight'
        BY <1>1, <1>3, <2>1, <2>2 DEF LookupInv, AnswerIsRight, SearchOver, Is
    <2> QED
        BY <1>1, <2>1, <2>3, LookupStepKeeps
<1> QED
    BY <1>5, <1>6, <1>7, <1>8 DEF Resolve

\* ld.so opens the path.
LEMMA OpenPathKeeps ==
    ASSUME ResolverInv, OpenPath, UNCHANGED <<tree, changes>>
    PROVE  ResolverInv'
BY OpenedKeeps DEF OpenPath, ResolverInv, LookupInv

\* la_version, and the next search.
LEMMA NewLookupKeeps ==
    ASSUME ResolverInv, LaVersion \/ NextSearch, UNCHANGED <<tree, changes>>
    PROVE  ResolverInv'
<1>1. /\ lookup \in LookupType
      /\ UNCHANGED <<scanVars, synced, tree, changes>>
    BY DEF LaVersion, NextSearch, ResolverInv
<1>2. NoLookup \in LookupType
    BY DEF NoLookup, LookupType
<1>3. CASE LaVersion
    <2>1. /\ lookup' \in LookupType /\ lookup'.at = "ready"
          /\ lookup'.path = NONE /\ ~lookup'.fresh
        BY <1>1, <1>3 DEF LaVersion, LookupType, LookupInv, ResolverInv
    <2> QED
        BY <1>1, <2>1, LookupStepKeeps DEF LookupInv, AnswerIsRight, SearchOver
<1>4. CASE NextSearch
    <2>1. /\ lookup' \in LookupType /\ lookup'.at \in {"start", "ready"}
          /\ lookup'.path = NONE /\ ~lookup'.fresh
        <3>1. CASE lookup' = NoLookup
            BY <1>2, <3>1 DEF NoLookup
        <3>2. CASE lookup' = [NoLookup EXCEPT !.at = "ready", !.opened = lookup.opened]
            BY <1>1, <1>2, <3>2 DEF NoLookup, LookupType
        <3> QED
            BY <1>4, <3>1, <3>2 DEF NextSearch
    <2> QED
        BY <1>1, <2>1, LookupStepKeeps DEF LookupInv, AnswerIsRight, SearchOver
<1> QED
    BY <1>3, <1>4

\* What is known of the tree is forgotten when it changes.
LEMMA TreeStepKeeps ==
    ASSUME ResolverInv, Change, TreeChanged
    PROVE  ResolverInv'
<1>1. TreeTypeOK'
    BY ChangeKeepsTree DEF ResolverInv
<1>2. /\ still' = FALSE /\ synced' = FALSE /\ UNCHANGED <<created, hot, db, scan, todo, pend>>
      /\ lookup' = [lookup EXCEPT !.fresh = FALSE]
      /\ lookup \in LookupType
    BY DEF TreeChanged, ResolverInv
<1>3. /\ lookup' \in LookupType /\ ~lookup'.fresh /\ lookup'.at = lookup.at
      /\ lookup'.asked = lookup.asked /\ lookup'.path = lookup.path
    BY <1>2 DEF LookupType
<1>4. ScanInv' /\ LookupInv' /\ AnswerIsRight'
    BY <1>2, <1>3 DEF ResolverInv, ScanInv, LookupInv, AnswerIsRight
<1> QED
    BY <1>1, <1>2, <1>3, <1>4 DEF ResolverInv, RowsOK

-----------------------------------------------------------------------------
Done == Len(given) - Len(roots)

\* The programs among the first n roots, and all that they bring in.
Packed(n) == {p \in {given[i] : i \in 1 .. n} : Is(p, "elf")}
Closed(n) == UNION {Members(r) : r \in Packed(n)}

\* The rows there must be at each point of build_closure.
Expected ==
    CASE pack \in {"root", "done"} -> Closed(Done)
      [] pack = "ldd"  -> Closed(Done - 1) \cup {root}
      [] pack = "libs" -> Closed(Done - 1) \cup {root} \cup (LddClosure(root) \ libs)

OwnProvider(edge) ==
    edge.resolved_path = IF edge.soname \in DOMAIN LddMap(edge.object)
                         THEN LddMap(edge.object)[edge.soname] ELSE NONE

QueueInv ==
    /\ given \in Seq(Paths) /\ roots \in Seq(Paths)
    /\ Len(roots) <= Len(given)
    /\ \A i \in 1 .. Len(roots) : roots[i] = given[Done + i]
    /\ pack = "start" => DOMAIN objects = {} /\ needs = {} /\ ~quiet
    /\ pack = "done" => roots = <<>>

RowsInv == quiet /\ pack \in {"root", "ldd", "libs", "done"} =>
    /\ pack \in {"ldd", "libs"} => /\ Done \in Nat \ {0}
                                   /\ root = given[Done] /\ Is(root, "elf")
    /\ pack = "libs" => libs \subseteq LddClosure(root)
    /\ DOMAIN objects = Expected
    /\ \A p \in DOMAIN objects : objects[p] = Kind(p \in Packed(Done))
    /\ \A edge \in needs : edge.object \in DOMAIN objects /\ OwnProvider(edge)

ClosureInv == QueueInv /\ RowsInv

\* What ldd says is a function of the tree.
LEMMA TreeSame ==
    ASSUME UNCHANGED tree
    PROVE  /\ \A p : Is(p, "elf")' = Is(p, "elf")
           /\ \A p : LddMap(p)' = LddMap(p)
           /\ \A p : LddClosure(p)' = LddClosure(p)
           /\ \A p : Members(p)' = Members(p)
<1>1. \A p : Is(p, "elf")' = Is(p, "elf")
    BY DEF Is
<1>2. \A p : LddMap(p)' = LddMap(p)
    BY <1>1 DEF LddMap
<1>3. \A p : LddClosure(p)' = LddClosure(p)
    BY <1>2 DEF LddClosure
<1> QED
    BY <1>1, <1>2, <1>3 DEF Members

\* And so are the closures of the roots.
LEMMA PackedSame ==
    ASSUME UNCHANGED <<tree, given>>
    PROVE  \A n : Packed(n)' = Packed(n) /\ Closed(n)' = Closed(n)
<1>1. \A n : Packed(n)' = Packed(n)
    BY TreeSame DEF Packed
<1> QED
    BY <1>1, TreeSame DEF Closed

-----------------------------------------------------------------------------
\* One more root.
LEMMA PackedNext ==
    ASSUME NEW n \in Nat
    PROVE  /\ Packed(n + 1) = Packed(n) \cup (IF Is(given[n + 1], "elf") THEN {given[n + 1]} ELSE {})
           /\ Closed(n + 1) = Closed(n) \cup (IF Is(given[n + 1], "elf") THEN Members(given[n + 1]) ELSE {})
<1>1. \A i : i \in 1 .. n + 1 <=> i \in 1 .. n \/ i = n + 1
    OBVIOUS
<1>2. {given[i] : i \in 1 .. n + 1} = {given[i] : i \in 1 .. n} \cup {given[n + 1]}
    BY <1>1
<1>3. Packed(n + 1) = Packed(n) \cup (IF Is(given[n + 1], "elf") THEN {given[n + 1]} ELSE {})
    BY <1>2 DEF Packed
<1> QED
    BY <1>3 DEF Closed

\* The roots that are done and those to come are all.
LEMMA QueueFacts ==
    ASSUME QueueInv
    PROVE  Done \in Nat /\ Done + Len(roots) = Len(given)
BY DEF QueueInv, Done

\* Going on to the next root.
LEMMA NextRoot ==
    ASSUME QueueInv, roots # <<>>, roots' = Tail(roots), given' = given
    PROVE  /\ Head(roots) = given[Done + 1] /\ Done' = Done + 1
           /\ roots' \in Seq(Paths) /\ Len(roots') <= Len(given)
           /\ \A i \in 1 .. Len(roots') : roots'[i] = given[Done + 1 + i]
<1>1. /\ roots \in Seq(Paths) /\ given \in Seq(Paths)
      /\ Len(roots) \in Nat /\ Len(roots) # 0 /\ Len(given) \in Nat
      /\ Len(roots) <= Len(given)
    BY DEF QueueInv
<1>2. /\ Tail(roots) \in Seq(Paths) /\ Len(Tail(roots)) = Len(roots) - 1
      /\ \A i \in 1 .. Len(roots) - 1 : Tail(roots)[i] = roots[i + 1]
      /\ Head(roots) = roots[1]
    BY <1>1
<1>3. Done' = Done + 1
    BY <1>1, <1>2 DEF Done
<1>4. Head(roots) = given[Done + 1]
    BY <1>1, <1>2 DEF QueueInv
<1>5. ASSUME NEW i \in 1 .. Len(roots) - 1
      PROVE  Tail(roots)[i] = given[Done + 1 + i]
    <2>1. i + 1 \in 1 .. Len(roots) /\ Done + (i + 1) = Done + 1 + i
        BY <1>1, QueueFacts
    <2>2. roots[i + 1] = given[Done + (i + 1)]
        BY <2>1 DEF QueueInv
    <2> QED
        BY <1>2, <2>1, <2>2
<1> QED
    BY <1>1, <1>2, <1>3, <1>4, <1>5

\* A row of objects and its edges.
LEMMA RowAdded ==
    ASSUME NEW p, NEW row, NEW edges,
           objects' = Put(objects, p, row), needs' = needs \cup edges,
           \A edge \in needs : edge.object \in DOMAIN objects /\ OwnProvider(edge),
           \A edge \in edges : edge.object = p /\ OwnProvider(edge)
    PROVE  /\ DOMAIN objects' = DOMAIN objects \cup {p}
           /\ objects'[p] = row
           /\ \A q \in DOMAIN objects : q # p => objects'[q] = objects[q]
           /\ \A edge \in needs' : edge.object \in DOMAIN objects' /\ OwnProvider(edge)
<1>1. /\ DOMAIN objects' = DOMAIN objects \cup {p}
      /\ objects'[p] = row
      /\ \A q \in DOMAIN objects : q # p => objects'[q] = objects[q]
    BY DEF Put
<1>2. \A edge \in needs' : edge.object \in DOMAIN objects' /\ OwnProvider(edge)
    BY <1>1
<1> QED
    BY <1>1, <1>2

\* What _insert_object does for a root, also one that is there as a library.
LEMMA RootInserted ==
    ASSUME NEW p, NEW r,
           InsertObject(p, r, TRUE),
           \A edge \in needs : edge.object \in DOMAIN objects /\ OwnProvider(edge)
    PROVE  /\ DOMAIN objects' = DOMAIN objects \cup {p}
           /\ objects'[p] = Kind(TRUE)
           /\ \A q \in DOMAIN objects : q # p => objects'[q] = objects[q]
           /\ \A edge \in needs' : edge.object \in DOMAIN objects' /\ OwnProvider(edge)
<1>1. CASE p \in DOMAIN objects
    <2>1. objects' = [objects EXCEPT ![p] = Kind(TRUE)] /\ needs' = needs
        BY <1>1 DEF InsertObject
    <2> QED
        BY <1>1, <2>1
<1>2. CASE p \notin DOMAIN objects
    <2>1. PICK edges :
              edges = {[object |-> p, soname |-> s, resolved_path |-> Provider(p, r, s)] :
                          s \in Range(tree[p].needs)}
        OBVIOUS
    <2>2. PICK row : row = Kind(TRUE)
        OBVIOUS
    <2>3. objects' = Put(objects, p, row) /\ needs' = needs \cup edges
        BY <1>2, <2>1, <2>2 DEF InsertObject
    <2>4. \A edge \in edges : edge.object = p /\ OwnProvider(edge)
        BY <2>1 DEF OwnProvider, Provider
    <2> QED
        BY <2>2, <2>3, <2>4, RowAdded
<1> QED
    BY <1>1, <1>2

\* What _insert_object does for a library.
LEMMA LibInserted ==
    ASSUME NEW p, NEW r,
           InsertObject(p, r, FALSE),
           \A edge \in needs : edge.object \in DOMAIN objects /\ OwnProvider(edge)
    PROVE  /\ DOMAIN objects' = DOMAIN objects \cup {p}
           /\ p \notin DOMAIN objects => objects'[p] = Kind(FALSE)
           /\ p \in DOMAIN objects => objects'[p] = objects[p]
           /\ \A q \in DOMAIN objects : q # p => objects'[q] = objects[q]
           /\ \A edge \in needs' : edge.object \in DOMAIN objects' /\ OwnProvider(edge)
<1>1. CASE p \in DOMAIN objects
    <2>1. objects' = objects /\ needs' = needs
        BY <1>1 DEF InsertObject
    <2> QED
        BY <1>1, <2>1
<1>2. CASE p \notin DOMAIN objects
    <2>1. PICK edges :
              edges = {[object |-> p, soname |-> s, resolved_path |-> Provider(p, r, s)] :
                          s \in Range(tree[p].needs)}
        OBVIOUS
    <2>2. PICK row : row = Kind(FALSE)
        OBVIOUS
    <2>3. objects' = Put(objects, p, row) /\ needs' = needs \cup edges
        BY <1>2, <2>1, <2>2 DEF InsertObject
    <2>4. \A edge \in edges : edge.object = p /\ OwnProvider(edge)
        BY <2>1 DEF OwnProvider, Provider
    <2>5. /\ DOMAIN objects' = DOMAIN objects \cup {p}
          /\ objects'[p] = row
          /\ \A q \in DOMAIN objects : q # p => objects'[q] = objects[q]
          /\ \A edge \in needs' : edge.object \in DOMAIN objects' /\ OwnProvider(edge)
        BY <2>3, <2>4, RowAdded
    <2> QED
        BY <1>2, <2>2, <2>5
<1> QED
    BY <1>1, <1>2

\* Over the same tree an edge has the same provider.
LEMMA ProviderSame ==
    ASSUME UNCHANGED tree
    PROVE  \A edge : OwnProvider(edge)' = OwnProvider(edge)
BY TreeSame DEF OwnProvider

\* build_closure begins with nothing.
LEMMA BeginPackKeeps ==
    ASSUME ClosureInv, BeginPack, UNCHANGED tree
    PROVE  ClosureInv'
<1>1. /\ roots' = given' /\ given' \in Seq(Paths) /\ pack = "start" /\ pack' = "root"
      /\ UNCHANGED <<root, libs, objects, needs>>
    BY RootListsAssumption DEF BeginPack
<1>2. /\ Done' = 0 /\ Len(given') \in Nat
    BY <1>1 DEF Done
<1>3. QueueInv'
    BY <1>1, <1>2 DEF QueueInv
<1>4. Packed(0)' = {} /\ Closed(0)' = {}
    BY DEF Packed, Closed
<1>5. DOMAIN objects' = {} /\ needs' = {}
    BY <1>1 DEF ClosureInv, QueueInv
<1>6. RowsInv'
    BY <1>1, <1>2, <1>4, <1>5 DEF RowsInv, Expected
<1> QED
    BY <1>3, <1>6 DEF ClosureInv

\* A root that is no program brings in nothing.
LEMMA SkipRootKeeps ==
    ASSUME ClosureInv, SkipRoot, UNCHANGED tree
    PROVE  ClosureInv'
<1>1. /\ pack = "root" /\ roots # <<>> /\ ~Is(Head(roots), "elf") /\ roots' = Tail(roots)
      /\ UNCHANGED <<pack, given, root, libs, objects, needs, quiet>>
    BY DEF SkipRoot
<1>2. QueueInv
    BY DEF ClosureInv
<1>3. /\ Head(roots) = given[Done + 1] /\ Done' = Done + 1 /\ Done \in Nat
    BY <1>1, <1>2, NextRoot, QueueFacts
<1>4. QueueInv'
    BY <1>1, <1>2, <1>3, NextRoot DEF QueueInv
<1>5. Packed(Done + 1) = Packed(Done) /\ Closed(Done + 1) = Closed(Done)
    BY <1>1, <1>3, PackedNext
<1>6. Packed(Done)' = Packed(Done) /\ Closed(Done)' = Closed(Done)
    BY <1>1, <1>3, <1>5, PackedSame
<1>7. RowsInv'
    <2>1. SUFFICES ASSUME quiet PROVE RowsInv'
        BY <1>1 DEF RowsInv
    <2>2. /\ DOMAIN objects = Closed(Done)
          /\ \A p \in DOMAIN objects : objects[p] = Kind(p \in Packed(Done))
          /\ \A edge \in needs : edge.object \in DOMAIN objects /\ OwnProvider(edge)
        BY <1>1, <2>1 DEF ClosureInv, RowsInv, Expected
    <2> QED
        BY <1>1, <1>6, <2>2, ProviderSame DEF RowsInv, Expected
<1> QED
    BY <1>4, <1>7 DEF ClosureInv

\* A root is packed: as a new row, or as a library of an earlier root.
LEMMA PackRootKeeps ==
    ASSUME ClosureInv, PackRoot, UNCHANGED tree
    PROVE  ClosureInv'
<1>0. PICK p : p = Head(roots)
    OBVIOUS
<1>1. /\ pack = "root" /\ roots # <<>> /\ Is(p, "elf") /\ roots' = Tail(roots)
      /\ InsertObject(p, p, TRUE)
      /\ root' = p /\ pack' = "ldd"
      /\ UNCHANGED <<given, libs, quiet>>
    BY <1>0 DEF PackRoot
<1>2. QueueInv
    BY DEF ClosureInv
<1>3. /\ p = given[Done + 1] /\ Done' = Done + 1 /\ Done \in Nat
    BY <1>0, <1>1, <1>2, NextRoot, QueueFacts
<1>4. QueueInv'
    BY <1>1, <1>2, <1>3, NextRoot DEF QueueInv
<1>5. Packed(Done + 1) = Packed(Done) \cup {p}
    BY <1>1, <1>3, PackedNext
<1>6. Done' - 1 = Done
    BY <1>3
<1>7. /\ Packed(Done)' = Packed(Done) \cup {p}
      /\ Closed(Done - 1)' = Closed(Done)
    BY <1>1, <1>3, <1>5, <1>6, PackedSame
<1>8. RowsInv'
    <2>1. SUFFICES ASSUME quiet PROVE RowsInv'
        BY <1>1 DEF RowsInv
    <2>2. /\ DOMAIN objects = Closed(Done)
          /\ \A q \in DOMAIN objects : objects[q] = Kind(q \in Packed(Done))
          /\ \A edge \in needs : edge.object \in DOMAIN objects /\ OwnProvider(edge)
        BY <1>1, <2>1 DEF ClosureInv, RowsInv, Expected
    <2>3. /\ DOMAIN objects' = Closed(Done) \cup {p}
          /\ objects'[p] = Kind(TRUE)
          /\ \A q \in Closed(Done) : q # p => objects'[q] = objects[q]
          /\ \A edge \in needs' : edge.object \in DOMAIN objects' /\ OwnProvider(edge)
        <3>1. InsertObject(p, p, TRUE)
            BY <1>1
        <3>2. \A edge \in needs : edge.object \in DOMAIN objects /\ OwnProvider(edge)
            BY <2>2
        <3>3. /\ DOMAIN objects' = DOMAIN objects \cup {p}
              /\ objects'[p] = Kind(TRUE)
              /\ \A q \in DOMAIN objects : q # p => objects'[q] = objects[q]
              /\ \A edge \in needs' : edge.object \in DOMAIN objects' /\ OwnProvider(edge)
            BY <3>1, <3>2, RootInserted
        <3> QED
            BY <2>2, <3>3
    <2>4. \A q \in DOMAIN objects' : objects'[q] = Kind(q \in Packed(Done) \cup {p})
        <3> SUFFICES ASSUME NEW q \in DOMAIN objects'
                     PROVE  objects'[q] = Kind(q \in Packed(Done) \cup {p})
            OBVIOUS
        <3>1. CASE q = p
            <4>1. (q \in Packed(Done) \cup {p}) = TRUE
                BY <3>1
            <4> QED
                BY <2>3, <3>1, <4>1
        <3>2. CASE q # p
            <4>1. (q \in Packed(Done) \cup {p}) = (q \in Packed(Done))
                BY <3>2
            <4> QED
                BY <2>2, <2>3, <3>2, <4>1
        <3> QED
            BY <3>1, <3>2
    <2>5. Is(p, "elf")' /\ \A edge : OwnProvider(edge)' = OwnProvider(edge)
        BY <1>1, TreeSame, ProviderSame
    <2>6. Expected' = Closed(Done) \cup {p}
        BY <1>1, <1>7 DEF Expected
    <2>7. /\ pack' = "ldd" /\ Done' \in Nat \ {0} /\ root' = given'[Done'] /\ Is(root, "elf")'
        BY <1>1, <1>3, <2>5
    <2>8. \A edge \in needs' : edge.object \in DOMAIN objects' /\ OwnProvider(edge)'
        BY <2>3, <2>5
    <2>9. \A q \in DOMAIN objects' : objects'[q] = Kind(q \in Packed(Done)')
        BY <1>7, <2>4
    <2> QED
        BY <2>3, <2>6, <2>7, <2>8, <2>9 DEF RowsInv
<1> QED
    BY <1>4, <1>8 DEF ClosureInv

-----------------------------------------------------------------------------
\* The rows, while build_closure is at one root.
LEMMA AtRoot ==
    ASSUME ClosureInv, quiet, pack \in {"ldd", "libs"}
    PROVE  /\ Done - 1 \in Nat /\ Is(root, "elf") /\ Done \in Nat \ {0} /\ root = given[Done]
           /\ Packed(Done) = Packed(Done - 1) \cup {root}
           /\ Closed(Done) = Closed(Done - 1) \cup Members(root)
           /\ Packed(Done) \subseteq DOMAIN objects
           /\ DOMAIN objects = Expected
           /\ \A q \in DOMAIN objects : objects[q] = Kind(q \in Packed(Done))
           /\ \A edge \in needs : edge.object \in DOMAIN objects /\ OwnProvider(edge)
<1>1. /\ Done \in Nat \ {0} /\ root = given[Done] /\ Is(root, "elf")
      /\ DOMAIN objects = Expected
      /\ \A q \in DOMAIN objects : objects[q] = Kind(q \in Packed(Done))
      /\ \A edge \in needs : edge.object \in DOMAIN objects /\ OwnProvider(edge)
    BY DEF ClosureInv, RowsInv
<1>2. Done - 1 \in Nat /\ (Done - 1) + 1 = Done
    BY <1>1
<1>3. /\ Packed(Done) = Packed(Done - 1) \cup {root}
      /\ Closed(Done) = Closed(Done - 1) \cup Members(root)
    BY <1>1, <1>2, PackedNext
<1>4. Packed(Done - 1) \subseteq Closed(Done - 1)
    BY DEF Closed, Members
<1>5. Closed(Done - 1) \cup {root} \subseteq Expected
    BY DEF Expected
<1> QED
    BY <1>1, <1>2, <1>3, <1>4, <1>5

\* ldd is asked.
LEMMA ListLibsKeeps ==
    ASSUME ClosureInv, ListLibs, UNCHANGED tree
    PROVE  ClosureInv'
<1>1. /\ pack = "ldd" /\ pack' = "libs" /\ libs' = LddClosure(root)
      /\ UNCHANGED <<given, roots, root, objects, needs, quiet>>
      /\ Done' = Done
    BY DEF ListLibs, Done
<1>2. QueueInv'
    BY <1>1 DEF ClosureInv, QueueInv
<1>3. RowsInv'
    <2>1. SUFFICES ASSUME quiet PROVE RowsInv'
        BY <1>1 DEF RowsInv
    <2>2. Expected' = Closed(Done - 1) \cup {root}
        BY <1>1, PackedSame, TreeSame DEF Expected
    <2>3. Expected = Closed(Done - 1) \cup {root}
        BY <1>1 DEF Expected
    <2>4. Packed(Done)' = Packed(Done) /\ LddClosure(root)' = LddClosure(root)
          /\ Is(root, "elf")' = Is(root, "elf")
        BY <1>1, PackedSame, TreeSame
    <2> QED
        BY <1>1, <2>1, <2>2, <2>3, <2>4, AtRoot, ProviderSame DEF RowsInv
<1> QED
    BY <1>2, <1>3 DEF ClosureInv

\* A library is packed, or was before.
LEMMA PackLibKeeps ==
    ASSUME ClosureInv, PackLib, UNCHANGED tree
    PROVE  ClosureInv'
<1>1. PICK p \in libs :
          IF p \in DOMAIN objects \/ Is(p, "elf")
          THEN /\ InsertObject(p, root, FALSE)
               /\ libs' = libs \ {p}
               /\ UNCHANGED <<pack, given, roots, root, quiet>>
          ELSE Dies
    BY DEF PackLib
<1>2. CASE Dies
    BY <1>2 DEF Dies, ClosureInv, QueueInv, RowsInv, Done
<1>3. CASE /\ InsertObject(p, root, FALSE)
           /\ libs' = libs \ {p}
           /\ UNCHANGED <<pack, given, roots, root, quiet>>
    <2>1. pack = "libs" /\ Done' = Done
        BY <1>3 DEF PackLib, Done
    <2>2. QueueInv'
        BY <1>3, <2>1 DEF ClosureInv, QueueInv
    <2>3. RowsInv'
        <3>1. SUFFICES ASSUME quiet PROVE RowsInv'
            BY <1>3 DEF RowsInv
        <3>2. libs \subseteq LddClosure(root) /\ p \in LddClosure(root)
            BY <1>1, <2>1, <3>1 DEF ClosureInv, RowsInv
        <3>3. /\ DOMAIN objects' = DOMAIN objects \cup {p}
              /\ p \notin DOMAIN objects => objects'[p] = Kind(FALSE)
              /\ p \in DOMAIN objects => objects'[p] = objects[p]
              /\ \A q \in DOMAIN objects : q # p => objects'[q] = objects[q]
              /\ \A edge \in needs' : edge.object \in DOMAIN objects' /\ OwnProvider(edge)
            <4>1. \A edge \in needs : edge.object \in DOMAIN objects /\ OwnProvider(edge)
                BY <2>1, <3>1, AtRoot
            <4>2. InsertObject(p, root, FALSE)
                BY <1>3
            <4> QED
                BY <4>1, <4>2, LibInserted
        <3>4. Expected = Closed(Done - 1) \cup {root} \cup (LddClosure(root) \ libs)
            BY <2>1 DEF Expected
        <3>5. Expected' = Closed(Done - 1) \cup {root} \cup (LddClosure(root) \ libs')
            BY <1>3, <2>1, PackedSame, TreeSame DEF Expected
        <3>6. DOMAIN objects' = Expected'
            BY <1>3, <2>1, <3>1, <3>2, <3>3, <3>4, <3>5, AtRoot
        <3>7. \A q \in DOMAIN objects' : objects'[q] = Kind(q \in Packed(Done))
            <4> SUFFICES ASSUME NEW q \in DOMAIN objects'
                         PROVE  objects'[q] = Kind(q \in Packed(Done))
                OBVIOUS
            <4>1. CASE q \in DOMAIN objects
                BY <2>1, <3>1, <3>3, <4>1, AtRoot
            <4>2. CASE q \notin DOMAIN objects
                <5>1. q = p /\ (q \in Packed(Done)) = FALSE
                    BY <2>1, <3>1, <3>3, <4>2, AtRoot
                <5> QED
                    BY <3>3, <4>2, <5>1
            <4> QED
                BY <4>1, <4>2
        <3>8. /\ Packed(Done)' = Packed(Done) /\ LddClosure(root)' = LddClosure(root)
              /\ Is(root, "elf")' = Is(root, "elf")
            BY <1>3, <2>1, PackedSame, TreeSame
        <3> QED
            BY <1>3, <2>1, <3>1, <3>2, <3>3, <3>6, <3>7, <3>8, AtRoot, ProviderSame DEF RowsInv
    <2> QED
        BY <2>2, <2>3 DEF ClosureInv
<1> QED
    BY <1>1, <1>2, <1>3

\* The closure of the root is complete.
LEMMA RootDoneKeeps ==
    ASSUME ClosureInv, RootDone, UNCHANGED tree
    PROVE  ClosureInv'
<1>1. /\ pack = "libs" /\ libs = {} /\ pack' = "root" /\ Done' = Done
      /\ UNCHANGED <<given, roots, libs, objects, needs, quiet>>
    BY DEF RootDone, Done
<1>2. QueueInv'
    BY <1>1 DEF ClosureInv, QueueInv
<1>3. RowsInv'
    <2>1. SUFFICES ASSUME quiet PROVE RowsInv'
        BY <1>1 DEF RowsInv
    <2>2. Expected = Closed(Done)
        BY <1>1, <2>1, AtRoot DEF Expected, Members
    <2>3. Expected' = Closed(Done) /\ Packed(Done)' = Packed(Done)
        BY <1>1, PackedSame DEF Expected
    <2> QED
        BY <1>1, <2>1, <2>2, <2>3, AtRoot, ProviderSame DEF RowsInv
<1> QED
    BY <1>2, <1>3 DEF ClosureInv

\* The end.
LEMMA CommitPackKeeps ==
    ASSUME ClosureInv, CommitPack, UNCHANGED tree
    PROVE  ClosureInv'
<1>1. /\ pack = "root" /\ roots = <<>> /\ pack' = "done" /\ Done' = Done
      /\ UNCHANGED <<given, roots, root, libs, objects, needs, quiet>>
    BY DEF CommitPack, Done
<1>2. QueueInv'
    BY <1>1 DEF ClosureInv, QueueInv
<1>3. Expected = Closed(Done) /\ Expected' = Closed(Done) /\ Packed(Done)' = Packed(Done)
    BY <1>1, PackedSame DEF Expected
<1>4. RowsInv'
    BY <1>1, <1>3, ProviderSame DEF ClosureInv, RowsInv
<1> QED
    BY <1>2, <1>4 DEF ClosureInv

\* Every step of build_closure.
LEMMA PackStepKeeps ==
    ASSUME ClosureInv, Packing, UNCHANGED tree
    PROVE  ClosureInv'
<1>1. CASE PackDies
    BY <1>1 DEF PackDies, Dies, ClosureInv, QueueInv, RowsInv, Done
<1> QED
    BY <1>1, BeginPackKeeps, SkipRootKeeps, PackRootKeeps, ListLibsKeeps, PackLibKeeps,
       RootDoneKeeps, CommitPackKeeps
       DEF Packing

\* Nothing is said of a tree that moved.
LEMMA TreeMovedKeeps ==
    ASSUME ClosureInv, TreeMoved
    PROVE  ClosureInv'
BY DEF TreeMoved, ClosureInv, QueueInv, RowsInv, Done

\* The steps of the other tool.
LEMMA PackRests ==
    ASSUME ClosureInv, UNCHANGED <<tree, closureVars>>
    PROVE  ClosureInv'
<1>1. /\ UNCHANGED <<pack, given, roots, root, libs, objects, needs, quiet>> /\ Done' = Done
    BY DEF closureVars, Done
<1>2. QueueInv'
    BY <1>1 DEF ClosureInv, QueueInv
<1>3. Packed(Done)' = Packed(Done) /\ Closed(Done)' = Closed(Done)
      /\ Closed(Done - 1)' = Closed(Done - 1) /\ LddClosure(root)' = LddClosure(root)
      /\ Is(root, "elf")' = Is(root, "elf")
    BY <1>1, PackedSame, TreeSame
<1>4. Expected' = Expected
    BY <1>1, <1>3 DEF Expected
<1>5. RowsInv'
    BY <1>1, <1>3, <1>4, ProviderSame DEF ClosureInv, RowsInv
<1> QED
    BY <1>2, <1>5 DEF ClosureInv

-----------------------------------------------------------------------------
\* The steps of the packer.
LEMMA ResolverRests ==
    ASSUME ResolverInv, UNCHANGED <<tree, changes, resolverVars>>
    PROVE  ResolverInv'
<1>1. UNCHANGED <<created, db, hot, scan, todo, pend, still, synced, lookup, tree, changes>>
    BY DEF resolverVars, scanVars
<1>2. LookupInv' /\ AnswerIsRight' /\ lookup' \in LookupType
    BY <1>1 DEF ResolverInv, LookupInv, AnswerIsRight, SearchOver, Is
<1> QED
    BY <1>1, <1>2, LookupStepKeeps DEF scanVars

\* Before the first scan, and before anything is packed.
LEMMA InitObjects == Init => ResolverInv /\ ClosureInv
<1> SUFFICES ASSUME Init PROVE ResolverInv /\ ClosureInv
    OBVIOUS
<1>1. ClosureInv
    BY DEF Init, ClosureInit, ClosureInv, QueueInv, RowsInv, Done
<1>2. NoLookup \in LookupType
    BY DEF NoLookup, LookupType
<1>3. TreeTypeOK
    BY TreesAssumption DEF Init, TreeTypeOK
<1>4. RowsOK(db) /\ RowsOK(pend) /\ ScanInv
    BY DEF Init, ResolverInit, RowsOK, ScanInv
<1>5. LookupInv /\ AnswerIsRight
    BY DEF Init, ResolverInit, LookupInv, AnswerIsRight, SearchOver, NoLookup
<1>6. ResolverInv
    BY <1>2, <1>3, <1>4, <1>5 DEF Init, ResolverInit, ResolverInv
<1> QED
    BY <1>1, <1>6

\* Every step keeps both invariants.
LEMMA NextObjects ==
    ASSUME ResolverInv, ClosureInv, [Next]_vars
    PROVE  ResolverInv' /\ ClosureInv'
<1>1. CASE TreeStep
    BY <1>1, TreeStepKeeps, TreeMovedKeeps DEF TreeStep
<1>2. CASE ResolverStep
    <2>1. UNCHANGED <<tree, changes, closureVars>> /\ Resolving
        BY <1>2 DEF ResolverStep
    <2>2. UNCHANGED <<tree, changes>> /\ UNCHANGED <<tree, closureVars>>
        BY <2>1
    <2>3. ClosureInv'
        BY <2>2, PackRests
    <2>4. CASE BeginScan \/ BeginCommit \/ Commit \/ ScanDies
        BY <2>2, <2>3, <2>4, ScanStepKeeps
    <2>5. CASE LaVersion \/ NextSearch
        BY <2>2, <2>3, <2>5, NewLookupKeeps
    <2>6. CASE Sniff
        BY <2>2, <2>3, <2>6, SniffKeeps
    <2>7. CASE Search \/ Resolve \/ OpenPath
        BY <2>2, <2>3, <2>7, SearchKeeps, ResolveKeeps, OpenPathKeeps
    <2> QED
        BY <2>1, <2>4, <2>5, <2>6, <2>7 DEF Resolving
<1>3. CASE ClosureStep
    <2>1. UNCHANGED <<tree, changes, resolverVars>> /\ Packing
        BY <1>3 DEF ClosureStep
    <2>2. ResolverInv'
        BY <2>1, ResolverRests
    <2> QED
        BY <2>1, <2>2, PackStepKeeps
<1>4. CASE UNCHANGED vars
    <2>1. UNCHANGED <<tree, changes, resolverVars, closureVars>>
        BY <1>4 DEF vars
    <2>2. ResolverInv'
        BY <2>1, ResolverRests
    <2> QED
        BY <2>1, <2>2, PackRests
<1> QED
    BY <1>1, <1>2, <1>3, <1>4 DEF Next, Rest

\* The rows of both databases agree with the tree, as far as it stood still, at
\* every step of a scan, of a search and of a pack.
THEOREM ObjectsInvariant == Spec => [](ResolverInv /\ ClosureInv)
BY InitObjects, NextObjects, PTL DEF Spec

\* A search over a tree that stays as the last scan found it ends with an object
\* of the soname, whatever scans begin, commit or die meanwhile; it fails, or is left
\* to ld.so, only for a file that is gone or is not what the row says.
THEOREM AnswersAreRight == Spec => []AnswerIsRight
<1>1. ResolverInv => AnswerIsRight
    BY DEF ResolverInv
<1> QED
    BY <1>1, ObjectsInvariant, PTL

\* The rows of a pack that is complete.
LEMMA DonePack ==
    ASSUME ClosureInv, pack = "done", quiet
    PROVE  /\ DOMAIN objects = UNION {Members(r) : r \in Roots}
           /\ \A p \in DOMAIN objects : objects[p] = Kind(p \in Roots)
           /\ \A edge \in needs : edge.object \in DOMAIN objects /\ OwnProvider(edge)
<1>1. Done = Len(given) /\ given \in Seq(Paths)
    BY DEF ClosureInv, QueueInv, Done
<1>2. Range(given) = {given[i] : i \in 1 .. Len(given)}
    BY <1>1 DEF Range
<1>3. Roots = Packed(Done)
    BY <1>1, <1>2 DEF Roots, Packed
<1>4. Expected = UNION {Members(r) : r \in Roots}
    BY <1>3 DEF Expected, Closed
<1> QED
    BY <1>3, <1>4 DEF ClosureInv, RowsInv

\* A pack over a tree that stood still holds each program and its libraries once,
\* a root marked as one, in whatever order the roots were named.
THEOREM PacksAreUnions == Spec => []PackIsTheUnionOfClosures
<1>1. ClosureInv => PackIsTheUnionOfClosures
    BY DonePack DEF PackIsTheUnionOfClosures
<1> QED
    BY <1>1, ObjectsInvariant, PTL

\* Every edge of such a pack names the provider its own object is linked
\* against, and one without a row is one that no program of the pack loads.
THEOREM EdgesKeepTheirs == Spec => []EdgesKeepTheirProvider
<1>1. ASSUME ClosureInv, pack = "done", quiet, NEW edge \in needs, NEW r \in Roots,
             edge.object \in Members(r), edge.soname \in DOMAIN LddMap(r),
             LddMap(r)[edge.soname] = edge.resolved_path
      PROVE  edge.resolved_path \in DOMAIN objects
    <2>1. edge.resolved_path \in Members(r)
        BY <1>1 DEF Members, LddClosure
    <2> QED
        BY <1>1, <2>1, DonePack
<1>2. ClosureInv => EdgesKeepTheirProvider
    BY <1>1, DonePack DEF EdgesKeepTheirProvider, OwnProvider
<1> QED
    BY <1>2, ObjectsInvariant, PTL

-----------------------------------------------------------------------------
\* A set of numbers has a least one.
LEMMA LeastNumber ==
    ASSUME NEW S \in SUBSET Nat, S # {}
    PROVE  \E least \in S : \A k \in S : least <= k
<1>1. PICK least \in S : \A k \in S : <<k, least>> \notin OpToRel(<, Nat)
    BY NatLessThanWellFounded, WFMin
<1>2. \A k \in S : ~(k < least)
    BY <1>1 DEF OpToRel
<1>3. least \in Nat /\ \A k \in S : k \in Nat
    OBVIOUS
<1> QED
    BY <1>2, <1>3

\* A sequence of n steps within T stays in T.
LEMMA StepsStay ==
    ASSUME NEW T, NEW n \in Nat, NEW f, f[0] \in T,
           \A i \in 1 .. n : f[i - 1] \in T => f[i] \in T
    PROVE  \A i \in 0 .. n : f[i] \in T
<1> DEFINE Bad == {i \in 0 .. n : f[i] \notin T}
<1> SUFFICES ASSUME Bad # {} PROVE FALSE
    OBVIOUS
<1>1. PICK least \in Bad : \A i \in Bad : least <= i
    <2>1. Bad \in SUBSET Nat
        OBVIOUS
    <2> QED
        BY <2>1, LeastNumber
<1>2. least \in 1 .. n /\ least - 1 \in 0 .. n /\ least - 1 \notin Bad
    BY <1>1
<1> QED
    BY <1>1, <1>2

StepFunctions(n, T) == [(1 .. n) \X T -> T]
StepsOf(n, T, base, F) ==
    {f \in [0 .. n -> T] : f[0] = base /\ \A i \in 1 .. n : f[i] = F[<<i, f[i - 1]>>]}

\* And there is such a sequence, for every step that is a function on T.
LEMMA StepsExist ==
    ASSUME NEW T, NEW n \in Nat, NEW base \in T, NEW F \in StepFunctions(n, T)
    PROVE  StepsOf(n, T, base, F) # {}
<1> DEFINE Upto(k) == {f \in [0 .. k -> T] :
                          f[0] = base /\ \A i \in 1 .. k : f[i] = F[<<i, f[i - 1]>>]}
           Bad == {k \in 0 .. n : Upto(k) = {}}
<1> HIDE DEF Upto
<1>1. Bad = {}
    <2> SUFFICES ASSUME Bad # {} PROVE FALSE
        OBVIOUS
    <2>1. PICK least \in Bad : \A k \in Bad : least <= k
        <3>1. Bad \in SUBSET Nat
            OBVIOUS
        <3> HIDE DEF Bad
        <3> QED
            BY <3>1, LeastNumber
    <2>2. least # 0
        <3>1. [i \in 0 .. 0 |-> base] \in Upto(0)
            BY DEF Upto
        <3> QED
            BY <2>1, <3>1
    <2>3. least \in 1 .. n /\ least - 1 \in 0 .. n /\ least - 1 \notin Bad
        BY <2>1, <2>2
    <2>4. Upto(least - 1) # {}
        BY <2>3
    <2>5. PICK f \in [0 .. least - 1 -> T] :
              f[0] = base /\ \A i \in 1 .. least - 1 : f[i] = F[<<i, f[i - 1]>>]
        BY <2>4 DEF Upto
    <2> DEFINE last == F[<<least, f[least - 1]>>]
               g == [i \in 0 .. least |-> IF i = least THEN last ELSE f[i]]
    <2>6. last \in T
        <3>1. f[least - 1] \in T
            BY <2>3, <2>5
        <3> QED
            BY <2>3, <3>1 DEF StepFunctions
    <2>7. \A i \in 0 .. least : i # least => i \in 0 .. least - 1
        BY <2>3
    <2>8. g \in [0 .. least -> T]
        <3> HIDE DEF last
        <3> QED
            BY <2>5, <2>6, <2>7
    <2>9. ASSUME NEW i \in 1 .. least PROVE g[i] = F[<<i, g[i - 1]>>]
        <3>1. g[i - 1] = f[i - 1] /\ i \in 0 .. least /\ i - 1 \in 0 .. least
            BY <2>3
        <3>2. CASE i = least
            BY <3>1, <3>2
        <3>3. CASE i # least
            <4>1. i \in 1 .. least - 1 /\ g[i] = f[i]
                BY <2>3, <3>1, <3>3
            <4> HIDE DEF g
            <4> QED
                BY <2>5, <3>1, <4>1
        <3> QED
            BY <3>2, <3>3
    <2>10. g[0] = base
        BY <2>3, <2>5
    <2>11. g \in Upto(least)
        <3> HIDE DEF g
        <3> QED
            BY <2>8, <2>9, <2>10 DEF Upto
    <2> QED
        BY <2>1, <2>11
<1>2. Upto(n) # {}
    BY <1>1
<1> QED
    BY <1>2 DEF Upto, StepsOf

-----------------------------------------------------------------------------
(* ldd: where it finds a soname, there is a file.                          *)

Maps(files) == UNION {[S -> DOMAIN files] : S \in SUBSET Sonames}
Walks(files) == [map : Maps(files), queue : Seq(DOMAIN files)]

\* A tree of objects, as ldd sees it.
IsTree(files) == \A p \in DOMAIN files : files[p] \in Files

\* What is found along a RUNPATH is a file of the tree.
LEMMA FoundIsThere ==
    ASSUME NEW files, NEW runpath \in Seq(STRING), NEW soname
    PROVE  Found(files, runpath, soname) \in DOMAIN files \cup {NONE}
<1> DEFINE dirs == {i \in DOMAIN runpath : [dir |-> runpath[i], name |-> soname] \in DOMAIN files}
<1>1. CASE dirs = {}
    BY <1>1 DEF Found
<1>2. CASE dirs # {}
    <2>1. dirs \in SUBSET Nat
        OBVIOUS
    <2>2. \E least \in dirs : \A k \in dirs : least <= k
        <3> HIDE DEF dirs
        <3> QED
            BY <1>2, <2>1, LeastNumber
    <2>3. Min(dirs) \in dirs
        <3> HIDE DEF dirs
        <3> QED
            BY <2>2 DEF Min
    <2>4. Found(files, runpath, soname) = [dir |-> runpath[Min(dirs)], name |-> soname]
        BY <1>2 DEF Found
    <2>5. [dir |-> runpath[Min(dirs)], name |-> soname] \in DOMAIN files
        BY <2>3
    <2> QED
        BY <2>4, <2>5
<1> QED
    BY <1>1, <1>2

\* A soname that has been looked up, or not found, or found.
LEMMA AddNeedStays ==
    ASSUME NEW files, NEW runpath \in Seq(STRING), NEW walk \in Walks(files), NEW soname \in Sonames
    PROVE  AddNeed(files, runpath, walk, soname) \in Walks(files)
<1> DEFINE p == Found(files, runpath, soname)
<1>1. CASE soname \in DOMAIN walk.map \/ p = NONE
    BY <1>1 DEF AddNeed
<1>2. CASE ~(soname \in DOMAIN walk.map \/ p = NONE)
    <2>1. p \in DOMAIN files
        BY <1>2, FoundIsThere
    <2>2. AddNeed(files, runpath, walk, soname)
            = [map |-> Put(walk.map, soname, p), queue |-> Append(walk.queue, p)]
        BY <1>2 DEF AddNeed
    <2> HIDE DEF p
    <2>3. PICK S \in SUBSET Sonames : walk.map \in [S -> DOMAIN files]
        BY DEF Walks, Maps
    <2>4. Put(walk.map, soname, p) \in [{soname} \cup S -> DOMAIN files]
        BY <2>1, <2>3 DEF Put
    <2>5. Put(walk.map, soname, p) \in Maps(files)
        BY <2>3, <2>4 DEF Maps
    <2>6. Append(walk.queue, p) \in Seq(DOMAIN files)
        BY <2>1 DEF Walks
    <2> QED
        BY <2>2, <2>5, <2>6 DEF Walks
<1> QED
    BY <1>1, <1>2

\* The needs of the object at the head of the queue.
LEMMA AddNeedsStays ==
    ASSUME NEW files, IsTree(files), NEW walk \in Walks(files)
    PROVE  AddNeeds(files, walk) \in Walks(files)
<1>1. CASE walk.queue = <<>>
    BY <1>1 DEF AddNeeds
<1>2. CASE walk.queue # <<>>
    <2>1. PICK queue \in Seq(DOMAIN files) : queue = walk.queue
        BY DEF Walks
    <2>2. Head(walk.queue) \in DOMAIN files /\ Tail(walk.queue) \in Seq(DOMAIN files)
        <3>1. queue # <<>>
            BY <1>2, <2>1
        <3>2. Head(queue) \in DOMAIN files /\ Tail(queue) \in Seq(DOMAIN files)
            BY <3>1
        <3> QED
            BY <2>1, <3>2
    <2>3. PICK file \in Files : file = files[Head(walk.queue)]
        BY <2>2 DEF IsTree
    <2>4. file.runpath \in Seq(STRING) /\ file.needs \in Seq(Sonames) /\ Len(file.needs) \in Nat
        BY DEF Files
    <2> DEFINE n == Len(file.needs)
               first == [walk EXCEPT !.queue = Tail(@)]
               Loop(f) == [i \in 0 .. n |->
                              IF i = 0 THEN first
                              ELSE AddNeed(files, file.runpath, f[i - 1], file.needs[i])]
               seen == CHOOSE f : f = Loop(f)
               F == [step \in (1 .. n) \X Walks(files) |->
                        AddNeed(files, file.runpath, step[2], file.needs[step[1]])]
    <2>5. AddNeeds(files, walk) = seen[n]
        BY <1>2, <2>3 DEF AddNeeds
    <2>6. first \in Walks(files)
        BY <2>2 DEF Walks
    <2>7. \A i \in 1 .. n, w \in Walks(files) :
             AddNeed(files, file.runpath, w, file.needs[i]) \in Walks(files)
        BY <2>4, AddNeedStays
    <2>8. F \in StepFunctions(n, Walks(files))
        BY <2>7 DEF StepFunctions
    <2> HIDE DEF first, seen
    <2>9. \E f : f = Loop(f)
        <3>1. PICK f \in [0 .. n -> Walks(files)] :
                  f[0] = first /\ \A i \in 1 .. n : f[i] = F[<<i, f[i - 1]>>]
            <4> HIDE DEF F
            <4>1. n \in Nat
                BY <2>4
            <4>2. StepsOf(n, Walks(files), first, F) # {}
                BY <2>6, <2>8, <4>1, StepsExist
            <4> QED
                BY <4>2 DEF StepsOf
        <3>2. ASSUME NEW i \in 1 .. n
              PROVE  f[i] = AddNeed(files, file.runpath, f[i - 1], file.needs[i])
            <4>1. f[i - 1] \in Walks(files)
                <5>1. i - 1 \in 0 .. n
                    BY <2>4
                <5> QED
                    BY <3>1, <5>1
            <4>2. <<i, f[i - 1]>> \in (1 .. n) \X Walks(files)
                BY <4>1
            <4> QED
                BY <3>1, <4>2
        <3>3. \A i \in 0 .. n : f[i] = Loop(f)[i]
            BY <3>1, <3>2
        <3>4. DOMAIN f = 0 .. n
            BY <3>1
        <3>5. f = Loop(f)
            BY <3>1, <3>3, <3>4
        <3> QED
            BY <3>5
    <2>10. seen = Loop(seen)
        <3> HIDE DEF Loop
        <3> QED
            BY <2>9 DEF seen
    <2>11. /\ seen[0] = first
           /\ \A i \in 1 .. n : seen[i] = AddNeed(files, file.runpath, seen[i - 1], file.needs[i])
        <3>1. 0 \in 0 .. n /\ \A i \in 1 .. n : i \in 0 .. n /\ i # 0
            BY <2>4
        <3>2. \A i \in 0 .. n : seen[i] = Loop(seen)[i]
            BY <2>10
        <3> HIDE DEF n
        <3>3. \A i \in 0 .. n :
                 seen[i] = IF i = 0 THEN first
                           ELSE AddNeed(files, file.runpath, seen[i - 1], file.needs[i])
            BY <3>2
        <3> QED
            BY <3>1, <3>3
    <2>12. \A i \in 0 .. n : seen[i] \in Walks(files)
        <3> HIDE DEF n
        <3>1. n \in Nat
            BY <2>4 DEF n
        <3>2. seen[0] \in Walks(files)
            BY <2>6, <2>11
        <3>3. \A i \in 1 .. n : seen[i - 1] \in Walks(files) => seen[i] \in Walks(files)
            BY <2>7, <2>11
        <3> QED
            BY <3>1, <3>2, <3>3, StepsStay
    <2> QED
        BY <2>4, <2>5, <2>12
<1> QED
    BY <1>1, <1>2

\* A walk that begins at a file of the tree names files of the tree.
LEMMA WalkedMap ==
    ASSUME NEW files, IsTree(files), NEW p \in DOMAIN files
    PROVE  Walked(files, p) \in Maps(files)
<1> DEFINE n == Cardinality(Sonames) + 1
           first == [map |-> <<>>, queue |-> <<p>>]
           Loop(f) == [i \in 0 .. n |-> IF i = 0 THEN first ELSE AddNeeds(files, f[i - 1])]
           walk == CHOOSE f : f = Loop(f)
           F == [step \in (1 .. n) \X Walks(files) |-> AddNeeds(files, step[2])]
<1>1. n \in Nat
    BY TreesAssumption, FS_CardinalityType
<1>2. Walked(files, p) = walk[n].map
    BY DEF Walked
<1>3. first \in Walks(files)
    <2>1. <<>> \in [{} -> DOMAIN files]
        OBVIOUS
    <2>2. <<>> \in Maps(files)
        BY <2>1 DEF Maps
    <2> QED
        BY <2>2 DEF Walks
<1>4. \A w \in Walks(files) : AddNeeds(files, w) \in Walks(files)
    BY AddNeedsStays
<1>5. F \in StepFunctions(n, Walks(files))
    BY <1>4 DEF StepFunctions
<1> HIDE DEF first, walk, n
<1>6. \E f : f = Loop(f)
    <2>1. PICK f \in [0 .. n -> Walks(files)] :
              f[0] = first /\ \A i \in 1 .. n : f[i] = F[<<i, f[i - 1]>>]
        <3> HIDE DEF F
        <3>1. StepsOf(n, Walks(files), first, F) # {}
            BY <1>1, <1>3, <1>5, StepsExist
        <3> QED
            BY <3>1 DEF StepsOf
    <2>2. ASSUME NEW i \in 1 .. n
          PROVE  f[i] = AddNeeds(files, f[i - 1])
        <3>1. f[i - 1] \in Walks(files)
            BY <1>1, <2>1
        <3>2. <<i, f[i - 1]>> \in (1 .. n) \X Walks(files)
            BY <3>1
        <3> QED
            BY <2>1, <3>2
    <2>3. \A i \in 0 .. n : f[i] = Loop(f)[i]
        BY <1>1, <2>1, <2>2
    <2>4. f = Loop(f)
        BY <2>1, <2>3
    <2> QED
        BY <2>4
<1>7. walk = Loop(walk)
    <2> HIDE DEF Loop
    <2> QED
        BY <1>6 DEF walk
<1>8. walk[0] = first /\ \A i \in 1 .. n : walk[i] = AddNeeds(files, walk[i - 1])
    BY <1>1, <1>7
<1>9. \A i \in 0 .. n : walk[i] \in Walks(files)
    <2>1. walk[0] \in Walks(files)
        BY <1>3, <1>8
    <2>2. \A i \in 1 .. n : walk[i - 1] \in Walks(files) => walk[i] \in Walks(files)
        BY <1>4, <1>8
    <2> QED
        BY <1>1, <2>1, <2>2, StepsStay
<1>10. walk[n] \in Walks(files)
    BY <1>1, <1>9
<1> QED
    BY <1>2, <1>10 DEF Walks

\* What ldd says of any path: sonames, and where they are.
LEMMA LddFinds ==
    ASSUME TreeTypeOK, NEW p
    PROVE  /\ \A s \in DOMAIN LddMap(p) : s \in Sonames /\ LddMap(p)[s] \in Paths
           /\ LddClosure(p) \subseteq Paths
<1>1. \A s \in DOMAIN LddMap(p) : s \in Sonames /\ LddMap(p)[s] \in Paths
    <2>1. CASE Is(p, "elf")
        <3>1. p \in DOMAIN tree /\ IsTree(tree) /\ DOMAIN tree \subseteq Paths
            BY <2>1 DEF Is, TreeTypeOK, IsTree
        <3>2. LddMap(p) \in Maps(tree)
            BY <2>1, <3>1, WalkedMap DEF LddMap
        <3>3. PICK S \in SUBSET Sonames : LddMap(p) \in [S -> DOMAIN tree]
            BY <3>2 DEF Maps
        <3> QED
            BY <3>1, <3>3
    <2>2. CASE ~Is(p, "elf")
        BY <2>2 DEF LddMap
    <2> QED
        BY <2>1, <2>2
<1> QED
    BY <1>1 DEF LddClosure

\* A new row, and one edge for each need of its object.
LEMMA InsertKeepsTypes ==
    ASSUME TreeTypeOK, ClosureTypeOK, NEW p \in Paths, NEW r, NEW is_root \in BOOLEAN,
           p \in DOMAIN objects \/ Is(p, "elf"), InsertObject(p, r, is_root)
    PROVE  /\ \A q \in DOMAIN objects' : q \in Paths
           /\ needs' \subseteq [object : DOMAIN objects', soname : Sonames,
                                resolved_path : Paths \cup {NONE}]
<1>1. CASE p \in DOMAIN objects
    <2>1. DOMAIN objects' = DOMAIN objects /\ needs' = needs
        BY <1>1 DEF InsertObject
    <2> QED
        BY <2>1 DEF ClosureTypeOK
<1>2. CASE p \notin DOMAIN objects
    <2>1. /\ DOMAIN objects' = {p} \cup DOMAIN objects
          /\ needs' = needs \cup {[object |-> p, soname |-> s, resolved_path |-> Provider(p, r, s)] :
                                     s \in Range(tree[p].needs)}
        BY <1>2 DEF InsertObject, Put
    <2>2. Range(tree[p].needs) \subseteq Sonames
        <3>1. p \in DOMAIN tree /\ tree[p] \in Files
            BY <1>2 DEF Is, TreeTypeOK
        <3>2. tree[p].needs \in Seq(Sonames)
            BY <3>1 DEF Files
        <3> QED
            BY <3>2 DEF Range
    <2>3. \A s : Provider(p, r, s) \in Paths \cup {NONE}
        BY LddFinds DEF Provider
    <2> QED
        BY <2>1, <2>2, <2>3 DEF ClosureTypeOK
<1> QED
    BY <1>1, <1>2

\* Every step of the packer, of the resolver and of the tree.
LEMMA NextClosureTypes ==
    ASSUME TreeTypeOK, QueueInv, ClosureTypeOK, [Next]_vars
    PROVE  ClosureTypeOK'
<1>1. CASE UNCHANGED <<pack, root, libs, objects, needs>>
    BY <1>1 DEF ClosureTypeOK
<1>2. CASE SkipRoot \/ CommitPack \/ BeginPack \/ RootDone \/ PackDies
    BY <1>2 DEF ClosureTypeOK, SkipRoot, CommitPack, BeginPack, RootDone, PackDies, Dies
<1>3. CASE ListLibs
    BY <1>3, LddFinds DEF ClosureTypeOK, ListLibs
<1>4. CASE PackRoot
    <2>1. Head(roots) \in Paths
        BY <1>4 DEF PackRoot, QueueInv
    <2>2. Is(Head(roots), "elf") /\ InsertObject(Head(roots), Head(roots), TRUE)
        BY <1>4 DEF PackRoot
    <2>3. /\ \A q \in DOMAIN objects' : q \in Paths
          /\ needs' \subseteq [object : DOMAIN objects', soname : Sonames,
                               resolved_path : Paths \cup {NONE}]
        BY <2>1, <2>2, InsertKeepsTypes
    <2> QED
        BY <1>4, <2>1, <2>3 DEF ClosureTypeOK, PackRoot
<1>5. CASE PackLib
    <2>1. PICK p \in libs : IF p \in DOMAIN objects \/ Is(p, "elf")
                            THEN /\ InsertObject(p, root, FALSE)
                                 /\ libs' = libs \ {p}
                                 /\ UNCHANGED <<pack, given, roots, root, quiet>>
                            ELSE Dies
        BY <1>5 DEF PackLib
    <2>2. CASE p \in DOMAIN objects \/ Is(p, "elf")
        <3>1. p \in Paths
            BY DEF ClosureTypeOK
        <3>2. /\ \A q \in DOMAIN objects' : q \in Paths
              /\ needs' \subseteq [object : DOMAIN objects', soname : Sonames,
                                   resolved_path : Paths \cup {NONE}]
            BY <2>1, <2>2, <3>1, InsertKeepsTypes
        <3> QED
            BY <2>1, <2>2, <3>2 DEF ClosureTypeOK
    <2>3. CASE ~(p \in DOMAIN objects \/ Is(p, "elf"))
        BY <2>1, <2>3 DEF ClosureTypeOK, Dies
    <2> QED
        BY <2>2, <2>3
<1>6. CASE ClosureStep
    BY <1>2, <1>3, <1>4, <1>5, <1>6 DEF ClosureStep, Packing
<1>7. CASE ~ClosureStep
    BY <1>1, <1>7 DEF Next, TreeStep, TreeMoved, ResolverStep, closureVars, Rest, vars
<1> QED
    BY <1>6, <1>7

\* Every variable keeps its type: the edges of a pack go from its rows to paths.
THEOREM ObjectsTypeCorrect == Spec => []TypeOK
<1>1. Init => ClosureTypeOK
    BY DEF Init, ClosureInit, ClosureTypeOK
<1>2. ResolverInv /\ ClosureInv /\ ClosureTypeOK /\ [Next]_vars => ClosureTypeOK'
    BY NextClosureTypes DEF ResolverInv, ClosureInv
<1>3. ResolverInv /\ ClosureTypeOK => TypeOK
    BY DEF ResolverInv, RowsOK, LookupType, TypeOK, ResolverTypeOK
<1> QED
    BY <1>1, <1>2, <1>3, ObjectsInvariant, PTL DEF Spec
==============================================================================
