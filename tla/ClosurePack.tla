----------------------------- MODULE ClosurePack -----------------------------
(***************************************************************************)
(* `self closure` (selfconv/closure.py): one or more programs and all the  *)
(* libraries ldd finds for them become the rows of one database.           *)
(***************************************************************************)
EXTENDS FileTree, SequencesExt

CONSTANT RootLists      \* the lists of roots to pack

ASSUME RootListsAssumption == RootLists \subseteq Seq(Paths)

VARIABLES
    pack,       \* where build_closure is
    given,      \* the roots it was given
    roots,      \* those it has not come to
    root,       \* the one it is at
    libs,       \* libraries of that one it has not come to
    objects,    \* rows of objects: path -> [kind, is_root]
    needs,      \* rows of needs: [object, soname, resolved_path]
    quiet       \* the tree has not changed since build_closure began

closureVars == <<pack, given, roots, root, libs, objects, needs, quiet>>

ClosureInit ==
    /\ pack = "start"
    /\ given = <<>> /\ roots = <<>> /\ root = NONE
    /\ libs = {}
    /\ objects = <<>> /\ needs = {}
    /\ quiet = FALSE

-----------------------------------------------------------------------------
(* ldd: the libraries of a program breadth first, each soname once, and    *)
(* each searched for along the RUNPATH of the object that first needs it.  *)
(* files is the tree it sees.                                              *)

Found(files, runpath, soname) ==
    LET dirs == {i \in DOMAIN runpath : [dir |-> runpath[i], name |-> soname] \in DOMAIN files}
    IN IF dirs = {} THEN NONE ELSE [dir |-> runpath[Min(dirs)], name |-> soname]

\* walk: [map: soname -> path, queue: the objects whose needs are to be seen]
AddNeed(files, runpath, walk, soname) ==
    LET p == Found(files, runpath, soname)
    IN IF soname \in DOMAIN walk.map \/ p = NONE THEN walk
       ELSE [map |-> Put(walk.map, soname, p), queue |-> Append(walk.queue, p)]

AddNeeds(files, walk) ==
    IF walk.queue = <<>> THEN walk
    ELSE LET file == files[Head(walk.queue)]
             seen[i \in 0 .. Len(file.needs)] ==
                 IF i = 0 THEN [walk EXCEPT !.queue = Tail(@)]
                 ELSE AddNeed(files, file.runpath, seen[i - 1], file.needs[i])
         IN seen[Len(file.needs)]

Walked(files, p) ==
    LET walk[n \in 0 .. Cardinality(Sonames) + 1] ==
            IF n = 0 THEN [map |-> <<>>, queue |-> <<p>>] ELSE AddNeeds(files, walk[n - 1])
    IN walk[Cardinality(Sonames) + 1].map

\* _ldd_map; nothing for what ldd cannot run.
LddMap(p) == IF Is(p, "elf") THEN Walked(tree, p) ELSE <<>>

LddClosure(p) == LET map == LddMap(p) IN {map[s] : s \in DOMAIN map}

-----------------------------------------------------------------------------
\* The output of an earlier run goes first; nothing is committed before the end.
BeginPack ==
    /\ pack = "start"
    /\ \E list \in RootLists : given' = list /\ roots' = list
    /\ pack' = "root"
    /\ quiet' = TRUE
    /\ UNCHANGED <<root, libs, objects, needs>>

Dies == pack' = "died" /\ UNCHANGED <<given, roots, root, libs, objects, needs, quiet>>

\* Variant: every edge is resolved as the root sees it.
ProviderOfRoot(p, r, soname) ==
    LET map == LddMap(r) IN IF soname \in DOMAIN map THEN map[soname] ELSE NONE

\* resolved.get(lib), out of the object's own ldd; r is the root it belongs to.
Provider(p, r, soname) ==
    LET map == LddMap(p) IN IF soname \in DOMAIN map THEN map[soname] ELSE NONE

Kind(is_root) == [kind |-> IF is_root THEN "exe" ELSE "lib", is_root |-> is_root]

\* Variant: an object that is there is left as it is.
InsertOnce(p, r, is_root) ==
    IF p \in DOMAIN objects
    THEN UNCHANGED <<objects, needs>>
    ELSE /\ objects' = Put(objects, p, Kind(is_root))
         /\ needs' = needs \cup {[object |-> p, soname |-> s, resolved_path |-> Provider(p, r, s)] :
                                    s \in Range(tree[p].needs)}

\* _insert_object, for root r.
InsertObject(p, r, is_root) ==
    IF p \in DOMAIN objects
    THEN /\ objects' = IF is_root THEN [objects EXCEPT ![p] = Kind(TRUE)] ELSE objects
         /\ UNCHANGED needs
    ELSE /\ objects' = Put(objects, p, Kind(is_root))
         /\ needs' = needs \cup {[object |-> p, soname |-> s, resolved_path |-> Provider(p, r, s)] :
                                    s \in Range(tree[p].needs)}

\* A root that is no ELF file is skipped.
SkipRoot ==
    /\ pack = "root" /\ roots # <<>>
    /\ ~Is(Head(roots), "elf")
    /\ roots' = Tail(roots)
    /\ UNCHANGED <<pack, given, root, libs, objects, needs, quiet>>

PackRoot ==
    /\ pack = "root" /\ roots # <<>>
    /\ Is(Head(roots), "elf")
    /\ InsertObject(Head(roots), Head(roots), TRUE)
    /\ root' = Head(roots)
    /\ roots' = Tail(roots)
    /\ pack' = "ldd"
    /\ UNCHANGED <<given, libs, quiet>>

ListLibs ==
    /\ pack = "ldd"
    /\ libs' = LddClosure(root)
    /\ pack' = "libs"
    /\ UNCHANGED <<given, roots, root, objects, needs, quiet>>

\* An object that is gone meanwhile is an exception nobody catches.
PackLib ==
    /\ pack = "libs"
    /\ \E p \in libs :
          IF p \in DOMAIN objects \/ Is(p, "elf")
          THEN /\ InsertObject(p, root, FALSE)
               /\ libs' = libs \ {p}
               /\ UNCHANGED <<pack, given, roots, root, quiet>>
          ELSE Dies

RootDone ==
    /\ pack = "libs" /\ libs = {}
    /\ pack' = "root"
    /\ root' = NONE
    /\ UNCHANGED <<given, roots, libs, objects, needs, quiet>>

CommitPack ==
    /\ pack = "root" /\ roots = <<>>
    /\ pack' = "done"
    /\ UNCHANGED <<given, roots, root, libs, objects, needs, quiet>>

PackDies == pack \notin {"start", "done", "died"} /\ Dies

Packing ==
    \/ BeginPack \/ SkipRoot \/ PackRoot \/ ListLibs \/ PackLib \/ RootDone
    \/ CommitPack \/ PackDies

TreeMoved == quiet' = FALSE /\ UNCHANGED <<pack, given, roots, root, libs, objects, needs>>

-----------------------------------------------------------------------------
ClosureTypeOK ==
    /\ pack \in {"start", "root", "ldd", "libs", "done", "died"}
    /\ root \in Paths \cup {NONE}
    /\ libs \subseteq Paths
    /\ \A p \in DOMAIN objects : p \in Paths
    /\ needs \subseteq [object : DOMAIN objects, soname : Sonames,
                        resolved_path : Paths \cup {NONE}]

Roots == {p \in Range(given) : Is(p, "elf")}
Members(r) == {r} \cup LddClosure(r)

\* A pack over a tree that stood still holds each program and each of its
\* libraries once, a root marked as one, in whatever order the roots were named
\* and however often an object was met before as a library.
PackIsTheUnionOfClosures ==
    pack = "done" /\ quiet =>
        /\ DOMAIN objects = UNION {Members(r) : r \in Roots}
        /\ \A p \in DOMAIN objects :
              objects[p] = Kind(p \in Roots)

\* Every edge names the provider its own object is linked against, whatever the
\* other roots of the pack mean by the soname.  The provider may have no row, but
\* only when no program that brings the object in is linked against it: each has
\* loaded another one, or none.
EdgesKeepTheirProvider ==
    pack = "done" /\ quiet => \A edge \in needs :
        LET own == LddMap(edge.object)
        IN /\ edge.resolved_path = IF edge.soname \in DOMAIN own THEN own[edge.soname] ELSE NONE
           /\ \/ edge.resolved_path \in DOMAIN objects \cup {NONE}
              \/ \A r \in Roots :
                    edge.object \in Members(r) /\ edge.soname \in DOMAIN LddMap(r)
                        => LddMap(r)[edge.soname] # edge.resolved_path
=============================================================================
