------------------------------- MODULE FileTree -------------------------------
(***************************************************************************)
(* The programs and libraries on disk, which `self scan` indexes, ld.so    *)
(* and libself-audit.so open, and `self closure` packs.  Others install,   *)
(* replace and remove files meanwhile.                                     *)
(***************************************************************************)
EXTENDS Naturals, Sequences, FiniteSets, TLC

CONSTANTS
    Paths,          \* [dir, name]
    Sonames,
    Versions,       \* Versions[p]: what may be installed at p
    Trees,          \* the trees to start from
    MaxChanges,     \* bound: installations and removals
    NONE

\* A "half" file is a .self that elf2self has not committed yet.
Files == [kind : {"elf", "self", "half", "script"}, soname : Sonames \cup {NONE},
          machine : {"host", "foreign"}, needs : Seq(Sonames), runpath : Seq(STRING)]

ASSUME TreesAssumption ==
    /\ \A t \in Trees : DOMAIN t \subseteq Paths /\ \A p \in DOMAIN t : t[p] \in Files
    /\ \A p \in Paths : Versions[p] \subseteq Files
    /\ IsFiniteSet(Sonames) /\ MaxChanges \in Nat
ASSUME NoneAssumption == NONE \notin Paths /\ NONE \notin Sonames

VARIABLES tree, changes

\* f with v at p, whatever was there.
Put(f, p, v) == [q \in {p} \cup DOMAIN f |-> IF q = p THEN v ELSE f[q]]

InstallFile(p) ==
    \E file \in Versions[p] :
        /\ ~(p \in DOMAIN tree /\ tree[p] = file)
        /\ tree' = Put(tree, p, file)

RemoveFile(p) ==
    /\ p \in DOMAIN tree
    /\ tree' = [q \in DOMAIN tree \ {p} |-> tree[q]]

Change ==
    /\ changes < MaxChanges
    /\ changes' = changes + 1
    /\ \E p \in Paths : InstallFile(p) \/ RemoveFile(p)

Is(p, kind) == p \in DOMAIN tree /\ tree[p].kind = kind

TreeTypeOK ==
    /\ DOMAIN tree \subseteq Paths
    /\ \A p \in DOMAIN tree : tree[p] \in Files
    /\ changes \in 0 .. MaxChanges
=============================================================================
