------------------------------- MODULE Objects -------------------------------
(***************************************************************************)
(* The two databases of objects over a file tree that changes: the         *)
(* resolver's, keyed by soname, and the closure's, whose edges name paths. *)
(* They share the tree and nothing else, so a behaviour runs one of them.  *)
(***************************************************************************)
EXTENDS Resolver, ClosurePack

VARIABLE tool       \* "resolver" or "closure"

vars == <<tree, changes, resolverVars, closureVars, tool>>

Init ==
    /\ tree \in Trees
    /\ changes = 0
    /\ tool \in {"resolver", "closure"}
    /\ ResolverInit
    /\ ClosureInit

TreeStep == Change /\ TreeChanged /\ TreeMoved /\ UNCHANGED tool

ResolverStep ==
    /\ tool = "resolver"
    /\ Resolving
    /\ UNCHANGED <<tree, changes, closureVars, tool>>

ClosureStep ==
    /\ tool = "closure"
    /\ Packing
    /\ UNCHANGED <<tree, changes, resolverVars, tool>>

Rest == pack \in {"done", "died"} /\ UNCHANGED vars

Next == TreeStep \/ ResolverStep \/ ClosureStep \/ Rest

Spec == Init /\ [][Next]_vars

\* Every variable stays within the values the code can give it.
TypeOK == TreeTypeOK /\ ResolverTypeOK /\ ClosureTypeOK
=============================================================================
