----------------------------- MODULE EagerLinking -----------------------------
(***************************************************************************)
(* What loader/selfld.c promises the program it loads: linking is one step.*)
(* Either nothing of the program ever runs, or it runs with its whole      *)
(* closure mapped and every use of a symbol bound to the last object of    *)
(* the closure that exports it.  It is linked in part only after SQLite    *)
(* has refused it a statement, which the loader does not notice.           *)
(***************************************************************************)
EXTENDS Naturals, Sequences

CONSTANTS
    Main,       \* the program
    Symbols,
    Uses        \* Uses[o]: symbols that object o refers to

VARIABLES
    outcome,    \* "none", "runs" or "failed"
    databases,  \* the program's tables and the resolver's
    refused,    \* some statement on the databases was refused
    closure,    \* the objects it runs with
    links       \* its bindings: [user, symbol, owner], indices in closure

linkVars == <<outcome, databases, refused, closure, links>>

LinkInit ==
    /\ outcome = "none"
    /\ refused = FALSE
    /\ closure = <<>>
    /\ links = {}

\* The objects of a closure: the program, what its first n rows of needed
\* resolve to, the first m rows of preload.
ClosureOf(n, m) ==
    <<Main>> \o [k \in 1 .. n |-> databases.index[databases.needed[k]]]
             \o SubSeq(databases.preload, 1, m)

Closure == ClosureOf(Len(databases.needed), Len(databases.preload))

Exporters(objects, s) ==
    {i \in 1 .. Len(objects) : s \in databases.exports[objects[i]]}

\* Bindings of uses to objects that export the name.
LinkSet(objects) ==
    {l \in [user : 1 .. Len(objects), symbol : Symbols, owner : 1 .. Len(objects)] :
        /\ l.symbol \in Uses[objects[l.user]]
        /\ l.owner \in Exporters(objects, l.symbol)}

\* A use is bound to the last exporter of its name.
LinksOf(objects) ==
    {l \in LinkSet(objects) : \A i \in Exporters(objects, l.symbol) : i <= l.owner}

\* Every object is there and no use is left over.
Linkable(objects) ==
    \A i \in 1 .. Len(objects) : \A s \in Uses[objects[i]] : Exporters(objects, s) # {}

Link ==
    /\ outcome = "none"
    /\ outcome' = "runs"
    /\ ~refused'
    /\ Linkable(Closure)
    /\ closure' = Closure
    /\ links' = LinksOf(Closure)
    /\ UNCHANGED databases

\* A table gives its first rows, some uses are left unbound, the last exporter may
\* not be known as one; but two uses of a name still mean the same object.
LinkInPart ==
    /\ outcome = "none"
    /\ outcome' = "runs"
    /\ refused'
    /\ \E n \in 0 .. Len(databases.needed), m \in 0 .. Len(databases.preload) :
        closure' = ClosureOf(n, m)
    /\ links' \subseteq LinkSet(closure')
    /\ \A l, k \in links' : l.symbol = k.symbol => l.owner = k.owner
    /\ UNCHANGED databases

Refuse ==
    /\ outcome = "none"
    /\ refused' = TRUE
    /\ UNCHANGED <<outcome, databases, closure, links>>

Fail ==
    /\ outcome = "none"
    /\ outcome' = "failed"
    /\ refused => refused'
    /\ UNCHANGED <<databases, closure, links>>

LinkSpec == LinkInit /\ [][Link \/ LinkInPart \/ Refuse \/ Fail]_linkVars
=============================================================================
