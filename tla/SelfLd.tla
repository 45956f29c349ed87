-------------------------------- MODULE SelfLd --------------------------------
(***************************************************************************)
(* loader/selfld.c: the eager dynamic loader.  run_selfld maps the program,*)
(* then its NEEDED libraries, then the objects of the preload table, and   *)
(* only then relocates every object against the table of exports.          *)
(*                                                                         *)
(* An address is a pair of a mapped object and a symbol, so load biases    *)
(* and R_RELATIVE slots are left out.  g_syms, a list that grows at its    *)
(* head and is searched from there, is the map its searches see: the last  *)
(* object to export a name owns it.                                        *)
(*                                                                         *)
(* No connection has a busy timeout, and every loop over a SELECT takes    *)
(* whatever is not a row for the end of the rows.  A statement that SQLite *)
(* refuses (a commit of another process, an error) is a table that ends    *)
(* early, and the loader goes on.  cut records which statements were.      *)
(***************************************************************************)
EXTENDS Integers, Sequences, FiniteSets

CONSTANTS
    Objects,        \* .self files
    Main,           \* the program
    Sonames,        \* what needed.soname can say
    Symbols,        \* names in the symbols tables
    Uses,           \* Uses[o]: symbols that o's relocations name
    Programs,       \* the inputs: [exports, odd, needed, index, preload] records
    LIBS_MAX,       \* size of libs[]
    MaxRefusals,    \* bound: statements refused in one run
    NONE            \* no row in the resolver's objects table

ASSUME SelfLdAssumption ==
    /\ Main \in Objects
    /\ NONE \notin Objects
    /\ Uses \in [Objects -> SUBSET Symbols]
    /\ LIBS_MAX \in Nat
    /\ MaxRefusals \in Nat
    /\ Programs \subseteq [exports : [Objects -> SUBSET Symbols],
                           odd     : SUBSET Objects,
                           needed  : Seq(Sonames),
                           index   : [Sonames -> Objects \cup {NONE}],
                           preload : Seq(Objects)]

VARIABLES
    phase,      \* where run_selfld is
    input,      \* the databases it reads; odd: objects with a relocation type
                \* that relocate() does not know
    loaded,     \* objects in the order in which they were mapped; the first is Main
    direct,     \* how many of them are the program and its needed libraries
    owner,      \* export_find: index in loaded of the object that owns a name; 0 = none
    turn,       \* index in loaded of the object to relocate next
    bound,      \* relocations done: [user, symbol, owner], indices in loaded
    cut         \* history: statements that ended before their last row, each with
                \* the index in loaded of the object whose database it reads; 0 = the
                \* resolver's

vars == <<phase, input, loaded, direct, owner, turn, bound, cut>>

\* overrun: it has written over memory that is not its own, and anything may follow
Phases == {"start", "needed", "preload", "relocate", "entered", "died", "overrun"}

MapStatements == {"entry", "segments", "exports"}
Statements == MapStatements \cup {"bounds", "relocations", "needed", "preload"}

Bindings == [user : Nat, symbol : Symbols, owner : Nat]

Init ==
    /\ phase = "start"
    /\ input \in Programs
    /\ loaded = <<>>
    /\ direct = 0
    /\ owner = [s \in Symbols |-> 0]
    /\ turn = 1
    /\ bound = {}
    /\ cut = {}

-----------------------------------------------------------------------------
Mapped == Len(loaded)

\* sqlite3_prepare_v2 or sqlite3_step returns neither a row nor SQLITE_DONE.
Refuse(statements) ==
    /\ cut' = cut \cup statements
    /\ statements # {} => Cardinality(cut') <= MaxRefusals

\* Variants: the oldest export of a name is found first, as ld.so does; the
\* index is one too high.
PublishFirstWins(names) ==
    owner' = [s \in Symbols |-> IF s \in names /\ owner[s] = 0 THEN Mapped + 1 ELSE owner[s]]

PublishNextIndex(names) ==
    owner' = [s \in Symbols |-> IF s \in names THEN Mapped + 2 ELSE owner[s]]

\* export_add for the names that were read of the object mapped last.
Publish(names) ==
    owner' = [s \in Symbols |-> IF s \in names THEN Mapped + 1 ELSE owner[s]]

\* map_object: entry point, segments and exports, of which any statement can be
\* refused.  Without its entry point an object is mapped all the same; without
\* some of its segments it has holes; of its exports any part is published.
MapObject(o) ==
    \E refused \in SUBSET MapStatements, names \in SUBSET input.exports[o] :
        /\ "exports" \notin refused => names = input.exports[o]
        /\ Refuse({<<s, Mapped + 1>> : s \in refused})
        /\ loaded' = Append(loaded, o)
        /\ Publish(names)

\* die(): a file cannot be opened or mapped, or the program is not x86-64.  The
\* header row and the path of a library are single rows: refused, they are not
\* there, and the loader dies too.
CannotMap ==
    /\ phase \in {"start", "needed", "preload"}
    /\ phase' = "died"
    /\ UNCHANGED <<input, loaded, direct, owner, turn, bound, cut>>

MapMain ==
    /\ phase = "start"
    /\ MapObject(Main)
    /\ direct' = 1
    /\ phase' = "needed"
    /\ UNCHANGED <<input, turn, bound>>

\* libs[] has LIBS_MAX entries and nlibs is not compared with it: one library
\* more is written past the array, and anything may follow.
LibsFull == Mapped > LIBS_MAX

\* The next row of needed.  The program is loaded[1], so the row's number is
\* the number of objects mapped so far.
NeededLeft == Mapped <= Len(input.needed)
NextNeeded == input.index[input.needed[Mapped]]

\* Variant: a library is relocated as soon as it is mapped, too.
MapAndRelocateNeeded ==
    /\ phase = "needed"
    /\ NeededLeft
    /\ NextNeeded # NONE
    /\ ~LibsFull
    /\ MapObject(NextNeeded)
    /\ direct' = direct + 1
    /\ bound' = bound \cup {[user |-> Mapped + 1, symbol |-> s, owner |-> owner'[s]] :
                             s \in {t \in Uses[NextNeeded] : owner'[t] # 0}}
    /\ UNCHANGED <<phase, input, turn>>

MapNeeded ==
    /\ phase = "needed"
    /\ NeededLeft
    /\ NextNeeded # NONE
    /\ ~LibsFull
    /\ MapObject(NextNeeded)
    /\ direct' = direct + 1
    /\ UNCHANGED <<phase, input, turn, bound>>

NeededUnresolved ==
    /\ phase = "needed"
    /\ NeededLeft
    /\ NextNeeded = NONE
    /\ phase' = "died"
    /\ UNCHANGED <<input, loaded, direct, owner, turn, bound, cut>>

\* A loop over the rows of a table ends after the last row, or at a refused
\* prepare or step before it.
EndOfRows(left, statement) ==
    IF left THEN Refuse({statement}) ELSE UNCHANGED cut

NeededRows == <<"needed", 1>>
PreloadRows == <<"preload", 0>>

NeededDone ==
    /\ phase = "needed"
    /\ EndOfRows(NeededLeft, NeededRows)
    /\ phase' = "preload"
    /\ UNCHANGED <<input, loaded, direct, owner, turn, bound>>

PreloadsDone == Mapped - direct
\* Variant: the last row of the table is not reached.
PreloadLeftButOne == PreloadsDone < Len(input.preload) - 1
PreloadLeft == PreloadsDone < Len(input.preload)

MapPreload ==
    /\ phase = "preload"
    /\ PreloadLeft
    /\ ~LibsFull
    /\ MapObject(input.preload[PreloadsDone + 1])
    /\ UNCHANGED <<phase, input, direct, turn, bound>>

\* An object is about to be mapped.
ObjectNext ==
    \/ phase = "start"
    \/ phase = "needed" /\ NeededLeft /\ NextNeeded # NONE
    \/ phase = "preload" /\ PreloadLeft

OverrunLibs ==
    /\ phase # "start"
    /\ ObjectNext
    /\ LibsFull
    /\ phase' = "overrun"
    /\ UNCHANGED <<input, loaded, direct, owner, turn, bound, cut>>

\* The bounds of the segments are not read, or not all of them: the span that is
\* reserved is too small, and the segments are mapped, MAP_FIXED, over what lies
\* behind it.  (If nothing does, the object is mapped as any other.)
OverrunSpan ==
    /\ ObjectNext
    /\ Refuse({<<"bounds", Mapped + 1>>})
    /\ phase' = "overrun"
    /\ UNCHANGED <<input, loaded, direct, owner, turn, bound>>

\* The libraries are relocated in the order of libs[], the program last.
First == IF Mapped = 1 THEN 1 ELSE 2
\* Variants: the loop stops one library early; the loop starts over.
AfterSkipsLast(i) == IF i >= Mapped - 1 THEN 1 ELSE i + 1
AfterWraps(i) == IF i = Mapped THEN First ELSE i + 1
After(i) == IF i = Mapped THEN 1 ELSE i + 1

PreloadDone ==
    /\ phase = "preload"
    /\ EndOfRows(PreloadLeft, PreloadRows)
    /\ phase' = "relocate"
    /\ turn' = First
    /\ UNCHANGED <<input, loaded, direct, owner, bound>>

Unresolved(i) == \E s \in Uses[loaded[i]] : owner[s] = 0

BindingsOf(i, uses) == {[user |-> i, symbol |-> s, owner |-> owner[s]] : s \in uses}

\* relocate: every slot of one object or, of a statement that is refused, the
\* slots of the rows before.  After the program comes enter, which jumps to
\* address 0 when its entry point was not read.
Relocate ==
    /\ phase = "relocate"
    /\ \E uses \in SUBSET Uses[loaded[turn]] :
        /\ \/ /\ uses = Uses[loaded[turn]]
              /\ loaded[turn] \notin input.odd
              /\ UNCHANGED cut
           \/ Refuse({<<"relocations", turn>>})
        /\ \A s \in uses : owner[s] # 0
        /\ bound' = bound \cup BindingsOf(turn, uses)
    /\ IF turn = 1
       THEN /\ phase' = IF <<"entry", 1>> \in cut THEN "died" ELSE "entered"
            /\ UNCHANGED turn
       ELSE /\ turn' = After(turn)
            /\ UNCHANGED phase
    /\ UNCHANGED <<input, loaded, direct, owner>>

\* An unresolved symbol, a weak one too, an unknown relocation type, or a slot in
\* a page that is not there.
CannotRelocate ==
    /\ phase = "relocate"
    /\ \/ loaded[turn] \in input.odd
       \/ Unresolved(turn)
       \/ <<"segments", turn>> \in cut
    /\ phase' = "died"
    /\ UNCHANGED <<input, loaded, direct, owner, turn, bound, cut>>

\* The program runs, or the process has ended.
Over ==
    /\ phase \in {"entered", "died", "overrun"}
    /\ UNCHANGED vars

Load ==
    \/ MapMain \/ MapNeeded \/ NeededUnresolved \/ NeededDone \/ MapPreload
    \/ OverrunLibs \/ OverrunSpan \/ PreloadDone \/ Relocate \/ CannotRelocate

Next == Load \/ CannotMap \/ Over

Spec == Init /\ [][Next]_vars
FairSpec == Spec /\ WF_vars(Load)

-----------------------------------------------------------------------------
\* Every variable stays within the values the code can give it.
TypeOK ==
    /\ phase \in Phases
    /\ input \in Programs
    /\ loaded \in Seq(Objects)
    /\ direct \in 0 .. Mapped
    /\ owner \in [Symbols -> 0 .. Mapped]
    /\ turn \in Nat \ {0}
    /\ bound \subseteq Bindings
    /\ cut \subseteq Statements \X Nat

Running == phase = "entered"

\* The program is entered only when every symbol that a mapped object refers to
\* is bound, and bound to an object that exports it.  An object whose own
\* relocations were refused is the one exception: a refusal of any other
\* statement leaves no slot unbound.
EnteredFullyBound ==
    Running => \A i \in 1 .. Mapped : \A s \in Uses[loaded[i]] :
        <<"relocations", i>> \notin cut =>
            \E b \in bound : /\ b.user = i
                             /\ b.symbol = s
                             /\ b.owner \in 1 .. Mapped
                             /\ s \in input.exports[loaded[b.owner]]

\* All objects agree on what a symbol means, although they are relocated one
\* after the other: no object is bound before the last export is known.
OneMeaningPerSymbol ==
    \A b, c \in bound : b.symbol = c.symbol => b.owner = c.owner

\* A preloaded object interposes on the whole closure, the program and the
\* libraries alike: what it exports is bound to it or to an object preloaded
\* after it.  It does so wherever the needed rows ended; only what the loader
\* could not read, the row of the object or its exports, does not interpose.
PreloadInterposes ==
    Running => \A b \in bound, k \in 1 .. Len(input.preload) :
        /\ direct + k <= Mapped
        /\ <<"exports", direct + k>> \notin cut
        /\ b.symbol \in input.exports[input.preload[k]]
        => b.owner >= direct + k

\* The objects of the first n rows of needed, resolved, and of the first m rows of
\* the preload table.
ClosureOf(n, m) ==
    <<Main>> \o [k \in 1 .. n |-> input.index[input.needed[k]]] \o SubSeq(input.preload, 1, m)

\* The program runs with its whole closure: the rows of needed, resolved, in
\* their order, and after them the preload table.  A table whose statement was
\* refused gives its first rows and never a row out of turn, and the refusal of
\* one table costs no row of the other.
ClosureIsComplete ==
    Running =>
        /\ loaded = ClosureOf(direct - 1, PreloadsDone)
        /\ NeededRows \notin cut => direct = 1 + Len(input.needed)
        /\ PreloadRows \notin cut => PreloadsDone = Len(input.preload)

\* Seen from outside, all of this is one step: nothing, and then the program
\* with its closure and its bindings, or a failure.
Outcome ==
    IF Running THEN "runs" ELSE IF phase \in {"died", "overrun"} THEN "failed" ELSE "none"

Linking == INSTANCE EagerLinking WITH
    outcome   <- Outcome,
    databases <- input,
    refused   <- cut # {},
    closure   <- IF Running THEN loaded ELSE <<>>,
    links     <- IF Running THEN bound ELSE {}

\* The loader, for all its partial maps and relocations, never shows a program
\* that is linked in part, or linked against another closure, unless a statement
\* was refused; and then it shows first rows of its tables and consistent
\* bindings to exporters.
LinksInOneStep == Linking!LinkSpec

\* Loading ends: the program runs or the process has died.
LoadingEnds == <>(phase \in {"entered", "died", "overrun"})

\* What the design says of the binding ("in breadth-first scope order,
\* mimicking ld.so", ORDER BY load_order LIMIT 1): without a preload, a symbol
\* is bound to the first object in load order that exports it.
BindsInScopeOrder ==
    Running /\ input.preload = <<>> => \A b \in bound :
        \A i \in 1 .. b.owner - 1 : b.symbol \notin input.exports[loaded[i]]
=============================================================================
