----------------------------- MODULE SelfLdProofs -----------------------------
(***************************************************************************)
(* Proofs about loader/selfld.c, for any objects, symbols and databases.   *)
(*                                                                         *)
(* What is entered is fully and consistently bound because mapping and     *)
(* relocation do not overlap: while objects are mapped nothing is bound,   *)
(* and while they are relocated the export table stands still.  The        *)
(* invariant says so, and what the table says of the objects mapped, and   *)
(* for every statement that SQLite may refuse, which of this it costs.     *)
(***************************************************************************)
EXTENDS SelfLd, SequenceTheorems, TLAPS

Exports(i) == input.exports[loaded[i]]

\* A name is owned by the last object mapped that exports it, of those whose
\* exports were read to the end.
OwnerIsLast ==
    \A s \in Symbols :
        /\ owner[s] # 0 => s \in Exports(owner[s])
        /\ \A i \in 1 .. Mapped :
             i > owner[s] /\ <<"exports", i>> \notin cut => s \notin Exports(i)

NothingBoundYet == phase \in {"start", "needed", "preload"} => bound = {}

BoundToOwner ==
    \A b \in bound : b.owner = owner[b.symbol] /\ b.owner \in 1 .. Mapped

BoundToUse ==
    \A b \in bound : b.user \in 1 .. Mapped /\ b.symbol \in Uses[loaded[b.user]]

\* Every use of object i is bound, if its relocations were read to the end.
FullyBound(i) ==
    <<"relocations", i>> \notin cut =>
        \A s \in Uses[loaded[i]] :
            [user |-> i, symbol |-> s, owner |-> owner[s]] \in bound

RelocatedSoFar ==
    /\ phase = "relocate" =>
        /\ turn \in 1 .. Mapped
        /\ \A i \in 2 .. Mapped : turn = 1 \/ i < turn => FullyBound(i)
    /\ Running => \A i \in 1 .. Mapped : FullyBound(i)

\* The order in which objects are mapped: the program, needed, preload.
Needed == Len(input.needed)
Preloads == Len(input.preload)

ProgramFirst == Mapped > 0 => loaded[1] = Main
NeededNext ==
    \A k \in 1 .. Needed : k < direct => loaded[k + 1] = input.index[input.needed[k]]
PreloadLast ==
    \A k \in 1 .. Preloads : direct + k <= Mapped => loaded[direct + k] = input.preload[k]

MappedSoFar ==
    /\ phase = "start" => Mapped = 0
    /\ phase = "needed" => Mapped = direct
    /\ phase \in {"needed", "preload", "relocate", "entered"} =>
        direct >= 1 /\ direct <= 1 + Needed
    /\ phase \in {"preload", "relocate", "entered"} =>
        /\ Mapped >= direct /\ Mapped <= direct + Preloads
        /\ NeededRows \notin cut => direct = 1 + Needed
    /\ phase \in {"relocate", "entered"} /\ PreloadRows \notin cut =>
        Mapped = direct + Preloads

LoaderInv ==
    /\ TypeOK
    /\ OwnerIsLast
    /\ NothingBoundYet
    /\ BoundToOwner
    /\ BoundToUse
    /\ RelocatedSoFar
    /\ ProgramFirst /\ NeededNext /\ PreloadLast
    /\ MappedSoFar

-----------------------------------------------------------------------------
\* The databases that run_selfld reads are of the shape the schema gives them.
LEMMA InputShape ==
    ASSUME input \in Programs
    PROVE  /\ input.exports \in [Objects -> SUBSET Symbols]
           /\ input.needed \in Seq(Sonames)
           /\ input.index \in [Sonames -> Objects \cup {NONE}]
           /\ input.preload \in Seq(Objects)
           /\ Needed \in Nat /\ Preloads \in Nat
BY SelfLdAssumption DEF Needed, Preloads

\* Statements that are refused stay refused, and are of the kinds there are.
LEMMA RefuseKeepsType ==
    ASSUME TypeOK, NEW S \in SUBSET (Statements \X Nat), Refuse(S)
    PROVE  cut' \subseteq Statements \X Nat /\ cut \subseteq cut'
BY DEF TypeOK, Refuse

\* Mapping one more object keeps what the export table says true: the new
\* object takes over every name of it that is read, and no other changes its
\* owner.
LEMMA MapKeepsExports ==
    ASSUME TypeOK, OwnerIsLast, NEW o \in Objects, MapObject(o), UNCHANGED input
    PROVE  /\ loaded' \in Seq(Objects)
           /\ Mapped' = Mapped + 1
           /\ loaded'[Mapped + 1] = o
           /\ \A i \in 1 .. Mapped : loaded'[i] = loaded[i]
           /\ owner' \in [Symbols -> 0 .. Mapped']
           /\ cut' \subseteq Statements \X Nat
           /\ cut \subseteq cut'
           /\ OwnerIsLast'
<1>. PICK refused \in SUBSET MapStatements, names \in SUBSET input.exports[o] :
        /\ "exports" \notin refused => names = input.exports[o]
        /\ Refuse({<<s, Mapped + 1>> : s \in refused})
        /\ loaded' = Append(loaded, o)
        /\ Publish(names)
  BY DEF MapObject
<1>0. input' = input
  OBVIOUS
<1>1. /\ loaded' \in Seq(Objects)
      /\ Mapped' = Mapped + 1
      /\ loaded'[Mapped + 1] = o
      /\ \A i \in 1 .. Mapped : loaded'[i] = loaded[i]
      /\ Mapped \in Nat
  BY DEF TypeOK, Mapped
<1>2. owner' = [s \in Symbols |-> IF s \in names THEN Mapped + 1 ELSE owner[s]]
  BY DEF Publish
<1>3. owner' \in [Symbols -> 0 .. Mapped']
  BY <1>1, <1>2 DEF TypeOK
<1>5. cut' \subseteq Statements \X Nat /\ cut \subseteq cut'
  <2>1. {<<s, Mapped + 1>> : s \in refused} \in SUBSET (Statements \X Nat)
    BY <1>1 DEF Statements, MapStatements
  <2>. QED BY <2>1, RefuseKeepsType
<1>6. <<"exports", Mapped + 1>> \notin cut' => names = input.exports[o]
  BY DEF Refuse
<1>4. OwnerIsLast'
  <2>1. SUFFICES ASSUME NEW s \in Symbols
                 PROVE  /\ owner'[s] # 0 => s \in input.exports[loaded'[owner'[s]]]
                        /\ \A i \in 1 .. Mapped' :
                             i > owner'[s] /\ <<"exports", i>> \notin cut'
                                => s \notin input.exports[loaded'[i]]
    BY <1>0 DEF OwnerIsLast, Exports
  <2>2. /\ owner[s] \in 0 .. Mapped
        /\ owner[s] # 0 => s \in input.exports[loaded[owner[s]]]
        /\ \A i \in 1 .. Mapped :
             i > owner[s] /\ <<"exports", i>> \notin cut => s \notin input.exports[loaded[i]]
    BY DEF TypeOK, OwnerIsLast, Exports
  <2>3. s \in Symbols
    BY <2>1
  <2>4. CASE s \in names
    <3>1. owner'[s] = Mapped + 1 /\ s \in input.exports[o]
      BY <1>2, <2>3, <2>4
    <3>2. \A i \in 1 .. Mapped' : ~(i > owner'[s])
      BY <1>1, <3>1
    <3>3. s \in input.exports[loaded'[owner'[s]]]
      BY <1>1, <3>1
    <3>. QED BY <3>2, <3>3
  <2>5. CASE s \notin names
    <3>1. owner'[s] = owner[s]
      BY <1>2, <2>3, <2>5
    <3>3. ASSUME owner[s] # 0 PROVE s \in input.exports[loaded'[owner[s]]]
      <4>1. owner[s] \in 1 .. Mapped
        BY <1>1, <2>2, <3>3
      <4>2. loaded'[owner[s]] = loaded[owner[s]]
        BY <1>1, <4>1
      <4>. QED BY <2>2, <3>3, <4>2
    <3>2. ASSUME NEW i \in 1 .. Mapped', i > owner'[s], <<"exports", i>> \notin cut'
          PROVE  s \notin input.exports[loaded'[i]]
      <4>1. CASE i = Mapped + 1
        BY <1>1, <1>6, <2>5, <3>2, <4>1
      <4>2. CASE i # Mapped + 1
        <5>1. i \in 1 .. Mapped /\ <<"exports", i>> \notin cut
          BY <1>1, <1>5, <3>2, <4>2
        <5>2. i > owner[s]
          BY <3>1, <3>2
        <5>3. s \notin input.exports[loaded[i]]
          BY <2>2, <5>1, <5>2
        <5>. QED BY <1>1, <5>1, <5>3
      <4>. QED BY <4>1, <4>2
    <3>. QED BY <3>1, <3>2, <3>3
  <2>. QED BY <2>4, <2>5
<1>. QED BY <1>1, <1>3, <1>4, <1>5

-----------------------------------------------------------------------------
\* Before the program is mapped there is nothing to agree about.
LEMMA InitLoaderInv == Init => LoaderInv
<1>. SUFFICES ASSUME Init PROVE LoaderInv
  OBVIOUS
<1>1. Mapped = 0 /\ Needed \in Nat
  BY InputShape DEF Init, Mapped
<1>2. TypeOK
  BY <1>1 DEF Init, TypeOK, Phases
<1>3. OwnerIsLast /\ NothingBoundYet /\ BoundToOwner /\ BoundToUse /\ RelocatedSoFar
  BY <1>1 DEF Init, OwnerIsLast, NothingBoundYet, BoundToOwner, BoundToUse,
              RelocatedSoFar, Running
<1>4. ProgramFirst /\ NeededNext /\ PreloadLast /\ MappedSoFar
  BY <1>1, InputShape DEF Init, ProgramFirst, NeededNext, PreloadLast, MappedSoFar
<1>. QED BY <1>2, <1>3, <1>4 DEF LoaderInv

\* The counters of the mapping are natural numbers.
LEMMA Counts ==
    ASSUME TypeOK
    PROVE  /\ Mapped \in Nat /\ Needed \in Nat /\ Preloads \in Nat
           /\ direct \in Nat /\ direct <= Mapped
BY InputShape DEF TypeOK, Mapped

\* The three steps that map an object.
LEMMA MappingSteps ==
    ASSUME LoaderInv, MapMain \/ MapNeeded \/ MapPreload
    PROVE  LoaderInv'
<1>. USE DEF LoaderInv
<1>1. /\ bound = {} /\ bound' = {}
      /\ input' = input /\ turn' = turn
      /\ input \in Programs
  BY DEF MapMain, MapNeeded, MapPreload, NothingBoundYet, TypeOK
<1>2. /\ Mapped \in Nat /\ Needed \in Nat /\ Preloads \in Nat
      /\ Needed' = Needed /\ Preloads' = Preloads
      /\ direct \in Nat /\ direct <= Mapped
  BY <1>1, Counts DEF Needed, Preloads
<1>3. PICK o \in Objects : MapObject(o) /\
        \/ /\ phase = "start" /\ phase' = "needed" /\ o = Main
           /\ Mapped = 0 /\ direct' = 1
        \/ /\ phase = "needed" /\ phase' = "needed"
           /\ Mapped = direct /\ direct >= 1 /\ direct <= Needed /\ direct' = direct + 1
           /\ o = input.index[input.needed[direct]]
        \/ /\ phase = "preload" /\ phase' = "preload" /\ direct' = direct
           /\ Mapped - direct < Preloads /\ direct >= 1 /\ direct <= 1 + Needed
           /\ o = input.preload[Mapped - direct + 1]
           /\ NeededRows \notin cut => direct = 1 + Needed
  <2>1. CASE MapMain
    BY <2>1, SelfLdAssumption DEF MapMain, MappedSoFar
  <2>2. CASE MapNeeded
    <3>1. /\ Mapped = direct /\ direct >= 1 /\ direct <= Needed
          /\ NextNeeded = input.index[input.needed[direct]]
      BY <2>2, <1>2 DEF MapNeeded, MappedSoFar, NeededLeft, NextNeeded, Needed
    <3>2. NextNeeded \in Objects
      BY <2>2, <3>1, <1>1, <1>2, InputShape DEF MapNeeded, Needed
    <3>. QED BY <2>2, <3>1, <3>2 DEF MapNeeded
  <2>3. CASE MapPreload
    <3>1. /\ Mapped - direct < Preloads /\ PreloadsDone = Mapped - direct
          /\ direct >= 1 /\ direct <= 1 + Needed
          /\ NeededRows \notin cut => direct = 1 + Needed
      BY <2>3 DEF MapPreload, PreloadLeft, PreloadsDone, MappedSoFar, Preloads
    <3>2. PreloadsDone + 1 \in 1 .. Preloads
      BY <3>1, <1>2
    <3>3. input.preload[PreloadsDone + 1] \in Objects
      BY <3>2, <1>1, InputShape DEF Preloads
    <3>. QED BY <2>3, <3>1, <3>3 DEF MapPreload
  <2>. QED BY <2>1, <2>2, <2>3
<1>4. /\ loaded' \in Seq(Objects)
      /\ Mapped' = Mapped + 1
      /\ loaded'[Mapped + 1] = o
      /\ \A i \in 1 .. Mapped : loaded'[i] = loaded[i]
      /\ owner' \in [Symbols -> 0 .. Mapped']
      /\ cut' \subseteq Statements \X Nat
      /\ cut \subseteq cut'
      /\ OwnerIsLast'
  BY <1>1, <1>3, MapKeepsExports
<1>5. direct' \in 0 .. Mapped'
  BY <1>2, <1>3, <1>4
<1>6. TypeOK'
  BY <1>1, <1>3, <1>4, <1>5 DEF TypeOK, Phases
<1>7. NothingBoundYet' /\ BoundToOwner' /\ BoundToUse' /\ RelocatedSoFar'
  BY <1>1, <1>3 DEF NothingBoundYet, BoundToOwner, BoundToUse, RelocatedSoFar, Running
<1>8. ProgramFirst'
  <2>1. CASE Mapped = 0
    <3>1. o = Main
      BY <1>2, <1>3, <2>1
    <3>. QED BY <1>4, <2>1, <3>1 DEF ProgramFirst
  <2>2. CASE Mapped # 0
    BY <1>2, <1>4, <2>2 DEF ProgramFirst
  <2>. QED BY <2>1, <2>2
<1>9. NeededNext'
  <2>1. SUFFICES ASSUME NEW k \in 1 .. Needed, k < direct'
                 PROVE  loaded'[k + 1] = input.index[input.needed[k]]
    BY <1>1, <1>2 DEF NeededNext
  <2>2. CASE k < direct
    <3>1. k + 1 \in 1 .. Mapped
      BY <1>2, <2>2
    <3>. QED BY <1>4, <2>2, <3>1 DEF NeededNext
  <2>3. CASE ~(k < direct)
    <3>1. k = Mapped /\ o = input.index[input.needed[k]]
      BY <1>2, <1>3, <2>1, <2>3
    <3>. QED BY <1>4, <3>1
  <2>. QED BY <2>2, <2>3
<1>10. PreloadLast'
  <2>1. SUFFICES ASSUME NEW k \in 1 .. Preloads, direct' + k <= Mapped + 1
                 PROVE  loaded'[direct' + k] = input.preload[k]
    BY <1>1, <1>4, <1>2 DEF PreloadLast
  <2>2. direct' = direct /\ o = input.preload[Mapped - direct + 1]
    BY <1>2, <1>3, <2>1
  <2>3. CASE direct + k = Mapped + 1
    <3>1. Mapped - direct + 1 = k
      BY <1>2, <2>3
    <3>. QED BY <1>4, <2>2, <2>3, <3>1
  <2>4. CASE direct + k # Mapped + 1
    <3>1. direct + k \in 1 .. Mapped
      BY <1>2, <2>1, <2>2, <2>4
    <3>. QED BY <1>4, <2>2, <3>1 DEF PreloadLast
  <2>. QED BY <2>3, <2>4
<1>11. MappedSoFar'
  <2>1. CASE phase' = "needed"
    <3>1. Mapped' = direct' /\ direct' >= 1 /\ direct' <= 1 + Needed'
      BY <1>2, <1>3, <1>4, <2>1
    <3>. QED BY <2>1, <3>1 DEF MappedSoFar
  <2>2. CASE phase' = "preload"
    <3>1. /\ direct' = direct /\ direct >= 1 /\ direct <= 1 + Needed
          /\ Mapped - direct < Preloads
          /\ NeededRows \notin cut' => direct = 1 + Needed
      BY <1>3, <1>4, <2>2
    <3>2. Mapped' >= direct' /\ Mapped' <= direct' + Preloads'
      BY <1>2, <1>4, <3>1
    <3>. QED BY <1>2, <2>2, <3>1, <3>2 DEF MappedSoFar
  <2>. QED BY <1>3, <2>1, <2>2
<1>. QED BY <1>4, <1>6, <1>7, <1>8, <1>9, <1>10, <1>11

\* A step that maps and binds nothing and does not enter the program.
LEMMA PhaseSteps ==
    ASSUME LoaderInv,
           \/ CannotMap \/ NeededUnresolved \/ NeededDone \/ OverrunLibs \/ OverrunSpan
           \/ PreloadDone \/ CannotRelocate \/ Over \/ UNCHANGED vars
    PROVE  LoaderInv'
<1>. USE DEF LoaderInv
<1>0. UNCHANGED <<input, loaded, direct, owner, bound>>
  BY DEF CannotMap, NeededUnresolved, NeededDone, OverrunLibs, OverrunSpan, PreloadDone,
         CannotRelocate, Over, vars
<1>1. Mapped' = Mapped /\ Needed' = Needed /\ Preloads' = Preloads /\ input \in Programs
  BY <1>0 DEF Mapped, Needed, Preloads, TypeOK
<1>2. /\ Mapped \in Nat /\ Needed \in Nat /\ Preloads \in Nat
      /\ direct \in Nat /\ direct <= Mapped
  BY Counts
<1>3. cut' \subseteq Statements \X Nat /\ cut \subseteq cut'
  <2>1. CASE NeededDone \/ PreloadDone
    <3>1. \/ UNCHANGED cut
          \/ Refuse({NeededRows}) \/ Refuse({PreloadRows})
      BY <2>1 DEF NeededDone, PreloadDone, EndOfRows
    <3>2. /\ {NeededRows} \in SUBSET (Statements \X Nat)
          /\ {PreloadRows} \in SUBSET (Statements \X Nat)
      BY DEF NeededRows, PreloadRows, Statements
    <3>. QED BY <3>1, <3>2, RefuseKeepsType DEF TypeOK
  <2>2. CASE OverrunSpan
    <3>1. {<<"bounds", Mapped + 1>>} \in SUBSET (Statements \X Nat)
      BY <1>2 DEF Statements
    <3>. QED BY <2>2, <3>1, RefuseKeepsType DEF OverrunSpan
  <2>3. CASE UNCHANGED cut
    BY <2>3 DEF TypeOK
  <2>. QED BY <2>1, <2>2, <2>3 DEF CannotMap, NeededUnresolved, OverrunLibs,
           CannotRelocate, Over, vars
<1>4. /\ OwnerIsLast' /\ BoundToOwner' /\ BoundToUse'
      /\ ProgramFirst' /\ NeededNext' /\ PreloadLast'
  <2>1. OwnerIsLast'
    <3>. SUFFICES ASSUME NEW s \in Symbols
                  PROVE  /\ owner[s] # 0 => s \in Exports(owner[s])
                         /\ \A i \in 1 .. Mapped :
                              i > owner[s] /\ <<"exports", i>> \notin cut' => s \notin Exports(i)
      BY <1>0, <1>1 DEF OwnerIsLast, Exports
    <3>. QED BY <1>3 DEF OwnerIsLast
  <2>. QED BY <2>1, <1>0, <1>1 DEF BoundToOwner, BoundToUse, ProgramFirst, NeededNext,
                    PreloadLast
<1>5. CASE PreloadDone
  <2>1. /\ Mapped >= direct /\ Mapped <= direct + Preloads
        /\ direct >= 1 /\ direct <= 1 + Needed
        /\ NeededRows \notin cut' => direct = 1 + Needed
        /\ phase' = "relocate"
    BY <1>3, <1>5 DEF PreloadDone, MappedSoFar
  <2>2. PreloadRows \notin cut' => Mapped = direct + Preloads
    <3>1. SUFFICES ASSUME PreloadRows \notin cut' PROVE Mapped = direct + Preloads
      OBVIOUS
    <3>2. ~(Mapped - direct < Preloads)
      BY <1>5, <3>1 DEF PreloadDone, EndOfRows, Refuse, PreloadLeft, PreloadsDone, Preloads
    <3>. QED BY <1>2, <2>1, <3>2
  <2>3. turn' \in 1 .. Mapped /\ (turn' = 1 => Mapped = 1) /\ turn' <= 2
    BY <1>2, <1>5, <2>1 DEF PreloadDone, First
  <2>4. TypeOK'
    BY <1>0, <1>1, <1>3, <1>5, <2>3 DEF TypeOK, Phases, PreloadDone
  <2>5. NothingBoundYet' /\ MappedSoFar'
    BY <1>0, <1>1, <2>1, <2>2 DEF NothingBoundYet, MappedSoFar
  <2>6. RelocatedSoFar'
    BY <1>1, <1>2, <2>1, <2>3 DEF RelocatedSoFar, Running
  <2>. QED BY <1>4, <2>4, <2>5, <2>6
<1>6. CASE NeededDone
  <2>1. /\ Mapped = direct /\ direct >= 1 /\ direct <= 1 + Needed
        /\ phase' = "preload" /\ turn' = turn /\ phase = "needed"
    BY <1>6 DEF NeededDone, MappedSoFar
  <2>2. NeededRows \notin cut' => direct = 1 + Needed
    <3>1. SUFFICES ASSUME NeededRows \notin cut' PROVE direct = 1 + Needed
      OBVIOUS
    <3>2. ~(Mapped <= Needed)
      BY <1>6, <3>1 DEF NeededDone, EndOfRows, Refuse, NeededLeft, Needed
    <3>. QED BY <1>2, <2>1, <3>2
  <2>3. TypeOK'
    BY <1>0, <1>1, <1>3, <2>1 DEF TypeOK, Phases
  <2>4. MappedSoFar'
    <3>1. Mapped >= direct /\ Mapped <= direct + Preloads
      BY <1>2, <2>1
    <3>. QED BY <1>0, <1>1, <2>1, <2>2, <3>1 DEF MappedSoFar
  <2>5. NothingBoundYet' /\ RelocatedSoFar'
    BY <1>0, <2>1 DEF NothingBoundYet, RelocatedSoFar, Running
  <2>. QED BY <1>4, <2>3, <2>4, <2>5
<1>7. CASE CannotMap \/ NeededUnresolved \/ OverrunLibs \/ OverrunSpan \/ CannotRelocate
  <2>1. phase' \in {"died", "overrun"} /\ turn' = turn
    BY <1>7 DEF CannotMap, NeededUnresolved, OverrunLibs, OverrunSpan, CannotRelocate
  <2>2. TypeOK'
    BY <1>0, <1>1, <1>3, <2>1 DEF TypeOK, Phases
  <2>3. NothingBoundYet' /\ MappedSoFar' /\ RelocatedSoFar'
    BY <2>1 DEF NothingBoundYet, MappedSoFar, RelocatedSoFar, Running
  <2>. QED BY <1>4, <2>2, <2>3
<1>8. CASE Over \/ UNCHANGED vars
  <2>1. phase' = phase /\ turn' = turn /\ cut' = cut
    BY <1>8 DEF Over, vars
  <2>2. TypeOK' /\ NothingBoundYet' /\ MappedSoFar'
    BY <1>0, <1>1, <2>1 DEF TypeOK, NothingBoundYet, MappedSoFar
  <2>3. RelocatedSoFar'
    BY <1>0, <1>1, <2>1 DEF RelocatedSoFar, Running, FullyBound
  <2>. QED BY <1>4, <2>2, <2>3
<1>. QED BY <1>5, <1>6, <1>7, <1>8

\* One object is relocated: the uses that were read are bound to the owners of
\* their names, and the uses of the objects before it stay bound.
LEMMA RelocateStep ==
    ASSUME LoaderInv, Relocate
    PROVE  LoaderInv'
<1>. USE DEF LoaderInv
<1>. PICK uses \in SUBSET Uses[loaded[turn]] :
        /\ \/ uses = Uses[loaded[turn]] /\ UNCHANGED cut
           \/ Refuse({<<"relocations", turn>>})
        /\ \A s \in uses : owner[s] # 0
        /\ bound' = bound \cup BindingsOf(turn, uses)
  BY DEF Relocate
<1>0. /\ UNCHANGED <<input, loaded, direct, owner>>
      /\ phase = "relocate"
      /\ turn \in 1 .. Mapped
  BY DEF Relocate, RelocatedSoFar
<1>1. /\ Mapped' = Mapped /\ Needed' = Needed /\ Preloads' = Preloads
      /\ input \in Programs /\ Mapped \in Nat /\ turn \in Nat
  BY <1>0, Counts DEF Mapped, Needed, Preloads, TypeOK
<1>2. cut' \subseteq Statements \X Nat /\ cut \subseteq cut'
  <2>1. {<<"relocations", turn>>} \in SUBSET (Statements \X Nat)
    BY <1>1 DEF Statements
  <2>. QED BY <2>1, RefuseKeepsType DEF TypeOK
<1>3. OwnerIsLast' /\ ProgramFirst' /\ NeededNext' /\ PreloadLast'
  <2>1. OwnerIsLast'
    <3>. SUFFICES ASSUME NEW s \in Symbols
                  PROVE  /\ owner[s] # 0 => s \in Exports(owner[s])
                         /\ \A i \in 1 .. Mapped :
                              i > owner[s] /\ <<"exports", i>> \notin cut' => s \notin Exports(i)
      BY <1>0, <1>1 DEF OwnerIsLast, Exports
    <3>. QED BY <1>2 DEF OwnerIsLast
  <2>. QED BY <2>1, <1>0, <1>1 DEF ProgramFirst, NeededNext, PreloadLast
<1>4. loaded[turn] \in Objects /\ Uses[loaded[turn]] \subseteq Symbols
  BY <1>0, SelfLdAssumption DEF TypeOK, Mapped
<1>5. \A b \in BindingsOf(turn, uses) :
        /\ b \in Bindings
        /\ b.user = turn /\ b.symbol \in Uses[loaded[turn]]
        /\ b.owner = owner[b.symbol]
        /\ b.owner \in 1 .. Mapped
  <2>1. SUFFICES ASSUME NEW s \in uses
                 PROVE  /\ turn \in Nat /\ s \in Symbols
                        /\ owner[s] \in 1 .. Mapped
    BY <1>1 DEF BindingsOf, Bindings
  <2>2. owner[s] \in 0 .. Mapped
    BY <1>4 DEF TypeOK
  <2>. QED BY <1>0, <1>1, <1>4, <2>2
<1>6. BoundToOwner' /\ BoundToUse'
  <2>1. BoundToOwner'
    BY <1>0, <1>1, <1>5 DEF BoundToOwner
  <2>2. BoundToUse'
    BY <1>0, <1>1, <1>5 DEF BoundToUse
  <2>. QED BY <2>1, <2>2
<1>7. ASSUME NEW i \in 1 .. Mapped, i = turn PROVE FullyBound(i)'
  <2>1. SUFFICES ASSUME <<"relocations", i>> \notin cut'
                 PROVE  \A s \in Uses[loaded[i]] :
                            [user |-> i, symbol |-> s, owner |-> owner[s]] \in bound'
    BY <1>0 DEF FullyBound
  <2>2. uses = Uses[loaded[i]]
    BY <1>7, <2>1 DEF Refuse
  <2>. QED BY <1>7, <2>2 DEF BindingsOf
<1>8. \A i \in 1 .. Mapped : FullyBound(i) \/ i = turn => FullyBound(i)'
  <2>1. ASSUME NEW i \in 1 .. Mapped, FullyBound(i) PROVE FullyBound(i)'
    <3>1. SUFFICES ASSUME <<"relocations", i>> \notin cut'
                   PROVE  \A s \in Uses[loaded[i]] :
                              [user |-> i, symbol |-> s, owner |-> owner[s]] \in bound'
      BY <1>0 DEF FullyBound
    <3>2. <<"relocations", i>> \notin cut
      BY <1>2, <3>1
    <3>. QED BY <2>1, <3>2 DEF FullyBound
  <2>. QED BY <1>7, <2>1
<1>9. MappedSoFar' /\ NothingBoundYet'
  <2>1. phase' \in {"relocate", "entered", "died"}
    BY <1>0 DEF Relocate
  <2>. QED BY <1>0, <1>1, <1>2, <2>1 DEF MappedSoFar, NothingBoundYet
<1>10. CASE turn = 1
  <2>1. phase' \in {"entered", "died"} /\ turn' = turn
    BY <1>10 DEF Relocate
  <2>2. \A i \in 1 .. Mapped : FullyBound(i)'
    BY <1>0, <1>1, <1>8, <1>10 DEF RelocatedSoFar
  <2>3. TypeOK'
    BY <1>0, <1>1, <1>2, <1>5, <2>1 DEF TypeOK, Phases
  <2>4. RelocatedSoFar'
    BY <1>0, <1>1, <2>1, <2>2 DEF RelocatedSoFar, Running
  <2>. QED BY <1>3, <1>6, <1>9, <2>3, <2>4
<1>11. CASE turn # 1
  <2>1. /\ phase' = phase
        /\ turn' = IF turn = Mapped THEN 1 ELSE turn + 1
    BY <1>11 DEF Relocate, After
  <2>2. turn' \in 1 .. Mapped
    BY <1>0, <1>1, <2>1
  <2>3. \A i \in 2 .. Mapped : turn' = 1 \/ i < turn' => FullyBound(i)'
    <3>1. SUFFICES ASSUME NEW i \in 2 .. Mapped, turn' = 1 \/ i < turn'
                   PROVE  FullyBound(i)'
      OBVIOUS
    <3>2. i < turn \/ i = turn
      BY <1>0, <1>1, <2>1, <3>1
    <3>3. i < turn => FullyBound(i)
      BY <1>0 DEF RelocatedSoFar
    <3>. QED BY <1>1, <1>8, <3>2, <3>3
  <2>4. TypeOK'
    BY <1>0, <1>1, <1>2, <1>5, <2>1, <2>2 DEF TypeOK, Phases
  <2>5. RelocatedSoFar'
    BY <1>0, <1>1, <2>1, <2>2, <2>3 DEF RelocatedSoFar, Running
  <2>. QED BY <1>3, <1>6, <1>9, <2>4, <2>5
<1>. QED BY <1>10, <1>11

-----------------------------------------------------------------------------
\* Mapping and relocation keep the export table, the bindings and the order of
\* objects in agreement in every reachable state, with what the refused statements
\* cost of them.
THEOREM LoaderInvariant == Spec => []LoaderInv
<1>1. LoaderInv /\ [Next]_vars => LoaderInv'
  BY MappingSteps, PhaseSteps, RelocateStep DEF Next, Load
<1>. QED BY <1>1, InitLoaderInv, PTL DEF Spec

\* Every variable of the loader keeps its type.
THEOREM LoaderTypeCorrect == Spec => []TypeOK
<1>1. LoaderInv => TypeOK
  BY DEF LoaderInv
<1>. QED BY <1>1, LoaderInvariant, PTL

\* All objects agree on what a symbol means.
THEOREM SymbolsHaveOneMeaning == Spec => []OneMeaningPerSymbol
<1>1. LoaderInv => OneMeaningPerSymbol
  BY DEF LoaderInv, BoundToOwner, OneMeaningPerSymbol
<1>. QED BY <1>1, LoaderInvariant, PTL

\* Control goes to the program only when every use of a symbol by any mapped
\* object is bound to an object that exports it, whatever statements were refused
\* but the one that reads the relocations of that very object.
THEOREM EntersFullyBound == Spec => []EnteredFullyBound
<1>1. LoaderInv => EnteredFullyBound
  <2>1. SUFFICES ASSUME LoaderInv, Running, NEW i \in 1 .. Mapped, NEW s \in Uses[loaded[i]],
                        <<"relocations", i>> \notin cut
                 PROVE  \E b \in bound : /\ b.user = i
                                         /\ b.symbol = s
                                         /\ b.owner \in 1 .. Mapped
                                         /\ s \in input.exports[loaded[b.owner]]
    BY DEF EnteredFullyBound
  <2>2. PICK b \in bound : b.user = i /\ b.symbol = s /\ b.owner = owner[s]
    BY <2>1 DEF LoaderInv, RelocatedSoFar, FullyBound
  <2>3. b.owner \in 1 .. Mapped
    BY <2>1 DEF LoaderInv, BoundToOwner
  <2>4. s \in Symbols /\ owner[s] # 0
    BY <2>1, <2>2, <2>3, SelfLdAssumption DEF LoaderInv, TypeOK, Mapped
  <2>5. s \in input.exports[loaded[owner[s]]]
    BY <2>1, <2>4 DEF LoaderInv, OwnerIsLast, Exports
  <2>. QED BY <2>2, <2>3, <2>5
<1>. QED BY <1>1, LoaderInvariant, PTL

\* What a preloaded object exports is bound to it or to one preloaded after it,
\* for the program and all libraries, unless its row or its exports were refused.
THEOREM PreloadsInterpose == Spec => []PreloadInterposes
<1>1. LoaderInv => PreloadInterposes
  <2>1. SUFFICES ASSUME LoaderInv, Running, NEW b \in bound,
                        NEW k \in 1 .. Preloads, direct + k <= Mapped,
                        <<"exports", direct + k>> \notin cut,
                        b.symbol \in input.exports[input.preload[k]]
                 PROVE  b.owner >= direct + k
    BY DEF PreloadInterposes, Preloads
  <2>2. /\ b.symbol \in Symbols
        /\ b.owner = owner[b.symbol] /\ b.owner \in 1 .. Mapped
        /\ Mapped \in Nat /\ direct \in Nat /\ Preloads \in Nat
    BY <2>1, Counts DEF LoaderInv, TypeOK, Bindings, BoundToOwner
  <2>3. loaded[direct + k] = input.preload[k]
    BY <2>1, <2>2 DEF LoaderInv, PreloadLast
  <2>4. ~(direct + k > owner[b.symbol])
    <3>1. direct + k \in 1 .. Mapped
      BY <2>1, <2>2
    <3>2. b.symbol \in Exports(direct + k)
      BY <2>1, <2>3 DEF Exports
    <3>. QED BY <2>1, <2>2, <3>1, <3>2 DEF LoaderInv, OwnerIsLast
  <2>. QED BY <2>2, <2>4
<1>. QED BY <1>1, LoaderInvariant, PTL

\* The order of mapping, put together.
LEMMA RunningClosure == LoaderInv => ClosureIsComplete
<1>1. SUFFICES ASSUME LoaderInv, Running
               PROVE  /\ loaded = ClosureOf(direct - 1, PreloadsDone)
                      /\ NeededRows \notin cut => direct = 1 + Needed
                      /\ PreloadRows \notin cut => PreloadsDone = Preloads
  BY DEF ClosureIsComplete, Needed, Preloads
<1> DEFINE n == direct - 1
           m == PreloadsDone
           libs == [k \in 1 .. n |-> input.index[input.needed[k]]]
           hooks == SubSeq(input.preload, 1, m)
           all == <<Main>> \o libs \o hooks
<1>2. /\ input \in Programs /\ loaded \in Seq(Objects) /\ phase = "entered"
      /\ direct >= 1 /\ direct <= 1 + Needed
      /\ Mapped >= direct /\ Mapped <= direct + Preloads
      /\ NeededRows \notin cut => direct = 1 + Needed
      /\ PreloadRows \notin cut => Mapped = direct + Preloads
      /\ Needed \in Nat /\ Preloads \in Nat /\ Mapped \in Nat /\ direct \in Nat
  BY <1>1, Counts DEF LoaderInv, TypeOK, Running, MappedSoFar
<1>3. n \in Nat /\ n <= Needed /\ m \in Nat /\ m <= Preloads /\ Mapped = 1 + n + m
  BY <1>2 DEF PreloadsDone
<1>4. loaded[1] = Main
  BY <1>1, <1>2 DEF LoaderInv, ProgramFirst
<1>5. \A k \in 1 .. n : loaded[k + 1] = input.index[input.needed[k]]
  <2>1. \A k \in 1 .. n : k \in 1 .. Needed /\ k < direct
    BY <1>2
  <2>. QED BY <1>1, <2>1 DEF LoaderInv, NeededNext
<1>6. \A k \in 1 .. m : loaded[1 + n + k] = input.preload[k]
  <2>1. \A k \in 1 .. m : k \in 1 .. Preloads /\ direct + k <= Mapped /\ 1 + n + k = direct + k
    BY <1>2, <1>3 DEF PreloadsDone
  <2>. QED BY <1>1, <2>1 DEF LoaderInv, PreloadLast
<1> HIDE DEF n, m
<1>7. libs \in Seq(Objects) /\ Len(libs) = n
  <2>1. \A k \in 1 .. n : k + 1 \in 1 .. Len(loaded)
    BY <1>3 DEF Mapped
  <2>2. \A k \in 1 .. n : libs[k] \in Objects
    BY <1>2, <1>5, <2>1
  <2>. QED BY <1>3, <2>2
<1>8. /\ hooks \in Seq(Objects) /\ Len(hooks) = m
      /\ \A k \in 1 .. m : hooks[k] = input.preload[k]
  <2>1. input.preload \in Seq(Objects) /\ Len(input.preload) = Preloads
    BY <1>2, InputShape DEF Preloads
  <2>2. m = 0 \/ m \in 1 .. Len(input.preload)
    BY <1>2, <1>3, <2>1
  <2>3. CASE m = 0
    <3>1. hooks = << >>
      BY <2>1, <2>3
    <3>. QED BY <2>3, <3>1
  <2>4. CASE m \in 1 .. Len(input.preload)
    BY <2>1, <2>4
  <2>. QED BY <2>2, <2>3, <2>4
<1>9. Main \in Objects
  BY SelfLdAssumption
<1> HIDE DEF libs, hooks
<1>10. /\ all \in Seq(Objects)
       /\ Len(all) = 1 + n + m
       /\ all[1] = Main
       /\ \A k \in 1 .. n : all[k + 1] = libs[k]
       /\ \A k \in 1 .. m : all[1 + n + k] = hooks[k]
  <2> DEFINE first == <<Main>> \o libs
  <2>1. first \in Seq(Objects) /\ Len(first) = 1 + n /\ first[1] = Main
    BY <1>3, <1>7, <1>9
  <2>2. \A k \in 1 .. n : first[k + 1] = libs[k]
    BY <1>3, <1>7, <1>9
  <2>3. all = first \o hooks
    OBVIOUS
  <2> HIDE DEF first, all
  <2>4. /\ all \in Seq(Objects)
        /\ Len(all) = Len(first) + Len(hooks)
        /\ \A i \in 1 .. Len(first) + Len(hooks) :
             all[i] = IF i <= Len(first) THEN first[i] ELSE hooks[i - Len(first)]
    <3>1. first \in Seq(Objects) /\ hooks \in Seq(Objects)
      BY <2>1, <1>8
    <3>. QED BY <3>1, <2>3, ConcatProperties, Zenon
  <2>5. \A k \in 1 .. 1 + n : all[k] = first[k]
    BY <1>3, <2>1, <1>8, <2>4
  <2>6. \A k \in 1 .. m : all[1 + n + k] = hooks[k]
    BY <1>3, <2>1, <1>8, <2>4
  <2>7. Len(all) = 1 + n + m
    BY <2>1, <1>8, <2>4
  <2>8. \A k \in 1 .. n : k + 1 \in 1 .. 1 + n
    BY <1>3
  <2>9. all[1] = Main /\ \A k \in 1 .. n : all[k + 1] = libs[k]
    BY <1>3, <2>1, <2>2, <2>5, <2>8
  <2>. QED BY <2>4, <2>6, <2>7, <2>9
<1> HIDE DEF all
<1>11. \A j \in 1 .. Mapped : loaded[j] = all[j]
  <2>1. SUFFICES ASSUME NEW j \in 1 .. Mapped PROVE loaded[j] = all[j]
    OBVIOUS
  <2>2. CASE j = 1
    BY <1>4, <1>10, <2>2
  <2>3. CASE j \in 2 .. n + 1
    <3>1. j - 1 \in 1 .. n /\ j = (j - 1) + 1
      BY <1>3, <2>3
    <3>. QED BY <1>5, <1>10, <3>1 DEF libs
  <2>4. CASE j > n + 1
    <3>1. j - 1 - n \in 1 .. m /\ j = 1 + n + (j - 1 - n)
      BY <1>3, <2>1, <2>4
    <3>. QED BY <1>6, <1>8, <1>10, <3>1
  <2>. QED BY <1>3, <2>2, <2>3, <2>4
<1>12. loaded = all
  BY <1>2, <1>3, <1>10, <1>11 DEF Mapped
<1>13. all = ClosureOf(direct - 1, PreloadsDone)
  BY DEF all, libs, hooks, n, m, ClosureOf
<1>14. PreloadRows \notin cut => PreloadsDone = Preloads
  BY <1>2 DEF PreloadsDone
<1>. QED BY <1>2, <1>12, <1>13, <1>14

\* The program is entered with its whole closure mapped, in the order of the
\* program, the rows of needed, the preload table; a refused statement costs the
\* last rows of its own table and nothing else.
THEOREM EntersWholeClosure == Spec => []ClosureIsComplete
BY RunningClosure, LoaderInvariant, PTL

-----------------------------------------------------------------------------
\* The bindings of a program that is entered are what an abstract link allows:
\* uses bound to exporters, and a name to one object; and when no statement was
\* refused, they are those that linking in one step computes from the databases.
LEMMA EntersLinked ==
    ASSUME LoaderInv, Running
    PROVE  /\ bound \subseteq Linking!LinkSet(loaded)
           /\ \A l, k \in bound : l.symbol = k.symbol => l.owner = k.owner
           /\ cut = {} => /\ Linking!Linkable(loaded)
                          /\ bound = Linking!LinksOf(loaded)
<1>1. /\ Mapped \in Nat /\ Mapped = Len(loaded)
      /\ loaded \in Seq(Objects) /\ bound \subseteq Bindings
      /\ input.exports \in [Objects -> SUBSET Symbols]
  BY InputShape, Counts DEF LoaderInv, TypeOK, Mapped
<1>2. \A i \in 1 .. Mapped : loaded[i] \in Objects
  BY <1>1
<1>3. ASSUME NEW b \in bound
      PROVE  /\ b \in [user : 1 .. Mapped, symbol : Symbols, owner : 1 .. Mapped]
             /\ b.symbol \in Uses[loaded[b.user]]
             /\ b.owner = owner[b.symbol]
             /\ b.symbol \in input.exports[loaded[b.owner]]
             /\ cut = {} => \A j \in 1 .. Mapped :
                                b.symbol \in input.exports[loaded[j]] => j <= b.owner
  <2>1. /\ b.user \in 1 .. Mapped /\ b.symbol \in Uses[loaded[b.user]]
        /\ b.owner = owner[b.symbol] /\ b.owner \in 1 .. Mapped
        /\ b \in Bindings
    BY <1>1, <1>3 DEF LoaderInv, BoundToUse, BoundToOwner
  <2>2. b \in [user : 1 .. Mapped, symbol : Symbols, owner : 1 .. Mapped]
    BY <2>1 DEF Bindings
  <2>3. /\ b.symbol \in input.exports[loaded[owner[b.symbol]]]
        /\ \A j \in 1 .. Mapped :
             j > owner[b.symbol] /\ <<"exports", j>> \notin cut
                => b.symbol \notin input.exports[loaded[j]]
    BY <1>1, <2>1, <2>2 DEF LoaderInv, OwnerIsLast, Exports
  <2>4. cut = {} => \A j \in 1 .. Mapped :
                        b.symbol \in input.exports[loaded[j]] => j <= b.owner
    <3>1. SUFFICES ASSUME cut = {}, NEW j \in 1 .. Mapped,
                          b.symbol \in input.exports[loaded[j]]
                   PROVE  j <= b.owner
      OBVIOUS
    <3>2. <<"exports", j>> \notin cut
      BY <3>1
    <3>3. ~(j > owner[b.symbol])
      BY <2>3, <3>1, <3>2
    <3>. QED BY <1>1, <2>1, <3>3
  <2>. QED BY <2>1, <2>2, <2>3, <2>4
<1>4. bound \subseteq Linking!LinkSet(loaded)
  BY <1>1, <1>3 DEF Linking!LinkSet, Linking!Exporters
<1>5. \A l, k \in bound : l.symbol = k.symbol => l.owner = k.owner
  BY <1>3
<1>6. SUFFICES ASSUME cut = {}
               PROVE  /\ Linking!Linkable(loaded)
                      /\ bound = Linking!LinksOf(loaded)
  BY <1>4, <1>5
<1>7. ASSUME NEW i \in 1 .. Mapped, NEW s \in Uses[loaded[i]]
      PROVE  [user |-> i, symbol |-> s, owner |-> owner[s]] \in bound
  BY <1>6, <1>7 DEF LoaderInv, RelocatedSoFar, FullyBound
<1>8. Linking!Linkable(loaded)
  <2>1. ASSUME NEW i \in 1 .. Mapped, NEW s \in Uses[loaded[i]]
        PROVE  Linking!Exporters(loaded, s) # {}
    <3>1. PICK b \in bound : b.symbol = s
      BY <1>7, <2>1
    <3>. QED BY <1>1, <1>3, <3>1 DEF Linking!Exporters
  <2>. QED BY <1>1, <1>2, <2>1 DEF Linking!Linkable
<1>9. bound \subseteq Linking!LinksOf(loaded)
  BY <1>1, <1>3, <1>4, <1>6 DEF Linking!LinksOf, Linking!Exporters
<1>10. Linking!LinksOf(loaded) \subseteq bound
  <2>1. SUFFICES ASSUME NEW l \in Linking!LinksOf(loaded) PROVE l \in bound
    OBVIOUS
  <2>2. /\ l \in [user : 1 .. Mapped, symbol : Symbols, owner : 1 .. Mapped]
        /\ l.symbol \in Uses[loaded[l.user]]
        /\ l.symbol \in input.exports[loaded[l.owner]]
        /\ \A j \in 1 .. Mapped : l.symbol \in input.exports[loaded[j]] => j <= l.owner
    BY <1>1, <2>1 DEF Linking!LinksOf, Linking!LinkSet, Linking!Exporters
  <2>3. /\ l.user \in 1 .. Mapped /\ l.owner \in 1 .. Mapped
        /\ l = [user |-> l.user, symbol |-> l.symbol, owner |-> l.owner]
    BY <2>2
  <2> DEFINE b == [user |-> l.user, symbol |-> l.symbol, owner |-> owner[l.symbol]]
  <2>4. b \in bound
    BY <1>7, <2>2, <2>3
  <2>5. /\ owner[l.symbol] \in 1 .. Mapped
        /\ owner[l.symbol] <= l.owner /\ l.owner <= owner[l.symbol]
    BY <1>3, <1>6, <2>2, <2>3, <2>4
  <2>6. l.owner = owner[l.symbol]
    BY <1>1, <2>3, <2>5
  <2>. QED BY <2>3, <2>4, <2>6
<1>. QED BY <1>8, <1>9, <1>10

\* The objects of a program that is entered, as linking in one step names them.
LEMMA EntersClosure ==
    ASSUME LoaderInv, Running
    PROVE  /\ \E n \in 0 .. Needed, m \in 0 .. Preloads : loaded = Linking!ClosureOf(n, m)
           /\ cut = {} => loaded = Linking!Closure
<1>1. /\ direct - 1 \in 0 .. Needed /\ PreloadsDone \in 0 .. Preloads
      /\ loaded = Linking!ClosureOf(direct - 1, PreloadsDone)
  <2>1. phase = "entered"
    BY DEF Running
  <2>2. direct - 1 \in 0 .. Needed /\ PreloadsDone \in 0 .. Preloads
    BY <2>1, Counts DEF LoaderInv, MappedSoFar, PreloadsDone
  <2>. QED BY <2>2, RunningClosure DEF ClosureIsComplete, ClosureOf, Linking!ClosureOf
<1>2. ASSUME cut = {} PROVE direct - 1 = Needed /\ PreloadsDone = Preloads
  <2>1. direct = 1 + Needed /\ PreloadsDone = Preloads
    BY <1>2, RunningClosure DEF ClosureIsComplete, Needed, Preloads
  <2>. QED BY <2>1, Counts DEF LoaderInv
<1>. QED BY <1>1, <1>2 DEF Linking!Closure, Needed, Preloads

\* The loader implements linking in one step: mapping and relocating are
\* invisible, and the step that enters the program shows all of it at once; less
\* than all of it only after a refused statement.
THEOREM LoaderLinks == Spec => LinksInOneStep
<1> DEFINE Links ==
      Running =>
        /\ bound \subseteq Linking!LinkSet(loaded)
        /\ \A l, k \in bound : l.symbol = k.symbol => l.owner = k.owner
        /\ \E n \in 0 .. Needed, m \in 0 .. Preloads : loaded = Linking!ClosureOf(n, m)
        /\ cut = {} => /\ Linking!Linkable(loaded)
                       /\ bound = Linking!LinksOf(loaded)
                       /\ loaded = Linking!Closure
<1>1. Init => Linking!LinkInit
  BY DEF Init, Linking!LinkInit, Outcome, Running
<1>2. LoaderInv => Links
  BY EntersLinked, EntersClosure
<1>3. LoaderInv /\ Links' /\ [Next]_vars
        => [Linking!Link \/ Linking!LinkInPart \/ Linking!Refuse \/ Linking!Fail]_(Linking!linkVars)
  <2>. SUFFICES ASSUME LoaderInv, Links', [Next]_vars
                PROVE  [Linking!Link \/ Linking!LinkInPart \/ Linking!Refuse
                          \/ Linking!Fail]_(Linking!linkVars)
    OBVIOUS
  <2>1. CASE Over \/ UNCHANGED vars
    BY <2>1 DEF Over, vars, Running, Outcome, Linking!linkVars
  <2>2. CASE ~(Over \/ UNCHANGED vars)
    <3>1. /\ phase \in {"start", "needed", "preload", "relocate"}
          /\ input' = input /\ cut \subseteq cut'
          /\ Running' => Relocate /\ loaded' = loaded
      BY <2>2 DEF Next, Load, CannotMap, MapMain, MapNeeded, NeededUnresolved, NeededDone,
           MapPreload, OverrunLibs, OverrunSpan, ObjectNext, PreloadDone, Relocate,
           CannotRelocate, MapObject, EndOfRows, Refuse, Running
    <3>2. ~Running /\ Outcome = "none"
      BY <3>1 DEF Running, Outcome
    <3>3. CASE Running'
      <4>1. Outcome' = "runs"
        BY <3>3 DEF Outcome
      <4>2. CASE cut' = {}
        <5>1. /\ (Linking!Linkable(loaded))'
              /\ bound' = (Linking!LinksOf(loaded))'
              /\ loaded' = (Linking!Closure)'
          BY <3>3, <4>2
        <5>2. (Linking!Closure)' = Linking!Closure
          BY <3>1 DEF Linking!Closure, Linking!ClosureOf
        <5>3. Linking!Linkable(Linking!Closure)
          BY <3>1, <5>1, <5>2 DEF Linking!Linkable, Linking!Exporters
        <5>4. bound' = Linking!LinksOf(Linking!Closure)
          BY <3>1, <5>1, <5>2 DEF Linking!LinksOf, Linking!LinkSet, Linking!Exporters
        <5>. QED BY <3>1, <3>2, <3>3, <4>1, <4>2, <5>1, <5>2, <5>3, <5>4 DEF Linking!Link
      <4>3. CASE cut' # {}
        BY <3>1, <3>2, <3>3, <4>1, <4>3
        DEF Linking!LinkInPart, Linking!LinkSet, Linking!ClosureOf, Linking!Exporters,
            Needed, Preloads
      <4>. QED BY <4>2, <4>3
    <3>4. CASE ~Running'
      <4>1. Outcome' = "failed" \/ Outcome' = "none"
        BY <3>4 DEF Outcome
      <4>2. CASE Outcome' = "failed"
        BY <3>1, <3>2, <3>4, <4>2 DEF Linking!Fail
      <4>3. CASE Outcome' = "none"
        BY <3>1, <3>2, <3>4, <4>3 DEF Linking!Refuse, Linking!linkVars
      <4>. QED BY <4>1, <4>2, <4>3
    <3>. QED BY <3>3, <3>4
  <2>. QED BY <2>1, <2>2
<1> HIDE DEF Links
<1>. QED BY <1>1, <1>2, <1>3, LoaderInvariant, PTL DEF Spec, LinksInOneStep, Linking!LinkSpec
=============================================================================
