---------------------------- MODULE SelfExecProofs ----------------------------
(***************************************************************************)
(* Proofs about SelfExec, for any programs, cell sizes, address space and  *)
(* number of conversions.                                                  *)
(***************************************************************************)
EXTENDS SelfExec, WellFoundedInduction, SequenceTheorems, TLAPS

GenType == [elf : Elfs, state : {"blank", "empty", "full"}, hot : BOOLEAN]

\* Generations of the file: elf2self works on one that is at the path, and fills
\* no file a second time.
FileInv ==
    /\ gens \in Seq(GenType)
    /\ conv \in ConvStates
    /\ path \in 0 .. Len(gens)
    /\ handle \in 0 .. Len(gens)
    /\ conv \in {"schema", "identified", "committing", "committed", "vacuuming"} => path # 0
    /\ conv = "schema" => gens[path].state = "blank"
    /\ mode \in {"memfd", "native"}
    /\ rpc \notin {"start", "null"} => handle # 0

\* What was ever in a generation stays: later steps of any writer neither change
\* the program nor take rows away that are committed.
Kept ==
    \A g \in 1 .. Len(gens) :
        /\ g \in 1 .. Len(gens')
        /\ gens'[g].elf = gens[g].elf
        /\ gens[g].state = "full" => gens'[g].state = "full"

\* One generation of the file is replaced: the sequence keeps its length and its
\* other members.
LEMMA GenUpdate ==
    ASSUME gens \in Seq(GenType), NEW g \in 1 .. Len(gens),
           NEW new \in GenType, gens' = [gens EXCEPT ![g] = new]
    PROVE  /\ gens' \in Seq(GenType)
           /\ Len(gens') = Len(gens)
           /\ gens'[g] = new
           /\ \A k \in 1 .. Len(gens) : k # g => gens'[k] = gens[k]
BY DEF GenType

\* A new generation of the file comes after those there are.
LEMMA GenAppend ==
    ASSUME gens \in Seq(GenType), NEW new \in GenType, gens' = Append(gens, new)
    PROVE  /\ gens' \in Seq(GenType)
           /\ Len(gens') = Len(gens) + 1
           /\ gens'[Len(gens) + 1] = new
           /\ \A k \in 1 .. Len(gens) : gens'[k] = gens[k]
BY DEF GenType

\* A step of elf2self or of a running program keeps what FileInv says, and what was
\* ever committed into a generation.
LEMMA WritersKeep ==
    ASSUME FileInv, Writers
    PROVE  FileInv' /\ Kept /\ UNCHANGED procVars
<1> USE DEF procVars
<1>n. Len(gens) \in Nat
    BY DEF FileInv
<1>g. \A g \in 1 .. Len(gens) : gens[g] \in GenType
    BY DEF FileInv
<1>1. CASE RemoveOutput
    BY <1>1 DEF RemoveOutput, FileInv, Kept, ConvStates
<1>2. CASE CreateSchema
    <2>1. PICK e \in Elfs : gens' = Append(gens, [elf |-> e, state |-> "blank", hot |-> FALSE])
        BY <1>2 DEF CreateSchema
    <2>2. [elf |-> e, state |-> "blank", hot |-> FALSE] \in GenType
        BY DEF GenType
    <2>3. /\ gens' \in Seq(GenType)
          /\ Len(gens') = Len(gens) + 1
          /\ gens'[Len(gens) + 1].state = "blank"
          /\ \A k \in 1 .. Len(gens) : gens'[k] = gens[k]
        BY <2>1, <2>2, GenAppend DEF FileInv
    <2>4. path' = Len(gens) + 1 /\ conv' = "schema" /\ UNCHANGED procVars
        BY <1>2, <2>3 DEF CreateSchema
    <2> QED
        BY <1>n, <2>3, <2>4 DEF FileInv, Kept, ConvStates
<1>3. ASSUME NEW new \in GenType, path # 0, gens' = [gens EXCEPT ![path] = new],
             new.elf = gens[path].elf, gens[path].state = "full" => new.state = "full",
             conv' \in {"idle", "identified", "committed"}, path' = path, UNCHANGED procVars
      PROVE  FileInv' /\ Kept
    <2>1. path \in 1 .. Len(gens)
        BY <1>3 DEF FileInv
    <2>2. /\ gens' \in Seq(GenType)
          /\ Len(gens') = Len(gens)
          /\ gens'[path] = new
          /\ \A k \in 1 .. Len(gens) : k # path => gens'[k] = gens[k]
        BY <1>3, <2>1, GenUpdate DEF FileInv
    <2> QED
        BY <1>n, <1>3, <2>2 DEF FileInv, Kept, ConvStates
<1>4. CASE SetApplicationId
    <2> DEFINE new == [gens[path] EXCEPT !.state = "empty"]
    <2>1. path \in 1 .. Len(gens) /\ gens[path].state = "blank"
        BY <1>4 DEF SetApplicationId, FileInv
    <2>2. new \in GenType /\ new.elf = gens[path].elf
        BY <1>g, <2>1 DEF GenType
    <2>3. gens' = [gens EXCEPT ![path] = new]
        BY <1>4, <1>g, <2>1 DEF SetApplicationId
    <2>4. conv' \in {"idle", "identified", "committed"} /\ path' = path /\ UNCHANGED procVars
        BY <1>4 DEF SetApplicationId
    <2>5. path # 0 /\ (gens[path].state = "full" => new.state = "full")
        BY <1>n, <2>1, <2>2
    <2> HIDE DEF new, procVars
    <2> QED
        BY <1>3, <2>2, <2>3, <2>4, <2>5
<1>5. CASE BeginCommit
    BY <1>5 DEF BeginCommit, FileInv, Kept, ConvStates
<1>6. CASE Commit
    <2> DEFINE new == [gens[path] EXCEPT !.state = "full"]
    <2>1. path \in 1 .. Len(gens)
        BY <1>6 DEF Commit, FileInv
    <2>2. new \in GenType /\ new.elf = gens[path].elf /\ new.state = "full"
        BY <1>g, <2>1 DEF GenType
    <2>3. gens' = [gens EXCEPT ![path] = new]
        BY <1>6, <1>g, <2>1 DEF Commit
    <2>4. conv' \in {"idle", "identified", "committed"} /\ path' = path /\ UNCHANGED procVars
        BY <1>6 DEF Commit
    <2>5. path # 0 /\ (gens[path].state = "full" => new.state = "full")
        BY <1>n, <2>1, <2>2
    <2> HIDE DEF new, procVars
    <2> QED
        BY <1>3, <2>2, <2>3, <2>4, <2>5
<1>7. CASE BeginVacuum
    BY <1>7 DEF BeginVacuum, FileInv, Kept, ConvStates
<1>8. CASE EndVacuum
    BY <1>8 DEF EndVacuum, FileInv, Kept, ConvStates
<1>9. CASE ConverterDies
    <2>1. CASE gens' = gens
        BY <1>9, <2>1 DEF ConverterDies, FileInv, Kept, ConvStates
    <2>2. CASE conv \in {"committing", "vacuuming"} /\ gens' = [gens EXCEPT ![path].hot = TRUE]
        <3> DEFINE new == [gens[path] EXCEPT !.hot = TRUE]
        <3>1. path \in 1 .. Len(gens)
            BY <2>2 DEF FileInv
        <3>2. new \in GenType /\ new.elf = gens[path].elf /\ new.state = gens[path].state
            BY <1>g, <3>1 DEF GenType
        <3>3. gens' = [gens EXCEPT ![path] = new]
            BY <2>2, <1>g, <3>1
        <3>4. conv' \in {"idle", "identified", "committed"} /\ path' = path /\ UNCHANGED procVars
            BY <1>9 DEF ConverterDies
        <3>5. path # 0 /\ (gens[path].state = "full" => new.state = "full")
            BY <1>n, <3>1, <3>2
        <3> HIDE DEF new, procVars
        <3> QED
            BY <1>3, <3>2, <3>3, <3>4, <3>5
    <2> QED
        BY <1>9, <2>1, <2>2 DEF ConverterDies
<1>10. CASE OtherBegins
    BY <1>10 DEF OtherBegins, FileInv, Kept
<1>11. CASE OtherEnds
    BY <1>11 DEF OtherEnds, FileInv, Kept
<1>12. UNCHANGED procVars
    BY DEF Writers, RemoveOutput, CreateSchema, SetApplicationId, BeginCommit, Commit,
           BeginVacuum, EndVacuum, ConverterDies, OtherBegins, OtherEnds
<1> QED
    BY <1>1, <1>2, <1>4, <1>5, <1>6, <1>7, <1>8, <1>9, <1>10, <1>11, <1>12 DEF Writers

MemfdPlaces == {"start", "open", "meta", "query", "scan", "alloc", "build", "built", "null"}
NativePlaces == {"start", "open", "meta", "bounds", "reserve", "loads", "map", "tail",
                 "interp", "ldso", "stack", "entered", "null"}

\* The memfd mode: a key found proves that the rows are committed; the rows read
\* are the first ones of the program, and past the scan all of them or none.
MemfdInv == mode = "memfd" =>
    /\ rpc \in MemfdPlaces
    /\ keys \in Nat
    /\ rpc \in {"start", "open"} => keys = 0
    /\ found /\ keys > 0 => handle # 0 /\ Filled
    /\ rpc \in {"query", "scan", "alloc", "build", "built"} => found /\ keys > 0
    /\ rpc \in {"start", "open", "meta", "query"} => rows = <<>>
    /\ rpc = "scan" =>
          /\ rows \in Seq(Phdrs)
          /\ Len(rows) <= Len(Elf.phdrs)
          /\ \A k \in 1 .. Len(rows) : rows[k] = Elf.phdrs[k]
    /\ rpc \in {"alloc", "build", "built"} => rows = <<>> \/ rows = Elf.phdrs

\* The native mode: the same of its keys and of the segments mapped.
NativeInv == mode = "native" =>
    /\ rpc \in NativePlaces
    /\ keys \in Nat
    /\ rpc \in {"start", "open"} => keys = 0
    /\ rpc = "meta" => keys < 4
    /\ rpc = "tail" => keys \in 4 .. 5
    /\ rpc \in {"bounds", "reserve", "loads", "map"} => keys = 4
    /\ rpc \in {"interp", "ldso", "stack", "entered"} => keys = 6
    /\ keys > 0 => handle # 0 /\ Filled
    /\ rpc \in {"start", "open", "meta", "bounds", "reserve", "loads"} => next = 1
    /\ rpc \in {"tail", "interp", "ldso", "stack", "entered"} => next = 1 \/ next > Len(Loads)

\* What has been written where, when the first n - 1 rows are placed.
Written(n, pos) == \E i \in 1 .. n - 1 : pos \in PhdrRange(i) \cup ContentRange(i)
Cleared(pos) == IF pos < EHDR_SIZE THEN Header(pos, FALSE) ELSE Zero

\* The image: its bounds stand from the start, and whatever is written over
\* whatever, a cell is written with the original's.
ImageInv == mode = "memfd" =>
    /\ rpc \notin {"build", "built"} => next = 1
    /\ rpc \in {"build", "built"} =>
          /\ next \in 1 .. Len(rows) + 1
          /\ DOMAIN image = 0 .. ImageSize(rows) - 1
          /\ \A pos \in DOMAIN image :
                image[pos] = IF Written(next, pos) THEN Byte(Elf, pos) ELSE Cleared(pos)
    /\ rpc = "built" => next > Len(rows)

ProgramInv == FileInv /\ MemfdInv /\ NativeInv /\ ImageInv /\ StackIsWellFormed

-----------------------------------------------------------------------------
\* The file that self-exec has open comes from a program that is well formed.
LEMMA ElfShape ==
    ASSUME FileInv, handle # 0
    PROVE  /\ Elf \in Elfs
           /\ WellFormed(Elf)
           /\ Elf.phdrs \in Seq(Phdrs)
           /\ Len(Elf.phdrs) \in Nat
<1>1. Elf \in Elfs
    <2>1. handle \in 1 .. Len(gens)
        BY DEF FileInv
    <2>2. gens[handle] \in GenType
        BY <2>1 DEF FileInv
    <2> QED
        BY <2>2 DEF GenType, Elf
<1> QED
    BY <1>1, ElfsAssumption DEF WellFormed

\* A step of elf2self or of a running program, between any two steps of self-exec,
\* preserves the invariant: the file that is open stays what it is.
LEMMA WritersStep ==
    ASSUME ProgramInv, Writers, UNCHANGED <<imageVars, nativeVars>>
    PROVE  ProgramInv'
<1>1. FileInv' /\ Kept /\ UNCHANGED procVars
    BY WritersKeep DEF ProgramInv
<1>2. UNCHANGED <<mode, rpc, handle, keys, next, missed, found, rows, image, stack>>
    BY <1>1 DEF procVars, imageVars, nativeVars
<1>3. CASE handle = 0
    <2>1. rpc \in {"start", "null"}
        BY <1>3 DEF ProgramInv, FileInv
    <2>2. MemfdInv' /\ NativeInv'
        BY <1>2, <1>3, <2>1 DEF ProgramInv, MemfdInv, NativeInv, MemfdPlaces, NativePlaces
    <2>3. ImageInv' /\ StackIsWellFormed'
        BY <1>2, <2>1 DEF ProgramInv, ImageInv, StackIsWellFormed, Entered
    <2> QED
        BY <1>1, <2>2, <2>3 DEF ProgramInv
<1>4. CASE handle # 0
    <2>1. handle \in 1 .. Len(gens)
        BY <1>4 DEF ProgramInv, FileInv
    <2>2. Elf' = Elf /\ (Filled => Filled')
        BY <1>1, <1>2, <2>1 DEF Kept, Elf, Filled
    <2>3. Loads' = Loads
        BY <2>2 DEF Loads
    <2>4. MemfdInv'
        BY <1>2, <1>4, <2>2 DEF ProgramInv, MemfdInv, MemfdPlaces
    <2>5. NativeInv'
        BY <1>2, <1>4, <2>2, <2>3 DEF ProgramInv, NativeInv, NativePlaces
    <2>6. ImageSize(rows)' = ImageSize(rows)
        BY <1>2, <2>2 DEF ImageSize, Ends, PHNUM
    <2>7. ASSUME NEW pos
          PROVE  /\ Byte(Elf, pos)' = Byte(Elf, pos)
                 /\ Cleared(pos)' = Cleared(pos)
                 /\ Written(next, pos)' = Written(next, pos)
        BY <1>2, <2>2 DEF Byte, Cleared, Written, PhdrRange, PhdrStart, ContentRange, SegmentRange
    <2>8. ImageInv'
        BY <1>2, <2>6, <2>7 DEF ProgramInv, ImageInv
    <2>9. StackIsWellFormed'
        BY <1>2 DEF ProgramInv, StackIsWellFormed, Entered
    <2> QED
        BY <1>1, <2>4, <2>5, <2>8, <2>9 DEF ProgramInv
<1> QED
    BY <1>3, <1>4

-----------------------------------------------------------------------------
\* A bounded set of numbers has a greatest member, and Max is that one.
LEMMA MaxOfBounded ==
    ASSUME NEW S \in SUBSET Nat, S # {}, NEW bound \in Nat, \A x \in S : x <= bound
    PROVE  Max(S) \in S /\ \A x \in S : x <= Max(S)
<1> DEFINE T == {bound - x : x \in S}
<1>1. T \subseteq Nat /\ T # {}
    <2>1. ASSUME NEW x \in S
          PROVE  bound - x \in Nat
        BY SMT
    <2>2. T \subseteq Nat
        BY <2>1
    <2>3. PICK x \in S : TRUE
        OBVIOUS
    <2>4. bound - x \in T
        OBVIOUS
    <2> QED
        BY <2>2, <2>4
<1>2. PICK least \in T : \A y \in T : <<y, least>> \notin OpToRel(<, Nat)
    BY <1>1, NatLessThanWellFounded, WFMin
<1>3. \A y \in T : ~(y < least)
    BY <1>1, <1>2 DEF OpToRel
<1>4. PICK x \in S : least = bound - x
    OBVIOUS
<1>5. \A y \in S : x >= y
    <2> SUFFICES ASSUME NEW y \in S
                 PROVE  x >= y
        OBVIOUS
    <2>1. bound - y \in T
        OBVIOUS
    <2> QED
        BY <1>3, <1>4, <2>1
<1>6. \E m \in S : \A y \in S : m >= y
    BY <1>5
<1>7. Max(S) \in S /\ \A y \in S : Max(S) >= y
    BY <1>6 DEF Max
<1> QED
    BY <1>7

\* self_build_elf sizes its buffer so that it holds the header, the program header
\* table and the content of every row, if it has read all rows or none.
LEMMA SizeCoversAll ==
    ASSUME FileInv, handle # 0, rows = <<>> \/ rows = Elf.phdrs
    PROVE  /\ ImageSize(rows) \in Nat
           /\ EHDR_SIZE <= ImageSize(rows)
           /\ Elf.phoff + PHNUM * PHDR_SIZE <= ImageSize(rows)
           /\ \A i \in 1 .. Len(rows) :
                 rows[i] \in Phdrs /\ rows[i].offset + rows[i].filesz <= ImageSize(rows)
<1> DEFINE table == Elf.phoff + PHNUM * PHDR_SIZE
           ends == {EHDR_SIZE, table} \cup Ends(rows)
<1>1. WellFormed(Elf) /\ Elf.phdrs \in Seq(Phdrs) /\ Len(Elf.phdrs) \in Nat
    BY ElfShape
<1>2. EHDR_SIZE \in Nat /\ PHDR_SIZE \in Nat /\ Elf.phoff \in Nat /\ Elf.size \in Nat
    BY <1>1, SizesAssumption DEF WellFormed
<1>3. PHNUM * PHDR_SIZE \in Nat
    BY <1>1, <1>2 DEF PHNUM
<1>4. table \in Nat /\ table <= Elf.size
    BY <1>1, <1>2, <1>3 DEF WellFormed, PHNUM
<1>5. EHDR_SIZE <= Elf.size
    BY <1>1, <1>2, <1>3, <1>4 DEF WellFormed
<1>6. \A i \in 1 .. Len(rows) :
         /\ rows[i] \in Phdrs
         /\ rows[i].offset + rows[i].filesz \in Nat
         /\ rows[i].offset + rows[i].filesz <= Elf.size
    <2>1. \A i \in 1 .. Len(Elf.phdrs) :
             /\ Elf.phdrs[i] \in Phdrs
             /\ Elf.phdrs[i].offset + Elf.phdrs[i].filesz \in Nat
             /\ Elf.phdrs[i].offset + Elf.phdrs[i].filesz <= Elf.size
        <3> SUFFICES ASSUME NEW i \in 1 .. Len(Elf.phdrs)
                     PROVE  /\ Elf.phdrs[i] \in Phdrs
                            /\ Elf.phdrs[i].offset + Elf.phdrs[i].filesz \in Nat
                            /\ Elf.phdrs[i].offset + Elf.phdrs[i].filesz <= Elf.size
            OBVIOUS
        <3>1. Elf.phdrs[i] \in Phdrs
            BY <1>1
        <3>2. Elf.phdrs[i].offset \in Nat /\ Elf.phdrs[i].filesz \in Nat
            BY <3>1 DEF Phdrs
        <3>3. Elf.phdrs[i].offset + Elf.phdrs[i].filesz <= Elf.size
            BY <1>1 DEF WellFormed
        <3> QED
            BY <3>1, <3>2, <3>3
    <2> QED
        BY <2>1
<1>7. Ends(rows) \in SUBSET Nat /\ \A x \in Ends(rows) : x <= Elf.size
    BY <1>6 DEF Ends
<1>8. ends \in SUBSET Nat /\ ends # {} /\ \A x \in ends : x <= Elf.size
    BY <1>2, <1>4, <1>5, <1>7
<1> HIDE DEF ends, table
<1>9. Max(ends) \in ends /\ \A x \in ends : x <= Max(ends)
    BY <1>2, <1>8, MaxOfBounded
<1>10. ImageSize(rows) = Max(ends)
    BY DEF ImageSize, ends, table
<1>11. \A i \in 1 .. Len(rows) : rows[i].offset + rows[i].filesz \in ends
    BY DEF ends, Ends
<1>12. EHDR_SIZE \in ends /\ table \in ends
    BY DEF ends
<1> QED
    BY <1>6, <1>8, <1>9, <1>10, <1>11, <1>12 DEF table

-----------------------------------------------------------------------------
\* A step of self-exec leaves the file alone, and keeps the one it has open.
LEMMA ProcessFile ==
    ASSUME FileInv, UNCHANGED <<conv, gens, path, mode>>,
           handle' = handle, rpc \notin {"start", "null"}
    PROVE  FileInv'
BY DEF FileInv

\* Opening the file and checking its application_id preserve the invariant.
LEMMA StartStep ==
    ASSUME ProgramInv, Start, UNCHANGED <<imageVars, nativeVars>>
    PROVE  ProgramInv'
<1> USE DEF ProgramInv, fileVars, imageVars, nativeVars, Goto, GiveUp
<1>1. CASE OpenFile
    <2>1. /\ UNCHANGED <<conv, gens, path, mode, keys, next, found, rows, image, stack>>
          /\ rpc = "start"
          /\ rpc' \in {"open", "null"}
          /\ rpc' = "open" => handle' = path /\ path # 0
          /\ rpc' = "null" => handle' = handle
        BY <1>1 DEF OpenFile
    <2>2. FileInv'
        BY <2>1 DEF FileInv
    <2>3. MemfdInv' /\ NativeInv'
        BY <2>1 DEF MemfdInv, NativeInv, MemfdPlaces, NativePlaces
    <2>4. ImageInv' /\ StackIsWellFormed'
        BY <2>1 DEF ImageInv, StackIsWellFormed, Entered
    <2> QED
        BY <2>2, <2>3, <2>4
<1>2. CASE CheckApplicationId
    <2>1. /\ UNCHANGED <<conv, gens, path, mode, handle, keys, next, found, rows, image, stack>>
          /\ rpc = "open"
          /\ rpc' \in {"meta", "null"}
        BY <1>2 DEF CheckApplicationId
    <2>2. FileInv'
        BY <2>1, ProcessFile
    <2>3. MemfdInv' /\ NativeInv'
        BY <2>1 DEF MemfdInv, NativeInv, MemfdPlaces, NativePlaces
    <2>4. ImageInv' /\ StackIsWellFormed'
        BY <2>1 DEF ImageInv, StackIsWellFormed, Entered
    <2> QED
        BY <2>2, <2>3, <2>4
<1> QED
    BY <1>1, <1>2 DEF Start

\* A SELECT that has returned the first rows of a table returns one more of them.
LEMMA NextRow ==
    ASSUME NEW P, NEW all \in Seq(P), NEW some \in Seq(P), Len(some) < Len(all),
           \A k \in 1 .. Len(some) : some[k] = all[k],
           NEW more, more = Append(some, all[Len(some) + 1])
    PROVE  /\ more \in Seq(P)
           /\ Len(more) <= Len(all)
           /\ \A k \in 1 .. Len(more) : more[k] = all[k]
<1>1. all[Len(some) + 1] \in P
    OBVIOUS
<1>2. Len(more) = Len(some) + 1 /\ more \in Seq(P)
    BY <1>1
<1>3. \A k \in 1 .. Len(some) : more[k] = some[k]
    BY <1>1
<1>4. more[Len(some) + 1] = all[Len(some) + 1]
    BY <1>1
<1> QED
    BY <1>2, <1>3, <1>4

\* When as many rows have been read as there are, they are the table.
LEMMA SameRows ==
    ASSUME NEW P, NEW all \in Seq(P), NEW some \in Seq(P), Len(some) = Len(all),
           \A k \in 1 .. Len(some) : some[k] = all[k]
    PROVE  some = all
OBVIOUS

\* Reading the keys and the rows in memfd mode preserves the invariant.
LEMMA ReadingStep ==
    ASSUME ProgramInv, UNCHANGED nativeVars,
           ReadKey \/ KeysRead \/ ScanBegins \/ ScanRow \/ ScanEnds
    PROVE  ProgramInv'
<1> USE DEF ProgramInv, fileVars, procVars, imageVars, nativeVars, Goto, GiveUp, InMemfdMode
<1>1. /\ mode = "memfd" /\ mode' = "memfd"
      /\ rpc \in {"meta", "query", "scan"} /\ rpc' \in {"meta", "query", "scan", "alloc", "null"}
      /\ UNCHANGED <<conv, gens, path, handle, next, image, stack>>
    BY DEF ReadKey, KeysRead, ScanBegins, ScanRow, ScanEnds, Select
<1>2. FileInv' /\ handle # 0
    BY <1>1, ProcessFile DEF FileInv
<1>3. NativeInv' /\ ImageInv' /\ StackIsWellFormed'
    BY <1>1 DEF NativeInv, ImageInv, StackIsWellFormed, Entered
<1>4. Elf' = Elf /\ Filled' = Filled
    BY <1>1 DEF Elf, Filled
<1>5. Elf.phdrs \in Seq(Phdrs) /\ Len(Elf.phdrs) \in Nat
    BY <1>2, ElfShape
<1>6. CASE ReadKey
    <2>1. /\ rpc' = rpc /\ rpc = "meta" /\ keys' = keys + 1 /\ rows' = rows
          /\ found' => found /\ Filled
        BY <1>6 DEF ReadKey, KeyThere
    <2> QED
        BY <1>1, <1>2, <1>3, <1>4, <2>1 DEF MemfdInv, MemfdPlaces
<1>7. CASE KeysRead
    <2>1. /\ rpc = "meta" /\ rpc' \in {"query", "null"} /\ keys = META_KEYS
          /\ UNCHANGED <<keys, rows, found>>
          /\ rpc' = "query" => found
        BY <1>7 DEF KeysRead
    <2>2. keys > 0
        BY <2>1, KeysAssumption
    <2> QED
        BY <1>1, <1>2, <1>3, <1>4, <2>1, <2>2 DEF MemfdInv, MemfdPlaces
<1>8. CASE ScanBegins
    <2>1. /\ rpc = "query" /\ rpc' \in {"scan", "alloc"}
          /\ UNCHANGED <<keys, rows, found>>
        BY <1>8 DEF ScanBegins, Select
    <2>2. rows = <<>> /\ found /\ keys > 0
        BY <1>1, <2>1 DEF MemfdInv
    <2>3. rows \in Seq(Phdrs) /\ Len(rows) = 0
        BY <2>2
    <2> QED
        BY <1>1, <1>2, <1>3, <1>4, <1>5, <2>1, <2>2, <2>3 DEF MemfdInv, MemfdPlaces
<1>9. CASE ScanRow
    <2>1. /\ rpc = "scan" /\ rpc' = "scan"
          /\ UNCHANGED <<keys, found>>
        BY <1>9 DEF ScanRow
    <2>2. Filled /\ found /\ keys > 0
        BY <1>1, <2>1 DEF MemfdInv
    <2>3. Len(rows) < Len(Elf.phdrs) /\ rows' = Append(rows, Elf.phdrs[Len(rows) + 1])
        BY <1>9, <2>2 DEF ScanRow, Segments
    <2>4. /\ rows \in Seq(Phdrs)
          /\ \A k \in 1 .. Len(rows) : rows[k] = Elf.phdrs[k]
        BY <1>1, <2>1 DEF MemfdInv
    <2>5. /\ rows' \in Seq(Phdrs)
          /\ Len(rows') <= Len(Elf.phdrs)
          /\ \A k \in 1 .. Len(rows') : rows'[k] = Elf.phdrs[k]
        BY <1>5, <2>3, <2>4, NextRow
    <2> QED
        BY <1>1, <1>2, <1>3, <1>4, <2>1, <2>2, <2>5 DEF MemfdInv, MemfdPlaces
<1>10. CASE ScanEnds
    <2>1. /\ rpc = "scan" /\ rpc' = "alloc"
          /\ UNCHANGED <<keys, found, rows>>
        BY <1>10 DEF ScanEnds
    <2>2. Filled /\ found /\ keys > 0
        BY <1>1, <2>1 DEF MemfdInv
    <2>3. Len(rows) = Len(Elf.phdrs)
        BY <1>10, <2>2 DEF ScanEnds, Segments
    <2>4. /\ rows \in Seq(Phdrs)
          /\ \A k \in 1 .. Len(rows) : rows[k] = Elf.phdrs[k]
        BY <1>1, <2>1 DEF MemfdInv
    <2>5. rows = Elf.phdrs
        BY <1>5, <2>3, <2>4, SameRows
    <2> QED
        BY <1>1, <1>2, <1>3, <1>4, <2>1, <2>2, <2>5 DEF MemfdInv, MemfdPlaces
<1> QED
    BY <1>6, <1>7, <1>8, <1>9, <1>10

-----------------------------------------------------------------------------
\* Row i of a table of n rows lies inside the table.
LEMMA RowOfTable ==
    ASSUME NEW i \in Nat, NEW n \in Nat, NEW size \in Nat, 1 <= i, i <= n
    PROVE  (i - 1) * size \in Nat /\ (i - 1) * size + size <= n * size
<1>1. (i - 1) * size + size = i * size
    OBVIOUS
<1>2. i * size <= n * size
    OBVIOUS
<1> QED
    BY <1>1, <1>2

\* A program header that self_build_elf writes is the one that the original has at
\* that place.
LEMMA TableIsOriginal ==
    ASSUME FileInv, handle # 0, NEW i \in 1 .. PHNUM, NEW pos \in PhdrRange(i)
    PROVE  /\ pos \in Elf.phoff .. Elf.phoff + PHNUM * PHDR_SIZE - 1
           /\ TableCell(i, pos - PhdrStart(i)) = Byte(Elf, pos)
<1> DEFINE before == (i - 1) * PHDR_SIZE
<1>1. /\ PHNUM \in Nat /\ PHDR_SIZE \in Nat /\ EHDR_SIZE \in Nat
      /\ Elf.phoff \in Nat /\ EHDR_SIZE <= Elf.phoff
    BY ElfShape, SizesAssumption DEF WellFormed, PHNUM
<1>2. before \in Nat /\ before + PHDR_SIZE <= PHNUM * PHDR_SIZE /\ PHNUM * PHDR_SIZE \in Nat
    BY <1>1, RowOfTable
<1>3. pos \in Elf.phoff + before .. Elf.phoff + before + PHDR_SIZE - 1
    BY DEF PhdrRange, PhdrStart
<1> HIDE DEF before
<1>4. pos \in Elf.phoff .. Elf.phoff + PHNUM * PHDR_SIZE - 1
    BY <1>1, <1>2, <1>3
<1>5. TableCell(i, pos - PhdrStart(i)) = <<"phdr", before + (pos - (Elf.phoff + before))>>
    BY DEF TableCell, PhdrStart, before
<1>6. before + (pos - (Elf.phoff + before)) = pos - Elf.phoff
    BY <1>1, <1>2, <1>4
<1>7. InTable(Elf.phoff, Len(Elf.phdrs), pos) /\ ~(pos < EHDR_SIZE)
    BY <1>1, <1>2, <1>4 DEF InTable, PHNUM
<1>8. TableCell(1, pos - Elf.phoff) = <<"phdr", pos - Elf.phoff>>
    BY <1>1, <1>2, <1>4 DEF TableCell
<1> QED
    BY <1>4, <1>5, <1>6, <1>7, <1>8 DEF Byte

\* Allocating the image and placing the rows preserve the invariant: whatever is
\* written over whatever, a cell is written with the original's.
LEMMA BuildingStep ==
    ASSUME ProgramInv, UNCHANGED nativeVars, Allocate \/ PlaceRow \/ Return
    PROVE  ProgramInv'
<1> USE DEF ProgramInv, fileVars, procVars, imageVars, nativeVars, Goto, InMemfdMode
<1>1. /\ mode = "memfd" /\ mode' = "memfd"
      /\ rpc \in {"alloc", "build"} /\ rpc' \in {"build", "built"}
      /\ UNCHANGED <<conv, gens, path, handle, keys, found, rows, stack>>
    BY DEF Allocate, PlaceRow, Return
<1>2. FileInv' /\ handle # 0
    BY <1>1, ProcessFile DEF FileInv
<1>3. NativeInv' /\ StackIsWellFormed'
    BY <1>1 DEF NativeInv, StackIsWellFormed, Entered
<1>4. Elf' = Elf /\ Filled' = Filled
    BY <1>1 DEF Elf, Filled
<1>5. rows = <<>> \/ rows = Elf.phdrs
    BY <1>1 DEF MemfdInv
<1>6. MemfdInv'
    BY <1>1, <1>2, <1>4 DEF MemfdInv, MemfdPlaces
<1>7. /\ Len(rows) \in Nat /\ Len(rows) <= PHNUM /\ PHNUM \in Nat
      /\ EHDR_SIZE \in Nat /\ PHDR_SIZE \in Nat /\ Elf.phoff \in Nat
      /\ PHNUM * PHDR_SIZE \in Nat
    BY <1>2, <1>5, ElfShape, SizesAssumption DEF WellFormed, PHNUM
<1>8. /\ ImageSize(rows) \in Nat
      /\ Elf.phoff + PHNUM * PHDR_SIZE <= ImageSize(rows)
      /\ \A i \in 1 .. Len(rows) :
            rows[i] \in Phdrs /\ rows[i].offset + rows[i].filesz <= ImageSize(rows)
    BY <1>2, <1>5, SizeCoversAll
<1>9. ImageSize(rows)' = ImageSize(rows)
    BY <1>1, <1>4 DEF ImageSize, Ends, PHNUM
<1>10. ASSUME NEW n, NEW pos
       PROVE  /\ Byte(Elf, pos)' = Byte(Elf, pos)
              /\ Written(n, pos)' = Written(n, pos)
              /\ Cleared(pos)' = Cleared(pos)
    BY <1>1, <1>4 DEF Byte, Cleared, Written, PhdrRange, PhdrStart, ContentRange, SegmentRange
<1> SUFFICES ImageInv'
    BY <1>2, <1>3, <1>6
<1>11. CASE Allocate
    <2>1. next = 1 /\ next' = 1 /\ rpc' = "build"
        BY <1>1, <1>11 DEF ImageInv, Allocate
    <2>2. image' = [pos \in 0 .. ImageSize(rows) - 1 |-> Cleared(pos)]
        BY <1>11 DEF Allocate, Cleared
    <2>3. \A pos : ~Written(1, pos)
        BY DEF Written
    <2>4. DOMAIN image' = 0 .. ImageSize(rows)' - 1
        BY <1>9, <2>2
    <2>5. \A pos \in DOMAIN image' :
             image'[pos] = IF Written(next, pos)' THEN Byte(Elf, pos)' ELSE Cleared(pos)'
        BY <1>10, <2>1, <2>2, <2>3
    <2>6. next' \in 1 .. Len(rows') + 1
        BY <1>1, <1>7, <2>1
    <2> QED
        BY <2>1, <2>4, <2>5, <2>6 DEF ImageInv
<1>12. CASE PlaceRow
    <2>1. /\ next <= Len(rows) /\ next' = next + 1 /\ rpc = "build" /\ rpc' = "build"
        BY <1>12 DEF PlaceRow
    <2>2. /\ next \in 1 .. Len(rows) /\ next \in 1 .. PHNUM
          /\ DOMAIN image = 0 .. ImageSize(rows) - 1
          /\ \A pos \in DOMAIN image :
                image[pos] = IF Written(next, pos) THEN Byte(Elf, pos) ELSE Cleared(pos)
        BY <1>1, <1>7, <2>1 DEF ImageInv
    <2>3. PhdrRange(next) \subseteq DOMAIN image
        <3>1. PhdrRange(next) \subseteq Elf.phoff .. Elf.phoff + PHNUM * PHDR_SIZE - 1
            BY <1>2, <2>2, TableIsOriginal
        <3> QED
            BY <1>7, <1>8, <2>2, <3>1
    <2>4. ContentRange(next) \subseteq DOMAIN image
        <3>1. rows[next] \in Phdrs /\ rows[next].offset + rows[next].filesz <= ImageSize(rows)
            BY <1>8, <2>2
        <3>2. rows[next].offset \in Nat /\ rows[next].filesz \in Nat
            BY <3>1 DEF Phdrs
        <3> QED
            BY <1>8, <2>2, <3>1, <3>2 DEF ContentRange, SegmentRange
    <2>5. image' = [pos \in DOMAIN image \cup PhdrRange(next) \cup ContentRange(next) |->
                    IF pos \in ContentRange(next) THEN Byte(Elf, pos)
                    ELSE IF pos \in PhdrRange(next)
                    THEN TableCell(next, pos - PhdrStart(next))
                    ELSE image[pos]]
        BY <1>12 DEF PlaceRow
    <2>6. DOMAIN image' = DOMAIN image
        BY <2>3, <2>4, <2>5
    <2>7. ASSUME NEW pos \in DOMAIN image'
          PROVE  image'[pos] = IF Written(next + 1, pos) THEN Byte(Elf, pos) ELSE Cleared(pos)
        <3>1. Written(next + 1, pos) <=>
                 Written(next, pos) \/ pos \in PhdrRange(next) \cup ContentRange(next)
            BY <2>2 DEF Written
        <3>2. pos \in PhdrRange(next) => TableCell(next, pos - PhdrStart(next)) = Byte(Elf, pos)
            BY <1>2, <2>2, TableIsOriginal
        <3>3. image'[pos] = IF pos \in ContentRange(next) THEN Byte(Elf, pos)
                            ELSE IF pos \in PhdrRange(next)
                            THEN TableCell(next, pos - PhdrStart(next))
                            ELSE image[pos]
            BY <2>5, <2>6
        <3>4. image[pos] = IF Written(next, pos) THEN Byte(Elf, pos) ELSE Cleared(pos)
            BY <2>2, <2>6
        <3> QED
            BY <3>1, <3>2, <3>3, <3>4
    <2>8. \A pos \in DOMAIN image' :
             image'[pos] = IF Written(next, pos)' THEN Byte(Elf, pos)' ELSE Cleared(pos)'
        BY <1>10, <2>1, <2>7
    <2>9. next' \in 1 .. Len(rows') + 1
        BY <1>1, <1>7, <2>1, <2>2
    <2> QED
        BY <1>9, <2>1, <2>2, <2>6, <2>8, <2>9 DEF ImageInv
<1>13. CASE Return
    <2>1. /\ next > Len(rows) /\ UNCHANGED <<next, image>> /\ rpc = "build" /\ rpc' = "built"
        BY <1>13 DEF Return
    <2> QED
        BY <1>1, <1>9, <1>10, <2>1 DEF ImageInv
<1> QED
    BY <1>11, <1>12, <1>13

-----------------------------------------------------------------------------
\* build_stack's vector is aligned and fits under the strings, whatever execve has
\* let through.
LEMMA StackFits ==
    ASSUME NEW args \in StackArgs, NEW aux \in {19, 20}
    PROVE  /\ StackPointer(args, aux) % 16 = 0
           /\ StackPointer(args, aux) >= 0
           /\ StackPointer(args, aux) + 8 * Words(args, aux) <= Cursor(args)
<1> DEFINE low == Cursor(args) - 8 * Words(args, aux)
<1>1. /\ args.argc \in Nat /\ args.envc \in Nat /\ args.strings \in Nat
      /\ args.strings + 8 * (args.argc + args.envc) <= 6291456
    BY StackArgsAssumption DEF ARG_MAX
<1>2. low \in Nat /\ low >= 15
    BY <1>1 DEF Cursor, Words, STACK_SIZE
<1>3. low + 8 * Words(args, aux) = Cursor(args)
    BY <1>1 DEF Cursor, Words, STACK_SIZE
<1>4. Words(args, aux) \in Nat
    BY <1>1 DEF Words
<1>5. StackPointer(args, aux) = low - (low % 16)
    BY DEF StackPointer
<1> HIDE DEF low
<1>6. low % 16 \in 0 .. 15 /\ (low - (low % 16)) % 16 = 0
    BY <1>2
<1> QED
    BY <1>2, <1>3, <1>4, <1>5, <1>6

\* The steps of the native mode preserve the invariant.
LEMMA NativeStep ==
    ASSUME ProgramInv, MapProgram, UNCHANGED imageVars
    PROVE  ProgramInv'
<1> USE DEF ProgramInv, fileVars, procVars, imageVars, nativeVars, Goto, GiveUp, InNativeMode
<1>1. /\ mode = "native" /\ mode' = "native"
      /\ rpc \notin {"start", "null"}
      /\ UNCHANGED <<conv, gens, path, handle, found, rows, image>>
    BY DEF MapProgram, ReadNumber, ReadBounds, ReserveSpan, LoadsBegin, MapSegment, LoadsEnd,
           LookUpInterp, MapInterp, BuildStack, Select
<1>2. FileInv' /\ handle # 0
    BY <1>1, ProcessFile DEF FileInv
<1>3. MemfdInv' /\ ImageInv'
    BY <1>1 DEF MemfdInv, ImageInv
<1>4. Elf' = Elf /\ Filled' = Filled
    BY <1>1 DEF Elf, Filled
<1>5. Loads' = Loads
    BY <1>4 DEF Loads
<1>6. ASSUME rpc' # "entered"
      PROVE  StackIsWellFormed'
    BY <1>6 DEF StackIsWellFormed, Entered
<1> SUFFICES NativeInv' /\ StackIsWellFormed'
    BY <1>2, <1>3
<1>7. CASE ReadNumber
    <2>1. PICK place \in {"meta", "tail"} :
            /\ rpc = place /\ UNCHANGED nativeVars
            /\ IF KeyThere
               THEN /\ keys' = keys + 1
                    /\ rpc' = CASE keys' = 4 -> "bounds" [] keys' = 6 -> "interp"
                                [] OTHER -> place
                    /\ UNCHANGED next
               ELSE rpc' = "null" /\ UNCHANGED <<keys, next>>
        BY <1>7 DEF ReadNumber
    <2>2. CASE ~KeyThere
        BY <1>1, <1>2, <1>4, <1>6, <2>1, <2>2 DEF NativeInv, NativePlaces
    <2>3. CASE KeyThere
        <3>1. Filled /\ keys' = keys + 1 /\ next' = next
            BY <2>1, <2>3 DEF KeyThere
        <3>2. CASE rpc = "meta"
            <4>1. keys \in Nat /\ keys < 4 /\ next = 1
                BY <1>1, <3>2 DEF NativeInv
            <4>2. rpc' = IF keys' = 4 THEN "bounds" ELSE "meta"
                BY <2>1, <2>3, <3>1, <3>2, <4>1
            <4> QED
                BY <1>1, <1>2, <1>4, <1>6, <3>1, <4>1, <4>2 DEF NativeInv, NativePlaces
        <3>3. CASE rpc = "tail"
            <4>1. keys \in 4 .. 5 /\ (next = 1 \/ next > Len(Loads))
                BY <1>1, <3>3 DEF NativeInv
            <4>2. rpc' = IF keys' = 6 THEN "interp" ELSE "tail"
                BY <2>1, <2>3, <3>1, <3>3, <4>1
            <4> QED
                BY <1>1, <1>2, <1>4, <1>5, <1>6, <3>1, <4>1, <4>2 DEF NativeInv, NativePlaces
        <3> QED
            BY <2>1, <3>2, <3>3
    <2> QED
        BY <2>2, <2>3
<1>8. ASSUME keys' = keys, next' = next, rpc' # "entered",
             \/ rpc = "bounds" /\ rpc' = "reserve"
             \/ rpc = "reserve" /\ rpc' \in {"loads", "null"}
             \/ rpc = "loads" /\ rpc' = "map"
             \/ rpc = "map" /\ rpc' = "null"
             \/ rpc = "map" /\ rpc' = "tail" /\ next > Len(Loads)
             \/ rpc = "loads" /\ rpc' = "tail"
             \/ rpc = "interp" /\ rpc' \in {"ldso", "stack"}
             \/ rpc = "ldso" /\ rpc' \in {"stack", "null"}
             \/ rpc = "stack" /\ rpc' = "null"
      PROVE  NativeInv' /\ StackIsWellFormed'
    BY <1>1, <1>2, <1>4, <1>5, <1>6, <1>8 DEF NativeInv, NativePlaces
<1>9. CASE ReadBounds
    BY <1>8, <1>9 DEF ReadBounds, Select
<1>10. CASE ReserveSpan
    <2>1. keys' = keys /\ next' = next /\ rpc = "reserve" /\ rpc' \in {"loads", "null"}
        BY <1>10 DEF ReserveSpan
    <2> QED
        BY <1>8, <2>1
<1>11. CASE LoadsBegin
    BY <1>8, <1>11 DEF LoadsBegin, Select
<1>12. CASE MapSegment
    <2>1. rpc = "map" /\ keys' = keys
        BY <1>12 DEF MapSegment
    <2>2. CASE rpc' = "null" /\ next' = next
        BY <1>8, <2>1, <2>2
    <2>3. CASE rpc' = "map"
        BY <1>1, <1>2, <1>4, <1>6, <2>1, <2>3 DEF NativeInv, NativePlaces
    <2> QED
        BY <1>12, <2>1, <2>2, <2>3 DEF MapSegment
<1>13. CASE LoadsEnd
    BY <1>8, <1>13 DEF LoadsEnd
<1>14. CASE LookUpInterp
    BY <1>8, <1>14 DEF LookUpInterp, Select
<1>15. CASE MapInterp
    BY <1>8, <1>15 DEF MapInterp
<1>16. CASE BuildStack
    <2>1. rpc = "stack" /\ UNCHANGED <<keys, next>>
        BY <1>16 DEF BuildStack
    <2>2. CASE rpc' = "null"
        BY <1>8, <2>1, <2>2
    <2>3. CASE rpc' = "entered" /\ \E args \in StackArgs, aux \in {19, 20} :
                 stack' = [args |-> args, aux |-> aux, sp |-> StackPointer(args, aux)]
        <3>1. PICK args \in StackArgs, aux \in {19, 20} :
                 stack' = [args |-> args, aux |-> aux, sp |-> StackPointer(args, aux)]
            BY <2>3
        <3>2. StackIsWellFormed'
            BY <3>1, StackFits DEF StackIsWellFormed
        <3>3. NativeInv'
            BY <1>1, <1>2, <1>4, <1>5, <2>1, <2>3 DEF NativeInv, NativePlaces
        <3> QED
            BY <3>2, <3>3
    <2> QED
        BY <1>16, <2>1, <2>2, <2>3 DEF BuildStack
<1> QED
    BY <1>7, <1>9, <1>10, <1>11, <1>12, <1>13, <1>14, <1>15, <1>16 DEF MapProgram

\* The invariant holds when self-exec starts, with no file yet made.
LEMMA ProgramInit == Init => ProgramInv
<1> SUFFICES ASSUME Init
             PROVE  ProgramInv
    OBVIOUS
<1>1. /\ conv = "idle" /\ gens = <<>> /\ path = 0 /\ mode \in {"memfd", "native"}
      /\ rpc = "start" /\ handle = 0 /\ keys = 0 /\ next = 1 /\ rows = <<>>
    BY DEF Init, FileInit, ImageInit, NativeInit
<1>2. FileInv
    <2>1. gens \in Seq(GenType) /\ Len(gens) = 0
        BY <1>1
    <2> QED
        BY <1>1, <2>1 DEF FileInv, ConvStates
<1>3. MemfdInv
    BY <1>1 DEF MemfdInv, MemfdPlaces
<1>4. NativeInv
    BY <1>1 DEF NativeInv, NativePlaces
<1>5. ImageInv
    BY <1>1 DEF ImageInv
<1>6. StackIsWellFormed
    BY <1>1 DEF StackIsWellFormed, Entered
<1> QED
    BY <1>2, <1>3, <1>4, <1>5, <1>6 DEF ProgramInv

\* A step that changes nothing preserves the invariant.
LEMMA RestStep ==
    ASSUME ProgramInv, UNCHANGED vars
    PROVE  ProgramInv'
<1>1. UNCHANGED <<conv, gens, path, mode, rpc, handle, keys, next, found, rows, image, stack>>
    BY DEF vars, fileVars, procVars, imageVars, nativeVars
<1>2. FileInv'
    BY <1>1 DEF ProgramInv, FileInv
<1>3. Elf' = Elf /\ Filled' = Filled
    BY <1>1 DEF Elf, Filled
<1>4. Loads' = Loads
    BY <1>3 DEF Loads
<1>5. MemfdInv'
    BY <1>1, <1>3 DEF ProgramInv, MemfdInv
<1>6. NativeInv'
    BY <1>1, <1>3, <1>4 DEF ProgramInv, NativeInv
<1>7. ImageSize(rows)' = ImageSize(rows)
    BY <1>1, <1>3 DEF ImageSize, Ends, PHNUM
<1>8. ASSUME NEW pos
      PROVE  /\ Byte(Elf, pos)' = Byte(Elf, pos)
             /\ Cleared(pos)' = Cleared(pos)
             /\ Written(next, pos)' = Written(next, pos)
    BY <1>1, <1>3 DEF Byte, Cleared, Written, PhdrRange, PhdrStart, ContentRange, SegmentRange
<1>9. ImageInv'
    BY <1>1, <1>7, <1>8 DEF ProgramInv, ImageInv
<1>10. StackIsWellFormed'
    BY <1>1 DEF ProgramInv, StackIsWellFormed, Entered
<1> QED
    BY <1>2, <1>5, <1>6, <1>9, <1>10 DEF ProgramInv

\* The inductive invariant of self-exec in both modes: what it has read is the first
\* rows of a program that is committed, and what it has written is the original's.
THEOREM ExecInvariant == Spec => []ProgramInv
<1>1. ASSUME ProgramInv, [Next]_vars
      PROVE  ProgramInv'
    <2>1. CASE (Writers \/ Start) /\ UNCHANGED <<imageVars, nativeVars>>
        BY <1>1, <2>1, WritersStep, StartStep
    <2>2. CASE BuildImage /\ UNCHANGED nativeVars
        <3>1. CASE ReadKey \/ KeysRead \/ ScanBegins \/ ScanRow \/ ScanEnds
            BY <1>1, <2>2, <3>1, ReadingStep
        <3>2. CASE Allocate \/ PlaceRow \/ Return
            BY <1>1, <2>2, <3>2, BuildingStep
        <3> QED
            BY <2>2, <3>1, <3>2 DEF BuildImage
    <2>3. CASE MapProgram /\ UNCHANGED imageVars
        BY <1>1, <2>3, NativeStep
    <2>4. CASE UNCHANGED vars
        BY <1>1, <2>4, RestStep
    <2> QED
        BY <1>1, <2>1, <2>2, <2>3, <2>4 DEF Next, Rest
<1> QED
    BY <1>1, ProgramInit, PTL DEF Spec

-----------------------------------------------------------------------------
\* Every cell of a table lies in one of its rows.
LEMMA RowOfCell ==
    ASSUME NEW n \in Nat, NEW size \in Nat \ {0}, NEW k \in Nat, k < n * size
    PROVE  \E i \in 1 .. n : k \in (i - 1) * size .. (i - 1) * size + size - 1
<1> DEFINE S == {i \in Nat : i < n /\ i * size <= k}
<1>1. n > 0
    BY SMT
<1>2. 0 \in S
    BY <1>1
<1>3. Max(S) \in S /\ \A i \in S : i <= Max(S)
    <2>1. S \in SUBSET Nat /\ S # {} /\ \A i \in S : i <= n
        BY <1>2
    <2> HIDE DEF S
    <2> QED
        BY <2>1, MaxOfBounded
<1>4. PICK m \in Nat : m < n /\ m * size <= k /\ \A i \in S : i <= m
    BY <1>3
<1>5. k < (m + 1) * size
    <2>1. CASE m + 1 = n
        BY <2>1
    <2>2. CASE m + 1 < n
        <3>1. m + 1 \notin S
            BY <1>4
        <3>2. (m + 1) * size \in Nat
            BY SMT
        <3> QED
            BY <2>2, <3>1, <3>2
    <2> QED
        BY <1>4, <2>1, <2>2
<1>6. (m + 1) * size = m * size + size /\ m * size \in Nat
    BY SMT
<1>7. m + 1 \in 1 .. n /\ (m + 1) - 1 = m
    BY <1>4
<1>8. k \in m * size .. m * size + size - 1
    BY <1>4, <1>5, <1>6
<1> QED
    BY <1>7, <1>8

\* In an image that has been built of all rows, exactly the program header table and
\* what is loaded have been written, with the bytes of the original.
LEMMA WholeImage ==
    ASSUME ProgramInv, Built, Complete
    PROVE  /\ FileInv /\ handle # 0 /\ rows = Elf.phdrs
           /\ DOMAIN image = 0 .. ImageSize(Elf.phdrs) - 1
           /\ \A pos \in DOMAIN image :
                 image[pos] = IF Loaded(Elf, pos) \/ InTable(Elf.phoff, PHNUM, pos)
                              THEN Byte(Elf, pos) ELSE Cleared(pos)
<1>1. mode = "memfd" /\ rpc = "built" /\ FileInv
    BY DEF ProgramInv, FileInv, NativeInv, NativePlaces, Built
<1>2. handle # 0 /\ Filled
    BY <1>1 DEF ProgramInv, MemfdInv
<1>3. rows = Elf.phdrs
    BY <1>2 DEF Complete, Segments
<1>4. /\ PHNUM \in Nat /\ Len(rows) = PHNUM /\ EHDR_SIZE \in Nat
      /\ PHDR_SIZE \in Nat \ {0} /\ Elf.phoff \in Nat
    BY <1>1, <1>2, <1>3, ElfShape, SizesAssumption DEF WellFormed, PHNUM
<1>5. next = PHNUM + 1
    BY <1>1, <1>4 DEF ProgramInv, ImageInv
<1>6. ImageSize(rows) \in Nat
    BY <1>1, <1>2, <1>3, SizeCoversAll
<1>7. ASSUME NEW pos \in Nat
      PROVE  Written(next, pos) <=> Loaded(Elf, pos) \/ InTable(Elf.phoff, PHNUM, pos)
    <2>1. Written(next, pos) <=>
             \E i \in 1 .. PHNUM : pos \in PhdrRange(i) \/ pos \in ContentRange(i)
        BY <1>4, <1>5 DEF Written
    <2>2. Loaded(Elf, pos) <=> \E i \in 1 .. PHNUM : pos \in ContentRange(i)
        BY <1>3 DEF Loaded, ContentRange, PHNUM
    <2>3. ASSUME NEW i \in 1 .. PHNUM, pos \in PhdrRange(i)
          PROVE  InTable(Elf.phoff, PHNUM, pos)
        BY <1>1, <1>2, <2>3, TableIsOriginal DEF InTable
    <2>4. ASSUME InTable(Elf.phoff, PHNUM, pos)
          PROVE  \E i \in 1 .. PHNUM : pos \in PhdrRange(i)
        <3> DEFINE k == pos - Elf.phoff
        <3>1. PHNUM * PHDR_SIZE \in Nat
            BY <1>4
        <3>2. k \in Nat /\ k < PHNUM * PHDR_SIZE
            BY <1>4, <2>4, <3>1 DEF InTable
        <3> HIDE DEF k
        <3>3. PICK i \in 1 .. PHNUM :
                 k \in (i - 1) * PHDR_SIZE .. (i - 1) * PHDR_SIZE + PHDR_SIZE - 1
            BY <1>4, <3>2, RowOfCell
        <3>4. (i - 1) * PHDR_SIZE \in Nat
            <4>1. i \in Nat /\ 1 <= i /\ i <= PHNUM /\ PHDR_SIZE \in Nat
                BY <1>4, <3>3
            <4> QED
                BY <1>4, <4>1, RowOfTable
        <3>5. pos = Elf.phoff + k
            BY <1>4 DEF k
        <3>6. pos \in PhdrRange(i)
            BY <1>4, <3>3, <3>4, <3>5 DEF PhdrRange, PhdrStart
        <3> QED
            BY <3>6
    <2> QED
        BY <2>1, <2>2, <2>3, <2>4
<1>8. /\ DOMAIN image = 0 .. ImageSize(rows) - 1
      /\ \A pos \in DOMAIN image :
            image[pos] = IF Written(next, pos) THEN Byte(Elf, pos) ELSE Cleared(pos)
    BY <1>1 DEF ProgramInv, ImageInv
<1>9. \A pos \in DOMAIN image : pos \in Nat
    BY <1>6, <1>8
<1> QED
    BY <1>1, <1>2, <1>3, <1>7, <1>8, <1>9

\* self_build_elf writes nothing outside the buffer it has sized, for any program,
\* also one whose program header table lies after its segments.
THEOREM WritesAreBounded == Spec => []WritesStayInImage
<1>1. ProgramInv => WritesStayInImage
    BY DEF ProgramInv, FileInv, NativeInv, NativePlaces, ImageInv, WritesStayInImage
<1> QED
    BY <1>1, ExecInvariant, PTL

\* A program is started, in either mode, only from a file whose rows have all been
\* committed, wherever a conversion was interrupted.
THEOREM OnlyWholeConversionsRun == Spec => []InterruptedConversionNeverRuns
<1>1. ProgramInv => InterruptedConversionNeverRuns
    <2> SUFFICES ASSUME ProgramInv, Running
                 PROVE  Filled
        BY DEF InterruptedConversionNeverRuns, Filled
    <2>1. CASE mode = "memfd"
        BY <2>1 DEF ProgramInv, MemfdInv, MemfdPlaces, Running, Built, Entered
    <2>2. CASE mode = "native"
        BY <2>2 DEF ProgramInv, NativeInv, NativePlaces, Running, Built, Entered
    <2> QED
        BY <2>1, <2>2 DEF ProgramInv, FileInv
<1> QED
    BY <1>1, ExecInvariant, PTL

\* Neither mode starts a program with some of its segments only.
THEOREM AllSegmentsOrNone == Spec => []ImageIsNeverPartial
<1>1. ProgramInv => ImageIsNeverPartial
    <2> SUFFICES ASSUME ProgramInv
                 PROVE  ImageIsNeverPartial
        OBVIOUS
    <2>1. CASE mode = "memfd"
        BY <2>1 DEF ProgramInv, MemfdInv, MemfdPlaces, ImageIsNeverPartial, Built, Entered,
                    Complete, Segments
    <2>2. CASE mode = "native"
        BY <2>2 DEF ProgramInv, NativeInv, NativePlaces, ImageIsNeverPartial, Built, Entered,
                    AllMapped
    <2> QED
        BY <2>1, <2>2 DEF ProgramInv, FileInv
<1> QED
    BY <1>1, ExecInvariant, PTL

\* Every program header and every byte of a PT_LOAD segment in the image that is
\* executed is that of the original file.
THEOREM LoadsWhatWasConverted == Spec => []ImageRunsAsOriginal
<1>1. ProgramInv => ImageRunsAsOriginal
    BY WholeImage DEF ImageRunsAsOriginal
<1> QED
    BY <1>1, ExecInvariant, PTL

\* The image of loader/image.c and that of selfconv/elfimage.py have the same size and
\* differ in nothing but the reference to the section header table.
THEOREM TwinsAgree == Spec => []TwinsRunAlike
<1>1. ProgramInv => TwinsRunAlike
    <2> SUFFICES ASSUME ProgramInv, Built, Complete
                 PROVE  /\ DOMAIN image = 0 .. SerializedSize(Elf) - 1
                        /\ \A pos \in DOMAIN image :
                              pos # EHDR_SIZE - 1 => image[pos] = SerializedByte(Elf, pos)
        BY DEF TwinsRunAlike
    <2>1. FileInv /\ handle # 0 /\ DOMAIN image = 0 .. ImageSize(Elf.phdrs) - 1
        BY WholeImage
    <2>2. ImageSize(Elf.phdrs) = SerializedSize(Elf)
        BY DEF ImageSize, SerializedSize, PHNUM
    <2>3. /\ Elf.phoff \in Nat /\ EHDR_SIZE \in Nat /\ EHDR_SIZE <= Elf.phoff
          /\ PHNUM * PHDR_SIZE \in Nat /\ ImageSize(Elf.phdrs) \in Nat
        <3>1. /\ Elf.phoff \in Nat /\ EHDR_SIZE \in Nat /\ EHDR_SIZE <= Elf.phoff
              /\ PHNUM \in Nat /\ PHDR_SIZE \in Nat
            BY <2>1, ElfShape, SizesAssumption DEF WellFormed, PHNUM
        <3>2. rows = Elf.phdrs
            BY WholeImage
        <3> QED
            BY <2>1, <3>1, <3>2, SizeCoversAll
    <2>4. ASSUME NEW pos \in DOMAIN image, pos # EHDR_SIZE - 1
          PROVE  image[pos] = SerializedByte(Elf, pos)
        <3>1. pos \in Nat
            BY <2>1, <2>3
        <3>2. image[pos] = IF Loaded(Elf, pos) \/ InTable(Elf.phoff, PHNUM, pos)
                           THEN Byte(Elf, pos) ELSE Cleared(pos)
            BY WholeImage
        <3>3. CASE pos < EHDR_SIZE
            <4>1. ~InTable(Elf.phoff, PHNUM, pos)
                BY <2>3, <3>1, <3>3 DEF InTable
            <4>2. Header(pos, Elf.sections) = Header(pos, FALSE)
                BY <2>4 DEF Header
            <4>3. Byte(Elf, pos) = Header(pos, FALSE) /\ Cleared(pos) = Header(pos, FALSE)
                BY <3>3, <4>2 DEF Byte, Cleared
            <4> QED
                BY <3>2, <3>3, <4>1, <4>3 DEF SerializedByte, PHNUM
        <3>4. CASE ~(pos < EHDR_SIZE) /\ InTable(Elf.phoff, PHNUM, pos)
            BY <3>2, <3>4 DEF SerializedByte, Byte, PHNUM
        <3>5. CASE ~(pos < EHDR_SIZE) /\ ~InTable(Elf.phoff, PHNUM, pos)
            BY <3>2, <3>5 DEF SerializedByte, Cleared, PHNUM
        <3> QED
            BY <3>3, <3>4, <3>5
    <2> QED
        BY <2>1, <2>2, <2>4
<1> QED
    BY <1>1, ExecInvariant, PTL

\* The vector on the initial stack is aligned, lies below the strings and inside the
\* stack, whatever arguments execve has let through.
THEOREM VectorFits == Spec => []StackIsWellFormed
<1>1. ProgramInv => StackIsWellFormed
    BY DEF ProgramInv
<1> QED
    BY <1>1, ExecInvariant, PTL
=============================================================================
