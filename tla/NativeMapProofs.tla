---------------------------- MODULE NativeMapProofs ----------------------------
(***************************************************************************)
(* The native mode, for any programs, pages, address space and place of    *)
(* the reservation: every segment goes where the kernel would have put it, *)
(* and over nothing else.                                                  *)
(*                                                                         *)
(* What native.c leaves to modular arithmetic is the point: a bias may     *)
(* wrap around the address space, and still the pages of a segment are     *)
(* those it was linked at, moved by one number (RunHome).  From that come  *)
(* the two facts the steps need, that all of them lie in the room that was *)
(* reserved (ReserveHolds) and that two segments meet only where they were *)
(* linked to share a page (RunsApart).                                     *)
(***************************************************************************)
EXTENDS SelfExecProofs

\* The pages of a segment in a program that runs with bias b.
RunPages(b, p) == PagesOf(Wrap(b + p.vaddr), p.memsz)

\* Where native mode has not yet mapped anything, and where it is done with the
\* first pass, with the second.
UnmappedPlaces == {"start", "open", "meta", "bounds", "reserve"}
BoundPlaces == {"reserve", "loads", "map", "tail", "interp", "ldso", "stack", "entered"}
MappedPlaces == {"tail", "interp", "ldso", "stack", "entered"}

\* The types of what ProgramInv does not speak of.
ExecTypes ==
    /\ other \in 0 .. Len(gens)
    /\ rpc = "start" => handle = 0
    /\ missed \in BOOLEAN
    /\ found \in BOOLEAN
    /\ mode = "memfd" => keys \in 0 .. META_KEYS
    /\ mode = "native" => keys \in 0 .. 6 /\ rows = <<>>
    /\ rows = <<>> \/ (handle # 0 /\ rows \in Seq(Phdrs) /\ Len(rows) <= PHNUM)
    /\ mode = "native" => next \in Nat \ {0} /\ (next = 1 \/ (handle # 0 /\ next <= Len(Loads) + 1))
    /\ bias \in 0 .. SPACE - 1 /\ bias % PAGE = 0
    /\ HostPages \subseteq DOMAIN mem /\ DOMAIN mem \subseteq UserPages
    /\ phdr \in 0 .. SPACE - 1
    /\ ld \in BOOLEAN

\* The bounds are those of the program, once they have been read.
BoundsInv ==
    /\ bounds = NoBounds \/ (handle # 0 /\ bounds = LoadBounds)
    /\ mode = "memfd" \/ rpc \in UnmappedPlaces =>
          bias = 0 /\ mem = [q \in HostPages |-> Anonymous("host")]
    /\ mode = "memfd" \/ rpc \in UnmappedPlaces \ {"reserve"} => bounds = NoBounds

\* Without a refusal nothing is left out.
WholeInv == ~missed =>
    /\ mode = "memfd" /\ rpc \in {"alloc", "build", "built"} => Complete
    /\ mode = "native" /\ rpc \in BoundPlaces => bounds = LoadBounds
    /\ mode = "native" /\ rpc \in MappedPlaces => AllMapped
    /\ mode = "native" /\ rpc = "ldso" => Elf.interp
    /\ mode = "native" /\ rpc \in {"stack", "entered"} => ld = Elf.interp
    /\ mode = "native" /\ rpc \in UnmappedPlaces \cup {"loads", "map", "tail", "interp", "ldso"} => ~ld

\* No segment will be mapped over self-exec, and none has been, as far as there
\* are bounds; what has been mapped is in the room between them.
RoomInv ==
    bounds # NoBounds /\ ~OverHost =>
        /\ mode = "native" /\ rpc \in {"loads", "map"} =>
              \A i \in 1 .. Len(Loads) : RunPages(bias, Loads[i]) \cap HostPages = {}
        /\ \A q \in HostPages : mem[q].owner = "host"
        /\ \A q \in DOMAIN mem : mem[q].owner = "exe" =>
              Wrap(q * PAGE - bias) \in ALIGN_DOWN(bounds.lo) .. bounds.hi - 1

\* SegmentCell and SegmentPage, of any program that runs with any bias.
CellOf(e, b, p, a) ==
    LET k == a - Wrap(b + p.vaddr)
    IN IF k \in 0 .. p.filesz - 1 THEN Byte(e, p.offset + k) ELSE Zero
PageOf(e, b, p, q) ==
    [owner |-> "exe", prot |-> p.prot, cells |-> [k \in 0 .. PAGE - 1 |-> CellOf(e, b, p, q * PAGE + k)]]

\* A segment that has been mapped keeps its pages, when no other shares them.
SegmentsInv ==
    mode = "native" /\ rpc \in {"map"} \cup MappedPlaces /\ ~SharePages =>
        \A i \in 1 .. next - 1 :
            /\ RunPages(bias, Loads[i]) # {}
            /\ RunPages(bias, Loads[i]) \subseteq UserPages
            /\ \A q \in RunPages(bias, Loads[i]) :
                  q \in DOMAIN mem /\ mem[q] = PageOf(Elf, bias, Loads[i], q)

\* AT_PHDR comes from a segment that holds the first cell of the table.
HoldsStart(i) == Elf.phoff \in SegmentRange(Loads[i])
TableInv ==
    mode = "native" /\ rpc \in {"map"} \cup MappedPlaces /\ (\E i \in 1 .. next - 1 : HoldsStart(i)) =>
             \E i \in 1 .. next - 1 :
                 /\ HoldsStart(i)
                 /\ phdr = Wrap(Wrap(bias + Loads[i].vaddr) + Elf.phoff - Loads[i].offset)

\* The invariant, beside ProgramInv.
NativeMapInv == ExecTypes /\ BoundsInv /\ WholeInv /\ RoomInv /\ SegmentsInv /\ TableInv

-----------------------------------------------------------------------------
\* A set of numbers has a least one.
LEMMA LeastNumber ==
    ASSUME NEW S \in SUBSET Nat, S # {}
    PROVE  \E least \in S : \A k \in S : least <= k
<1>1. PICK least \in S : \A k \in S : <<k, least>> \notin OpToRel(<, Nat)
    BY NatLessThanWellFounded, WFMin
<1>2. \A k \in S : ~(k < least)
    BY <1>1 DEF OpToRel
<1>3. least \in Nat /\ \A k \in S : k \in Nat
    OBVIOUS
<1> QED
    BY <1>2, <1>3

\* So Min is what it says.
LEMMA MinOfNumbers ==
    ASSUME NEW S \in SUBSET Nat, S # {}
    PROVE  Min(S) \in S /\ \A k \in S : Min(S) <= k
BY LeastNumber DEF Min

\* LoadsOf, as far as row k.
Filter(phdrs, k) ==
    {f \in [0 .. k -> Seq(Phdrs)] : \A i \in 0 .. k :
        f[i] = IF i = 0 THEN <<>>
               ELSE IF phdrs[i].load THEN Append(f[i - 1], phdrs[i]) ELSE f[i - 1]}

\* The rows that LoadsOf keeps can be counted up to any row.
LEMMA FilterExists ==
    ASSUME NEW phdrs \in Seq(Phdrs)
    PROVE  \A k \in 0 .. Len(phdrs) : Filter(phdrs, k) # {}
<1> DEFINE S == {k \in 0 .. Len(phdrs) : Filter(phdrs, k) = {}}
<1> SUFFICES ASSUME S # {} PROVE FALSE
    OBVIOUS
<1>0. Len(phdrs) \in Nat
    OBVIOUS
<1>1. PICK least \in S : \A k \in S : least <= k
    <2>1. S \in SUBSET Nat
        BY <1>0
    <2> QED
        BY <2>1, LeastNumber
<1>2. least # 0
    <2>1. [i \in 0 .. 0 |-> <<>>] \in Filter(phdrs, 0)
        BY DEF Filter
    <2> QED
        BY <2>1
<1>3. least \in 1 .. Len(phdrs) /\ least - 1 \in 0 .. Len(phdrs) /\ least - 1 \notin S
    BY <1>0, <1>1, <1>2
<1>4. PICK f : f \in Filter(phdrs, least - 1)
    BY <1>3
<1>5. f \in [0 .. least - 1 -> Seq(Phdrs)]
      /\ \A i \in 0 .. least - 1 :
            f[i] = IF i = 0 THEN <<>>
                   ELSE IF phdrs[i].load THEN Append(f[i - 1], phdrs[i]) ELSE f[i - 1]
    BY <1>4 DEF Filter
<1> DEFINE row == phdrs[least]
           last == f[least - 1]
           more == IF row.load THEN Append(last, row) ELSE last
           g == [i \in 0 .. least |-> IF i = least THEN more ELSE f[i]]
<1>6. row \in Phdrs /\ last \in Seq(Phdrs)
    BY <1>3, <1>5
<1>7. more \in Seq(Phdrs)
    BY <1>6
<1>8. g \in [0 .. least -> Seq(Phdrs)]
    <2> HIDE DEF more
    <2>1. \A i \in 0 .. least : i # least => i \in 0 .. least - 1
        BY <1>3
    <2> QED
        BY <1>5, <1>7, <2>1
<1>9. ASSUME NEW i \in 0 .. least
      PROVE  g[i] = IF i = 0 THEN <<>>
                    ELSE IF phdrs[i].load THEN Append(g[i - 1], phdrs[i]) ELSE g[i - 1]
    <2>1. CASE i = least
        <3>1. g[i] = more /\ g[i - 1] = last /\ i # 0
            BY <1>3, <2>1
        <3> QED
            BY <2>1, <3>1
    <2>2. CASE i # least
        <3>1. i \in 0 .. least - 1 /\ g[i] = f[i] /\ (i # 0 => g[i - 1] = f[i - 1])
            BY <1>3, <2>2
        <3> HIDE DEF g
        <3> QED
            BY <1>5, <3>1
    <2> QED
        BY <2>1, <2>2
<1>10. g \in Filter(phdrs, least)
    <2> HIDE DEF g
    <2> QED
        BY <1>8, <1>9 DEF Filter
<1> QED
    BY <1>1, <1>10

\* The load segments are rows of the table, and all of them are marked so.
LEMMA LoadsAreRows ==
    ASSUME NEW phdrs \in Seq(Phdrs)
    PROVE  /\ LoadsOf(phdrs) \in Seq(Phdrs)
           /\ \A i \in 1 .. Len(LoadsOf(phdrs)) :
                 \E j \in 1 .. Len(phdrs) : LoadsOf(phdrs)[i] = phdrs[j] /\ phdrs[j].load
<1> DEFINE n == Len(phdrs)
           Loop(f) == [i \in 0 .. n |-> IF i = 0 THEN <<>>
                         ELSE IF phdrs[i].load THEN Append(f[i - 1], phdrs[i]) ELSE f[i - 1]]
           loads == CHOOSE f : f = Loop(f)
<1>0. n \in Nat
    OBVIOUS
<1>1. \E f : f = Loop(f)
    <2>1. PICK f : f \in Filter(phdrs, n)
        BY <1>0, FilterExists
    <2>2. f = Loop(f)
        BY <2>1 DEF Filter
    <2> QED
        BY <2>2
<1>2. loads = Loop(loads)
    <2> HIDE DEF Loop
    <2> QED
        BY <1>1
<1>3. LoadsOf(phdrs) = loads[n]
    BY DEF LoadsOf
<1> HIDE DEF loads
<1>4. \A i \in 0 .. n :
         loads[i] = IF i = 0 THEN <<>>
                    ELSE IF phdrs[i].load THEN Append(loads[i - 1], phdrs[i]) ELSE loads[i - 1]
    BY <1>2
<1> DEFINE Good(s) == /\ s \in Seq(Phdrs)
                      /\ \A i \in 1 .. Len(s) : \E j \in 1 .. n : s[i] = phdrs[j] /\ phdrs[j].load
           Bad == {k \in 0 .. n : ~Good(loads[k])}
<1>5. Bad = {}
    <2> SUFFICES ASSUME Bad # {} PROVE FALSE
        OBVIOUS
    <2>1. PICK k \in Bad : \A j \in Bad : k <= j
        <3>1. Bad \in SUBSET Nat
            BY <1>0
        <3> QED
            BY <3>1, LeastNumber
    <2>2. k # 0
        <3>1. Good(<<>>)
            OBVIOUS
        <3>2. loads[0] = <<>>
            BY <1>0, <1>4
        <3>3. ~Good(loads[k])
            BY <2>1
        <3> HIDE DEF Good
        <3> QED
            BY <3>1, <3>2, <3>3
    <2>3. k \in 1 .. n /\ k - 1 \in 0 .. n /\ k - 1 \notin Bad
        BY <1>0, <2>1, <2>2
    <2>4. PICK s : s = loads[k - 1]
        OBVIOUS
    <2>5. s \in Seq(Phdrs) /\ \A i \in 1 .. Len(s) : \E j \in 1 .. n : s[i] = phdrs[j] /\ phdrs[j].load
        BY <2>3, <2>4
    <2>6. phdrs[k] \in Phdrs
        BY <2>3
    <2>7. loads[k] = IF phdrs[k].load THEN Append(s, phdrs[k]) ELSE s
        BY <1>4, <2>2, <2>3, <2>4
    <2>8. Good(loads[k])
        <3>1. CASE phdrs[k].load
            <4>1. loads[k] = Append(s, phdrs[k])
                BY <2>7, <3>1
            <4>2. /\ Append(s, phdrs[k]) \in Seq(Phdrs)
                  /\ Len(Append(s, phdrs[k])) = Len(s) + 1
                  /\ \A i \in 1 .. Len(s) : Append(s, phdrs[k])[i] = s[i]
                  /\ Append(s, phdrs[k])[Len(s) + 1] = phdrs[k]
                BY <2>5, <2>6
            <4>3. PICK t : t = Append(s, phdrs[k])
                OBVIOUS
            <4>4. ASSUME NEW i \in 1 .. Len(t)
                  PROVE  \E j \in 1 .. n : t[i] = phdrs[j] /\ phdrs[j].load
                <5>1. i \in 1 .. Len(s) \/ i = Len(s) + 1
                    BY <2>5, <4>2, <4>3
                <5> QED
                    BY <2>3, <2>5, <3>1, <4>2, <4>3, <5>1
            <4>5. Good(t)
                BY <4>2, <4>3, <4>4
            <4> HIDE DEF Good
            <4> QED
                BY <4>1, <4>3, <4>5
        <3>2. CASE ~phdrs[k].load
            BY <2>5, <2>7, <3>2
        <3> QED
            BY <3>1, <3>2
    <2> QED
        BY <2>1, <2>8
<1>6. Good(loads[n])
    BY <1>0, <1>5
<1> QED
    BY <1>3, <1>6

\* A cell, by its page and its place there.
LEMMA PageAt ==
    ASSUME NEW q \in Int, NEW k \in 0 .. PAGE - 1
    PROVE  /\ (q * PAGE + k) \div PAGE = q
           /\ (q * PAGE + k) % PAGE = k
BY AddressesAssumption, SMT

\* Pages are ordered as their first cells are.
LEMMA PagesOrdered ==
    ASSUME NEW q \in Int, NEW r \in Int
    PROVE  /\ q * PAGE \in Int
           /\ q * PAGE < r * PAGE <=> q < r
           /\ (q + r) * PAGE = q * PAGE + r * PAGE
           /\ (q - r) * PAGE = q * PAGE - r * PAGE
           /\ (q + 1) * PAGE = q * PAGE + PAGE
<1>1. q * PAGE \in Int /\ r * PAGE \in Int /\ PAGE \in Nat \ {0}
    BY AddressesAssumption, SMT
<1>2. (q + r) * PAGE = q * PAGE + r * PAGE /\ (q - r) * PAGE = q * PAGE - r * PAGE
      /\ (q + 1) * PAGE = q * PAGE + PAGE
    BY AddressesAssumption, SMT
<1>3. q < r => q * PAGE < r * PAGE
    BY AddressesAssumption, SMT
<1>4. r <= q => r * PAGE <= q * PAGE
    BY AddressesAssumption, SMT
<1> QED
    BY <1>1, <1>2, <1>3, <1>4

\* Every address lies in one page.
LEMMA Pages ==
    ASSUME NEW a \in Int
    PROVE  \E q \in Int, k \in 0 .. PAGE - 1 :
               /\ a = q * PAGE + k /\ a \div PAGE = q /\ a % PAGE = k
               /\ ALIGN_DOWN(a) = q * PAGE /\ q * PAGE \in Int
<1>1. PICK q, k : q = a \div PAGE /\ k = a % PAGE
    OBVIOUS
<1>2. q \in Int /\ k \in 0 .. PAGE - 1 /\ a = q * PAGE + k
    BY <1>1, AddressesAssumption, SMT
<1>3. q * PAGE \in Int /\ PAGE \in Nat
    BY <1>2, AddressesAssumption, SMT
<1>4. ALIGN_DOWN(a) = q * PAGE
    BY <1>1, <1>2, <1>3 DEF ALIGN_DOWN
<1> QED
    BY <1>1, <1>2, <1>3, <1>4

\* ALIGN_DOWN goes back by less than a page.
LEMMA Aligned ==
    ASSUME NEW a \in Int
    PROVE  ALIGN_DOWN(a) \in Int /\ ALIGN_DOWN(a) <= a /\ a < ALIGN_DOWN(a) + PAGE
<1>1. PICK q \in Int, k \in 0 .. PAGE - 1 : a = q * PAGE + k /\ ALIGN_DOWN(a) = q * PAGE /\ q * PAGE \in Int
    BY Pages
<1>2. PAGE \in Nat /\ k \in Int
    BY AddressesAssumption
<1> QED
    BY <1>1, <1>2

\* The pages of the address space.
SpacePages == SPACE \div PAGE

\* The address space is made of whole pages.
LEMMA WholePages == SpacePages \in Nat \ {0} /\ SPACE = SpacePages * PAGE
<1>1. SPACE \in Nat \ {0} /\ PAGE \in Nat \ {0} /\ SPACE % PAGE = 0
    BY AddressesAssumption
<1>2. SPACE = SpacePages * PAGE /\ SpacePages \in Int
    BY <1>1, SMT DEF SpacePages
<1>3. SpacePages * PAGE > 0 * PAGE
    BY <1>1, <1>2
<1> QED
    BY <1>2, <1>3, PagesOrdered

\* The pages of n cells, by their first cells.
LEMMA PagesOfCells ==
    ASSUME NEW a \in Int, NEW n \in Nat, NEW q \in Int
    PROVE  q \in PagesOf(a, n) <=> ALIGN_DOWN(a) <= q * PAGE /\ q * PAGE < ALIGN_UP(a + n)
<1>1. PICK lo \in Int : ALIGN_DOWN(a) = lo * PAGE
    BY Pages
<1>2. a + n + PAGE - 1 \in Int
    BY AddressesAssumption
<1>3. PICK hi \in Int : ALIGN_UP(a + n) = hi * PAGE
    BY <1>2, Pages DEF ALIGN_UP
<1>4. (lo * PAGE) \div PAGE = lo /\ (hi * PAGE) \div PAGE = hi
    BY <1>1, <1>3, PageAt, AddressesAssumption
<1>5. q \in PagesOf(a, n) <=> lo <= q /\ q < hi
    BY <1>1, <1>3, <1>4 DEF PagesOf
<1>6. ~(q < lo) <=> ~(q * PAGE < lo * PAGE)
    BY <1>1, PagesOrdered
<1>7. q < hi <=> q * PAGE < hi * PAGE
    BY <1>3, PagesOrdered
<1>8. q * PAGE \in Int /\ lo * PAGE \in Int
    BY <1>1, PagesOrdered
<1> QED
    BY <1>1, <1>3, <1>5, <1>6, <1>7, <1>8

\* Pages move with the addresses.
LEMMA PagesMove ==
    ASSUME NEW a \in Int, NEW n \in Nat, NEW k \in Int
    PROVE  /\ ALIGN_DOWN(a + k * PAGE) = ALIGN_DOWN(a) + k * PAGE
           /\ ALIGN_UP(a + k * PAGE) = ALIGN_UP(a) + k * PAGE
           /\ \A q \in Int : q \in PagesOf(a + k * PAGE, n) <=> q - k \in PagesOf(a, n)
<1>1. ASSUME NEW b \in Int
      PROVE  ALIGN_DOWN(b + k * PAGE) = ALIGN_DOWN(b) + k * PAGE
    <2>1. PICK d \in Int, r \in 0 .. PAGE - 1 : b = d * PAGE + r /\ ALIGN_DOWN(b) = d * PAGE
        BY Pages
    <2>2. d + k \in Int /\ k * PAGE \in Int /\ d * PAGE \in Int /\ r \in Int
        BY PagesOrdered, AddressesAssumption
    <2>6. (d + k) * PAGE = d * PAGE + k * PAGE
        BY PagesOrdered
    <2>3. b + k * PAGE = (d + k) * PAGE + r
        BY <2>1, <2>2, <2>6
    <2>4. (b + k * PAGE) \div PAGE = d + k
        BY <2>1, <2>2, <2>3, PageAt
    <2>5. ALIGN_DOWN(b + k * PAGE) = (d + k) * PAGE
        <3>1. b + k * PAGE \in Int
            BY <2>2
        <3> QED
            BY <2>4, <3>1, Pages
    <2> QED
        BY <2>1, <2>2, <2>5, <2>6
<1>2. k * PAGE \in Int /\ PAGE \in Nat \ {0}
    BY PagesOrdered, AddressesAssumption
<1>3. ASSUME NEW b \in Int
      PROVE  ALIGN_UP(b + k * PAGE) = ALIGN_UP(b) + k * PAGE
    <2>1. b + k * PAGE + PAGE - 1 = (b + PAGE - 1) + k * PAGE /\ b + PAGE - 1 \in Int
        BY <1>2
    <2> QED
        BY <1>1, <2>1 DEF ALIGN_UP
<1>4. ASSUME NEW q \in Int
      PROVE  q \in PagesOf(a + k * PAGE, n) <=> q - k \in PagesOf(a, n)
    <2>1. q \in PagesOf(a + k * PAGE, n) <=>
              /\ ALIGN_DOWN(a + k * PAGE) <= q * PAGE
              /\ q * PAGE < ALIGN_UP(a + k * PAGE + n)
        BY <1>2, PagesOfCells
    <2>2. q - k \in PagesOf(a, n) <=>
              ALIGN_DOWN(a) <= (q - k) * PAGE /\ (q - k) * PAGE < ALIGN_UP(a + n)
        BY PagesOfCells
    <2>3. (q - k) * PAGE = q * PAGE - k * PAGE /\ q * PAGE \in Int
        BY PagesOrdered
    <2>4. a + k * PAGE + n = (a + n) + k * PAGE
        BY <1>2
    <2>5. ALIGN_UP(a + k * PAGE + n) = ALIGN_UP(a + n) + k * PAGE
        BY <1>3, <2>4
    <2>6. ALIGN_DOWN(a) \in Int /\ ALIGN_UP(a + n) \in Int
        BY <1>2, Aligned DEF ALIGN_UP
    <2> QED
        BY <1>1, <1>2, <2>1, <2>2, <2>3, <2>5, <2>6
<1> QED
    BY <1>1, <1>3, <1>4

\* The remainder that uintptr_t keeps, for what native.c adds and subtracts.
LEMMA WrapOf ==
    ASSUME NEW a \in Int
    PROVE  /\ Wrap(a) \in 0 .. SPACE - 1
           /\ a \in 0 .. SPACE - 1 => Wrap(a) = a
           /\ a \in SPACE .. SPACE + SPACE - 1 => Wrap(a) = a - SPACE
           /\ a \in 0 - SPACE .. 0 - 1 => Wrap(a) = a + SPACE
BY AddressesAssumption, SMT DEF Wrap

\* Where no address wraps.
Linkable(p) ==
    /\ p.vaddr \in Nat /\ p.memsz \in Nat /\ p.filesz \in Nat /\ p.offset \in Nat
    /\ p.filesz <= p.memsz
    /\ p.vaddr + p.memsz + PAGE <= SPACE

\* The segments that are mapped are as ElfsAssumption and LayoutAssumption say.
LEMMA LoadShape ==
    ASSUME FileInv, handle # 0
    PROVE  /\ Loads \in Seq(Phdrs) /\ Len(Loads) \in Nat
           /\ \A i \in 1 .. Len(Loads) : Linkable(Loads[i])
<1>1. Elf \in Elfs /\ WellFormed(Elf) /\ Elf.phdrs \in Seq(Phdrs)
    BY ElfShape
<1>2. /\ Loads \in Seq(Phdrs)
      /\ \A i \in 1 .. Len(Loads) :
            \E j \in 1 .. Len(Elf.phdrs) : Loads[i] = Elf.phdrs[j] /\ Elf.phdrs[j].load
    BY <1>1, LoadsAreRows DEF Loads
<1>3. ASSUME NEW j \in 1 .. Len(Elf.phdrs), Elf.phdrs[j].load
      PROVE  Linkable(Elf.phdrs[j])
    <2>1. Elf.phdrs[j] \in Phdrs
        BY <1>1
    <2>2. Elf.phdrs[j].filesz <= Elf.phdrs[j].memsz
        BY <1>1 DEF WellFormed
    <2>3. Elf.phdrs[j].vaddr + Elf.phdrs[j].memsz + PAGE <= SPACE
        BY <1>1, <1>3, LayoutAssumption
    <2> QED
        BY <2>1, <2>2, <2>3 DEF Phdrs, Linkable
<1> QED
    BY <1>2, <1>3

\* Page numbers.
LEMMA PagesAreNumbers ==
    ASSUME NEW a \in Int, NEW n \in Nat, NEW q \in PagesOf(a, n)
    PROVE  q \in Int
<1>1. PICK lo \in Int : ALIGN_DOWN(a) = lo * PAGE /\ lo * PAGE \in Int
    BY Pages
<1>2. 0 \in 0 .. PAGE - 1 /\ lo * PAGE + 0 = lo * PAGE
    BY <1>1, AddressesAssumption
<1>3. (lo * PAGE + 0) \div PAGE = lo
    BY <1>1, <1>2, PageAt
<1>4. ALIGN_DOWN(a) \div PAGE = lo
    BY <1>1, <1>2, <1>3
<1> QED
    BY <1>4 DEF PagesOf

\* The pages a segment was linked at begin between its page and its end.
LEMMA LinkedPages ==
    ASSUME NEW v \in Nat, NEW n \in Nat, v + n + PAGE <= SPACE, NEW s \in PagesOf(v, n)
    PROVE  /\ s \in 0 .. SpacePages - 1
           /\ s * PAGE \in ALIGN_DOWN(v) .. v + n - 1
           /\ s * PAGE \in 0 .. SPACE - PAGE
<1> DEFINE end == v + n
<1>1. end \in Nat /\ end + PAGE <= SPACE /\ PAGE \in Nat \ {0} /\ SPACE \in Nat /\ v \in Int
    BY AddressesAssumption
<1>2. s \in Int
    BY <1>1, PagesAreNumbers
<1>3. ALIGN_DOWN(v) <= s * PAGE /\ s * PAGE < ALIGN_UP(end)
    BY <1>1, <1>2, PagesOfCells
<1>4. s * PAGE \in Int /\ (s + 1) * PAGE = s * PAGE + PAGE
    BY <1>2, PagesOrdered
<1>5. PICK hi \in Int : ALIGN_UP(end) = hi * PAGE /\ hi * PAGE \in Int /\ hi * PAGE <= end + PAGE - 1
    <2>1. end + PAGE - 1 \in Int
        BY <1>1
    <2>2. PICK hi \in Int : ALIGN_DOWN(end + PAGE - 1) = hi * PAGE /\ hi * PAGE \in Int
        BY <2>1, Pages
    <2> QED
        BY <2>1, <2>2, Aligned DEF ALIGN_UP
<1>6. (s + 1) * PAGE <= hi * PAGE
    <2>0. s * PAGE < hi * PAGE
        BY <1>3, <1>5
    <2>1. s < hi
        BY <1>2, <1>5, <2>0, PagesOrdered
    <2>2. ~(hi < s + 1) /\ s + 1 \in Int
        BY <1>2, <1>5, <2>1
    <2>3. ~(hi * PAGE < (s + 1) * PAGE)
        BY <1>5, <2>2, PagesOrdered
    <2> QED
        BY <1>1, <1>4, <1>5, <2>3
<1>7. s * PAGE <= end - 1
    BY <1>1, <1>4, <1>5, <1>6
<1>8. ALIGN_DOWN(v) \in Int /\ 0 <= s * PAGE
    <2>1. PICK lo \in Int : ALIGN_DOWN(v) = lo * PAGE /\ lo * PAGE \in Int
        BY <1>1, Pages
    <2>2. v < lo * PAGE + PAGE
        BY <1>1, <2>1, Aligned
    <2>3. 0 * PAGE < (lo + 1) * PAGE
        <3>1. (lo + 1) * PAGE = lo * PAGE + PAGE
            BY <2>1, PagesOrdered
        <3> QED
            BY <1>1, <2>1, <2>2, <3>1
    <2>4. 0 < lo + 1
        BY <2>1, <2>3, PagesOrdered
    <2>5. ~(lo * PAGE < 0 * PAGE)
        BY <2>1, <2>4, PagesOrdered
    <2> QED
        BY <1>1, <1>3, <1>4, <2>1, <2>5
<1>9. s * PAGE \in 0 .. SPACE - PAGE
    BY <1>1, <1>4, <1>7, <1>8
<1>10. s \in 0 .. SpacePages - 1
    <2>1. SpacePages \in Nat /\ SPACE = SpacePages * PAGE
        BY WholePages
    <2>2. s * PAGE < SpacePages * PAGE /\ ~(s * PAGE < 0 * PAGE)
        BY <1>1, <1>9, <2>1
    <2>3. s < SpacePages /\ ~(s < 0)
        BY <1>2, <2>1, <2>2, PagesOrdered
    <2> QED
        BY <1>2, <2>1, <2>3
<1> QED
    BY <1>1, <1>3, <1>4, <1>7, <1>8, <1>9, <1>10

\* The page number of a bias.
LEMMA BiasPages ==
    ASSUME NEW b \in 0 .. SPACE - 1, b % PAGE = 0
    PROVE  \E k \in 0 .. SpacePages - 1 : b = k * PAGE
<1>1. b \in Int /\ SPACE \in Nat /\ PAGE \in Nat \ {0}
    BY AddressesAssumption
<1>2. PICK k \in Int, r \in 0 .. PAGE - 1 : b = k * PAGE + r /\ b % PAGE = r /\ k * PAGE \in Int
    BY <1>1, Pages
<1>3. b = k * PAGE
    BY <1>1, <1>2
<1>4. SpacePages \in Nat /\ SPACE = SpacePages * PAGE
    BY WholePages
<1>5. k * PAGE < SpacePages * PAGE /\ ~(k * PAGE < 0 * PAGE)
    BY <1>1, <1>3, <1>4
<1>6. k < SpacePages /\ ~(k < 0)
    BY <1>2, <1>4, <1>5, PagesOrdered
<1> QED
    BY <1>2, <1>3, <1>4, <1>6

\* With bias k * PAGE, the pages of a segment are those it was linked at,
\* k higher, or that many less than once around the address space.
LEMMA RunIsShift ==
    ASSUME NEW k \in 0 .. SpacePages - 1, NEW v \in Nat, NEW n \in Nat, v + n + PAGE <= SPACE
    PROVE  \E e \in {0, SpacePages} :
               /\ Wrap(k * PAGE + v) = v + (k - e) * PAGE
               /\ \A q \in Int : q \in PagesOf(Wrap(k * PAGE + v), n) <=> q - (k - e) \in PagesOf(v, n)
<1>1. SpacePages \in Nat /\ SPACE = SpacePages * PAGE /\ k \in Int /\ SPACE \in Nat \ {0} /\ PAGE \in Nat \ {0}
    BY WholePages, AddressesAssumption
<1>2. k * PAGE \in Int /\ ~(k * PAGE < 0 * PAGE) /\ k * PAGE < SpacePages * PAGE
    BY <1>1, PagesOrdered
<1>3. k * PAGE \in 0 .. SPACE - 1 /\ v \in 0 .. SPACE - 1
    BY <1>1, <1>2
<1>4. k * PAGE + v \in 0 .. SPACE + SPACE - 1 /\ k * PAGE + v \in Int
    BY <1>1, <1>3
<1>5. (k - SpacePages) * PAGE = k * PAGE - SPACE /\ (k - 0) * PAGE = k * PAGE
    BY <1>1, PagesOrdered
<1>6. \E e \in {0, SpacePages} : Wrap(k * PAGE + v) = v + (k - e) * PAGE
    <2>1. CASE k * PAGE + v \in 0 .. SPACE - 1
        <3>1. Wrap(k * PAGE + v) = k * PAGE + v
            BY <1>4, <2>1, WrapOf
        <3>2. Wrap(k * PAGE + v) = v + (k - 0) * PAGE
            BY <1>3, <1>5, <3>1
        <3> QED
            BY <3>2
    <2>2. CASE k * PAGE + v \in SPACE .. SPACE + SPACE - 1
        <3>0. PICK a \in Int : a = k * PAGE + v
            BY <1>4
        <3>3. a \in SPACE .. SPACE + SPACE - 1 => Wrap(a) = a - SPACE
            BY WrapOf
        <3>6. a \in SPACE .. SPACE + SPACE - 1
            BY <2>2, <3>0
        <3>7. Wrap(a) = a - SPACE
            BY <3>3, <3>6
        <3>1. Wrap(k * PAGE + v) = k * PAGE + v - SPACE
            <4>1. Wrap(k * PAGE + v) = Wrap(a)
                BY <3>0, Zenon
            <4>2. k * PAGE + v - SPACE = a - SPACE
                BY <1>1, <1>2, <3>0
            <4> QED
                BY <3>7, <4>1, <4>2, Zenon
        <3>4. v + (k - SpacePages) * PAGE = v + (k * PAGE - SPACE)
            BY <1>5
        <3>5. v + (k * PAGE - SPACE) = k * PAGE + v - SPACE
            BY <1>1, <1>2
        <3>2. Wrap(k * PAGE + v) = v + (k - SpacePages) * PAGE
            BY <3>1, <3>4, <3>5
        <3> QED
            BY <3>2
    <2> QED
        BY <1>1, <1>4, <2>1, <2>2
<1>7. PICK e \in {0, SpacePages} : Wrap(k * PAGE + v) = v + (k - e) * PAGE
    BY <1>6
<1>8. k - e \in Int /\ v \in Int
    BY <1>1, <1>7
<1>9. \A q \in Int : q \in PagesOf(v + (k - e) * PAGE, n) <=> q - (k - e) \in PagesOf(v, n)
    BY <1>8, PagesMove
<1> QED
    BY <1>7, <1>9

\* Where a page of a running segment comes from.
LEMMA Home ==
    ASSUME NEW k \in 0 .. SpacePages - 1, NEW v \in Nat, NEW n \in Nat, v + n + PAGE <= SPACE,
           NEW q \in PagesOf(Wrap(k * PAGE + v), n)
    PROVE  \E s \in PagesOf(v, n) : \E e \in {0, SpacePages} :
               /\ q \in Int /\ s \in 0 .. SpacePages - 1
               /\ q = s + k - e
               /\ Wrap(q * PAGE - k * PAGE) = s * PAGE
<1>1. SpacePages \in Nat /\ SPACE = SpacePages * PAGE /\ k \in Int
    BY WholePages
<1>2. PICK e \in {0, SpacePages} :
        \A r \in Int : r \in PagesOf(Wrap(k * PAGE + v), n) <=> r - (k - e) \in PagesOf(v, n)
    BY RunIsShift
<1>3. q \in Int
    <2>0. k * PAGE \in Int
        BY <1>1, PagesOrdered
    <2>1. k * PAGE + v \in Int
        BY <2>0
    <2>2. PICK a : a = Wrap(k * PAGE + v)
        OBVIOUS
    <2>3. a \in Int
        BY <2>1, <2>2, WrapOf, AddressesAssumption
    <2>4. q \in PagesOf(a, n)
        BY <2>2
    <2> QED
        BY <2>3, <2>4, PagesAreNumbers
<1>4. PICK s : s = q - (k - e) /\ s \in PagesOf(v, n)
    BY <1>2, <1>3
<1>5. s \in 0 .. SpacePages - 1 /\ s * PAGE \in 0 .. SPACE - PAGE
    BY <1>4, LinkedPages
<1>6. q = s + k - e /\ q - k = s - e
    BY <1>1, <1>2, <1>3, <1>4, <1>5
<1>7. (q - k) * PAGE = q * PAGE - k * PAGE /\ (s - e) * PAGE = s * PAGE - e * PAGE
    BY <1>1, <1>2, <1>3, <1>5, PagesOrdered
<1>8. e * PAGE \in {0, SPACE}
    BY <1>1, <1>2, AddressesAssumption
<1>9. Wrap(s * PAGE - e * PAGE) = s * PAGE
    <2>1. PAGE \in Nat \ {0} /\ SPACE \in Nat \ {0} /\ s * PAGE \in Int
        BY <1>5, AddressesAssumption
    <2>2. CASE e * PAGE = 0
        <3>1. s * PAGE - e * PAGE = s * PAGE /\ s * PAGE \in 0 .. SPACE - 1
            BY <1>5, <2>1, <2>2
        <3> QED
            BY <2>1, <3>1, WrapOf
    <2>3. CASE e * PAGE = SPACE
        <3>1. s * PAGE - e * PAGE = s * PAGE - SPACE /\ s * PAGE - SPACE \in 0 - SPACE .. 0 - 1
              /\ s * PAGE - SPACE \in Int
            BY <1>5, <2>1, <2>3
        <3>2. Wrap(s * PAGE - SPACE) = s * PAGE - SPACE + SPACE
            BY <3>1, WrapOf
        <3> QED
            BY <2>1, <3>1, <3>2
    <2> QED
        BY <1>8, <2>2, <2>3
<1>10. Wrap(q * PAGE - k * PAGE) = s * PAGE
    BY <1>6, <1>7, <1>9
<1> QED
    BY <1>2, <1>3, <1>4, <1>5, <1>6, <1>10

-----------------------------------------------------------------------------
\* The bounds of a program hold each of its segments, with room after the last.
LEMMA LoadBoundsHold ==
    ASSUME FileInv, handle # 0
    PROVE  /\ LoadBounds.lo \in 0 .. SPACE - 1
           /\ LoadBounds.hi \in Nat
           /\ Len(Loads) # 0 => LoadBounds.lo <= LoadBounds.hi /\ LoadBounds.hi + PAGE <= SPACE
           /\ \A i \in 1 .. Len(Loads) :
                 LoadBounds.lo <= Loads[i].vaddr /\ Loads[i].vaddr + Loads[i].memsz <= LoadBounds.hi
<1> DEFINE starts == {Loads[i].vaddr : i \in 1 .. Len(Loads)} \cup {SPACE - 1}
           ends == {Loads[i].vaddr + Loads[i].memsz : i \in 1 .. Len(Loads)} \cup {0}
<1>1. PAGE \in Nat \ {0} /\ SPACE \in Nat \ {0} /\ Len(Loads) \in Nat
    BY LoadShape, AddressesAssumption
<1>2. \A i \in 1 .. Len(Loads) :
         /\ Loads[i].vaddr \in Nat /\ Loads[i].vaddr + Loads[i].memsz \in Nat
         /\ Loads[i].vaddr <= Loads[i].vaddr + Loads[i].memsz
         /\ Loads[i].vaddr + Loads[i].memsz + PAGE <= SPACE
         /\ Loads[i].vaddr + Loads[i].memsz <= SPACE
    <2> SUFFICES ASSUME NEW i \in 1 .. Len(Loads)
                 PROVE  /\ Loads[i].vaddr \in Nat /\ Loads[i].vaddr + Loads[i].memsz \in Nat
                        /\ Loads[i].vaddr <= Loads[i].vaddr + Loads[i].memsz
                        /\ Loads[i].vaddr + Loads[i].memsz + PAGE <= SPACE
                        /\ Loads[i].vaddr + Loads[i].memsz <= SPACE
        OBVIOUS
    <2>1. Linkable(Loads[i])
        BY LoadShape
    <2>2. /\ Loads[i].vaddr \in Nat /\ Loads[i].memsz \in Nat
          /\ Loads[i].vaddr + Loads[i].memsz + PAGE <= SPACE
        BY <2>1, Zenon DEF Linkable
    <2>3. PICK v \in Nat, n \in Nat : v = Loads[i].vaddr /\ n = Loads[i].memsz
        BY <2>2
    <2>4. v + n + PAGE <= SPACE
        BY <2>2, <2>3
    <2>5. v + n \in Nat /\ v <= v + n /\ v + n <= SPACE
        <3>1. SPACE \in Nat /\ PAGE \in Nat
            BY <1>1
        <3>2. v \in Nat /\ n \in Nat
            BY <2>3
        <3> QED
            BY <2>4, <3>1, <3>2
    <2> QED
        BY <2>2, <2>3, <2>4, <2>5, Zenon
<1>3. starts \in SUBSET Nat /\ starts # {} /\ ends \in SUBSET Nat /\ ends # {}
      /\ \A x \in ends : x <= SPACE
    BY <1>1, <1>2
<1>4. LoadBounds = [lo |-> Min(starts), hi |-> Max(ends)]
    BY DEF LoadBounds
<1>5. /\ SPACE - 1 \in starts
      /\ \A i \in 1 .. Len(Loads) :
            Loads[i].vaddr \in starts /\ Loads[i].vaddr + Loads[i].memsz \in ends
    OBVIOUS
<1>6. Len(Loads) # 0 => \A x \in ends : x + PAGE <= SPACE
    <2> SUFFICES ASSUME Len(Loads) # 0, NEW x \in ends
                 PROVE  x + PAGE <= SPACE
        OBVIOUS
    <2>1. CASE x = 0
        <3>1. 1 \in 1 .. Len(Loads)
            BY <1>1
        <3> QED
            BY <1>1, <1>2, <2>1, <3>1
    <2>2. CASE x # 0
        BY <1>2, <2>2
    <2> QED
        BY <2>1, <2>2
<1> HIDE DEF starts, ends
<1>7. Min(starts) \in starts /\ \A x \in starts : Min(starts) <= x
    BY <1>3, MinOfNumbers
<1>8. Max(ends) \in ends /\ \A x \in ends : x <= Max(ends)
    BY <1>1, <1>3, MaxOfBounded
<1>9. Min(starts) \in Nat /\ Max(ends) \in Nat /\ Min(starts) <= SPACE - 1
    BY <1>3, <1>5, <1>7, <1>8
<1>10. Len(Loads) # 0 => Min(starts) <= Max(ends)
    <2> SUFFICES ASSUME Len(Loads) # 0
                 PROVE  Min(starts) <= Max(ends)
        OBVIOUS
    <2>1. 1 \in 1 .. Len(Loads)
        BY <1>1
    <2>2. Min(starts) <= Loads[1].vaddr /\ Loads[1].vaddr + Loads[1].memsz <= Max(ends)
        BY <1>5, <1>7, <1>8, <2>1
    <2> QED
        BY <1>2, <1>9, <2>1, <2>2
<1> QED
    BY <1>1, <1>4, <1>5, <1>6, <1>7, <1>8, <1>9, <1>10

\* ALIGN_DOWN keeps the order.
LEMMA Monotone ==
    ASSUME NEW a \in Int, NEW b \in Int, a <= b
    PROVE  ALIGN_DOWN(a) <= ALIGN_DOWN(b)
<1>1. PAGE \in Nat \ {0} /\ ALIGN_DOWN(a) <= a /\ b < ALIGN_DOWN(b) + PAGE
    BY Aligned, AddressesAssumption
<1>2. PICK l \in Int : ALIGN_DOWN(a) = l * PAGE /\ l * PAGE \in Int
    BY Pages
<1>3. PICK h \in Int : ALIGN_DOWN(b) = h * PAGE /\ h * PAGE \in Int
    BY Pages
<1>4. (h + 1) * PAGE = h * PAGE + PAGE
    BY <1>3, PagesOrdered
<1>5. l * PAGE < (h + 1) * PAGE
    BY <1>1, <1>2, <1>3, <1>4
<1>6. l < h + 1
    BY <1>2, <1>3, <1>5, PagesOrdered
<1>7. ~(h * PAGE < l * PAGE)
    BY <1>2, <1>3, <1>6, PagesOrdered
<1> QED
    BY <1>2, <1>3, <1>7

\* A segment, as the numbers that the lemmas about pages take.
LEMMA LoadNumbers ==
    ASSUME FileInv, handle # 0, NEW i \in 1 .. Len(Loads)
    PROVE  \E v \in Nat, n \in Nat :
               /\ Loads[i].vaddr = v /\ Loads[i].memsz = n
               /\ v + n + PAGE <= SPACE
               /\ SegmentPages(Loads[i]) = PagesOf(v, n)
               /\ \A b : RunPages(b, Loads[i]) = PagesOf(Wrap(b + v), n)
<1>1. Linkable(Loads[i])
    BY LoadShape
<1> QED
    BY <1>1 DEF Linkable, SegmentPages, RunPages

\* The pages of a running segment come from where it was linked.
LEMMA RunHome ==
    ASSUME FileInv, handle # 0, NEW k \in 0 .. SpacePages - 1,
           NEW i \in 1 .. Len(Loads), NEW q \in RunPages(k * PAGE, Loads[i])
    PROVE  \E s \in SegmentPages(Loads[i]), e \in {0, SpacePages} :
               /\ q \in Int /\ s \in 0 .. SpacePages - 1
               /\ q = s + k - e
               /\ Wrap(q * PAGE - k * PAGE) = s * PAGE
               /\ s * PAGE \in ALIGN_DOWN(Loads[i].vaddr) .. Loads[i].vaddr + Loads[i].memsz - 1
<1>2. PICK v \in Nat, n \in Nat :
               /\ Loads[i].vaddr = v /\ Loads[i].memsz = n
               /\ v + n + PAGE <= SPACE
               /\ SegmentPages(Loads[i]) = PagesOf(v, n)
               /\ \A c : RunPages(c, Loads[i]) = PagesOf(Wrap(c + v), n)
    BY LoadNumbers
<1>3. q \in PagesOf(Wrap(k * PAGE + v), n)
    BY <1>2
<1>4. PICK s \in PagesOf(v, n), e \in {0, SpacePages} :
               /\ q \in Int /\ s \in 0 .. SpacePages - 1
               /\ q = s + k - e
               /\ Wrap(q * PAGE - k * PAGE) = s * PAGE
    BY <1>2, <1>3, Home
<1>5. s * PAGE \in ALIGN_DOWN(v) .. v + n - 1
    BY <1>2, LinkedPages
<1> QED
    BY <1>2, <1>4, <1>5

\* It lies between the bounds.
LEMMA RunInBounds ==
    ASSUME FileInv, handle # 0, NEW b \in 0 .. SPACE - 1, b % PAGE = 0,
           NEW i \in 1 .. Len(Loads), NEW q \in RunPages(b, Loads[i])
    PROVE  Wrap(q * PAGE - b) \in ALIGN_DOWN(LoadBounds.lo) .. LoadBounds.hi - 1
<1>0. PICK k \in 0 .. SpacePages - 1 : b = k * PAGE
    BY BiasPages
<1>1. PICK w : w = Wrap(q * PAGE - b)
    OBVIOUS
<1>2. w \in ALIGN_DOWN(Loads[i].vaddr) .. Loads[i].vaddr + Loads[i].memsz - 1
    <2>1. q \in RunPages(k * PAGE, Loads[i])
        BY <1>0
    <2>2. PICK s \in SegmentPages(Loads[i]), e \in {0, SpacePages} :
               /\ Wrap(q * PAGE - k * PAGE) = s * PAGE
               /\ s * PAGE \in ALIGN_DOWN(Loads[i].vaddr) .. Loads[i].vaddr + Loads[i].memsz - 1
        BY <2>1, RunHome
    <2>3. w = s * PAGE
        BY <1>0, <1>1, <2>2, Zenon
    <2> QED
        BY <2>2, <2>3, Zenon
<1>3. PICK v \in Nat, n \in Nat : Loads[i].vaddr = v /\ Loads[i].memsz = n
    BY LoadNumbers
<1>4. PICK lo \in Nat, hi \in Nat : lo = LoadBounds.lo /\ hi = LoadBounds.hi /\ lo <= v /\ v + n <= hi
    BY <1>3, LoadBoundsHold
<1>5. ALIGN_DOWN(lo) <= ALIGN_DOWN(v) /\ ALIGN_DOWN(lo) \in Int /\ ALIGN_DOWN(v) \in Int
    <2>1. lo \in Int /\ v \in Int /\ lo <= v
        BY <1>4
    <2>2. ALIGN_DOWN(lo) <= ALIGN_DOWN(v)
        BY <2>1, Monotone
    <2> QED
        BY <2>1, <2>2, Aligned
<1>6. w \in ALIGN_DOWN(lo) .. hi - 1
    BY <1>2, <1>3, <1>4, <1>5
<1>7. w \in ALIGN_DOWN(LoadBounds.lo) .. LoadBounds.hi - 1
    BY <1>4, <1>6
<1> QED
    BY <1>1, <1>7, Zenon

\* Two pages that are moved to the same place by as much were the same.
LEMMA SameHome ==
    ASSUME NEW n \in Nat, NEW s \in 0 .. n - 1, NEW t \in 0 .. n - 1, NEW k \in Int,
           NEW e \in {0, n}, NEW f \in {0, n}, s + k - e = t + k - f
    PROVE  s = t
<1>1. s - e = t - f
    OBVIOUS
<1>2. CASE e = f
    BY <1>1, <1>2
<1>3. CASE e # f
    BY <1>1, <1>3
<1> QED
    BY <1>2, <1>3

\* Segments that share no page do not meet anywhere.
LEMMA RunsApart ==
    ASSUME FileInv, handle # 0, ~SharePages, NEW b \in 0 .. SPACE - 1, b % PAGE = 0,
           NEW i \in 1 .. Len(Loads), NEW j \in 1 .. Len(Loads), i # j,
           NEW q \in RunPages(b, Loads[i])
    PROVE  q \notin RunPages(b, Loads[j])
<1> SUFFICES ASSUME q \in RunPages(b, Loads[j])
             PROVE  FALSE
    OBVIOUS
<1>0. SpacePages \in Nat
    BY WholePages
<1>1. PICK k \in 0 .. SpacePages - 1 : b = k * PAGE
    BY BiasPages
<1>2. q \in RunPages(k * PAGE, Loads[i]) /\ q \in RunPages(k * PAGE, Loads[j])
    BY <1>1
<1>3. PICK s \in SegmentPages(Loads[i]), e \in {0, SpacePages} :
               /\ q \in Int /\ s \in 0 .. SpacePages - 1
               /\ q = s + k - e
               /\ Wrap(q * PAGE - k * PAGE) = s * PAGE
               /\ s * PAGE \in ALIGN_DOWN(Loads[i].vaddr) .. Loads[i].vaddr + Loads[i].memsz - 1
    BY <1>2, RunHome
<1>4. PICK t \in SegmentPages(Loads[j]), f \in {0, SpacePages} :
               /\ q \in Int /\ t \in 0 .. SpacePages - 1
               /\ q = t + k - f
               /\ Wrap(q * PAGE - k * PAGE) = t * PAGE
               /\ t * PAGE \in ALIGN_DOWN(Loads[j].vaddr) .. Loads[j].vaddr + Loads[j].memsz - 1
    BY <1>2, RunHome
<1>5. s = t
    <2>1. s + k - e = t + k - f
        BY <1>3, <1>4, Zenon
    <2>2. s \in 0 .. SpacePages - 1 /\ t \in 0 .. SpacePages - 1 /\ k \in Int
        BY <1>0, <1>3, <1>4
    <2> QED
        BY <1>0, <2>1, <2>2, SameHome
<1> QED
    BY <1>3, <1>4, <1>5 DEF SharePages

\* The first cell of a page.
LEMMA PageStart ==
    ASSUME NEW k \in Int
    PROVE  /\ k * PAGE \in Int /\ (k * PAGE) % PAGE = 0 /\ (k * PAGE) \div PAGE = k
           /\ k \in 0 .. SpacePages - 1 => k * PAGE \in 0 .. SPACE - 1
<1>1. PAGE \in Nat \ {0} /\ SpacePages \in Nat /\ SPACE = SpacePages * PAGE /\ SPACE \in Nat
    BY WholePages, AddressesAssumption
<1>2. k * PAGE \in Int /\ 0 \in 0 .. PAGE - 1
    BY <1>1, PagesOrdered
<1>3. k * PAGE + 0 = k * PAGE
    BY <1>2
<1>4. (k * PAGE + 0) \div PAGE = k /\ (k * PAGE + 0) % PAGE = 0
    BY <1>2, PageAt
<1>5. ASSUME k \in 0 .. SpacePages - 1
      PROVE  k * PAGE \in 0 .. SPACE - 1
    <2>1. k < SpacePages /\ ~(k < 0)
        BY <1>1, <1>5
    <2>2. k * PAGE < SpacePages * PAGE /\ ~(k * PAGE < 0 * PAGE)
        BY <1>1, <2>1, PagesOrdered
    <2> QED
        BY <1>1, <1>2, <2>2
<1> QED
    BY <1>2, <1>3, <1>4, <1>5

\* The page of an address.
LEMMA PageOfAddress ==
    ASSUME NEW a \in 0 .. SPACE - 1
    PROVE  \E l \in 0 .. SpacePages - 1 : ALIGN_DOWN(a) = l * PAGE
<1>1. PAGE \in Nat \ {0} /\ SpacePages \in Nat /\ SPACE = SpacePages * PAGE /\ SPACE \in Nat /\ a \in Int
    BY WholePages, AddressesAssumption
<1>2. PICK l \in Int : ALIGN_DOWN(a) = l * PAGE /\ l * PAGE \in Int
    BY <1>1, Pages
<1>3. l * PAGE <= a /\ a < l * PAGE + PAGE
    BY <1>1, <1>2, Aligned
<1>4. (l + 1) * PAGE = l * PAGE + PAGE
    BY <1>2, PagesOrdered
<1>5. l * PAGE < SpacePages * PAGE /\ 0 * PAGE < (l + 1) * PAGE
    BY <1>1, <1>2, <1>3, <1>4
<1>6. l < SpacePages
    BY <1>1, <1>2, <1>5, PagesOrdered
<1>7. 0 < l + 1
    BY <1>2, <1>5, PagesOrdered
<1> QED
    BY <1>1, <1>2, <1>6, <1>7

\* The bias that ReserveSpan sets is a number of pages.
LEMMA ReserveBias ==
    ASSUME NEW lo \in 0 .. SPACE - 1, NEW base \in 0 .. SpacePages - 1
    PROVE  \E l \in 0 .. SpacePages - 1, f \in {0, SpacePages} :
               /\ ALIGN_DOWN(lo) = l * PAGE
               /\ base - l + f \in 0 .. SpacePages - 1
               /\ Wrap(base * PAGE - ALIGN_DOWN(lo)) = (base - l + f) * PAGE
<1>1. SpacePages \in Nat \ {0} /\ SPACE = SpacePages * PAGE
    BY WholePages
<1>2. PICK l \in 0 .. SpacePages - 1 : ALIGN_DOWN(lo) = l * PAGE
    BY PageOfAddress
<1>3. PICK d \in Int : d = base - l /\ d \in 1 - SpacePages .. SpacePages - 1
    BY <1>1
<1>4. base * PAGE - l * PAGE = d * PAGE /\ d * PAGE \in Int
    BY <1>3, PagesOrdered
<1>5. CASE d >= 0
    <2>1. d * PAGE \in 0 .. SPACE - 1
        BY <1>1, <1>3, <1>5, PageStart
    <2>2. Wrap(d * PAGE) = d * PAGE
        BY <1>4, <2>1, WrapOf
    <2>3. base - l + 0 = d /\ d \in 0 .. SpacePages - 1
        BY <1>1, <1>3, <1>5
    <2>4. Wrap(base * PAGE - ALIGN_DOWN(lo)) = d * PAGE
        BY <1>2, <1>4, <2>2, Zenon
    <2> QED
        BY <1>1, <1>2, <2>3, <2>4
<1>6. CASE d < 0
    <2>1. d + SpacePages \in 0 .. SpacePages - 1
        BY <1>1, <1>3, <1>6
    <2>2. (d + SpacePages) * PAGE = d * PAGE + SPACE
        BY <1>1, <1>3, PagesOrdered
    <2>3. (d + SpacePages) * PAGE \in 0 .. SPACE - 1
        BY <1>1, <1>3, <2>1, PageStart
    <2>4. d * PAGE \in 0 - SPACE .. 0 - 1
        BY <1>4, <2>2, <2>3, AddressesAssumption
    <2>5. Wrap(d * PAGE) = d * PAGE + SPACE
        BY <1>4, <2>4, WrapOf
    <2>6. base - l + SpacePages = d + SpacePages
        BY <1>1, <1>3
    <2>7. Wrap(base * PAGE - ALIGN_DOWN(lo)) = (base - l + SpacePages) * PAGE
        BY <1>2, <1>4, <2>2, <2>5, <2>6, Zenon
    <2> QED
        BY <1>1, <1>2, <2>1, <2>6, <2>7
<1> QED
    BY <1>3, <1>5, <1>6

\* The pages that ReserveSpan asks for hold every page of every segment.
LEMMA ReserveHolds ==
    ASSUME FileInv, handle # 0, bounds = LoadBounds,
           NEW base \in UserPages, NEW n, n = Span \div PAGE, n # 0, base .. base + n - 1 \subseteq UserPages,
           NEW b, b = Wrap(base * PAGE - ALIGN_DOWN(bounds.lo)),
           NEW i \in 1 .. Len(Loads), NEW q \in RunPages(b, Loads[i]), q \in UserPages
    PROVE  q \in base .. base + n - 1
<1>1. PICK N \in Nat \ {0} : N = SpacePages
    BY WholePages
<1>2. UserPages \subseteq 0 .. N - 1 /\ SPACE = N * PAGE /\ SPACE \in Nat /\ PAGE \in Nat \ {0}
    BY <1>1, WholePages, AddressesAssumption DEF SpacePages
<1>3. PICK lo \in 0 .. SPACE - 1, hi \in Nat : lo = bounds.lo /\ hi = bounds.hi
    BY LoadBoundsHold
<1>4. lo <= hi /\ hi + PAGE <= SPACE
    <2>1. Len(Loads) # 0
        BY LoadShape
    <2> QED
        BY <1>3, <2>1, LoadBoundsHold
<1>5. PICK l \in 0 .. N - 1, f \in {0, N} :
               /\ ALIGN_DOWN(lo) = l * PAGE
               /\ base - l + f \in 0 .. N - 1
               /\ Wrap(base * PAGE - ALIGN_DOWN(lo)) = (base - l + f) * PAGE
    <2>1. base \in 0 .. SpacePages - 1
        BY <1>1, <1>2
    <2> QED
        BY <1>1, <2>1, ReserveBias
<1>6. PICK k \in 0 .. N - 1 : k = base - l + f
    BY <1>5
<1>7. b = k * PAGE
    <2>1. ALIGN_DOWN(bounds.lo) = ALIGN_DOWN(lo)
        BY <1>3, Zenon
    <2>2. b = Wrap(base * PAGE - ALIGN_DOWN(lo))
        BY <2>1, Zenon
    <2>3. b = (base - l + f) * PAGE
        BY <1>5, <2>2, Zenon
    <2> QED
        BY <1>6, <2>3, Zenon
<1>8. PICK h \in 0 .. N - 1 : ALIGN_UP(hi) = h * PAGE
    <2>1. hi + PAGE - 1 \in 0 .. SPACE - 1
        BY <1>2, <1>4
    <2> QED
        BY <1>1, <2>1, PageOfAddress DEF ALIGN_UP
<1>9. l * PAGE \in Int /\ h * PAGE \in Int
    <2>1. l \in Int /\ h \in Int
        BY <1>1
    <2> QED
        BY <2>1, PagesOrdered
<1>10. l * PAGE <= h * PAGE /\ hi <= h * PAGE
    <2>1. hi + PAGE - 1 \in Int /\ lo \in Int /\ lo <= hi + PAGE - 1
        <3>1. PAGE \in Nat /\ PAGE >= 1 /\ lo \in Int /\ hi \in Nat /\ lo <= hi
            BY <1>3, <1>4, AddressesAssumption
        <3> QED
            BY <3>1
    <2>2. ALIGN_DOWN(lo) <= ALIGN_DOWN(hi + PAGE - 1)
        BY <2>1, Monotone
    <2>3. hi + PAGE - 1 < ALIGN_DOWN(hi + PAGE - 1) + PAGE
        BY <2>1, Aligned
    <2>4. ALIGN_DOWN(hi + PAGE - 1) = h * PAGE
        BY <1>8 DEF ALIGN_UP
    <2>5. l * PAGE <= h * PAGE
        BY <1>5, <2>2, <2>4
    <2>6. hi + PAGE - 1 < h * PAGE + PAGE
        BY <2>3, <2>4
    <2> QED
        BY <1>2, <1>9, <2>5, <2>6
<1>11. l <= h
    <2>1. ~(h * PAGE < l * PAGE)
        BY <1>9, <1>10
    <2>2. l \in Int /\ h \in Int
        BY <1>1
    <2>3. ~(h < l)
        BY <2>1, <2>2, PagesOrdered
    <2> QED
        BY <2>2, <2>3
<1>12. n = h - l
    <2>1. h - l \in 0 .. N - 1 /\ h - l \in Int
        BY <1>1, <1>11
    <2>2. (h - l) * PAGE = h * PAGE - l * PAGE
        BY <1>1, PagesOrdered
    <2>3. (h - l) * PAGE \in 0 .. SPACE - 1 /\ (h - l) * PAGE \in Int /\ ((h - l) * PAGE) \div PAGE = h - l
        BY <1>1, <2>1, PageStart
    <2>4. Wrap((h - l) * PAGE) = (h - l) * PAGE
        BY <2>3, WrapOf
    <2>5. Span = Wrap(h * PAGE - l * PAGE)
        BY <1>3, <1>5, <1>8, Zenon DEF Span
    <2>6. Span = (h - l) * PAGE
        BY <2>2, <2>4, <2>5, Zenon
    <2>7. Span \div PAGE = h - l
        BY <2>3, <2>6, Zenon
    <2> QED
        BY <2>7, Zenon
<1>13. base \in 0 .. N - 1 /\ base + n - 1 \in 0 .. N - 1
    <2>1. n \in Nat /\ n > 0 /\ base \in Int
        BY <1>1, <1>2, <1>11, <1>12
    <2>2. base + n - 1 \in base .. base + n - 1
        BY <2>1
    <2> QED
        BY <1>2, <2>2
<1>14. q \in RunPages(k * PAGE, Loads[i]) /\ k \in 0 .. SpacePages - 1
    BY <1>1, <1>7
<1>15. PICK s \in SegmentPages(Loads[i]), e \in {0, SpacePages} :
               /\ q \in Int /\ s \in 0 .. SpacePages - 1
               /\ q = s + k - e
               /\ Wrap(q * PAGE - k * PAGE) = s * PAGE
               /\ s * PAGE \in ALIGN_DOWN(Loads[i].vaddr) .. Loads[i].vaddr + Loads[i].memsz - 1
    BY <1>14, RunHome
<1>16. PICK v \in Nat, m \in Nat : Loads[i].vaddr = v /\ Loads[i].memsz = m
    BY LoadNumbers
<1>17. lo <= v /\ v + m <= hi
    BY <1>3, <1>16, LoadBoundsHold
<1>18. l * PAGE <= s * PAGE /\ s * PAGE < h * PAGE
    <2>1. ALIGN_DOWN(lo) <= ALIGN_DOWN(v) /\ ALIGN_DOWN(v) \in Int
        <3>1. lo \in Int /\ v \in Int
            BY <1>2
        <3> QED
            BY <1>17, <3>1, Monotone, Aligned
    <2>2. s * PAGE \in ALIGN_DOWN(v) .. v + m - 1
        BY <1>15, <1>16, Zenon
    <2>3. s * PAGE <= hi - 1
        BY <1>16, <1>17, <2>1, <2>2
    <2>4. l * PAGE <= ALIGN_DOWN(v)
        BY <1>5, <2>1, Zenon
    <2> QED
        BY <1>9, <1>10, <2>1, <2>2, <2>3, <2>4
<1>19. l <= s /\ s < h
    <2>1. s \in Int /\ l \in Int /\ h \in Int
        BY <1>1, <1>15
    <2>2. s < h
        BY <1>18, <2>1, PagesOrdered
    <2>3. s * PAGE \in Int
        BY <2>1, PagesOrdered
    <2>4. ~(s * PAGE < l * PAGE)
        BY <1>9, <1>18, <2>3
    <2>5. ~(s < l)
        BY <2>1, <2>4, PagesOrdered
    <2> QED
        BY <2>1, <2>2, <2>5
<1>20. q = base + (s - l) + f - e
    <2>1. s \in Int /\ l \in Int /\ base \in Int /\ f \in Int /\ e \in Int
        BY <1>1, <1>2, <1>5, <1>15
    <2>2. q = s + k - e
        BY <1>15, Zenon
    <2> QED
        BY <1>6, <2>1, <2>2
<1>21. e \in {0, N} /\ q \in 0 .. N - 1 /\ s \in Int
    <2>1. e \in {0, N}
        BY <1>1
    <2>2. q \in 0 .. N - 1
        BY <1>2
    <2>3. s \in Int
        <3>1. s \in 0 .. SpacePages - 1
            BY <1>15, Zenon
        <3> QED
            BY <1>1, <3>1
    <2> QED
        BY <2>1, <2>2, <2>3
<1>22. f \in {0, N} /\ l \in Int /\ h \in Int /\ base \in Int
    BY <1>1, <1>2, <1>5
<1>23. base + (s - l) \in base .. base + n - 1
    BY <1>12, <1>19, <1>21, <1>22
<1>24. base + (s - l) \in 0 .. N - 1
    BY <1>1, <1>13, <1>23
<1>25. e = f
    BY <1>1, <1>20, <1>21, <1>22, <1>24
<1> QED
    BY <1>20, <1>21, <1>22, <1>23, <1>25

\* The cells of a segment do not wrap once its pages are there.
LEMMA RunCells ==
    ASSUME NEW c \in 0 .. SPACE + SPACE - 1, NEW at \in Nat, at = Wrap(c),
           NEW n \in Nat, PagesOf(at, n) \subseteq UserPages, NEW k \in 0 .. n - 1
    PROVE  /\ at + k \in 0 .. SPACE - 1
           /\ Wrap(c + k) = at + k
           /\ (at + k) \div PAGE \in PagesOf(at, n)
<1>1. PICK N \in Nat \ {0} : SPACE = N * PAGE /\ UserPages \subseteq 0 .. N - 1
    BY WholePages, AddressesAssumption DEF SpacePages
<1>2. PAGE \in Nat \ {0} /\ SPACE \in Nat \ {0} /\ c \in Int /\ n \in Int /\ k \in Int
    BY AddressesAssumption
<1>3. at \in 0 .. SPACE - 1
    BY <1>2, WrapOf
<1>4. PICK a \in Int : a = at + k /\ at \in Int /\ at <= a /\ a < at + n
    BY <1>2, <1>3
<1>5. PICK q \in Int, r \in 0 .. PAGE - 1 :
               /\ a = q * PAGE + r /\ a \div PAGE = q /\ a % PAGE = r
               /\ ALIGN_DOWN(a) = q * PAGE /\ q * PAGE \in Int
    BY Pages
<1>6. q \in PagesOf(at, n)
    <2>1. ALIGN_DOWN(at) <= q * PAGE
        BY <1>4, <1>5, Monotone
    <2>2. at + n + PAGE - 1 \in Int /\ at + n + PAGE - 1 < ALIGN_UP(at + n) + PAGE /\ ALIGN_UP(at + n) \in Int
        <3>1. at + n + PAGE - 1 \in Int
            BY <1>2, <1>4
        <3> QED
            BY <3>1, Aligned DEF ALIGN_UP
    <2>3. q * PAGE < ALIGN_UP(at + n)
        BY <1>2, <1>4, <1>5, <2>2
    <2>4. n \in Nat
        OBVIOUS
    <2> QED
        BY <1>4, <2>1, <2>3, <2>4, PagesOfCells
<1>7. q \in 0 .. N - 1
    BY <1>1, <1>6
<1>8. a \in 0 .. SPACE - 1
    <2>1. (q + 1) * PAGE = q * PAGE + PAGE /\ q + 1 \in Int /\ ~(N < q + 1)
        BY <1>1, <1>5, <1>7, PagesOrdered
    <2>2. ~(N * PAGE < (q + 1) * PAGE) /\ N * PAGE \in Int
        BY <1>1, <2>1, PagesOrdered
    <2> QED
        BY <1>1, <1>2, <1>3, <1>4, <1>5, <2>1, <2>2
<1>9. Wrap(c + k) = a
    <2>1. CASE c \in 0 .. SPACE - 1
        <3>1. at = c
            BY <1>2, <2>1, WrapOf
        <3>2. c + k = a
            BY <1>4, <3>1
        <3>3. Wrap(a) = a
            BY <1>8, WrapOf
        <3> QED
            BY <3>2, <3>3, Zenon
    <2>2. CASE c \in SPACE .. SPACE + SPACE - 1
        <3>1. at = c - SPACE
            BY <1>2, <2>2, WrapOf
        <3>2. c + k = a + SPACE
            BY <1>2, <1>4, <3>1
        <3>3. Wrap(a + SPACE) = a
            <4>1. PICK d \in Int : d = a + SPACE
                BY <1>2
            <4>2. d \in SPACE .. SPACE + SPACE - 1 /\ d - SPACE = a
                BY <1>2, <1>8, <4>1
            <4>3. Wrap(d) = d - SPACE
                BY <4>2, WrapOf
            <4> QED
                BY <4>1, <4>2, <4>3, Zenon
        <3> QED
            BY <3>2, <3>3, Zenon
    <2> QED
        BY <1>2, <2>1, <2>2
<1>10. /\ at + k \in 0 .. SPACE - 1
       /\ Wrap(c + k) = at + k
       /\ (at + k) \div PAGE = q
    BY <1>4, <1>5, <1>8, <1>9, Zenon
<1> QED
    BY <1>6, <1>10

\* What map_segment writes, by the distance from where the segment begins.
LEMMA CellAt ==
    ASSUME NEW p, NEW at \in Int, at = Wrap(bias + p.vaddr), NEW k \in Int
    PROVE  SegmentCell(p, at + k) = IF k \in 0 .. p.filesz - 1 THEN Byte(Elf, p.offset + k) ELSE Zero
<1>1. PICK d : d = at + k - Wrap(bias + p.vaddr)
    OBVIOUS
<1>2. SegmentCell(p, at + k) = IF d \in 0 .. p.filesz - 1 THEN Byte(Elf, p.offset + d) ELSE Zero
    BY <1>1 DEF SegmentCell
<1>3. d = at + k - at
    BY <1>1, Zenon
<1>4. d = k
    BY <1>3
<1> QED
    BY <1>2, <1>4, Zenon

\* What a segment has left in memory, cell by cell.
LEMMA SegmentContent ==
    ASSUME FileInv, handle # 0, bias \in 0 .. SPACE - 1, NEW i \in 1 .. Len(Loads),
           RunPages(bias, Loads[i]) \subseteq UserPages,
           \A q \in RunPages(bias, Loads[i]) : mem[q] = SegmentPage(Loads[i], q),
           NEW k \in 0 .. Loads[i].memsz - 1
    PROVE  /\ Wrap(bias + Loads[i].vaddr) \in Nat
           /\ Wrap(bias + Loads[i].vaddr) + k \in 0 .. SPACE - 1
           /\ Wrap(bias + Loads[i].vaddr + k) = Wrap(bias + Loads[i].vaddr) + k
           /\ mem[(Wrap(bias + Loads[i].vaddr) + k) \div PAGE].prot = Loads[i].prot
           /\ Cell(Wrap(bias + Loads[i].vaddr) + k) =
                 IF k < Loads[i].filesz THEN Byte(Elf, Loads[i].offset + k) ELSE Zero
<1>1. PICK v \in Nat, n \in Nat :
               /\ Loads[i].vaddr = v /\ Loads[i].memsz = n
               /\ v + n + PAGE <= SPACE
               /\ \A b : RunPages(b, Loads[i]) = PagesOf(Wrap(b + v), n)
    BY LoadNumbers
<1>a. PICK at : at = Wrap(bias + v)
    OBVIOUS
<1>b. RunPages(bias, Loads[i]) = PagesOf(at, n)
    BY <1>1, <1>a, Zenon
<1>2. /\ at = Wrap(bias + v) /\ PagesOf(at, n) \subseteq UserPages /\ k \in 0 .. n - 1
      /\ \A q \in PagesOf(at, n) : mem[q] = SegmentPage(Loads[i], q)
    BY <1>1, <1>a, <1>b, Zenon
<1>c. at \in Nat
    <2>1. bias + v \in Int
        BY AddressesAssumption
    <2> QED
        BY <1>2, <2>1, WrapOf, AddressesAssumption
<1>3. /\ at + k \in 0 .. SPACE - 1
      /\ Wrap(bias + v + k) = at + k
      /\ (at + k) \div PAGE \in PagesOf(at, n)
    <2>1. PICK c \in 0 .. SPACE + SPACE - 1 : c = bias + v
        BY <1>1, AddressesAssumption
    <2>2. at = Wrap(c) /\ PagesOf(at, n) \subseteq UserPages /\ k \in 0 .. n - 1
        BY <1>2, <2>1, Zenon
    <2>3. /\ at + k \in 0 .. SPACE - 1
          /\ Wrap(c + k) = at + k
          /\ (at + k) \div PAGE \in PagesOf(at, n)
        BY <1>c, <2>2, RunCells
    <2>4. c + k = bias + v + k
        BY <1>2, <2>1
    <2> QED
        BY <2>3, <2>4, Zenon
<1>4. PICK q \in Int, r \in 0 .. PAGE - 1 :
        at + k = q * PAGE + r /\ (at + k) \div PAGE = q /\ (at + k) % PAGE = r
    <2>1. at + k \in Int
        BY <1>2, <1>c
    <2> QED
        BY <2>1, Pages
<1>5. q \in PagesOf(at, n) /\ mem[q] = SegmentPage(Loads[i], q)
    BY <1>2, <1>3, <1>4, Zenon
<1>6. mem[q].prot = Loads[i].prot /\ mem[q].cells[r] = SegmentCell(Loads[i], q * PAGE + r)
    BY <1>4, <1>5 DEF SegmentPage
<1>7. Cell(at + k) = SegmentCell(Loads[i], at + k) /\ mem[(at + k) \div PAGE].prot = Loads[i].prot
    BY <1>4, <1>6, Zenon DEF Cell
<1>9. SegmentCell(Loads[i], at + k) =
         IF k \in 0 .. Loads[i].filesz - 1 THEN Byte(Elf, Loads[i].offset + k) ELSE Zero
    <2>1. PICK p : p = Loads[i]
        OBVIOUS
    <2>2. at = Wrap(bias + p.vaddr)
        BY <1>1, <1>2, <2>1, Zenon
    <2>3. at \in Int /\ k \in Int
        BY <1>2, <1>c
    <2>4. SegmentCell(p, at + k) = IF k \in 0 .. p.filesz - 1 THEN Byte(Elf, p.offset + k) ELSE Zero
        BY <2>2, <2>3, CellAt
    <2> QED
        BY <2>1, <2>4, Zenon
<1>10. k \in 0 .. Loads[i].filesz - 1 <=> k < Loads[i].filesz
    <2>1. Loads[i].filesz \in Nat
        BY LoadShape DEF Linkable
    <2> QED
        BY <1>2, <2>1
<1> QED
    BY <1>1, <1>2, <1>c, <1>3, <1>7, <1>9, <1>10, Zenon

\* What MapSegment maps is the page of the program that is open.
LEMMA PageHere ==
    ASSUME NEW p, NEW q
    PROVE  SegmentPage(p, q) = PageOf(Elf, bias, p, q)
<1>1. \A a : SegmentCell(p, a) = CellOf(Elf, bias, p, a)
    BY DEF SegmentCell, CellOf
<1> QED
    BY <1>1, Zenon DEF SegmentPage, PageOf

\* A cell of the original's table, behind its header.
LEMMA TableByte ==
    ASSUME NEW e, NEW pos, ~(pos < EHDR_SIZE), InTable(e.phoff, Len(e.phdrs), pos)
    PROVE  Byte(e, pos) = TableCell(1, pos - e.phoff)
BY Zenon DEF Byte

\* A range that lies within another one.
LEMMA RangeWithin ==
    ASSUME NEW a \in Nat, NEW n \in Nat \ {0}, NEW b \in Nat, NEW m \in Nat,
           a .. a + n - 1 \subseteq b .. b + m - 1
    PROVE  b <= a /\ a + n <= b + m
<1>1. a \in a .. a + n - 1 /\ a + n - 1 \in a .. a + n - 1
    OBVIOUS
<1>2. a \in b .. b + m - 1 /\ a + n - 1 \in b .. b + m - 1
    BY <1>1
<1> QED
    BY <1>2

\* AT_PHDR leads to the program header table, when a segment that holds its first
\* cell holds all of it.
LEMMA TableContent ==
    ASSUME FileInv, handle # 0, bias \in 0 .. SPACE - 1, NEW i \in 1 .. Len(Loads),
           RunPages(bias, Loads[i]) \subseteq UserPages,
           \A q \in RunPages(bias, Loads[i]) : mem[q] = SegmentPage(Loads[i], q),
           HoldsTable(Loads[i]),
           phdr = Wrap(Wrap(bias + Loads[i].vaddr) + Elf.phoff - Loads[i].offset),
           NEW k \in 0 .. PHNUM * PHDR_SIZE - 1
    PROVE  Cell(phdr + k) = TableCell(1, k)
<1>1. PICK size \in Nat \ {0} : size = PHNUM * PHDR_SIZE
    <2>1. PHNUM \in Nat \ {0} /\ PHDR_SIZE \in Nat \ {0}
        BY ElfShape, SizesAssumption DEF WellFormed, PHNUM
    <2> QED
        BY <2>1
<1>2. Elf.phoff \in Nat /\ Elf.phoff >= EHDR_SIZE /\ EHDR_SIZE \in Nat
    BY ElfShape, SizesAssumption DEF WellFormed
<1>3. PICK offset \in Nat, filesz \in Nat, n \in Nat :
        Loads[i].offset = offset /\ Loads[i].filesz = filesz /\ Loads[i].memsz = n /\ filesz <= n
    BY LoadShape DEF Linkable
<1>4. PICK phoff \in Nat : phoff = Elf.phoff
    BY <1>2
<1>5. phoff .. phoff + size - 1 \subseteq offset .. offset + filesz - 1
    BY <1>1, <1>3, <1>4, Zenon DEF HoldsTable, SegmentRange
<1>6. offset <= phoff /\ phoff + size <= offset + filesz
    BY <1>5, RangeWithin
<1>7. PICK d \in Nat : d = phoff - offset
    BY <1>3, <1>4, <1>6
<1>8. k \in 0 .. size - 1
    BY <1>1
<1>9. d \in 0 .. n - 1 /\ d + k \in 0 .. n - 1 /\ d + k < filesz /\ offset + (d + k) = phoff + k
    <2>1. filesz <= n
        BY <1>3
    <2>2. size >= 1
        BY <1>1
    <2>3. d + size <= filesz /\ d + offset = phoff
        BY <1>6, <1>7
    <2>4. k \in Int /\ 0 <= k /\ k < size
        BY <1>8
    <2> QED
        BY <2>1, <2>2, <2>3, <2>4
<1>10. PICK at : at = Wrap(bias + Loads[i].vaddr)
    OBVIOUS
<1>11. at \in Nat /\ at + d \in 0 .. SPACE - 1
    <2>1. d \in 0 .. Loads[i].memsz - 1
        BY <1>3, <1>9
    <2>2. /\ Wrap(bias + Loads[i].vaddr) \in Nat
          /\ Wrap(bias + Loads[i].vaddr) + d \in 0 .. SPACE - 1
        BY <2>1, SegmentContent
    <2> QED
        BY <1>10, <2>2
<1>12. phdr = at + d
    <2>1. at + phoff - offset = at + d /\ at + d \in Int
        BY <1>3, <1>4, <1>7, <1>11
    <2>2. phdr = Wrap(at + phoff - offset)
        BY <1>3, <1>4, <1>10, Zenon
    <2>3. Wrap(at + d) = at + d
        BY <1>11, <2>1, WrapOf
    <2> QED
        BY <2>1, <2>2, <2>3, Zenon
<1>13. Cell(at + (d + k)) = Byte(Elf, phoff + k)
    <2>1. d + k \in 0 .. Loads[i].memsz - 1 /\ d + k < Loads[i].filesz
        BY <1>3, <1>9
    <2>2. PICK m \in 0 .. Loads[i].memsz - 1 : m = d + k /\ m < Loads[i].filesz
        BY <2>1
    <2>3. Cell(Wrap(bias + Loads[i].vaddr) + m) = Byte(Elf, Loads[i].offset + m)
        <3>1. Cell(Wrap(bias + Loads[i].vaddr) + m) =
                 IF m < Loads[i].filesz THEN Byte(Elf, Loads[i].offset + m) ELSE Zero
            BY SegmentContent
        <3> QED
            BY <2>2, <3>1
    <2>4. Loads[i].offset + m = phoff + k
        BY <1>3, <1>9, <2>2
    <2> QED
        BY <1>10, <2>2, <2>3, <2>4, Zenon
<1>14. phdr + k = at + (d + k)
    BY <1>8, <1>11, <1>12
<1>15. Byte(Elf, phoff + k) = TableCell(1, k)
    <2>1. PICK pos : pos = phoff + k
        OBVIOUS
    <2>2. ~(pos < EHDR_SIZE) /\ pos - phoff = k /\ pos \in phoff .. phoff + size - 1
        <3>1. EHDR_SIZE \in Nat /\ EHDR_SIZE <= phoff
            BY <1>2, <1>4
        <3>2. k \in Nat /\ k <= size - 1
            BY <1>8
        <3> QED
            BY <2>1, <3>1, <3>2
    <2>3. InTable(Elf.phoff, Len(Elf.phdrs), pos)
        BY <1>1, <1>4, <2>2, Zenon DEF InTable, PHNUM
    <2>4. Byte(Elf, pos) = TableCell(1, pos - Elf.phoff)
        <3>1. ~(pos < EHDR_SIZE)
            BY <2>2
        <3> QED
            BY <2>3, <3>1, TableByte
    <2>5. pos - Elf.phoff = k
        BY <1>4, <2>2, Zenon
    <2> QED
        BY <2>1, <2>4, <2>5, Zenon
<1> QED
    BY <1>13, <1>14, <1>15, Zenon

\* What is entered is the program, if the invariant holds.
LEMMA EnteredRuns ==
    ASSUME ProgramInv, NativeMapInv
    PROVE  NativeRunsAsOriginal
<1> SUFFICES ASSUME Entered, AllMapped, ~SharePages
             PROVE  /\ \A i \in 1 .. Len(Loads) : \A k \in 0 .. Loads[i].memsz - 1 :
                          LET a == Wrap(bias + Loads[i].vaddr + k)
                          IN /\ mem[a \div PAGE].prot = Loads[i].prot
                             /\ Cell(a) = IF k < Loads[i].filesz
                                          THEN Byte(Elf, Loads[i].offset + k) ELSE Zero
                    /\ LET first == {i \in 1 .. Len(Loads) : Elf.phoff \in SegmentRange(Loads[i])}
                       IN first # {} /\ (\A i \in first : HoldsTable(Loads[i]))
                             => \A k \in 0 .. PHNUM * PHDR_SIZE - 1 : Cell(phdr + k) = TableCell(1, k)
    BY Zenon DEF NativeRunsAsOriginal
<1>1. FileInv /\ handle # 0 /\ mode = "native" /\ rpc \in {"map"} \cup MappedPlaces
    BY DEF ProgramInv, FileInv, MemfdInv, MemfdPlaces, Entered, MappedPlaces
<1>2. bias \in 0 .. SPACE - 1 /\ next \in Nat \ {0} /\ Len(Loads) \in Nat
    BY <1>1, LoadShape DEF NativeMapInv, ExecTypes
<1>3. 1 .. next - 1 = 1 .. Len(Loads)
    <2>1. next > Len(Loads) /\ (next = 1 \/ next <= Len(Loads) + 1)
        BY <1>1 DEF NativeMapInv, ExecTypes, AllMapped
    <2> QED
        BY <1>2, <2>1
<1>4. \A i \in 1 .. Len(Loads) :
         /\ RunPages(bias, Loads[i]) \subseteq UserPages
         /\ \A q \in RunPages(bias, Loads[i]) : mem[q] = SegmentPage(Loads[i], q)
    <2>1. \A i \in 1 .. Len(Loads) :
             /\ RunPages(bias, Loads[i]) \subseteq UserPages
             /\ \A q \in RunPages(bias, Loads[i]) : mem[q] = PageOf(Elf, bias, Loads[i], q)
        BY <1>1, <1>3 DEF NativeMapInv, SegmentsInv
    <2>2. \A p, q : PageOf(Elf, bias, p, q) = SegmentPage(p, q)
        BY PageHere
    <2> QED
        BY <2>1, <2>2
<1>5. ASSUME NEW i \in 1 .. Len(Loads), NEW k \in 0 .. Loads[i].memsz - 1
      PROVE  LET a == Wrap(bias + Loads[i].vaddr + k)
             IN /\ mem[a \div PAGE].prot = Loads[i].prot
                /\ Cell(a) = IF k < Loads[i].filesz
                             THEN Byte(Elf, Loads[i].offset + k) ELSE Zero
    <2>1. /\ RunPages(bias, Loads[i]) \subseteq UserPages
          /\ \A q \in RunPages(bias, Loads[i]) : mem[q] = SegmentPage(Loads[i], q)
        BY <1>4
    <2>2. /\ Wrap(bias + Loads[i].vaddr + k) = Wrap(bias + Loads[i].vaddr) + k
          /\ mem[(Wrap(bias + Loads[i].vaddr) + k) \div PAGE].prot = Loads[i].prot
          /\ Cell(Wrap(bias + Loads[i].vaddr) + k) =
                IF k < Loads[i].filesz THEN Byte(Elf, Loads[i].offset + k) ELSE Zero
        BY <1>1, <1>2, <2>1, SegmentContent
    <2> QED
        BY <2>2, Zenon
<1>6. ASSUME NEW j \in 1 .. Len(Loads), Elf.phoff \in SegmentRange(Loads[j]),
             \A i \in 1 .. Len(Loads) : Elf.phoff \in SegmentRange(Loads[i]) => HoldsTable(Loads[i]),
             NEW k \in 0 .. PHNUM * PHDR_SIZE - 1
      PROVE  Cell(phdr + k) = TableCell(1, k)
    <2>1. \E i \in 1 .. next - 1 : HoldsStart(i)
        BY <1>3, <1>6 DEF HoldsStart
    <2>2. PICK i \in 1 .. next - 1 :
                 /\ HoldsStart(i)
                 /\ phdr = Wrap(Wrap(bias + Loads[i].vaddr) + Elf.phoff - Loads[i].offset)
        BY <1>1, <2>1 DEF NativeMapInv, TableInv
    <2>3. i \in 1 .. Len(Loads) /\ HoldsTable(Loads[i])
        BY <1>3, <1>6, <2>2 DEF HoldsStart
    <2>4. /\ RunPages(bias, Loads[i]) \subseteq UserPages
          /\ \A q \in RunPages(bias, Loads[i]) : mem[q] = SegmentPage(Loads[i], q)
        BY <1>4, <2>3
    <2> QED
        BY <1>1, <1>2, <2>2, <2>3, <2>4, TableContent
<1> QED
    BY <1>5, <1>6

-----------------------------------------------------------------------------
\* The program that runs is the same after a step of a writer.
LEMMA KeptElf ==
    ASSUME FileInv, handle # 0, handle' = handle, Kept
    PROVE  Elf' = Elf /\ (Filled => Filled')
<1>1. handle \in 1 .. Len(gens)
    BY DEF FileInv
<1> QED
    BY <1>1 DEF Kept, Elf, Filled

\* So are its segments, and all that follows from them.
LEMMA SameProgram ==
    ASSUME Elf' = Elf
    PROVE  /\ PHNUM' = PHNUM /\ Loads' = Loads /\ LoadBounds' = LoadBounds
           /\ OverHost' = OverHost /\ SharePages' = SharePages
           /\ \A i : HoldsStart(i)' = HoldsStart(i)
<1>1. PHNUM' = PHNUM /\ Loads' = Loads
    BY DEF PHNUM, Loads
<1>2. LoadBounds' = LoadBounds
    BY <1>1 DEF LoadBounds
<1>3. OverHost' = OverHost
    BY <1>1 DEF OverHost
<1>4. SharePages' = SharePages
    BY <1>1 DEF SharePages
<1>5. \A i : HoldsStart(i)' = HoldsStart(i)
    BY <1>1 DEF HoldsStart
<1> QED
    BY <1>1, <1>2, <1>3, <1>4, <1>5

\* A step that maps nothing, without bounds.
LEMMA UnboundStep ==
    ASSUME BoundsInv, bounds = NoBounds, UNCHANGED nativeVars, mode' = mode,
           mode = "memfd" \/ rpc' \notin {"map"} \cup MappedPlaces,
           mode = "memfd" \/ (rpc' \in UnmappedPlaces => rpc \in UnmappedPlaces),
           mode \in {"memfd", "native"}
    PROVE  BoundsInv' /\ RoomInv' /\ SegmentsInv' /\ TableInv'
<1>1. UNCHANGED <<bounds, bias, mem, phdr>>
    BY DEF nativeVars
<1>2. NoBounds' = NoBounds
    BY DEF NoBounds
<1>3. BoundsInv'
    BY <1>1, <1>2 DEF BoundsInv, Anonymous, Blank, Zero
<1>4. RoomInv'
    BY <1>1, <1>2 DEF RoomInv
<1>5. SegmentsInv' /\ TableInv'
    BY DEF SegmentsInv, TableInv
<1> QED
    BY <1>3, <1>4, <1>5

\* A step that maps nothing, while a program is being mapped or runs.
LEMMA QuietStep ==
    ASSUME BoundsInv, RoomInv, SegmentsInv, TableInv, UNCHANGED nativeVars,
           handle # 0, handle' = handle, Elf' = Elf, mode' = mode, mode = "native", next' = next,
           rpc' \in UnmappedPlaces => rpc \in UnmappedPlaces,
           rpc' \in UnmappedPlaces \ {"reserve"} => rpc \in UnmappedPlaces \ {"reserve"},
           rpc' \in {"loads", "map"} => rpc \in {"loads", "map"},
           rpc' \in {"map"} \cup MappedPlaces => rpc \in {"map"} \cup MappedPlaces \/ next = 1
    PROVE  BoundsInv' /\ RoomInv' /\ SegmentsInv' /\ TableInv'
<1>1. UNCHANGED <<bounds, bias, mem, phdr>>
    BY DEF nativeVars
<1>2. /\ Loads' = Loads /\ LoadBounds' = LoadBounds
      /\ OverHost' = OverHost /\ SharePages' = SharePages
      /\ \A i : HoldsStart(i)' = HoldsStart(i)
    BY SameProgram
<1>3. NoBounds' = NoBounds
    BY DEF NoBounds
<1>4. BoundsInv'
    <2>1. bounds' = NoBounds' \/ (handle' # 0 /\ bounds' = LoadBounds')
        BY <1>1, <1>2, <1>3 DEF BoundsInv
    <2> QED
        BY <1>1, <1>3, <2>1 DEF BoundsInv, Anonymous, Blank, Zero
<1>5. RoomInv'
    BY <1>1, <1>2, <1>3 DEF RoomInv
<1>6. next = 1 => 1 .. next - 1 = {}
    OBVIOUS
<1>7. SegmentsInv'
    BY <1>1, <1>2, <1>6 DEF SegmentsInv
<1>8. TableInv'
    BY <1>1, <1>2, <1>6 DEF TableInv
<1> QED
    BY <1>4, <1>5, <1>7, <1>8

\* The writers leave self-exec alone.
LEMMA WritersMap ==
    ASSUME ProgramInv, ProgramInv', NativeMapInv, Writers, UNCHANGED <<imageVars, nativeVars>>
    PROVE  NativeMapInv'
<1>1. FileInv /\ FileInv' /\ Kept /\ UNCHANGED procVars
    BY WritersKeep DEF ProgramInv
<1>2. /\ UNCHANGED <<mode, rpc, handle, keys, next, missed, found, rows, image>>
      /\ UNCHANGED <<bounds, bias, mem, phdr, ld, stack>>
    BY <1>1 DEF procVars, imageVars, nativeVars
<1>3. other' \in 0 .. Len(gens')
    <2>1. other' = other \/ other' = path \/ other' = 0
        BY DEF Writers, RemoveOutput, CreateSchema, SetApplicationId, BeginCommit, Commit,
               BeginVacuum, EndVacuum, ConverterDies, OtherBegins, OtherEnds
    <2>2. other \in 0 .. Len(gens) /\ path \in 0 .. Len(gens) /\ Len(gens) \in Nat /\ Len(gens') \in Nat
        BY <1>1 DEF NativeMapInv, ExecTypes, FileInv
    <2>3. \A g \in 1 .. Len(gens) : g \in 1 .. Len(gens')
        BY <1>1 DEF Kept
    <2>4. other' \in 0 .. Len(gens)
        BY <2>1, <2>2
    <2>5. other' = 0 \/ other' \in 1 .. Len(gens)
        BY <2>2, <2>4
    <2> QED
        BY <2>2, <2>3, <2>5
<1>4. CASE handle = 0
    <2>1. rpc \in {"start", "null"} /\ mode \in {"memfd", "native"}
        BY <1>1, <1>4 DEF FileInv
    <2>2. bounds = NoBounds
        BY <1>4 DEF NativeMapInv, BoundsInv
    <2>3. BoundsInv' /\ RoomInv' /\ SegmentsInv' /\ TableInv'
        BY <1>2, <2>1, <2>2, UnboundStep DEF NativeMapInv, MappedPlaces
    <2>4. ExecTypes'
        BY <1>2, <1>3, <1>4 DEF NativeMapInv, ExecTypes
    <2>5. WholeInv'
        BY <1>2, <2>1 DEF NativeMapInv, WholeInv, BoundPlaces, MappedPlaces, UnmappedPlaces
    <2> QED
        BY <2>3, <2>4, <2>5 DEF NativeMapInv
<1>5. CASE handle # 0
    <2>1. Elf' = Elf /\ (Filled => Filled')
        BY <1>1, <1>2, <1>5, KeptElf
    <2>2. PHNUM' = PHNUM /\ Loads' = Loads /\ LoadBounds' = LoadBounds
        BY <2>1, SameProgram
    <2>3. BoundsInv' /\ RoomInv' /\ SegmentsInv' /\ TableInv'
        <3>1. CASE mode = "memfd"
            <4>1. bounds = NoBounds
                BY <3>1 DEF NativeMapInv, BoundsInv
            <4> QED
                BY <1>2, <3>1, <4>1, UnboundStep DEF NativeMapInv
        <3>2. CASE mode = "native"
            BY <1>2, <1>5, <2>1, <3>2, QuietStep DEF NativeMapInv
        <3> QED
            BY <1>1, <3>1, <3>2 DEF FileInv
    <2>4. ExecTypes'
        BY <1>2, <1>3, <1>5, <2>2 DEF NativeMapInv, ExecTypes
    <2>5. WholeInv'
        <3>1. mode = "memfd" /\ rpc \in {"alloc", "build", "built"} => Filled
            BY DEF ProgramInv, MemfdInv
        <3>2. mode = "memfd" /\ rpc \in {"alloc", "build", "built"} => Segments' = Segments
            BY <2>1, <3>1 DEF Segments
        <3>3. mode = "memfd" /\ rpc \in {"alloc", "build", "built"} /\ Complete => Complete'
            BY <1>2, <3>2 DEF Complete
        <3> QED
            BY <1>2, <2>1, <2>2, <3>3 DEF NativeMapInv, WholeInv, AllMapped
    <2> QED
        BY <2>3, <2>4, <2>5 DEF NativeMapInv
<1> QED
    BY <1>4, <1>5

\* The file is opened before anything is read of it.
LEMMA StartMap ==
    ASSUME ProgramInv, ProgramInv', NativeMapInv, Start, UNCHANGED <<imageVars, nativeVars>>
    PROVE  NativeMapInv'
<1>1. /\ UNCHANGED <<conv, gens, path, other, mode, keys, next, missed, found, rows, image>>
      /\ UNCHANGED <<bounds, bias, mem, phdr, ld, stack>>
    BY DEF Start, OpenFile, CheckApplicationId, Goto, GiveUp, fileVars, imageVars, nativeVars
<1>2. FileInv /\ mode \in {"memfd", "native"}
    BY DEF ProgramInv, FileInv
<1>3. CASE OpenFile
    <2>1. rpc = "start" /\ handle = 0 /\ rpc' \in {"open", "null"}
        BY <1>3 DEF OpenFile, GiveUp, Goto, NativeMapInv, ExecTypes
    <2>2. bounds = NoBounds
        BY <2>1 DEF NativeMapInv, BoundsInv
    <2>3. BoundsInv' /\ RoomInv' /\ SegmentsInv' /\ TableInv'
        BY <1>1, <1>2, <2>1, <2>2, UnboundStep DEF NativeMapInv, MappedPlaces, UnmappedPlaces
    <2>4. ExecTypes'
        BY <1>1, <2>1 DEF NativeMapInv, ExecTypes
    <2>5. WholeInv'
        BY <1>1, <2>1 DEF NativeMapInv, WholeInv, BoundPlaces, MappedPlaces, UnmappedPlaces
    <2> QED
        BY <2>3, <2>4, <2>5 DEF NativeMapInv
<1>4. CASE CheckApplicationId
    <2>1. rpc = "open" /\ handle # 0 /\ handle' = handle /\ rpc' \in {"meta", "null"}
        BY <1>2, <1>4 DEF CheckApplicationId, GiveUp, Goto, FileInv
    <2>2. Elf' = Elf
        BY <1>1, <2>1 DEF Elf
    <2>3. BoundsInv' /\ RoomInv' /\ SegmentsInv' /\ TableInv'
        <3>1. CASE mode = "memfd"
            <4>1. bounds = NoBounds
                BY <3>1 DEF NativeMapInv, BoundsInv
            <4> QED
                BY <1>1, <3>1, <4>1, UnboundStep DEF NativeMapInv
        <3>2. CASE mode = "native"
            BY <1>1, <2>1, <2>2, <3>2, QuietStep DEF NativeMapInv, UnmappedPlaces, MappedPlaces
        <3> QED
            BY <1>2, <3>1, <3>2
    <2>4. PHNUM' = PHNUM /\ Loads' = Loads
        BY <2>2, SameProgram
    <2>5. ExecTypes'
        BY <1>1, <2>1, <2>4 DEF NativeMapInv, ExecTypes
    <2>6. WholeInv'
        BY <1>1, <2>1 DEF NativeMapInv, WholeInv, BoundPlaces, MappedPlaces, UnmappedPlaces
    <2> QED
        BY <2>3, <2>5, <2>6 DEF NativeMapInv
<1> QED
    BY <1>3, <1>4 DEF Start

\* The memfd mode maps nothing; it has taken all rows when none was refused.
LEMMA BuildMap ==
    ASSUME ProgramInv, ProgramInv', NativeMapInv, BuildImage, UNCHANGED nativeVars
    PROVE  NativeMapInv'
<1>1. /\ mode = "memfd" /\ mode' = "memfd" /\ handle' = handle
      /\ rpc \in {"meta", "query", "scan", "alloc", "build"} /\ rpc' # "start"
      /\ UNCHANGED <<conv, gens, path, other>>
      /\ UNCHANGED <<bounds, bias, mem, phdr, ld, stack>>
    BY DEF BuildImage, ReadKey, KeysRead, ScanBegins, ScanRow, ScanEnds, Allocate, PlaceRow, Return,
           InMemfdMode, Select, GiveUp, Goto, fileVars, procVars, nativeVars
<1>2. FileInv /\ handle # 0 /\ MemfdInv /\ MemfdInv'
    BY <1>1 DEF ProgramInv, FileInv
<1>3. Elf' = Elf /\ PHNUM' = PHNUM /\ Segments' = Segments
    BY <1>1 DEF Elf, PHNUM, Segments, Filled
<1>4. BoundsInv' /\ RoomInv' /\ SegmentsInv' /\ TableInv'
    <2>1. bounds = NoBounds
        BY <1>1 DEF NativeMapInv, BoundsInv
    <2> QED
        BY <1>1, <2>1, UnboundStep DEF NativeMapInv
<1>5. ExecTypes'
    <2>1. missed' \in BOOLEAN /\ found' \in BOOLEAN
        BY DEF BuildImage, ReadKey, KeysRead, ScanBegins, ScanRow, ScanEnds, Allocate, PlaceRow, Return,
               Select, GiveUp, Goto, imageVars, procVars, NativeMapInv, ExecTypes, KeyThere
    <2>2. keys' \in 0 .. META_KEYS
        <3>1. keys' = keys \/ (keys' = keys + 1 /\ keys < META_KEYS)
            BY DEF BuildImage, ReadKey, KeysRead, ScanBegins, ScanRow, ScanEnds, Allocate, PlaceRow, Return,
                   Select, GiveUp, Goto, procVars
        <3> QED
            BY <1>1, <3>1, KeysAssumption DEF NativeMapInv, ExecTypes
    <2>3. rows' = <<>> \/ (handle' # 0 /\ rows' \in Seq(Phdrs) /\ Len(rows') <= PHNUM')
        <3>1. CASE ScanRow
            <4>1. rpc' = "scan"
                BY <3>1 DEF ScanRow, InMemfdMode, procVars
            <4> QED
                BY <1>1, <1>2, <4>1 DEF MemfdInv, PHNUM
        <3>2. CASE ~ScanRow
            <4>1. rows' = rows
                BY <3>2 DEF BuildImage, ReadKey, KeysRead, ScanBegins, ScanEnds, Allocate, PlaceRow,
                            Return, imageVars
            <4> QED
                BY <1>1, <1>3, <4>1 DEF NativeMapInv, ExecTypes
        <3> QED
            BY <3>1, <3>2
    <2> QED
        BY <1>1, <2>1, <2>2, <2>3 DEF NativeMapInv, ExecTypes
<1>6. ~missed' /\ rpc' \in {"alloc", "build", "built"} => Complete'
    <2> SUFFICES ASSUME ~missed', rpc' \in {"alloc", "build", "built"}
                 PROVE  rows' = Segments
        BY <1>3 DEF Complete
    <2>1. CASE ScanEnds
        <3>1. /\ rpc = "scan" /\ rows' = rows /\ Len(rows) = Len(Segments)
            BY <2>1 DEF ScanEnds, InMemfdMode, imageVars
        <3>2. Filled /\ rows \in Seq(Phdrs) /\ \A k \in 1 .. Len(rows) : rows[k] = Elf.phdrs[k]
            BY <1>1, <1>2, <3>1 DEF MemfdInv
        <3>3. Segments = Elf.phdrs /\ Elf.phdrs \in Seq(Phdrs)
            BY <1>2, <3>2, ElfShape DEF Segments
        <3> QED
            BY <3>1, <3>2, <3>3, SameRows
    <2>2. CASE Allocate \/ PlaceRow \/ Return
        <3>1. rpc \in {"alloc", "build"} /\ rows' = rows /\ missed' = missed
            BY <2>2 DEF Allocate, PlaceRow, Return, InMemfdMode, Goto, imageVars
        <3> QED
            BY <1>1, <3>1 DEF NativeMapInv, WholeInv, Complete
    <2>3. CASE ReadKey \/ KeysRead \/ ScanBegins \/ ScanRow
        BY <2>3 DEF ReadKey, KeysRead, ScanBegins, ScanRow, InMemfdMode, Select, GiveUp, Goto, procVars
    <2> QED
        BY <2>1, <2>2, <2>3 DEF BuildImage
<1>7. WholeInv'
    BY <1>1, <1>6 DEF WholeInv
<1> QED
    BY <1>4, <1>5, <1>7 DEF NativeMapInv

\* Where self-exec gives up, it has mapped what it has mapped.
LEMMA GiveUpMap ==
    ASSUME ProgramInv, NativeMapInv, mode = "native", handle # 0,
           GiveUp, UNCHANGED <<fileVars, imageVars, nativeVars>>
    PROVE  NativeMapInv'
<1>1. /\ UNCHANGED <<conv, gens, path, other, mode, handle, keys, next, missed, found, rows, image>>
      /\ UNCHANGED <<bounds, bias, mem, phdr, ld, stack>>
      /\ rpc' = "null"
    BY DEF GiveUp, Goto, fileVars, imageVars, nativeVars
<1>2. Elf' = Elf
    BY <1>1 DEF Elf
<1>3. Loads' = Loads /\ PHNUM' = PHNUM
    BY <1>2, SameProgram
<1>4. BoundsInv' /\ RoomInv' /\ SegmentsInv' /\ TableInv'
    BY <1>1, <1>2, QuietStep DEF NativeMapInv, UnmappedPlaces, MappedPlaces
<1>5. ExecTypes'
    BY <1>1, <1>3 DEF NativeMapInv, ExecTypes
<1>6. WholeInv'
    BY <1>1 DEF WholeInv, BoundPlaces, MappedPlaces, UnmappedPlaces
<1> QED
    BY <1>4, <1>5, <1>6 DEF NativeMapInv

\* Reading the numbers, the two ends of the second pass and the name of the
\* interpreter.
LEMMA ReadingMap ==
    ASSUME ProgramInv, ProgramInv', NativeMapInv, UNCHANGED imageVars,
           ReadNumber \/ LoadsBegin \/ LoadsEnd \/ LookUpInterp
    PROVE  NativeMapInv'
<1>1. /\ UNCHANGED <<conv, gens, path, other, mode, handle, next, found, rows, image>>
      /\ UNCHANGED <<bounds, bias, mem, phdr, ld, stack>> /\ UNCHANGED nativeVars
      /\ mode = "native" /\ rpc \in {"meta", "tail", "loads", "map", "interp"}
    BY DEF ReadNumber, LoadsBegin, LoadsEnd, LookUpInterp, InNativeMode, GiveUp, Goto, Select,
           fileVars, imageVars, nativeVars
<1>2. FileInv /\ handle # 0 /\ NativeInv
    BY <1>1 DEF ProgramInv, FileInv
<1>3. Elf' = Elf
    BY <1>1 DEF Elf
<1>4. Loads' = Loads /\ PHNUM' = PHNUM /\ LoadBounds' = LoadBounds
    BY <1>3, SameProgram
<1>5. CASE ReadNumber
    <2>1. /\ keys' = keys \/ (keys' = keys + 1 /\ rpc \in {"meta", "tail"})
          /\ missed' = missed
          /\ \/ rpc' = rpc \/ rpc' = "null"
             \/ rpc = "meta" /\ rpc' \in {"bounds", "interp"}
             \/ rpc = "tail" /\ rpc' \in {"bounds", "interp"}
          /\ rpc \in {"meta", "tail"}
        BY <1>5 DEF ReadNumber, InNativeMode, GiveUp, Goto
    <2>2. /\ rpc = "meta" => rpc' \in {"meta", "bounds", "null"}
          /\ rpc = "tail" => rpc' \in {"tail", "interp", "null"}
          /\ keys' \in 0 .. 6
        <3>1. (rpc = "meta" => keys \in Nat /\ keys < 4) /\ (rpc = "tail" => keys \in 4 .. 5)
            BY <1>1, <1>2 DEF NativeInv
        <3> QED
            BY <1>1, <1>5, <3>1 DEF ReadNumber, InNativeMode, GiveUp, Goto
    <2>3. BoundsInv' /\ RoomInv' /\ SegmentsInv' /\ TableInv'
        BY <1>1, <1>2, <1>3, <2>1, <2>2, QuietStep DEF NativeMapInv, UnmappedPlaces, MappedPlaces
    <2>4. ExecTypes'
        <3>1. rpc' # "start"
            BY <2>1, <2>2
        <3> QED
            BY <1>1, <1>4, <2>1, <2>2, <3>1 DEF NativeMapInv, ExecTypes
    <2>5. WholeInv'
        BY <1>1, <1>4, <2>1, <2>2 DEF NativeMapInv, WholeInv, AllMapped, BoundPlaces, MappedPlaces,
                                      UnmappedPlaces
    <2> QED
        BY <2>3, <2>4, <2>5 DEF NativeMapInv
<1>6. CASE LoadsBegin
    <2>1. /\ rpc = "loads" /\ rpc' \in {"map", "tail"} /\ keys' = keys /\ missed' \in BOOLEAN
          /\ missed' = (missed \/ Refused(handle)) /\ (rpc' = "tail" => Refused(handle))
        BY <1>6 DEF LoadsBegin, InNativeMode, Select, NativeMapInv, ExecTypes
    <2>2. next = 1
        BY <1>1, <1>2, <2>1 DEF NativeInv
    <2>3. BoundsInv' /\ RoomInv' /\ SegmentsInv' /\ TableInv'
        BY <1>1, <1>2, <1>3, <2>1, <2>2, QuietStep DEF NativeMapInv, UnmappedPlaces, MappedPlaces
    <2>4. ExecTypes'
        BY <1>1, <1>4, <2>1 DEF NativeMapInv, ExecTypes
    <2>5. WholeInv'
        BY <1>1, <1>4, <2>1 DEF NativeMapInv, WholeInv, AllMapped, BoundPlaces, MappedPlaces,
                                UnmappedPlaces
    <2> QED
        BY <2>3, <2>4, <2>5 DEF NativeMapInv
<1>7. CASE LoadsEnd
    <2>1. rpc = "map" /\ rpc' = "tail" /\ keys' = keys /\ missed' = missed /\ AllMapped
        BY <1>7 DEF LoadsEnd, InNativeMode, Goto, AllMapped
    <2>2. BoundsInv' /\ RoomInv' /\ SegmentsInv' /\ TableInv'
        BY <1>1, <1>2, <1>3, <2>1, QuietStep DEF NativeMapInv, UnmappedPlaces, MappedPlaces
    <2>3. ExecTypes'
        BY <1>1, <1>4, <2>1 DEF NativeMapInv, ExecTypes
    <2>4. WholeInv'
        BY <1>1, <1>4, <2>1 DEF NativeMapInv, WholeInv, AllMapped, BoundPlaces, MappedPlaces,
                                UnmappedPlaces
    <2> QED
        BY <2>2, <2>3, <2>4 DEF NativeMapInv
<1>8. CASE LookUpInterp
    <2>1. /\ rpc = "interp" /\ rpc' \in {"ldso", "stack"} /\ keys' = keys /\ missed' \in BOOLEAN
          /\ rpc' = "ldso" => Elf.interp /\ missed' = missed
          /\ rpc' = "stack" => (~missed' => ~missed /\ ~Elf.interp)
        BY <1>8 DEF LookUpInterp, InNativeMode, Select, Goto, NativeMapInv, ExecTypes
    <2>2. BoundsInv' /\ RoomInv' /\ SegmentsInv' /\ TableInv'
        BY <1>1, <1>2, <1>3, <2>1, QuietStep DEF NativeMapInv, UnmappedPlaces, MappedPlaces
    <2>3. ExecTypes'
        BY <1>1, <1>4, <2>1 DEF NativeMapInv, ExecTypes
    <2>4. Elf.interp \in BOOLEAN /\ ld \in BOOLEAN
        BY <1>2, ElfShape DEF WellFormed, NativeMapInv, ExecTypes
    <2>5. WholeInv'
        BY <1>1, <1>3, <1>4, <2>1, <2>4 DEF NativeMapInv, WholeInv, AllMapped, BoundPlaces, MappedPlaces,
                                UnmappedPlaces
    <2> QED
        BY <2>2, <2>3, <2>5 DEF NativeMapInv
<1> QED
    BY <1>5, <1>6, <1>7, <1>8

\* After the first pass there are bounds, unless it was refused.
LEMMA BoundsMap ==
    ASSUME ProgramInv, ProgramInv', NativeMapInv, UNCHANGED imageVars, ReadBounds
    PROVE  NativeMapInv'
<1>1. /\ UNCHANGED <<conv, gens, path, other, mode, handle, keys, next, found, rows, image>>
      /\ UNCHANGED <<bias, mem, phdr, ld, stack>>
      /\ mode = "native" /\ rpc = "bounds" /\ rpc' = "reserve"
      /\ missed' = (missed \/ Refused(handle)) /\ missed' \in BOOLEAN
      /\ bounds' = IF Refused(handle) THEN NoBounds ELSE LoadBounds
    BY DEF ReadBounds, InNativeMode, Select, fileVars, imageVars, NativeMapInv, ExecTypes
<1>2. FileInv /\ handle # 0
    BY <1>1 DEF ProgramInv, FileInv
<1>3. Elf' = Elf
    BY <1>1 DEF Elf
<1>4. Loads' = Loads /\ PHNUM' = PHNUM /\ LoadBounds' = LoadBounds
    BY <1>3, SameProgram
<1>5. bias = 0 /\ mem = [q \in HostPages |-> Anonymous("host")]
    BY <1>1 DEF NativeMapInv, BoundsInv, UnmappedPlaces
<1>6. NoBounds' = NoBounds
    BY DEF NoBounds
<1>7. ExecTypes'
    BY <1>1, <1>4 DEF NativeMapInv, ExecTypes
<1>8. BoundsInv'
    <2>1. bounds' = NoBounds' \/ (handle' # 0 /\ bounds' = LoadBounds')
        BY <1>1, <1>2, <1>4, <1>6
    <2> QED
        BY <1>1, <1>5, <2>1 DEF BoundsInv, UnmappedPlaces, Anonymous, Blank, Zero
<1>9. WholeInv'
    BY <1>1, <1>4 DEF NativeMapInv, WholeInv, BoundPlaces, MappedPlaces, UnmappedPlaces
<1>10. RoomInv'
    <2>1. /\ \A q \in HostPages : mem'[q].owner = "host"
          /\ \A q \in DOMAIN mem' : mem'[q].owner = "host"
        BY <1>1, <1>5 DEF Anonymous
    <2>2. \A q \in DOMAIN mem' : mem'[q].owner # "exe"
        BY <2>1
    <2> QED
        BY <1>1, <2>1, <2>2 DEF RoomInv
<1>11. SegmentsInv' /\ TableInv'
    BY <1>1 DEF SegmentsInv, TableInv, MappedPlaces
<1> QED
    BY <1>7, <1>8, <1>9, <1>10, <1>11 DEF NativeMapInv

\* The room that is reserved holds every segment, and self-exec is outside of it.
LEMMA ReserveMap ==
    ASSUME ProgramInv, ProgramInv', NativeMapInv, UNCHANGED imageVars, ReserveSpan
    PROVE  NativeMapInv'
<1>1. /\ UNCHANGED <<conv, gens, path, other, mode, handle, keys, next, missed, found, rows, image>>
      /\ UNCHANGED <<bounds, phdr, ld, stack>>
      /\ mode = "native" /\ rpc = "reserve" /\ rpc' \in {"loads", "null"}
    BY DEF ReserveSpan, InNativeMode, GiveUp, Goto, fileVars, imageVars, nativeVars
<1>2. FileInv /\ handle # 0
    BY <1>1 DEF ProgramInv, FileInv
<1>3. Elf' = Elf
    BY <1>1 DEF Elf
<1>4. Loads' = Loads /\ PHNUM' = PHNUM /\ LoadBounds' = LoadBounds /\ OverHost' = OverHost
    BY <1>3, SameProgram
<1>5. bias = 0 /\ mem = [q \in HostPages |-> Anonymous("host")]
    BY <1>1 DEF NativeMapInv, BoundsInv, UnmappedPlaces
<1>6. NoBounds' = NoBounds
    BY DEF NoBounds
<1>7. bounds = NoBounds \/ bounds = LoadBounds
    BY DEF NativeMapInv, BoundsInv
<1>8. CASE GiveUp /\ UNCHANGED nativeVars
    BY <1>1, <1>2, <1>8, GiveUpMap DEF ReserveSpan
<1>9. ASSUME rpc' = "loads", bias' \in 0 .. SPACE - 1, bias' % PAGE = 0,
             HostPages \subseteq DOMAIN mem', DOMAIN mem' \subseteq UserPages,
             \A q \in HostPages : mem'[q].owner = "host",
             \A q \in DOMAIN mem' : mem'[q].owner # "exe",
             bounds # NoBounds /\ ~OverHost =>
                \A i \in 1 .. Len(Loads) : RunPages(bias', Loads[i]) \cap HostPages = {}
      PROVE  NativeMapInv'
    <2>1. ExecTypes'
        BY <1>1, <1>4, <1>9 DEF NativeMapInv, ExecTypes
    <2>2. BoundsInv'
        <3>1. bounds' = NoBounds' \/ (handle' # 0 /\ bounds' = LoadBounds')
            BY <1>1, <1>2, <1>4, <1>6, <1>7
        <3> QED
            BY <1>1, <1>9, <3>1 DEF BoundsInv, UnmappedPlaces
    <2>3. WholeInv'
        BY <1>1, <1>4, <1>9 DEF NativeMapInv, WholeInv, BoundPlaces, MappedPlaces, UnmappedPlaces
    <2>4. RoomInv'
        BY <1>1, <1>4, <1>6, <1>9 DEF RoomInv
    <2>5. SegmentsInv' /\ TableInv'
        BY <1>9 DEF SegmentsInv, TableInv, MappedPlaces
    <2> QED
        BY <2>1, <2>2, <2>3, <2>4, <2>5 DEF NativeMapInv
<1>10. CASE ~Elf.pie /\ Goto("loads") /\ UNCHANGED nativeVars
    <2>1. bias' = 0 /\ mem' = mem /\ rpc' = "loads"
        BY <1>5, <1>10 DEF nativeVars, Goto
    <2>2. 0 \in 0 .. SPACE - 1 /\ 0 % PAGE = 0
        BY AddressesAssumption
    <2>3. /\ HostPages = DOMAIN mem /\ HostPages \subseteq UserPages
          /\ \A q \in HostPages : mem[q].owner = "host"
        BY <1>5, AddressesAssumption DEF Anonymous
    <2>4. ASSUME ~OverHost, NEW i \in 1 .. Len(Loads)
          PROVE  RunPages(0, Loads[i]) \cap HostPages = {}
        <3>1. SegmentPages(Loads[i]) \cap HostPages = {}
            BY <1>10, <2>4 DEF OverHost
        <3>2. PICK v \in Nat, n \in Nat :
                 /\ Loads[i].vaddr = v /\ Loads[i].memsz = n
                 /\ v + n + PAGE <= SPACE
                 /\ SegmentPages(Loads[i]) = PagesOf(v, n)
                 /\ \A b : RunPages(b, Loads[i]) = PagesOf(Wrap(b + v), n)
            BY <1>2, LoadNumbers
        <3>3. v \in 0 .. SPACE - 1 /\ 0 + v = v
            BY <3>2, AddressesAssumption
        <3>4. Wrap(v) = v
            BY <3>3, WrapOf
        <3>5. RunPages(0, Loads[i]) = SegmentPages(Loads[i])
            BY <3>2, <3>3, <3>4, Zenon
        <3> QED
            BY <3>1, <3>5
    <2> QED
        BY <1>9, <2>1, <2>2, <2>3, <2>4
<1>11. ASSUME Elf.pie, NEW n, n = Span \div PAGE, n # 0, NEW base \in Holes(n),
              bias' = Wrap(base * PAGE - ALIGN_DOWN(bounds.lo)),
              mem' = Mapped(base .. base + n - 1, Anonymous("hole")),
              Goto("loads")
       PROVE  NativeMapInv'
    <2>1. base \in UserPages /\ base .. base + n - 1 \subseteq Free /\ Free \subseteq UserPages
        BY <1>11 DEF Holes, Free
    <2>2. rpc' = "loads"
        BY <1>11 DEF Goto
    <2>3. bias' \in 0 .. SPACE - 1 /\ bias' % PAGE = 0
        <3>1. bounds.lo \in 0 .. SPACE - 1
            BY <1>2, <1>7, LoadBoundsHold, AddressesAssumption DEF NoBounds
        <3>2. base \in 0 .. SpacePages - 1
            BY <2>1, AddressesAssumption DEF SpacePages
        <3>3. PICK l \in 0 .. SpacePages - 1, f \in {0, SpacePages} :
                 /\ ALIGN_DOWN(bounds.lo) = l * PAGE
                 /\ base - l + f \in 0 .. SpacePages - 1
                 /\ Wrap(base * PAGE - ALIGN_DOWN(bounds.lo)) = (base - l + f) * PAGE
            BY <3>1, <3>2, ReserveBias
        <3>4. PICK k \in 0 .. SpacePages - 1 : k = base - l + f
            BY <3>3
        <3>5. bias' = k * PAGE
            BY <1>11, <3>3, <3>4, Zenon
        <3>6. k * PAGE \in 0 .. SPACE - 1 /\ (k * PAGE) % PAGE = 0
            BY <3>4, PageStart
        <3> QED
            BY <3>5, <3>6, Zenon
    <2>4. /\ DOMAIN mem' = (base .. base + n - 1) \cup DOMAIN mem
          /\ \A q \in DOMAIN mem' : mem'[q] = IF q \in base .. base + n - 1 THEN Anonymous("hole") ELSE mem[q]
        <3> DEFINE room == base .. base + n - 1
        <3> HIDE DEF room
        <3>1. mem' = Mapped(room, Anonymous("hole"))
            BY <1>11 DEF room
        <3>2. /\ DOMAIN mem' = room \cup DOMAIN mem
              /\ \A q \in DOMAIN mem' : mem'[q] = IF q \in room THEN Anonymous("hole") ELSE mem[q]
            BY <3>1 DEF Mapped, MapFixed
        <3> QED
            BY <3>2 DEF room
    <2>5. DOMAIN mem = HostPages /\ HostPages \subseteq UserPages /\ \A q \in HostPages : mem[q].owner = "host"
        BY <1>5, AddressesAssumption DEF Anonymous
    <2>6. \A q \in HostPages : q \notin base .. base + n - 1
        BY <2>1, <2>5 DEF Free
    <2>7. Anonymous("hole").owner # "exe"
        BY DEF Anonymous
    <2>8. /\ HostPages \subseteq DOMAIN mem' /\ DOMAIN mem' \subseteq UserPages
          /\ \A q \in HostPages : mem'[q].owner = "host"
          /\ \A q \in DOMAIN mem' : mem'[q].owner # "exe"
        BY <2>1, <2>4, <2>5, <2>6, <2>7
    <2>9. ASSUME bounds # NoBounds, NEW i \in 1 .. Len(Loads), NEW q \in RunPages(bias', Loads[i]) \cap HostPages
          PROVE  FALSE
        <3>1. bounds = LoadBounds /\ q \in UserPages
            BY <1>7, <2>5, <2>9
        <3>2. q \in base .. base + n - 1
            BY <1>2, <1>11, <2>1, <2>9, <3>1, ReserveHolds
        <3> QED
            BY <2>6, <2>9, <3>2
    <2>10. bounds # NoBounds =>
              \A i \in 1 .. Len(Loads) : RunPages(bias', Loads[i]) \cap HostPages = {}
        BY <2>9
    <2> QED
        BY <1>9, <2>2, <2>3, <2>8, <2>10
<1> QED
    BY <1>8, <1>10, <1>11 DEF ReserveSpan

\* A segment goes over its own pages: not over self-exec, nor over another segment.
LEMMA SegmentMap ==
    ASSUME ProgramInv, ProgramInv', NativeMapInv, UNCHANGED imageVars, MapSegment
    PROVE  NativeMapInv'
<1>1. /\ mode = "native" /\ rpc = "map" /\ next <= Len(Loads)
      /\ UNCHANGED <<conv, gens, path, other, mode, handle, found, rows, image>>
    BY DEF MapSegment, InNativeMode, GiveUp, Goto, fileVars, imageVars
<1>2. FileInv /\ handle # 0
    BY <1>1 DEF ProgramInv, FileInv
<1>3. Elf' = Elf
    BY <1>1 DEF Elf
<1>4. /\ Loads' = Loads /\ PHNUM' = PHNUM /\ LoadBounds' = LoadBounds
      /\ OverHost' = OverHost /\ SharePages' = SharePages
      /\ \A i : HoldsStart(i)' = HoldsStart(i)
    BY <1>3, SameProgram
<1>5. CASE GiveUp /\ UNCHANGED nativeVars
    BY <1>1, <1>2, <1>5, GiveUpMap DEF MapSegment
<1>6. ASSUME NEW p, p = Loads[next], NEW pages, pages = RunPages(bias, p),
             pages # {}, pages \subseteq UserPages,
             mem' = MapFixed([q \in pages |-> SegmentPage(p, q)]),
             phdr' = IF Elf.phoff \in SegmentRange(p)
                     THEN Wrap(Wrap(bias + p.vaddr) + Elf.phoff - p.offset) ELSE phdr,
             next' = next + 1,
             UNCHANGED <<bounds, bias, ld, stack, rpc, keys, missed>>
      PROVE  NativeMapInv'
    <2>1. next \in 1 .. Len(Loads) /\ next \in Nat /\ Len(Loads) \in Nat
        BY <1>1, <1>2, LoadShape DEF NativeMapInv, ExecTypes
    <2>2. /\ DOMAIN mem' = pages \cup DOMAIN mem
          /\ \A q \in DOMAIN mem' : mem'[q] = IF q \in pages THEN SegmentPage(p, q) ELSE mem[q]
        BY <1>6 DEF MapFixed
    <2>3. \A q \in pages : mem'[q] = PageOf(Elf, bias, p, q)
        <3>1. \A q : SegmentPage(p, q) = PageOf(Elf, bias, p, q)
            BY PageHere
        <3> QED
            BY <2>2, <3>1
    <2>4. \A q : SegmentPage(p, q).owner = "exe"
        BY DEF SegmentPage
    <2>5. bias \in 0 .. SPACE - 1 /\ bias % PAGE = 0
          /\ HostPages \subseteq DOMAIN mem /\ DOMAIN mem \subseteq UserPages /\ phdr \in 0 .. SPACE - 1
        BY DEF NativeMapInv, ExecTypes
    <2>6. phdr' \in 0 .. SPACE - 1
        <3>1. CASE Elf.phoff \in SegmentRange(p)
            <4>1. p.offset \in Int /\ p.vaddr \in Int /\ Elf.phoff \in Int /\ bias \in Int
                <5>1. Linkable(p)
                    BY <1>2, <1>6, <2>1, LoadShape
                <5>2. p.offset \in Nat /\ p.vaddr \in Nat
                    BY <5>1, Zenon DEF Linkable
                <5>3. Elf.phoff \in Nat
                    BY <1>2, ElfShape DEF WellFormed
                <5>4. bias \in Int
                    BY <2>5, AddressesAssumption
                <5> QED
                    BY <5>2, <5>3, <5>4
            <4>2. PICK c \in Int : c = bias + p.vaddr
                BY <4>1
            <4>3. Wrap(c) \in Int
                BY <4>2, WrapOf, AddressesAssumption
            <4>4. PICK a \in Int : a = Wrap(c) + Elf.phoff - p.offset
                BY <4>1, <4>3
            <4>5. phdr' = Wrap(a)
                BY <1>6, <3>1, <4>2, <4>4, Zenon
            <4> QED
                BY <4>4, <4>5, WrapOf
        <3>2. CASE Elf.phoff \notin SegmentRange(p)
            BY <1>6, <2>5, <3>2
        <3> QED
            BY <3>1, <3>2
    <2>7. ExecTypes'
        <3>1. HostPages \subseteq DOMAIN mem' /\ DOMAIN mem' \subseteq UserPages
            BY <1>6, <2>2, <2>5
        <3>2. next' \in Nat \ {0} /\ next' <= Len(Loads) + 1
            BY <1>6, <2>1
        <3>3. /\ other' \in 0 .. Len(gens') /\ missed' \in BOOLEAN /\ found' \in BOOLEAN
              /\ keys' \in 0 .. 6 /\ rows' = <<>>
              /\ bias' \in 0 .. SPACE - 1 /\ bias' % PAGE = 0 /\ ld' \in BOOLEAN
            BY <1>1, <1>6 DEF NativeMapInv, ExecTypes
        <3> QED
            BY <1>1, <1>2, <1>4, <1>6, <2>6, <3>1, <3>2, <3>3 DEF ExecTypes
    <2>8. BoundsInv'
        <3>1. bounds' = NoBounds' \/ (handle' # 0 /\ bounds' = LoadBounds')
            BY <1>1, <1>2, <1>4, <1>6 DEF NativeMapInv, BoundsInv, NoBounds
        <3> QED
            BY <1>1, <1>6, <3>1 DEF BoundsInv, UnmappedPlaces
    <2>9. WholeInv'
        BY <1>1, <1>4, <1>6 DEF NativeMapInv, WholeInv, BoundPlaces, MappedPlaces, UnmappedPlaces
    <2>10. RoomInv'
        <3> SUFFICES ASSUME bounds # NoBounds, ~OverHost
                     PROVE  /\ \A i \in 1 .. Len(Loads) : RunPages(bias, Loads[i]) \cap HostPages = {}
                            /\ \A q \in HostPages : mem'[q].owner = "host"
                            /\ \A q \in DOMAIN mem' : mem'[q].owner = "exe" =>
                                  Wrap(q * PAGE - bias) \in ALIGN_DOWN(bounds.lo) .. bounds.hi - 1
            BY <1>4, <1>6 DEF RoomInv, NoBounds
        <3>1. /\ \A i \in 1 .. Len(Loads) : RunPages(bias, Loads[i]) \cap HostPages = {}
              /\ \A q \in HostPages : mem[q].owner = "host"
              /\ \A q \in DOMAIN mem : mem[q].owner = "exe" =>
                    Wrap(q * PAGE - bias) \in ALIGN_DOWN(bounds.lo) .. bounds.hi - 1
            BY <1>1 DEF NativeMapInv, RoomInv
        <3>2. pages \cap HostPages = {}
            BY <1>6, <2>1, <3>1
        <3>3. \A q \in HostPages : mem'[q] = mem[q]
            BY <2>2, <2>5, <3>2
        <3>4. bounds = LoadBounds
            BY DEF NativeMapInv, BoundsInv
        <3>5. \A q \in pages : Wrap(q * PAGE - bias) \in ALIGN_DOWN(bounds.lo) .. bounds.hi - 1
            BY <1>2, <1>6, <2>1, <2>5, <3>4, RunInBounds
        <3> QED
            BY <2>2, <3>1, <3>3, <3>5
    <2>11. 1 .. next' - 1 = (1 .. next - 1) \cup {next}
        BY <1>6, <2>1
    <2>12. SegmentsInv'
        <3> SUFFICES ASSUME ~SharePages, NEW i \in (1 .. next - 1) \cup {next}
                     PROVE  /\ RunPages(bias, Loads[i]) # {}
                            /\ RunPages(bias, Loads[i]) \subseteq UserPages
                            /\ \A q \in RunPages(bias, Loads[i]) :
                                  q \in DOMAIN mem' /\ mem'[q] = PageOf(Elf, bias, Loads[i], q)
            BY <1>3, <1>4, <1>6, <2>11 DEF SegmentsInv
        <3>1. CASE i = next
            BY <1>6, <2>2, <2>3, <3>1
        <3>2. CASE i # next
            <4>1. i \in 1 .. next - 1 /\ i \in 1 .. Len(Loads)
                BY <2>1, <3>2
            <4>2. /\ RunPages(bias, Loads[i]) # {}
                  /\ RunPages(bias, Loads[i]) \subseteq UserPages
                  /\ \A q \in RunPages(bias, Loads[i]) :
                        q \in DOMAIN mem /\ mem[q] = PageOf(Elf, bias, Loads[i], q)
                BY <1>1, <4>1 DEF NativeMapInv, SegmentsInv
            <4>3. \A q \in RunPages(bias, Loads[i]) : q \notin pages
                BY <1>2, <1>6, <2>1, <2>5, <3>2, <4>1, RunsApart
            <4> QED
                BY <2>2, <4>2, <4>3
        <3> QED
            BY <3>1, <3>2
    <2>13. TableInv'
        <3> SUFFICES ASSUME \E i \in (1 .. next - 1) \cup {next} : HoldsStart(i)
                     PROVE  \E i \in (1 .. next - 1) \cup {next} :
                                /\ HoldsStart(i)
                                /\ phdr' = Wrap(Wrap(bias + Loads[i].vaddr) + Elf.phoff - Loads[i].offset)
            BY <1>3, <1>4, <1>6, <2>11 DEF TableInv
        <3>1. CASE HoldsStart(next)
            <4>1. phdr' = Wrap(Wrap(bias + Loads[next].vaddr) + Elf.phoff - Loads[next].offset)
                BY <1>6, <3>1 DEF HoldsStart
            <4> QED
                BY <3>1, <4>1
        <3>2. CASE ~HoldsStart(next)
            <4>1. phdr' = phdr
                BY <1>6, <3>2 DEF HoldsStart
            <4>2. \E i \in 1 .. next - 1 :
                     /\ HoldsStart(i)
                     /\ phdr = Wrap(Wrap(bias + Loads[i].vaddr) + Elf.phoff - Loads[i].offset)
                BY <1>1, <3>2 DEF NativeMapInv, TableInv
            <4> QED
                BY <4>1, <4>2
        <3> QED
            BY <3>1, <3>2
    <2> QED
        BY <2>7, <2>8, <2>9, <2>10, <2>12, <2>13 DEF NativeMapInv
<1> QED
    BY <1>5, <1>6 DEF MapSegment, RunPages

\* A page that no one has: it is neither the program's nor self-exec's.
LEMMA NewPage ==
    ASSUME ExecTypes, RoomInv, SegmentsInv, TableInv, FileInv, handle # 0,
           mode = "native", mode' = mode, rpc \in {"ldso", "stack"}, rpc' \in {"stack", "entered"},
           Elf' = Elf, next' = next, bounds' = bounds, bias' = bias, phdr' = phdr,
           NEW q \in Free, NEW new, new.owner # "exe", mem' = Mapped({q}, new)
    PROVE  /\ RoomInv' /\ SegmentsInv' /\ TableInv'
           /\ HostPages \subseteq DOMAIN mem' /\ DOMAIN mem' \subseteq UserPages
<1>1. /\ Loads' = Loads /\ OverHost' = OverHost /\ SharePages' = SharePages
      /\ \A i : HoldsStart(i)' = HoldsStart(i)
    BY SameProgram
<1>2. q \in UserPages /\ q \notin DOMAIN mem
    BY DEF Free
<1>3. /\ DOMAIN mem' = {q} \cup DOMAIN mem
      /\ mem'[q] = new
      /\ \A r \in DOMAIN mem : mem'[r] = mem[r]
    <2>1. /\ DOMAIN mem' = {q} \cup DOMAIN mem
          /\ \A r \in DOMAIN mem' : mem'[r] = IF r \in {q} THEN new ELSE mem[r]
        BY DEF Mapped, MapFixed
    <2> QED
        BY <1>2, <2>1
<1>4. HostPages \subseteq DOMAIN mem' /\ DOMAIN mem' \subseteq UserPages
    BY <1>2, <1>3 DEF ExecTypes
<1>5. RoomInv'
    <2> SUFFICES ASSUME bounds # NoBounds, ~OverHost
                 PROVE  /\ \A r \in HostPages : mem'[r].owner = "host"
                        /\ \A r \in DOMAIN mem' : mem'[r].owner = "exe" =>
                              Wrap(r * PAGE - bias) \in ALIGN_DOWN(bounds.lo) .. bounds.hi - 1
        BY <1>1 DEF RoomInv, NoBounds
    <2>1. /\ \A r \in HostPages : mem[r].owner = "host"
          /\ \A r \in DOMAIN mem : mem[r].owner = "exe" =>
                Wrap(r * PAGE - bias) \in ALIGN_DOWN(bounds.lo) .. bounds.hi - 1
        BY DEF RoomInv
    <2> QED
        BY <1>3, <2>1 DEF ExecTypes
<1>6. SegmentsInv'
    BY <1>1, <1>3 DEF SegmentsInv, MappedPlaces
<1>7. TableInv'
    BY <1>1 DEF TableInv, MappedPlaces
<1> QED
    BY <1>4, <1>5, <1>6, <1>7

\* The interpreter and the stack go where nothing is.
LEMMA LastMap ==
    ASSUME ProgramInv, ProgramInv', NativeMapInv, UNCHANGED imageVars, MapInterp \/ BuildStack
    PROVE  NativeMapInv'
<1>1. /\ mode = "native" /\ rpc \in {"ldso", "stack"}
      /\ UNCHANGED <<conv, gens, path, other, mode, handle, keys, next, missed, found, rows, image>>
    BY DEF MapInterp, BuildStack, InNativeMode, GiveUp, Goto, fileVars, imageVars
<1>2. FileInv /\ handle # 0
    BY <1>1 DEF ProgramInv, FileInv
<1>3. Elf' = Elf
    BY <1>1 DEF Elf
<1>4. Loads' = Loads /\ PHNUM' = PHNUM /\ LoadBounds' = LoadBounds
    BY <1>3, SameProgram
<1>5. CASE GiveUp /\ UNCHANGED nativeVars
    BY <1>1, <1>2, <1>5, GiveUpMap DEF MapInterp, BuildStack
<1>6. ASSUME NEW q \in Free, NEW new, new.owner # "exe", mem' = Mapped({q}, new),
             UNCHANGED <<bounds, bias, phdr>>, rpc' \in {"stack", "entered"}, ld' \in BOOLEAN,
             ~missed => ld' = Elf.interp
      PROVE  NativeMapInv'
    <2>1. /\ RoomInv' /\ SegmentsInv' /\ TableInv'
          /\ HostPages \subseteq DOMAIN mem' /\ DOMAIN mem' \subseteq UserPages
        BY <1>1, <1>2, <1>3, <1>6, NewPage DEF NativeMapInv
    <2>2. ExecTypes'
        BY <1>1, <1>4, <1>6, <2>1 DEF NativeMapInv, ExecTypes
    <2>3. BoundsInv'
        <3>1. bounds' = NoBounds' \/ (handle' # 0 /\ bounds' = LoadBounds')
            BY <1>1, <1>2, <1>4, <1>6 DEF NativeMapInv, BoundsInv, NoBounds
        <3> QED
            BY <1>1, <1>6, <3>1 DEF BoundsInv, UnmappedPlaces
    <2>4. WholeInv'
        BY <1>1, <1>3, <1>4, <1>6 DEF NativeMapInv, WholeInv, BoundPlaces, MappedPlaces, UnmappedPlaces,
                                      AllMapped
    <2> QED
        BY <2>1, <2>2, <2>3, <2>4 DEF NativeMapInv
<1>7. Elf.interp \in BOOLEAN /\ ld \in BOOLEAN
    BY <1>2, ElfShape DEF WellFormed, NativeMapInv, ExecTypes
<1>8. CASE MapInterp /\ ~GiveUp
    <2>1. PICK q \in Free :
             /\ mem' = Mapped({q}, Anonymous("ld.so")) /\ ld' = TRUE /\ Goto("stack")
             /\ UNCHANGED <<bounds, bias, phdr, stack>>
        BY <1>8 DEF MapInterp
    <2>2. ~missed => Elf.interp
        BY <1>1, <1>8 DEF MapInterp, InNativeMode, NativeMapInv, WholeInv
    <2>3. Anonymous("ld.so").owner # "exe" /\ rpc' = "stack"
        BY <2>1 DEF Anonymous, Goto
    <2>4. ~missed => ld' = Elf.interp
        BY <1>7, <2>1, <2>2
    <2> QED
        BY <1>6, <2>1, <2>3, <2>4
<1>9. CASE BuildStack /\ ~GiveUp
    <2>1. PICK q \in Free :
             /\ mem' = Mapped({q}, Anonymous("stack")) /\ Goto("entered")
             /\ UNCHANGED <<bounds, bias, phdr, ld>>
        BY <1>9 DEF BuildStack
    <2>2. ~missed => ld = Elf.interp
        BY <1>1, <1>9 DEF BuildStack, InNativeMode, NativeMapInv, WholeInv
    <2>3. Anonymous("stack").owner # "exe" /\ rpc' = "entered"
        BY <2>1 DEF Anonymous, Goto
    <2> QED
        BY <1>6, <1>7, <2>1, <2>2, <2>3
<1>10. CASE GiveUp
    BY <1>1, <1>5, <1>10 DEF MapInterp, BuildStack, GiveUp, Goto, InNativeMode
<1> QED
    BY <1>8, <1>9, <1>10

\* Nothing changes where self-exec is over.
LEMMA RestMap ==
    ASSUME NativeMapInv, UNCHANGED vars
    PROVE  NativeMapInv'
<1>1. /\ UNCHANGED <<conv, gens, path, other, mode, rpc, handle, keys, next, missed, found, rows, image>>
      /\ UNCHANGED <<bounds, bias, mem, phdr, ld, stack>>
    BY DEF vars, fileVars, procVars, imageVars, nativeVars
<1>2. Elf' = Elf
    BY <1>1 DEF Elf
<1>3. /\ PHNUM' = PHNUM /\ Loads' = Loads /\ LoadBounds' = LoadBounds
      /\ OverHost' = OverHost /\ SharePages' = SharePages
      /\ \A i : HoldsStart(i)' = HoldsStart(i)
    BY <1>2, SameProgram
<1>4. Complete' = Complete
    BY <1>1, <1>2 DEF Complete, Segments, Filled
<1>5. ExecTypes' /\ WholeInv'
    BY <1>1, <1>2, <1>3, <1>4 DEF NativeMapInv, ExecTypes, WholeInv, AllMapped
<1>6. BoundsInv' /\ RoomInv'
    BY <1>1, <1>3 DEF NativeMapInv, BoundsInv, RoomInv, NoBounds, Anonymous, Blank, Zero
<1>7. SegmentsInv' /\ TableInv'
    BY <1>1, <1>2, <1>3 DEF NativeMapInv, SegmentsInv, TableInv
<1> QED
    BY <1>5, <1>6, <1>7 DEF NativeMapInv

\* The invariant holds when self-exec starts, with its own pages and no others.
LEMMA MapInit ==
    ASSUME Init
    PROVE  NativeMapInv
<1>1. /\ gens = <<>> /\ other = 0 /\ mode \in {"memfd", "native"}
      /\ rpc = "start" /\ handle = 0 /\ keys = 0 /\ next = 1 /\ missed = FALSE
      /\ found = TRUE /\ rows = <<>>
      /\ bounds = NoBounds /\ bias = 0 /\ phdr = 0 /\ ld = FALSE
      /\ mem = [q \in HostPages |-> Anonymous("host")]
    BY DEF Init, FileInit, ImageInit, NativeInit
<1>2. 0 \in 0 .. SPACE - 1 /\ 0 % PAGE = 0 /\ HostPages \subseteq UserPages
    BY AddressesAssumption
<1>3. DOMAIN mem = HostPages
    BY <1>1
<1>4. 0 \in 0 .. META_KEYS /\ 0 \in 0 .. Len(gens) /\ 0 \in 0 .. 6 /\ 1 \in Nat \ {0}
    BY <1>1, KeysAssumption
<1>5. ExecTypes
    BY <1>1, <1>2, <1>3, <1>4, Zenon DEF ExecTypes
<1>6. BoundsInv
    BY <1>1, Zenon DEF BoundsInv
<1>8. RoomInv
    BY <1>1, Zenon DEF RoomInv
<1>7. WholeInv /\ SegmentsInv /\ TableInv
    BY <1>1 DEF WholeInv, SegmentsInv, TableInv, BoundPlaces, MappedPlaces
<1> QED
    BY <1>5, <1>6, <1>7, <1>8 DEF NativeMapInv

\* Every step of self-exec and of the writers keeps it.
LEMMA MapStep ==
    ASSUME ProgramInv, ProgramInv', NativeMapInv, [Next]_vars
    PROVE  NativeMapInv'
<1>1. CASE Writers /\ UNCHANGED <<imageVars, nativeVars>>
    BY <1>1, WritersMap
<1>2. CASE Start /\ UNCHANGED <<imageVars, nativeVars>>
    BY <1>2, StartMap
<1>3. CASE BuildImage /\ UNCHANGED nativeVars
    BY <1>3, BuildMap
<1>4. CASE MapProgram /\ UNCHANGED imageVars
    <2>1. CASE ReadNumber \/ LoadsBegin \/ LoadsEnd \/ LookUpInterp
        BY <1>4, <2>1, ReadingMap
    <2>2. CASE ReadBounds
        BY <1>4, <2>2, BoundsMap
    <2>3. CASE ReserveSpan
        BY <1>4, <2>3, ReserveMap
    <2>4. CASE MapSegment
        BY <1>4, <2>4, SegmentMap
    <2>5. CASE MapInterp \/ BuildStack
        BY <1>4, <2>5, LastMap
    <2> QED
        BY <1>4, <2>1, <2>2, <2>3, <2>4, <2>5 DEF MapProgram
<1>5. CASE UNCHANGED vars
    BY <1>5, RestMap
<1> QED
    BY <1>1, <1>2, <1>3, <1>4, <1>5 DEF Next, Rest

\* The inductive invariant of the native mode: the bounds, what is reserved between
\* them, what every segment has left in its pages and where the table is.
THEOREM NativeInvariant == Spec => []NativeMapInv
<1>1. Init => NativeMapInv
    BY MapInit
<1>2. ProgramInv /\ ProgramInv' /\ NativeMapInv /\ [Next]_vars => NativeMapInv'
    BY MapStep
<1> QED
    BY <1>1, <1>2, ExecInvariant, PTL DEF Spec

-----------------------------------------------------------------------------
\* Every variable of self-exec and of the file keeps its type, in every interleaving
\* with the writers.
THEOREM ExecTypeCorrect == Spec => []TypeOK
<1>1. ProgramInv /\ NativeMapInv => TypeOK
    <2> SUFFICES ASSUME ProgramInv, NativeMapInv
                 PROVE  TypeOK
        OBVIOUS
    <2>1. FileInv /\ MemfdInv /\ NativeInv /\ ImageInv /\ ExecTypes /\ BoundsInv
        BY DEF ProgramInv, NativeMapInv
    <2>2. mode \in {"memfd", "native"}
        BY <2>1 DEF FileInv
    <2>3. FileTypeOK
        BY <2>1 DEF FileInv, ExecTypes, FileTypeOK, GenType
    <2>4. Len(rows) \in Nat
        BY <2>1 DEF ExecTypes
    <2>5. ImageTypeOK
        <3>1. CASE handle = 0
            BY <2>1, <3>1 DEF ExecTypes, ImageTypeOK
        <3>2. CASE handle # 0
            <4>1. PHNUM \in Nat
                BY <2>1, <3>2, ElfShape DEF PHNUM
            <4> QED
                BY <2>1, <3>2, <4>1 DEF ExecTypes, ImageTypeOK
        <3> QED
            BY <3>1, <3>2
    <2>6. NativeTypeOK
        <3>1. bounds.lo \in 0 .. SPACE - 1 /\ bounds.hi \in Nat
            <4>1. CASE bounds = NoBounds
                BY <4>1, AddressesAssumption DEF NoBounds
            <4>2. CASE handle # 0 /\ bounds = LoadBounds
                BY <2>1, <4>2, LoadBoundsHold
            <4> QED
                BY <2>1, <4>1, <4>2 DEF BoundsInv
        <3> QED
            BY <2>1, <3>1 DEF ExecTypes, NativeTypeOK
    <2>7. rpc \in Places
        BY <2>1, <2>2 DEF MemfdInv, NativeInv, MemfdPlaces, NativePlaces, Places
    <2>8. keys \in 0 .. Max({META_KEYS, 6})
        <3> DEFINE S == {META_KEYS, 6}
        <3>1. S \in SUBSET Nat /\ S # {} /\ META_KEYS + 6 \in Nat /\ \A x \in S : x <= META_KEYS + 6
            BY KeysAssumption
        <3>2. META_KEYS \in S /\ 6 \in S
            OBVIOUS
        <3> HIDE DEF S
        <3>3. Max(S) \in S /\ \A x \in S : x <= Max(S)
            BY <3>1, MaxOfBounded
        <3>4. PICK m \in Nat : m = Max(S) /\ META_KEYS <= m /\ 6 <= m
            BY <3>1, <3>2, <3>3
        <3>5. keys \in 0 .. m
            BY <2>1, <2>2, <3>4, KeysAssumption DEF ExecTypes
        <3> QED
            BY <3>4, <3>5 DEF S
    <2>9. next \in 1 .. (IF mode = "memfd" THEN Len(rows) ELSE IF handle = 0 THEN 0 ELSE Len(Loads)) + 1
        <3>1. CASE mode = "memfd"
            BY <2>1, <2>4, <3>1 DEF ImageInv
        <3>2. CASE mode = "native"
            <4>1. CASE handle = 0
                BY <2>1, <3>2, <4>1 DEF ExecTypes
            <4>2. CASE handle # 0
                <5>1. Len(Loads) \in Nat
                    BY <2>1, <4>2, LoadShape
                <5> QED
                    BY <2>1, <3>2, <4>2, <5>1 DEF ExecTypes
            <4> QED
                BY <4>1, <4>2
        <3> QED
            BY <2>2, <3>1, <3>2
    <2> QED
        BY <2>3, <2>5, <2>6, <2>7, <2>8, <2>9 DEF TypeOK
<1> QED
    BY <1>1, ExecInvariant, NativeInvariant, PTL

\* map_segment replaces nothing but pages of the reservation.
THEOREM ReservationIsKept == Spec => []ReservationHolds
<1>1. NativeMapInv => ReservationHolds
    BY DEF NativeMapInv, RoomInv, ReservationHolds
<1> QED
    BY <1>1, NativeInvariant, PTL

\* What the native mode enters is the program, cell by cell, with its protections and
\* its program header table.
THEOREM NativeModeRunsTheProgram == Spec => []NativeRunsAsOriginal
<1>1. ProgramInv /\ NativeMapInv => NativeRunsAsOriginal
    BY EnteredRuns
<1> QED
    BY <1>1, ExecInvariant, NativeInvariant, PTL

\* Without a refusal of SQLite, either mode starts the whole program.
THEOREM UndisturbedRunsAreWhole == Spec => []UndisturbedRunIsWhole
<1>1. ProgramInv /\ NativeMapInv => UndisturbedRunIsWhole
    <2> SUFFICES ASSUME ProgramInv, NativeMapInv, ~missed
                 PROVE  /\ Built => Complete
                        /\ Entered => AllMapped /\ ld = Elf.interp /\ bounds = LoadBounds
        BY DEF UndisturbedRunIsWhole
    <2>1. Built => mode = "memfd"
        BY DEF ProgramInv, FileInv, NativeInv, NativePlaces, Built
    <2>2. Entered => mode = "native"
        BY DEF ProgramInv, FileInv, MemfdInv, MemfdPlaces, Entered
    <2> QED
        BY <2>1, <2>2 DEF NativeMapInv, WholeInv, BoundPlaces, MappedPlaces, Built, Entered
<1> QED
    BY <1>1, ExecInvariant, NativeInvariant, PTL
================================================================================
