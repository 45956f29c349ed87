------------------------------ MODULE NativeMap ------------------------------
(***************************************************************************)
(* The native mode of self-exec: loader/native.c maps the segments of a    *)
(* .self file into its own address space, over pages the kernel has        *)
(* reserved for them, maps the ELF interpreter, builds the initial stack   *)
(* and jumps.                                                              *)
(*                                                                         *)
(* An address counts cells, modulo SPACE as uintptr_t does.  MAP_FIXED     *)
(* replaces whatever is mapped at its pages, also the loader's own.        *)
(***************************************************************************)
EXTENDS SelfFile, FiniteSetsExt, TLC

CONSTANTS
    PAGE,           \* cells of a page
    SPACE,          \* cells of the address space
    UserPages,      \* the pages a process can map
    HostPages,      \* those of self-exec itself
    StackArgs       \* what a program is started with: [argc, envc, strings]

\* strings: the bytes of the arguments, of the environment and of AT_EXECFN.
\* execve bounds strings and pointers by three quarters of 8 MiB.
ARG_MAX == 6 * 1024 * 1024

ASSUME AddressesAssumption ==
    /\ PAGE \in Nat \ {0} /\ SPACE \in Nat \ {0} /\ SPACE % PAGE = 0
    /\ HostPages \subseteq UserPages
    /\ UserPages \subseteq 0 .. (SPACE \div PAGE) - 1
ASSUME StackArgsAssumption ==
    \A a \in StackArgs :
        /\ a.argc \in Nat /\ a.envc \in Nat /\ a.strings \in Nat
        /\ a.strings + 8 * (a.argc + a.envc) <= ARG_MAX
\* Programs are linked at addresses that a process can have, far from the last.
ASSUME LayoutAssumption ==
    \A e \in Elfs : \A i \in 1 .. Len(e.phdrs) :
        e.phdrs[i].load => e.phdrs[i].vaddr + e.phdrs[i].memsz + PAGE <= SPACE

VARIABLES
    bounds,     \* of the vaddrs of the load segments: [lo, hi]
    bias,       \* runtime address = vaddr + bias
    mem,        \* the pages that are mapped: page -> [owner, prot, cells]
    phdr,       \* AT_PHDR: address of the program header table; 0 = unknown
    ld,         \* control goes to ld.so first
    stack       \* what BuildStack has made: [args, aux, sp]

nativeVars == <<bounds, bias, mem, phdr, ld, stack>>

Blank == [k \in 0 .. PAGE - 1 |-> Zero]
Anonymous(owner) == [owner |-> owner, prot |-> {}, cells |-> Blank]

NoBounds == [lo |-> SPACE - 1, hi |-> 0]
NoStack == [args |-> [argc |-> 0, envc |-> 0, strings |-> 0], aux |-> 0, sp |-> 0]

NativeInit ==
    /\ bounds = NoBounds
    /\ bias = 0
    /\ mem = [q \in HostPages |-> Anonymous("host")]
    /\ phdr = 0
    /\ ld = FALSE
    /\ stack = NoStack

InNativeMode(place) == mode = "native" /\ rpc = place

Wrap(a) == a % SPACE
ALIGN_DOWN(a) == a - (a % PAGE)
ALIGN_UP(a) == ALIGN_DOWN(a + PAGE - 1)

\* WHERE type='load' ORDER BY id.
LoadsOf(phdrs) ==
    LET loads[i \in 0 .. Len(phdrs)] ==
            IF i = 0 THEN <<>>
            ELSE IF phdrs[i].load THEN Append(loads[i - 1], phdrs[i]) ELSE loads[i - 1]
    IN loads[Len(phdrs)]
Loads == LoadsOf(Elf.phdrs)

\* MAP_FIXED: what is mapped replaces what was there.
MapFixed(new) ==
    [q \in DOMAIN new \cup DOMAIN mem |-> IF q \in DOMAIN new THEN new[q] ELSE mem[q]]
Mapped(pages, page) == MapFixed([q \in pages |-> page])
Free == UserPages \ DOMAIN mem
Holes(n) == {q \in Free : q .. q + n - 1 \subseteq Free}

-----------------------------------------------------------------------------
\* self_meta_int: em, et, entry and phoff before the segments, phnum and
\* phentsize after them.  A key that is not found is the end.
ReadNumber ==
    \E place \in {"meta", "tail"} :
        /\ InNativeMode(place)
        /\ IF KeyThere
           THEN /\ keys' = keys + 1
                /\ rpc' = CASE keys' = 4 -> "bounds" [] keys' = 6 -> "interp"
                            [] OTHER -> place
                /\ UNCHANGED <<mode, handle, next, missed>>
           ELSE GiveUp
        /\ UNCHANGED <<fileVars, nativeVars>>

LoadBounds ==
    LET starts == {Loads[i].vaddr : i \in 1 .. Len(Loads)}
        ends == {Loads[i].vaddr + Loads[i].memsz : i \in 1 .. Len(Loads)}
    IN [lo |-> Min(starts \cup {SPACE - 1}), hi |-> Max(ends \cup {0})]

\* The first pass, one statement.
ReadBounds ==
    /\ InNativeMode("bounds")
    /\ Select("reserve", "reserve")
    /\ bounds' = IF Refused(handle) THEN NoBounds ELSE LoadBounds
    /\ UNCHANGED <<fileVars, bias, mem, phdr, ld, stack>>

\* Variant: the length is rounded, not the bounds.
SpanOfLength == Wrap(ALIGN_UP(bounds.hi - bounds.lo))

Span == Wrap(ALIGN_UP(bounds.hi) - ALIGN_DOWN(bounds.lo))

\* The kernel chooses where; ET_EXEC goes where it was linked.
ReserveSpan ==
    /\ InNativeMode("reserve")
    /\ IF Elf.pie
       THEN LET n == Span \div PAGE
            IN \/ /\ n = 0 \/ Holes(n) = {}
                  /\ GiveUp
                  /\ UNCHANGED nativeVars
               \/ \E base \in Holes(n) :
                     /\ n # 0
                     /\ bias' = Wrap(base * PAGE - ALIGN_DOWN(bounds.lo))
                     /\ mem' = Mapped(base .. base + n - 1, Anonymous("hole"))
                     /\ Goto("loads")
                     /\ UNCHANGED <<bounds, phdr, ld, stack>>
       ELSE Goto("loads") /\ UNCHANGED nativeVars
    /\ UNCHANGED fileVars

\* The second pass, row by row.
LoadsBegin ==
    /\ InNativeMode("loads")
    /\ Select("map", "tail")
    /\ UNCHANGED <<fileVars, nativeVars>>

\* Variant: the content is copied to the start of the first page.
FromPageStart(p, a) ==
    LET k == a - ALIGN_DOWN(Wrap(bias + p.vaddr))
    IN IF k \in 0 .. p.filesz - 1 THEN Byte(Elf, p.offset + k) ELSE Zero

\* What map_segment leaves at address a of the pages of a segment.
SegmentCell(p, a) ==
    LET k == a - Wrap(bias + p.vaddr)
    IN IF k \in 0 .. p.filesz - 1 THEN Byte(Elf, p.offset + k) ELSE Zero

SegmentPage(p, q) ==
    [owner |-> "exe", prot |-> p.prot, cells |-> [k \in 0 .. PAGE - 1 |-> SegmentCell(p, q * PAGE + k)]]

\* From the page of address a to that of the last of n cells.
PagesOf(a, n) == ALIGN_DOWN(a) \div PAGE .. (ALIGN_UP(a + n) \div PAGE) - 1

\* self-exec may not survive a mapping over its own pages.
MapSegment ==
    /\ InNativeMode("map")
    /\ next <= Len(Loads)
    /\ LET p == Loads[next]
           at == Wrap(bias + p.vaddr)
           pages == PagesOf(at, p.memsz)
       IN \/ /\ pages = {} \/ ~(pages \subseteq UserPages) \/ pages \cap HostPages # {}
             /\ GiveUp /\ UNCHANGED nativeVars
          \/ /\ pages # {} /\ pages \subseteq UserPages
             /\ mem' = MapFixed([q \in pages |-> SegmentPage(p, q)])
             /\ phdr' = IF Elf.phoff \in SegmentRange(p)
                        THEN Wrap(at + Elf.phoff - p.offset) ELSE phdr
             /\ next' = next + 1
             /\ UNCHANGED <<bounds, bias, ld, stack, mode, rpc, handle, keys, missed>>
    /\ UNCHANGED fileVars

LoadsEnd ==
    /\ InNativeMode("map")
    /\ next > Len(Loads)
    /\ Goto("tail")
    /\ UNCHANGED <<fileVars, nativeVars>>

\* self_meta_text has one answer for no interp, and for a statement refused.
LookUpInterp ==
    /\ InNativeMode("interp")
    /\ IF ~Refused(handle) /\ Elf.interp THEN Goto("ldso") ELSE Select("stack", "stack")
    /\ UNCHANGED <<fileVars, nativeVars>>

\* ld.so, in a hole of its own; its file may be missing or no interpreter.
MapInterp ==
    /\ InNativeMode("ldso")
    /\ \/ GiveUp /\ UNCHANGED nativeVars
       \/ \E q \in Free :
             /\ mem' = Mapped({q}, Anonymous("ld.so"))
             /\ ld' = TRUE
             /\ Goto("stack")
             /\ UNCHANGED <<bounds, bias, phdr, stack>>
    /\ UNCHANGED fileVars

STACK_SIZE == 8 * 1024 * 1024

\* AT_RANDOM's bytes and the platform's name come under the strings.
Cursor(args) == STACK_SIZE - args.strings - 16 - 7

Words(args, aux) == 1 + args.argc + 1 + args.envc + 1 + 2 * aux

\* Variant: aligned upwards.
StackPointerUp(args, aux) ==
    LET sp == Cursor(args) - 8 * Words(args, aux) + 15 IN sp - (sp % 16)

StackPointer(args, aux) ==
    LET sp == Cursor(args) - 8 * Words(args, aux) IN sp - (sp % 16)

\* The kernel may have given self-exec a vDSO, a twentieth entry.
BuildStack ==
    /\ InNativeMode("stack")
    /\ \/ Free = {} /\ GiveUp /\ UNCHANGED nativeVars
       \/ \E q \in Free, args \in StackArgs, aux \in {19, 20} :
             /\ mem' = Mapped({q}, Anonymous("stack"))
             /\ stack' = [args |-> args, aux |-> aux, sp |-> StackPointer(args, aux)]
             /\ Goto("entered")
             /\ UNCHANGED <<bounds, bias, phdr, ld>>
    /\ UNCHANGED fileVars

MapProgram ==
    \/ ReadNumber \/ ReadBounds \/ ReserveSpan \/ LoadsBegin \/ MapSegment
    \/ LoadsEnd \/ LookUpInterp \/ MapInterp \/ BuildStack

-----------------------------------------------------------------------------
NativeTypeOK ==
    /\ bounds.lo \in 0 .. SPACE - 1 /\ bounds.hi \in Nat
    /\ bias \in 0 .. SPACE - 1
    /\ DOMAIN mem \subseteq UserPages
    /\ phdr \in 0 .. SPACE - 1
    /\ ld \in BOOLEAN

Entered == rpc = "entered"
AllMapped == next > Len(Loads)

SegmentPages(p) == PagesOf(p.vaddr, p.memsz)

\* Linked at the addresses where self-exec is itself.
OverHost == ~Elf.pie /\ \E i \in 1 .. Len(Loads) : SegmentPages(Loads[i]) \cap HostPages # {}

\* MAP_FIXED only ever replaces pages that the reservation holds: neither the
\* loader that is running nor the interpreter is overwritten.  The exceptions
\* are a first pass that was refused, which reserves one page for no segments,
\* and a program linked where self-exec is, for which nothing is reserved.
ReservationHolds ==
    \/ bounds = NoBounds
    \/ OverHost
    \/ /\ \A q \in HostPages : mem[q].owner = "host"
       /\ \A q \in DOMAIN mem : mem[q].owner = "exe" =>
             Wrap(q * PAGE - bias) \in ALIGN_DOWN(bounds.lo) .. bounds.hi - 1

SharePages ==
    \E i, j \in 1 .. Len(Loads) :
        i # j /\ SegmentPages(Loads[i]) \cap SegmentPages(Loads[j]) # {}

Cell(a) == mem[a \div PAGE].cells[a % PAGE]

HoldsTable(p) == Elf.phoff .. Elf.phoff + PHNUM * PHDR_SIZE - 1 \subseteq SegmentRange(p)

\* A program that is entered with all its segments sees what the kernel would
\* have mapped: the file's bytes, zeroes up to p_memsz, each page protected as
\* its header says, and AT_PHDR at its table when a segment holds the table.
\* The exceptions are a program two of whose segments share a page, where the
\* second mapping wipes what the first has put there, and of AT_PHDR one with a
\* segment that holds the beginning of the table and not the rest.
NativeRunsAsOriginal ==
    Entered /\ AllMapped /\ ~SharePages =>
        /\ \A i \in 1 .. Len(Loads) : \A k \in 0 .. Loads[i].memsz - 1 :
              LET a == Wrap(bias + Loads[i].vaddr + k)
              IN /\ mem[a \div PAGE].prot = Loads[i].prot
                 /\ Cell(a) = IF k < Loads[i].filesz
                              THEN Byte(Elf, Loads[i].offset + k) ELSE Zero
        /\ LET first == {i \in 1 .. Len(Loads) : Elf.phoff \in SegmentRange(Loads[i])}
           IN first # {} /\ (\A i \in first : HoldsTable(Loads[i]))
                 => \A k \in 0 .. PHNUM * PHDR_SIZE - 1 : Cell(phdr + k) = TableCell(1, k)

\* The vector from argc on is aligned for the ABI, lies below the strings it
\* points to and inside the 8 MiB that are mapped, for all that execve lets
\* through; nothing in build_stack checks any of it.
StackIsWellFormed ==
    Entered =>
        /\ stack.sp % 16 = 0
        /\ stack.sp >= 0
        /\ stack.sp + 8 * Words(stack.args, stack.aux) <= Cursor(stack.args)
=============================================================================
