------------------------------ MODULE SelfImage ------------------------------
(***************************************************************************)
(* The memfd mode of self-exec, and what libself-audit.so does with a      *)
(* library: loader/image.c rebuilds an ELF image out of the rows of a      *)
(* .self file.  selfconv/elfimage.py is the Python twin of the rebuilding. *)
(***************************************************************************)
EXTENDS SelfFile, FiniteSetsExt

CONSTANT META_KEYS      \* integers that self_build_elf reads from self_meta

ASSUME KeysAssumption == META_KEYS \in Nat \ {0}

VARIABLES
    found,      \* whether all keys were there
    rows,       \* the rows of segments it has read
    image       \* the image so far, a function of the offset

imageVars == <<found, rows, image>>

ImageInit == found = TRUE /\ rows = <<>> /\ image = <<>>

InMemfdMode(place) == mode = "memfd" /\ rpc = place

-----------------------------------------------------------------------------
\* self_get_int, once for each key.
ReadKey ==
    /\ InMemfdMode("meta")
    /\ keys < META_KEYS
    /\ keys' = keys + 1
    /\ found' = (found /\ KeyThere)
    /\ UNCHANGED <<fileVars, mode, rpc, handle, next, missed, rows, image>>

\* Variant: a key that is missing is taken as zero.
KeysReadOrZero ==
    /\ InMemfdMode("meta")
    /\ keys = META_KEYS
    /\ Goto("query")
    /\ UNCHANGED <<fileVars, imageVars>>

KeysRead ==
    /\ InMemfdMode("meta")
    /\ keys = META_KEYS
    /\ IF found THEN Goto("query") ELSE GiveUp
    /\ UNCHANGED <<fileVars, imageVars>>

Segments == IF Filled THEN Elf.phdrs ELSE <<>>

\* The first sqlite3_step of the SELECT over segments.
ScanBegins ==
    /\ InMemfdMode("query")
    /\ Select("scan", "alloc")
    /\ UNCHANGED <<fileVars, imageVars>>

\* Variant: each row is read by a statement of its own.
ScanRowAlone ==
    /\ InMemfdMode("scan")
    /\ Len(rows) < Len(Segments)
    /\ Select("scan", "alloc")
    /\ rows' = IF Refused(handle) THEN rows ELSE Append(rows, Segments[Len(rows) + 1])
    /\ UNCHANGED <<fileVars, found, image>>

\* Variant: the loop runs once too often.
ScanRowPastEnd ==
    /\ InMemfdMode("scan")
    /\ Len(rows) <= Len(Segments)
    /\ Segments # <<>>
    /\ rows' = Append(rows, Segments[Min({Len(rows) + 1, Len(Segments)})])
    /\ UNCHANGED <<fileVars, procVars, found, image>>

ScanRow ==
    /\ InMemfdMode("scan")
    /\ Len(rows) < Len(Segments)
    /\ rows' = Append(rows, Segments[Len(rows) + 1])
    /\ UNCHANGED <<fileVars, procVars, found, image>>

\* Variant: the loop may stop before the last row.
ScanEndsEarly ==
    /\ InMemfdMode("scan")
    /\ Len(rows) + 1 >= Len(Segments)
    /\ Goto("alloc")
    /\ UNCHANGED <<fileVars, imageVars>>

ScanEnds ==
    /\ InMemfdMode("scan")
    /\ Len(rows) = Len(Segments)
    /\ Goto("alloc")
    /\ UNCHANGED <<fileVars, imageVars>>

\* Variant: the program header table does not count.
SizeOfSegments(segments) == Max({EHDR_SIZE} \cup Ends(segments))

ImageSize(segments) ==
    Max({EHDR_SIZE, Elf.phoff + PHNUM * PHDR_SIZE} \cup Ends(segments))

\* calloc, then the header out of self_meta; e_shoff stays zero.
Allocate ==
    /\ InMemfdMode("alloc")
    /\ image' = [pos \in 0 .. ImageSize(rows) - 1 |->
                    IF pos < EHDR_SIZE THEN Header(pos, FALSE) ELSE Zero]
    /\ Goto("build")
    /\ UNCHANGED <<fileVars, found, rows>>

\* Variant: the table is written one entry too high.
PhdrStartOneUp(i) == Elf.phoff + i * PHDR_SIZE

PhdrStart(i) == Elf.phoff + (i - 1) * PHDR_SIZE
PhdrRange(i) == PhdrStart(i) .. PhdrStart(i) + PHDR_SIZE - 1
ContentRange(i) == IF rows[i].load THEN SegmentRange(rows[i]) ELSE {}

\* The program header of a row, and after it the row's content.
PlaceRow ==
    /\ InMemfdMode("build")
    /\ next <= Len(rows)
    /\ image' = [pos \in DOMAIN image \cup PhdrRange(next) \cup ContentRange(next) |->
                    IF pos \in ContentRange(next) THEN Byte(Elf, pos)
                    ELSE IF pos \in PhdrRange(next)
                    THEN TableCell(next, pos - PhdrStart(next))
                    ELSE image[pos]]
    /\ next' = next + 1
    /\ UNCHANGED <<fileVars, mode, rpc, handle, keys, missed, found, rows>>

\* The whole image is written into a memfd and executed, or given to ld.so.
Return ==
    /\ InMemfdMode("build")
    /\ next > Len(rows)
    /\ Goto("built")
    /\ UNCHANGED <<fileVars, imageVars>>

BuildImage ==
    \/ ReadKey \/ KeysRead \/ ScanBegins \/ ScanRow \/ ScanEnds
    \/ Allocate \/ PlaceRow \/ Return

-----------------------------------------------------------------------------
\* serialize_image of the rows that load_image reads: contents first, then the
\* header, then the program headers, each over what is there.
SerializedByte(e, pos) ==
    IF InTable(e.phoff, Len(e.phdrs), pos) THEN TableCell(1, pos - e.phoff)
    ELSE IF pos < EHDR_SIZE THEN Header(pos, FALSE)
    ELSE IF Loaded(e, pos) THEN Byte(e, pos)
    ELSE Zero

\* Variant: the size is that of the segments.
SizeWithoutTable(e) == Max({EHDR_SIZE} \cup Ends(e.phdrs))

SerializedSize(e) ==
    Max({EHDR_SIZE, e.phoff + Len(e.phdrs) * PHDR_SIZE} \cup Ends(e.phdrs))

-----------------------------------------------------------------------------
ImageTypeOK ==
    /\ found \in BOOLEAN
    /\ Len(rows) <= (IF handle = 0 THEN 0 ELSE PHNUM)

Built == rpc = "built"
Complete == rows = Segments

\* self_build_elf writes nothing outside the buffer that it has sized from the
\* rows and the header: the table may lie after the last segment.
WritesStayInImage ==
    rpc \in {"build", "built"} => DOMAIN image = 0 .. ImageSize(rows) - 1

\* What is loaded from the image is the original's: every program header, and
\* every byte of a PT_LOAD segment, though rows are placed over one another.
ImageRunsAsOriginal ==
    Built /\ Complete => \A pos \in DOMAIN image :
        Loaded(Elf, pos) \/ InTable(Elf.phoff, PHNUM, pos)
            => image[pos] = Byte(Elf, pos)

\* The loader's image and the Python twin's are the same size and differ in
\* nothing but the reference to the section header table, which the twin
\* leaves out: the C code copies the original header back with the segment at
\* offset 0, after it has written its own.
TwinsRunAlike ==
    Built /\ Complete =>
        /\ DOMAIN image = 0 .. SerializedSize(Elf) - 1
        /\ \A pos \in DOMAIN image :
              pos # EHDR_SIZE - 1 => image[pos] = SerializedByte(Elf, pos)

\* What the comment over self_build_elf says of errors ("or NULL on error"):
\* what is returned is the whole image.
NullOnError == Built => Complete
=============================================================================
