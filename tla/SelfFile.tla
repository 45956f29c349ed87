------------------------------- MODULE SelfFile -------------------------------
(***************************************************************************)
(* A .self file while it is written and opened: selfconv/elf2self.py       *)
(* replaces the output of an earlier run, the program in the file may      *)
(* write rows of its own into it, and self-exec opens it to run it.        *)
(*                                                                         *)
(* They meet only in the file, and each may stop at any point.  SQLite's   *)
(* rollback journal refuses readers while a writer commits, and the loader *)
(* sets no busy timeout.                                                   *)
(***************************************************************************)
EXTENDS Integers, Sequences

CONSTANTS
    EHDR_SIZE, PHDR_SIZE,   \* in cells, an abstraction of bytes
    Elfs,                   \* the inputs: ELF programs
    MaxConversions          \* bound: runs of elf2self over one output path

\* A program header; only PT_LOAD ones have their bytes kept.
Phdrs == [load : BOOLEAN, offset : Nat, filesz : Nat, vaddr : Nat, memsz : Nat,
          prot : SUBSET {"r", "w", "x"}]

\* Every p_offset + p_filesz of a program or shared object lies in its file,
\* and it has at least one program header.
WellFormed(e) ==
    /\ e.size \in Nat /\ e.phoff \in Nat
    /\ e.sections \in BOOLEAN /\ e.pie \in BOOLEAN /\ e.interp \in BOOLEAN
    /\ e.phdrs \in Seq(Phdrs)
    /\ Len(e.phdrs) > 0
    /\ e.phoff >= EHDR_SIZE
    /\ e.phoff + Len(e.phdrs) * PHDR_SIZE <= e.size
    /\ \A i \in 1 .. Len(e.phdrs) :
          /\ e.phdrs[i].offset + e.phdrs[i].filesz <= e.size
          /\ e.phdrs[i].filesz <= e.phdrs[i].memsz

ASSUME SizesAssumption == /\ EHDR_SIZE \in Nat \ {0}
                          /\ PHDR_SIZE \in Nat \ {0}
                          /\ MaxConversions \in Nat
ASSUME ElfsAssumption == \A e \in Elfs : WellFormed(e)

VARIABLES
    conv,       \* where the converter is
    gens,       \* every database file made at the output path: [elf, state, hot]
    path,       \* the one that is at the path now; 0 = none
    other,      \* the file into which a running program commits rows; 0 = none
    mode,       \* SELF_MODE of self-exec: "memfd" or "native"
    rpc,        \* where self-exec is
    handle,     \* the file it has opened
    keys,       \* how many keys of self_meta it has read
    next,       \* index of the next row to place
    missed      \* it has taken a statement that was refused for one without rows

fileVars == <<conv, gens, path, other>>
procVars == <<mode, rpc, handle, keys, next, missed>>

ConvStates == {"idle", "removed", "schema", "identified", "committing",
               "committed", "vacuuming"}

FileInit ==
    /\ conv = "idle"
    /\ gens = <<>>
    /\ path = 0
    /\ other = 0
    /\ mode \in {"memfd", "native"}
    /\ rpc = "start"
    /\ handle = 0
    /\ keys = 0
    /\ next = 1
    /\ missed = FALSE

-----------------------------------------------------------------------------
(* Cells.  A cell of the program header table names its row; one of the    *)
(* ELF header is either what self_meta keeps or the reference to the       *)
(* section header table, its last cell.                                    *)

Header(pos, sections) ==
    IF pos = EHDR_SIZE - 1 THEN <<"sections", IF sections THEN 1 ELSE 0>>
    ELSE <<"ehdr", pos>>

Zero == <<"zero", 0>>

InTable(phoff, n, pos) == pos \in phoff .. phoff + n * PHDR_SIZE - 1

\* Cell k of the program header of row i.
TableCell(i, k) == <<"phdr", (i - 1) * PHDR_SIZE + k>>

\* The original file.
Byte(e, pos) ==
    IF pos < EHDR_SIZE THEN Header(pos, e.sections)
    ELSE IF InTable(e.phoff, Len(e.phdrs), pos) THEN TableCell(1, pos - e.phoff)
    ELSE <<"data", pos>>

SegmentRange(p) == p.offset .. p.offset + p.filesz - 1

Ends(segments) ==
    {segments[i].offset + segments[i].filesz : i \in 1 .. Len(segments)}

\* parse_image keeps the bytes of PT_LOAD segments only.
Loaded(e, pos) ==
    \E i \in 1 .. Len(e.phdrs) : e.phdrs[i].load /\ pos \in SegmentRange(e.phdrs[i])

-----------------------------------------------------------------------------
(* elf2self: the old output goes first, DDL and application_id commit as   *)
(* they are executed, and all rows commit together at the end.             *)

Current == gens[path]

RemoveOutput ==
    /\ conv = "idle"
    /\ Len(gens) < MaxConversions
    /\ path' = 0
    /\ conv' = "removed"
    /\ UNCHANGED <<gens, other, procVars>>

CreateSchema ==
    /\ conv = "removed"
    /\ \E e \in Elfs : gens' = Append(gens, [elf |-> e, state |-> "blank", hot |-> FALSE])
    /\ path' = Len(gens')
    /\ conv' = "schema"
    /\ UNCHANGED <<other, procVars>>

SetApplicationId ==
    /\ conv = "schema"
    /\ gens' = [gens EXCEPT ![path].state = "empty"]
    /\ conv' = "identified"
    /\ UNCHANGED <<path, other, procVars>>

\* con.commit(): new readers are refused, then the last one leaves.
BeginCommit ==
    /\ conv = "identified"
    /\ conv' = "committing"
    /\ UNCHANGED <<gens, path, other, procVars>>

\* The loader holds a SELECT over segments open, row by row.
Scanning(g) == rpc \in {"scan", "map"} /\ handle = g

Commit ==
    /\ conv = "committing"
    /\ ~Scanning(path)
    /\ gens' = [gens EXCEPT ![path].state = "full"]
    /\ conv' = "committed"
    /\ UNCHANGED <<path, other, procVars>>

BeginVacuum ==
    /\ conv = "committed"
    /\ other # path
    /\ conv' = "vacuuming"
    /\ UNCHANGED <<gens, path, other, procVars>>

EndVacuum ==
    /\ conv = "vacuuming"
    /\ ~Scanning(path)
    /\ conv' = "idle"
    /\ UNCHANGED <<gens, path, other, procVars>>

\* The converter stops anywhere: killed, or an exception of LIEF or SQLite.
\* One that dies in a commit may leave a journal that has to be rolled back,
\* which a connection opened read-only cannot do.
ConverterDies ==
    /\ conv # "idle"
    /\ conv' = "idle"
    /\ \E hot \in (IF conv \in {"committing", "vacuuming"} THEN BOOLEAN ELSE {FALSE}) :
          gens' = IF hot THEN [gens EXCEPT ![path].hot = TRUE] ELSE gens
    /\ UNCHANGED <<path, other, procVars>>

\* A running program commits a row into a table of its own.
OtherBegins ==
    /\ path # 0
    /\ Current.state = "full" /\ ~Current.hot
    /\ conv \in {"idle", "committed"}
    /\ other = 0
    /\ other' = path
    /\ UNCHANGED <<conv, gens, path, procVars>>

OtherEnds ==
    /\ other # 0
    /\ ~Scanning(other)
    /\ other' = 0
    /\ UNCHANGED <<conv, gens, path, procVars>>

-----------------------------------------------------------------------------
(* self_db_open, common to both modes.  Every statement is a transaction   *)
(* of its own; one that SQLite refuses returns something that is not a row.*)

Refused(g) ==
    \/ g = path /\ conv \in {"committing", "vacuuming"}
    \/ g = other
    \/ gens[g].hot

\* self-exec dies; libself-audit.so gets NULL.
Goto(place) == rpc' = place /\ UNCHANGED <<mode, handle, keys, next, missed>>

GiveUp == Goto("null")
OpenFile ==
    /\ rpc = "start"
    /\ IF path # 0
       THEN handle' = path /\ rpc' = "open" /\ UNCHANGED <<mode, keys, next, missed>>
       ELSE GiveUp
    /\ UNCHANGED fileVars

CheckApplicationId ==
    /\ rpc = "open"
    /\ IF ~Refused(handle) /\ gens[handle].state # "blank" THEN Goto("meta") ELSE GiveUp
    /\ UNCHANGED fileVars

Elf == gens[handle].elf
PHNUM == Len(Elf.phdrs)
Filled == gens[handle].state = "full"

\* SELECT value FROM self_meta WHERE key=?: found, or not, or refused.
KeyThere == ~Refused(handle) /\ Filled

\* The loop over the rows of a SELECT ends on anything but a row.
Select(started, ended) ==
    /\ rpc' = IF Refused(handle) THEN ended ELSE started
    /\ missed' = (missed \/ Refused(handle))
    /\ UNCHANGED <<mode, handle, keys, next>>

Writers ==
    \/ RemoveOutput \/ CreateSchema \/ SetApplicationId \/ BeginCommit \/ Commit
    \/ BeginVacuum \/ EndVacuum \/ ConverterDies \/ OtherBegins \/ OtherEnds

-----------------------------------------------------------------------------
FileTypeOK ==
    /\ conv \in ConvStates
    /\ gens \in Seq([elf : Elfs, state : {"blank", "empty", "full"}, hot : BOOLEAN])
    /\ path \in 0 .. Len(gens)
    /\ other \in 0 .. Len(gens)
    /\ mode \in {"memfd", "native"}
    /\ handle \in 0 .. Len(gens)
    /\ missed \in BOOLEAN
=============================================================================
