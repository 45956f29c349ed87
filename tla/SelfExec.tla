------------------------------- MODULE SelfExec -------------------------------
(***************************************************************************)
(* self-exec, in its memfd and its native mode, over a .self file that a   *)
(* converter and a running program write at the same time.                 *)
(***************************************************************************)
EXTENDS SelfImage, NativeMap

vars == <<fileVars, procVars, imageVars, nativeVars>>

Init == FileInit /\ ImageInit /\ NativeInit

\* main: the mode is looked at only after the file has been opened.
Start == OpenFile \/ CheckApplicationId

\* The program runs, or self-exec has died.
Over == rpc \in {"built", "entered", "null"}
Rest == Over /\ UNCHANGED vars

Next ==
    \/ (Writers \/ Start) /\ UNCHANGED <<imageVars, nativeVars>>
    \/ BuildImage /\ UNCHANGED nativeVars
    \/ MapProgram /\ UNCHANGED imageVars
    \/ Rest

Spec == Init /\ [][Next]_vars

-----------------------------------------------------------------------------
Places == {"start", "open", "meta", "null",
           "query", "scan", "alloc", "build", "built",
           "bounds", "reserve", "loads", "map", "tail", "interp", "ldso", "stack", "entered"}

\* Every variable stays within the values the code can give it.
TypeOK ==
    /\ FileTypeOK
    /\ ImageTypeOK
    /\ NativeTypeOK
    /\ rpc \in Places
    /\ keys \in 0 .. Max({META_KEYS, 6})
    /\ next \in 1 .. (IF mode = "memfd" THEN Len(rows) ELSE IF handle = 0 THEN 0 ELSE Len(Loads)) + 1

Running == Built \/ Entered

\* A conversion that was interrupted never runs: a program is started only from
\* a file whose rows have all been committed, whenever self-exec came.
InterruptedConversionNeverRuns ==
    Running => gens[handle].state = "full"

\* A program has all its segments or none: a writer, a new conversion or a dead
\* one cannot take away the rows that come after those already read.
ImageIsNeverPartial ==
    /\ Built => rows = <<>> \/ Complete
    /\ Entered => next = 1 \/ AllMapped

\* When SQLite has refused none of its statements, self-exec starts a whole
\* program: all segments, in the room reserved for them, through the interpreter
\* that it names.  (It cannot tell otherwise: it takes a refusal for the end of
\* the rows.)
UndisturbedRunIsWhole ==
    ~missed => /\ Built => Complete
               /\ Entered => AllMapped /\ ld = Elf.interp /\ bounds = LoadBounds
=============================================================================
