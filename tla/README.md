# A TLA+ model of selfdb

selfdb turns an ELF program into a SQLite database that still runs: `elf2self`
writes the program's segments, symbols and relocations into tables, a family of
loaders turns the tables back into a process, and the example web server is
such a file, serving its pages out of its own executable and writing its visit
log into it.

The modules here model the parts of that with behaviour that is hard to test:
several processes, files shared by all of them, signals, crashes, programs that
are put together from rows in an order that matters, and address arithmetic.
TLC checks them on small instances; TLAPS proves the main invariants, and one
refinement, for every value of the constants.

Run a model with `tlc -config PreforkPool.cfg MCPreforkPool`, a proof with
`tlapm PreforkPoolProofs.tla`.

## 1. Inventory

| Component | Source | State | Operations |
|---|---|---|---|
| Process pool | `examples/server/server.c` `main`, `worker_loop`, `on_terminate` | `workers[]`, `g_stopping` in each process, the kernel's process table and backlog | fork loop, wait and respawn, kill and reap; accept loop; signal handler |
| Request handlers | `examples/server/server.c` `serve_connection`, `handle`, `serve_route`, `serve_stats`, `serve_tables`, `serve_press`, `record_visit` | the open statement of each worker, the response under way; the database | read, log the visit, dispatch, look up, render, send |
| Start-up and journal mode | `examples/server/server.c` `main`, `apply_journal_mode`, `check_site`, `listen_on`, `db_open` | the journal mode in the file's header, the files beside it, every process's connection | set the mode, check the site, bind, connect, close |
| Eager dynamic loader | `loader/selfld.c` | `libs[]`, the export list `g_syms`, the slots relocated so far | map the program, its `needed` rows and the `preload` rows; relocate all; enter |
| Image reconstruction | `loader/image.c`, `loader/self-exec.c` | the open database, the rows read, the image buffer | open, read the header keys, read the segments, build, execute |
| Native loader | `loader/native.c` | the bounds, the bias, the memory map of the process, the stack | two passes over the segments, reserve, map, map the interpreter, build the stack, enter |
| Converter | `selfconv/elf2self.py`, `elfimage.py`, `self2elf.py` | the output file | remove, create the schema, fill, commit, vacuum; read back, serialize |
| Audit library, resolver | `loader/audit.c`, `selfconv/__main__.py` | the resolver database, one search of `ld.so` | scan the tree; open the database, look a soname up, materialize |
| Closure packer | `selfconv/closure.py` | the tables `objects` and `needs`, the lists it works off | add a root, run `ldd`, add dependencies with their edges, commit |
| Schema | `schema/self.sql`, `selfconv/schema.py` | none | declarations |
| Scripts, packaging, tests | `examples/server/*.sh`, `nix`, `bench`, `tests` | none | sequential |

How they interact:

- `main` and its workers share no memory after `fork`. They meet in signals, in
  exit statuses and in the listening socket's queue.
- The workers share the executable as a database. Each has one connection; the
  only coordination is SQLite's locks. Another instance on the same executable
  shares its journal mode as well.
- The converter, a running program and `self-exec` share the same file. Every
  statement of `image.c` and `native.c` is a transaction of its own.
- `selfld` reads the program's database and a resolver database, which `self
  scan` may be writing, and hands over control once.
- `self scan` writes the resolver database that `libself-audit.so` reads inside
  every process `ld.so` starts; both look at a tree that others change. `self
  closure` reads the same tree through `ldd`.

What is hard, and what makes each component correct:

- *Pool.* A signal may come between any two instructions, a worker may die at
  any time, and the kernel reuses pids. The pool must never signal a stranger,
  lose a child, leave one running, or fail to replace one.
- *Handlers.* Every SQL statement can be overtaken by other workers' commits,
  and a response is sent at the client's pace while a statement may still be
  open. An answer must describe one state of the database, a press must be
  acknowledged exactly when it is stored, and one client must not spoil
  another's answer.
- *Start-up.* The mode is set and verified on one connection, and used by others
  opened later; a second instance, or a process killed in the middle, may come
  between. A server must serve in its mode, and the executable must stay one
  file when nobody uses it.
- *selfld.* Relocation binds against a table that grows while objects are
  mapped. No use may be bound before the last export is known, every object must
  be relocated before entry, and a preload must interpose on everything: seen
  from the program, linking is one step or nothing. Its loops over rows do not
  tell a refused statement from the last row.
- *self-exec and converter.* `self-exec` may open the file at any moment of a
  conversion, or while the program it holds commits to it; header, program
  headers and contents overlap in the image, and in native mode segments are
  mapped with `MAP_FIXED` into the loader's own address space. What runs must be
  the whole original or nothing.
- *Resolver and closure.* Rows describe files that are replaced, removed or
  half converted; paths are met several times and in any order. A search must
  end with the object it asked for, and a pack must hold the union of its
  roots' closures with each edge as its own object sees it.

## 2. Modules

| Module | Models |
|---|---|
| `PreforkPool` | the process pool with the kernel's processes, pids, signals and backlog |
| `PreforkPoolProofs` | its type correctness and safety invariants, proved |
| `SqliteFile` | the contract of SQLite's locks, snapshots and commits (external code) |
| `HttpdHandlers` | the request handlers of several workers; composes with `SqliteFile` |
| `HttpdHandlersProofs` | its type correctness and six safety invariants, proved |
| `StartUp` | `main` and `worker_loop` of several instances over one file's journal mode, connections and side files |
| `StartUpProofs` | its type correctness and both safety invariants, proved |
| `EagerLinking` | abstract: a program is linked in one step, or never runs |
| `SelfLd` | mapping, publishing, preloading and relocation in `selfld.c`; implements `EagerLinking` |
| `SelfLdProofs` | its safety properties and the refinement, proved |
| `SelfFile` | a `.self` file at its path: the converter, a program that writes to it, and the common start of `self-exec` |
| `SelfImage` | `image.c` and memfd mode; the Python serializer as a reference |
| `NativeMap` | `native.c` |
| `SelfExec` | composes the three: `self-exec` in either mode against the writers |
| `SelfExecProofs` | its safety invariants over the file and the image, proved |
| `NativeMapProofs` | its type correctness and what concerns native mode's memory, proved; extends `SelfExecProofs` |
| `FileTree` | the programs and libraries on disk, and those who change them |
| `Resolver` | `self scan`, and `audit.c`'s searches |
| `ClosurePack` | `self closure`, with `ldd` as it uses it |
| `Objects` | composes the three: one of the two tools over a tree that changes |
| `ObjectsProofs` | type correctness, the resolver's answers, and the rows and edges of a pack, proved |
| `MC...` | the instances TLC checks (`StartUp` needs none) |

Variant operators, marked as such in the modules, are wrong forms of the
definition that follows them; every property is known to fail under one.

### PreforkPool

`ppc` is `main`'s place, `wpc[p]` a worker's in `worker_loop`, `workers` is
`workers[]`, `gone` the result of `wait()`. `proc` is the kernel's view of a pid:
free, a live child, a zombie, or a process that has nothing to do with the
server. `stopping[p]` is each process's copy of `g_stopping` and `pending` the
SIGTERMs sent and not yet handled.

Each statement that can be interrupted or that another process can observe is an
action. A call that may block is two places, "about to call" (`toAccept`,
`toWait`) and "blocked in the kernel" (`accept`, `waiting`), because a signal
makes only the second return `EINTR`. `fork()` may fail, and its -1 lands in
`workers[]` as it does in the code. `ForeignStarts` gives a reaped pid to a
stranger.

Abstracted: what a worker does for one connection (`serve`), start-up (it
succeeds or refuses), the length of the sleep.

### SqliteFile and HttpdHandlers

`SqliteFile` is the part of SQLite the server relies on. `commits` is the
sequence of all committed states; an open read has the index of the one it sees
in `snap`. In rollback mode a committing writer holds PENDING: it waits for the
readers and keeps new ones out. In WAL mode it waits for nobody.

`HttpdHandlers` has one action per call into SQLite and per wait for the client,
with both outcomes: done, or `SQLITE_BUSY` after the busy timeout. `render`,
`serve_stats` and `serve_tables` read one value per step, so commits of other
workers fall between. `serve_route` keeps its statement open during `send`, and
`serve_tables` during its list, as in the code; the other handlers do not.
`EditSite` is the operator of the README's "Editing a running site".

The timeout is not a clock. Statements take far less than `BUSY_TIMEOUT_MS`, so
one can expire only while some worker keeps a transaction open for a client and
every other worker is blocked or waits for a client too (`BusyExpires`). All
timeouts are equally long, so a statement does not outwait one that was blocked
before it; `overdue` keeps that order.

### StartUp

`at[i]` is where `main` of instance `i` is, from the command line to its exit.
`conn[i][p]` is the connection of one of its processes (0 is `main`), `header`
the mode in the file, `sidecars` the files beside it, `writer` whoever is inside a
write transaction with a rollback journal. SQLite's part is a handful of operators.
`Statement`: a connection follows the header and, in WAL, joins and creates `-wal`.
`BeginTransaction` creates `-journal` and `EndTransaction` ends what it protects;
between them everybody else may read. `Close`: the last one that has joined removes
`-wal`. `BeginSwitch`, `EndSwitch` and `SwitchRefused`: a change of the mode is a
write transaction of its own, and while it runs nobody else reads. Leaving WAL needs
every other joined connection gone. Entering it needs a moment in which no other
connection holds a lock; idle ones hold none between statements, so it may succeed
beside them. A refusal leaves the mode as it was, which is what `apply_journal_mode`
looks at.

Workers write in both modes. In WAL a write is a `Statement`; in delete mode it is
`WorkerBeginsWrite` and `WorkerEndsWrite`, so that the journal of the one is seen by
the other processes' steps.

`Killed` takes any process at any time. A worker killed in a transaction leaves its
journal; the last user of a WAL leaves it behind. The next statement recovers.
`overruled` and `unclean` are history the properties need for their exceptions.

Pool and handlers have modules of their own; here a worker is its connection.

### SelfLd and EagerLinking

`loaded` lists the objects mapped, the program first, then `libs[]`; the first
`direct` of them are the program and its needed libraries. `owner[s]` is what
`export_find(s)` would return: the list `g_syms` grows at its head and is searched
from there, so it is the last object to publish `s`. `bound` collects the
relocations done. `input` is what the databases say, chosen at the start. Load
addresses and `R_RELATIVE` slots are left out: an address is an object and a symbol.

Any statement may be refused, as by `SQLITE_BUSY` while another process commits:
`selfld.c` sets no busy timeout, and each of its loops takes a refusal for the end
of the rows. `cut` records which were, each with the object whose database it reads.
What a refusal does depends on the statement:

- `needed` (271) or `preload` (298, 300): the table ends early (`EndOfRows`);
- exports (135): any part of them is published (`MapObject`);
- segments (102): the object has holes, into which a relocation may write
  (`CannotRelocate`);
- bounds (84): the reservation is too small, and `MAP_FIXED` may cover what is not
  the object's (`OverrunSpan`);
- entry point (78): the object is mapped, and if it is the program, entering it
  ends in a fault;
- relocations (152): any part of the slots is filled (`Relocate`);
- the header row or the path of a library: single rows, without which the loader
  dies (`CannotMap`).

The step past the end of `libs[32]` is there too (`OverrunLibs`). What follows an
overrun is undefined and not modelled.

`EagerLinking` is what the program may rely on. `Link` takes it from nothing to
running with its whole closure, every use bound to the last exporter in it. `Fail`
leaves it at nothing. `LinkInPart` is what remains once a statement was refused: the
first rows of each table, and some bindings to exporters, on which all users agree.
`SelfLd` implements it (`LinksInOneStep`): the closure and the bindings count as
such only once the program is entered, so the step of `Relocate` that is the last
one is `Link` or `LinkInPart`, each error exit is `Fail`, the first refusal is
`Refuse`, and all others stutter.

### SelfFile, SelfImage, NativeMap, SelfExec

`SelfFile` has three parties at one path. The converter goes from `RemoveOutput`
to `EndVacuum`, or dies at any point (`ConverterDies`), possibly with a hot
journal. A running program commits rows of its own (`OtherBegins`, `OtherEnds`).
`self-exec` opens the file and checks `application_id`. `gens` holds every file
ever made there and `path` the one that is there now; an open handle keeps an old
one. A statement is refused while somebody commits (`Refused`), and the loops of
both loaders take a refusal for the end of the rows (`Select`, `missed`).

A cell says where its content comes from, so that a byte that is overwritten is
visible: header cells, cells of the program header table named by their row, data
by its offset, zero. Byte arithmetic is on cells; header and table entries are
one or two cells.

`SelfImage` goes statement by statement. `PlaceRow` writes a program header and
then the contents of its row over what is there, as `self_build_elf` does;
`SerializedByte` is what `serialize_image` leaves, whose order is different.

`NativeMap` has addresses modulo `SPACE`, as `uintptr_t` has them, so a bias may
wrap. `mem` maps pages to their owner, protection and cells; what `MAP_FIXED`
covers it replaces (`MapFixed`), the loader's own pages (`HostPages`) included;
since what the loader does after that is undefined, it may then also stop.
`PagesOf` is the rounding of `map_segment`, `LoadBounds` what the first pass comes
to when no statement is refused. `ReserveSpan`
and `MapInterp` leave to the kernel which free pages it picks. `BuildStack`
keeps the arithmetic of `build_stack` at its real width, with arguments up to
what `execve` allows; `ld.so` and the stack are one page each in `mem`.

Left out: symbols, relocations, sections and notes, which come from LIEF and play
no part in running; the bytes inside `ld.so`; `main`'s `execveat`, which is the
end of memfd mode.

### FileTree, Resolver, ClosurePack, Objects

`FileTree` is a function from paths to files; `Change` installs another version
at a path or removes it. A `half` file is a `.self` that `elf2self` has not
committed.

`Resolver` is `cmd_scan` as one transaction with its walk, one `Sniff` per entry
and a commit that may die, and one search as `ld.so` makes it through
`la_version` and `la_objsearch`: the row found, then the file rebuilt into a memfd
(`Resolve`) or the path opened by `ld.so` (`OpenPath`). A statement on the `.self`
itself may be refused: `self_materialize_memfd` then fails, and the search is left
to `ld.so`, or it makes a header without segments, which `ld.so` rejects as it
rejects an object for another machine (`Opened`). `LIMIT 1` is a choice.
`synced` and `lookup.fresh` record that nothing has changed since the scan.

`ClosurePack` is `build_closure` over a list of roots. `LddMap` is `ldd`,
external: breadth first, each soname once, each searched along the RUNPATH of
whoever needs it first. `InsertObject` is the whole of `_insert_object` without
the copies of segments and symbols: the promotion of a library to a root, the
row, and one edge per need, resolved by the object's own `ldd`.

The two tools share the tree and nothing else, so a behaviour of `Objects` runs
one of them.

## 3. Runs

All runs keep deadlock checking on. A finished process stutters through an
action of its own (`Stopped`, `Quiet`, `Over`, `Rest`); `StartUp` and the resolver
never end.

| Run | Instance | What it shows |
|---|---|---|
| `pool` | 2 slots, 3 pids, 1 stranger at a time, 2 mishaps, 2 failing forks (with both, the server is left without children), SIGTERM at every step | Nothing but own workers is signalled (`KillsOnlyOwnWorkers`); each child has one slot (`EveryChildHasOneSlot`); before the last wait every worker knows (`EveryWorkerIsTold`); `main` returns last (`NoWorkerOutlivesServer`) |
| `pool_live` | 2 slots, 2 pids, fair | Dead workers are replaced, a full backlog is relieved, SIGTERM stops the server, with the exceptions the properties name |
| `pool_hang` | as above, no mishaps | *violated*: SIGTERM stops the server |
| `handlers` | 2 workers, 2 requests of all 8 kinds, 1 edit, both journal modes, fair | No lock is held while waiting for a client, except in `send`; presses are answered truthfully; in WAL mode numbers are fresh and a slow client is isolated; pages and table lists are one snapshot; every request is answered |
| `handlers_slow` | 3 workers, rollback journal | *violated*: a slow client occupies one worker |
| `selfld` | 4 objects, 2 symbols, 1920 programs (exports, 5 needed tables, 3 preload tables, 2 resolvers), up to 2 refused statements, fair | Entered programs are bound, but for objects whose relocations were refused; symbols have one meaning; preloads that were read interpose; the closure is whole, or the first rows of a refused table; the loader implements `EagerLinking`; loading ends |
| `selfld_scope` | as above, no refusals | *violated*: binding follows breadth-first scope order |
| `exec` | 6 ELF layouts, 2 conversions, both modes, 6 free pages and 1 of the loader, 3 sets of arguments | Writes stay in the buffer and in the reservation; an interrupted conversion never runs; a program has all segments or none; what runs, in either mode, is the original; the Python twin agrees but for `e_shoff`; without a refusal the run is whole; the stack is well formed |
| `image_busy` | as above | *violated*: an error gives `NULL` |
| `objects` | 9 paths in three trees, 3 sonames with 2 providers of two of them, every list of up to 3 of 4 roots and two lists with a plugin, 2 changes of the tree | A search over a tree that has not changed since the scan ends with the right object; a pack is the union of its closures in any order of roots; edges keep their provider |
| `startup` | 2 instances, 2 ports, 2 workers each, both modes, 2 kills | The executable is one file when nobody uses it and, in delete mode, outside write transactions; a server serves in its mode, with the exceptions the property names |
| `startup_refused` | as above | *violated*: a mode change is refused while another instance is running |

Why the bounds are enough:

- *pool*: the interesting conflicts are between one slot and the others and
  between one dead pid and its new holder. Two slots and three pids have both:
  one worker alive, one dead, and a pid that is free to be reused before the
  refill. Pids are interchangeable in the safety run, which uses symmetry; the
  liveness runs do not. The proofs cover every number of slots and pids.
- *handlers*: what a worker may be told by the file depends on who else holds a
  lock on it, and two workers and an operator are the three parties of a conflict:
  one that sends with its statement open, one that commits and one that reads.
  One request each is enough, since a finished request leaves nothing in its worker.
  The rollback-mode conflict of `handlers_slow` has three workers, interchangeable;
  no liveness is checked under that symmetry. The proofs cover every number of
  workers.
- *selfld*: two symbols show different owners, two libraries and two preloads
  show order, repeats (`a`, `a`), a missing row and, with `LIBS_MAX` = 3, the
  full array. Two refusals (`MaxRefusals`) show one statement that hides the effect
  of another, such as exports that were not read and the relocation that would have
  missed them. The proofs cover any number.
- *exec*: the layouts are an ordinary program (headers inside the first
  segment), one at fixed addresses with its table moved behind the last segment,
  one whose headers are in no segment and whose first segment starts inside a
  page, one with two segments on a page, one with a second segment that holds the
  beginning of the program header table and not its end, and one at fixed addresses
  where `self-exec` is. Two conversions give a handle to an
  old file beside a new one at the same path. Six free pages let the kernel place
  a reservation of two or three in several ways and can also run out. The
  arguments are a few, all of `ARG_MAX` as strings, and all of it as pointers to
  empty strings, which takes the most stack.
- *objects*: two programs that mean different files by one soname, and a library
  whose own RUNPATH disagrees with theirs, are what it takes for edges to differ.
  Three roots show a repeat and a library named before and after a program that
  needs it; a wrapper script is a root with no object. A library may become its own
  `.self`, half a one, either for another machine, or a script. In the tree of the
  plugin an edge names a file that the program's own closure does not hold. Two
  changes replace a file and remove one. The proofs cover every tree.
- *startup*: two instances disagree on one mode, two ports let both serve, two
  workers let one stay when the other goes, or read while the other writes. The proofs cover every number.

Fairness. `PreforkPool` assumes the kernel runs every runnable process and
delivers every signal: weak fairness of `main`, of each worker and of each
delivery. A worker's request ends because its reads and writes have
`SO_RCVTIMEO` and `SO_SNDTIMEO` and its statements a busy timeout.
`HttpdHandlers` assumes weak fairness of each worker for the same reason.
`SelfLd` is a sequential program that keeps running. Nothing is assumed of
clients, operators, crashes, failing forks or signals. The other modules state no
liveness.

## 4. Findings

Each is a run that TLC ends with a counterexample.

1. `pool_hang`: `SIGTERM` is never blocked between the test of `g_stopping` and
   `accept()` (`server.c:660-661`) or `wait()` (`839-841`). A signal in between
   is lost to the call, and the worker stays until the next connection comes.
   The comment at `server.c:680` says SIGTERM must interrupt `accept()`.
2. `handlers_slow`: with the default rollback journal a client that does not
   read its page, together with one visit to be logged, makes another client's
   page a 404 after the busy timeout (`server.c:569-584`); the server's README
   says one slow client occupies one worker. In WAL mode it is so, as
   `handlers` shows.
3. `selfld_scope`: the last definition mapped wins (`selfld.c:54`), where
   `DESIGN.md:333` describes breadth-first scope order, the first wins.
4. `image_busy`: `image.c:110` does not tell `SQLITE_BUSY` from the end of the
   rows; a commit by the running program makes an image without segments where
   the comment at `73` promises `NULL`.
5. `startup_refused`: `examples/server/README.md:148-149` says "A mode change is
   therefore refused (loudly) if another instance is running". A second instance
   with `--journal wal` switches the file under one that is connected and serves
   with `--journal delete` (`server.c:203`): idle connections hold no lock. Only
   the other direction, out of WAL, is refused.

Other cases in which the code departs from what one would like are not runs of
their own but exceptions that a property names; without the exception TLC finds
it violated:

| Property | Exception |
|---|---|
| `DeadWorkerIsReplaced` | a `fork()` that fails in the respawn loop leaves -1 in the slot for good (`server.c:856`), although the comment at `837` says a worker that dies is replaced |
| `TwinsRunAlike` | `e_shoff`: `image.c` places contents over the header and `serialize_image` the header over contents, though the comment at `image.c:74` says the layouts are identical |
| `NativeRunsAsOriginal` | two segments on one page: `map_segment` maps fresh zeroed pages over those of the first; and of `AT_PHDR`, a segment that holds the beginning of the program header table and not the rest (`native.c:162`) |
| `ReservationHolds` | a first pass that is refused reserves one page for no segments, and the second pass maps over whatever comes after it; and a program linked where `self-exec` is, for which nothing is reserved |
| `UndisturbedRunIsWhole` | a refused statement: a dynamic program is entered without `ld.so`, or without segments |
| `EnteredFullyBound` | an object whose relocations were refused (`selfld.c:152`): it is entered with slots that were never filled |
| `ClosureIsComplete` | a refused `needed` table gives its first rows only (`selfld.c:271`) and so does `preload`: a prepare (`298`) or a step (`300`) that is refused, as while `self scan` commits to the resolver database, passes for no table or its end. The program then runs without an interposer that is enabled, although the comment at `selfld.c:291-295` says any object in the table is mapped, and knows two reasons for none: no such table, no resolver database |
| `PreloadInterposes` | a preload whose row, for that reason, or whose exports (`selfld.c:135`) were not read does not interpose |
| `LinksInOneStep` | after any refusal a program may be linked in part (`LinkInPart`) |
| `ServesInItsMode` | another instance may change the mode of a server in delete mode at any time, also when it then fails on the port, although `examples/server/README.md:148-149` says it is refused (finding 5); and that of one in WAL mode between its verified switch and its next connection |
| `OneFileAtRest` | the last user was killed, until the next one comes; and in delete mode the length of a write transaction, as `server.c:61-63` and `examples/server/README.md:128-129` say |
| `AnswerIsRight` | a row whose file is gone or no object any more, which no scan removes; a row for another machine, which the `SELECT` does not tell apart; a `.self` of which a statement was refused. Of a resolver database that cannot be read (a scan is in its commit, or has died there) the property says nothing |
| `EdgesKeepTheirProvider` | the provider may have no row, though `closure.py:34` declares a foreign key; but only when each program that brings the object in has loaded another one, or none |

## 5. Proofs

Checked by `tlapm`, with no step left out: every type and safety invariant of the
passing runs, and the refinement of `EagerLinking`. The proofs use the named
assumptions on the constants only:

- pool and start-up: at least one slot, the special values are no pids or
  connections, the bounds are numbers;
- handlers: one connection for each worker; the journal is one of the two modes;
- `SelfLd`: the databases have the shape of the schema, the bounds are numbers;
- `SelfExec`: the inputs are well-formed ELF files, sizes are positive, arguments
  are within `ARG_MAX`; pages divide the address space, and a program is linked at
  least a page below its end (`LayoutAssumption`), as every 64-bit program is;
- `Objects`: trees are made of paths, the versions of each path and finitely many
  sonames, the mark for "nothing" is none of those, and the lists of roots are made
  of paths.

*PreforkPoolProofs.* `TypeCorrect` is inductive alone. None of the four safety
invariants is: whether the kill loop signals a stranger depends on what every
earlier `wait()` and `fork()` left in `workers[]`. `PoolInv` says that at each
place of `main`:

- no pid is in two slots, and every unreaped child is in one;
- a pid in a slot is an unreaped child, except between `wait()` and the refill,
  when exactly the slot of `gone` is stale; at that place nothing is signalled,
  and the refill comes before the next test of `g_stopping`;
- during the kill loop the workers in the slots passed have been told, and after
  it, since every child has a slot, all have;
- slots not yet filled by the fork loop are empty;
- at the end there is no child.

The steps are grouped in lemmas: those that fork, those that wait, those of the
shutdown, and those that leave slots and children alone. `KillsOnlyOwn`,
`OneSlotPerChild`, `AllWorkersTold` and `ServerExitsLast` follow.

*SelfLdProofs.* `LoaderInv` says what makes eager binding correct, with any
statement refused: while objects are mapped nothing is bound; every name in the
export table belongs to an object that exports it, and no later object of which all
exports were read has it; while objects are relocated the table does not change,
every binding is to the current owner, and the objects before `turn` are fully
bound unless their own relocations were refused; and the objects mapped so far are
the program, a prefix of `needed`, a prefix of `preload`, in that order, each the
whole table once its loop has ended without a refusal. `MapKeepsExports` is the
lemma about one more object. `SymbolsHaveOneMeaning`, `EntersFullyBound`,
`PreloadsInterpose` and `EntersWholeClosure` follow for any number of objects,
symbols, rows and refusals. `LoaderLinks` is the refinement: initial states map to
initial states, and of the steps only the one that enters, those that fail and the
first refusal change the abstract state. Its core is that without a refusal the
bindings an entered program has are not only among `LinksOf(closure)` but all of
them.

*StartUpProofs.* Neither property is inductive. `StartUpInv` adds: at which
places of `main` it has a connection, and that there are no workers before the
port is taken (`ConnectionsInv`); that the header is WAL as long as anybody is
joined, which is why nobody can leave it then (`WalInv`); that whoever is inside a
write transaction is connected and its journal is there, that a switch is such a
transaction, and that one out of WAL is alone in it (`WriterInv`); that side files
belong to somebody joined or to a transaction, or somebody was killed
(`SidecarsInv`); and that from the verified switch on the header is the mode asked
for unless somebody else has changed it, which after the next connection of a WAL
server nobody can (`ModeInv`). `OneFile` and `KeepsMode` follow.

*SelfExecProofs.* `ProgramInv` relates what `self-exec` has in memory to a file
that others replace and write to: the generation it has open keeps its program
and, once its rows are committed, keeps them (`Kept`, over every step of the
writers); a key that was found proves that they are; the rows read so far are the
first ones of the program, and past the scan all or none (`MemfdInv`,
`NativeInv`); and the image, whatever is written over whatever, holds the
original's cell wherever something has been written, and what was cleared
elsewhere (`ImageInv`). That last one needs the buffer to hold the table and every
segment (`SizeCoversAll`, over the library's definition of a maximum) and a
program header to land where the original has it (`TableIsOriginal`). For the
final image `WholeImage` turns "written" into "in the table or in a load
segment", and `LoadsWhatWasConverted` and `TwinsAgree` follow. `VectorFits` is
arithmetic over all arguments that `execve` admits.

*HttpdHandlersProofs.* None of the six safety invariants is inductive. `HandlersInv` says of every
worker, at each place of its handler: which locks it holds (`LockInv`); which
request can have brought it there and how it may be answered (`RequestInv`); that
what it has read so far is what the commit of its snapshot holds (`ReadInv`); and
in WAL mode that the numbers it has read lie between those of the commit at which
the request came and those of now, and that it has met no refusal (`WalInv`).
Beside it, that no counter of the database ever falls (`Ordered`). A step of one
worker touches another only by appending to `commits`, which `BystanderKeeps`
shows harmless; so there is one lemma per action about the worker that takes it.
Which of the two modes it is matters in one lemma: in WAL mode nobody holds
PENDING and so nothing is refused (`NoBusyInWal`). `NoLockWaits`,
`PressAnswersAreTrue`, `CountsIncludeOwnPress`, `FreshStats`,
`SlowClientIsIsolated` and `PagesAreOneSnapshot` follow, for any number of workers,
requests and edits.

*NativeMapProofs.* It adds to `ProgramInv` what concerns memory. `BoundsInv`: the
bounds are those of the program, or none. `RoomInv`: what is mapped for the program
lies between them, and not over the loader. `SegmentsInv`: each segment mapped so
far has left its page images, if it shares no page. `TableInv`: `AT_PHDR` comes
from a segment that holds the first cell of the table. `WholeInv`: what is complete
at each place, as long as no statement has been refused. `ExecTypes`: the types of
the rest.

Their core is arithmetic modulo the address space, since `bias = base - lo` wraps
whenever a program is linked above the place it gets. `RunIsShift` and `RunHome` say
that a segment's pages are nevertheless those it was linked at, all moved by one
number; from that, that all of them are within the reservation (`ReserveHolds`) and
that two segments meet only if they were linked to (`RunsApart`). What an entered
program then finds at its addresses is `SegmentContent` and `TableContent`.
`ReservationIsKept`, `NativeModeRunsTheProgram`, `UndisturbedRunsAreWhole` and
`ExecTypeCorrect` follow, for every size of pages and of the address space, every
set of free pages, and every well-formed program.

*ObjectsProofs.* `ResolverInv` says that what a scan has written so far agrees with
the tree as long as the tree stood still (`ScanInv`, with `Indexed` for what it has
looked at), and carries that from the row of a search to its answer (`LookupInv`): a
row that is being read makes the next commit wait. `OpenedKeeps` is the step to
`ld.so`, for a path and for a memfd. `AnswersAreRight` follows.
`ClosureInv` says at each point of the packer that its rows are exactly those of the
roots it has done and of the part it has listed of the one it is at (`Expected`, over
the queue in `QueueInv`), each of the kind it should have. `PacksAreUnions` and
`EdgesKeepTheirs` follow. Of `LddMap` these use nothing but that it is a function of
the tree, so both hold whatever order `ldd` searches in. `ObjectsTypeCorrect`, on the
other hand, needs what `ldd` finds to be files of the tree. `Walked` and `AddNeeds`
are recursive functions over bounded numbers; that there are such functions
(`StepsExist`) and what they stay within (`StepsStay`) is shown by looking at the
least step that fails, which serves where an induction theorem cannot be
instantiated.

*What the proofs have corrected.* Statements that had passed on smaller instances
could not be proved because they were false in general, or too weak to rest others
on; each has its case in an instance now.

- `AnswerIsRight` did not allow for a file that has become a script.
- `EdgesKeepTheirProvider` did not say when a provider may have no row (the tree of
  the plugin).
- `NativeRunsAsOriginal` did not require of a segment with the beginning of the
  table that it holds the rest (layout `Split`).
- `ReservationHolds` did not name programs linked where `self-exec` is (layout
  `AtLoader`).
- `UndisturbedRunIsWhole` did not say that the bounds are those of all segments,
  without which a whole run could still lack its reservation.

*Only model-checked.* Liveness (`DeadWorkerIsReplaced`, `BacklogIsRelieved`, `StopsUnlessWakeupLost`,
`EveryRequestIsAnswered`, `LoadingEnds`): the prover has no rule for fairness here.

## 6. Not modelled

- *Schema*: declarations; tables are the records of the modules that read them.
- *What the converter and the packer copy* of symbols, relocations, sections and
  notes: it comes from LIEF, row by row, and nothing depends on the order.
- *Stack and auxiliary vector of `selfld.c`*, the contents of the auxiliary
  vector in `native.c`, and the bytes of `ld.so`'s mapping: layout only.
- *Printing commands* (`self info`, `self q`), *parsing of HTTP, formatting of
  JSON and HTML*: by their outcomes, where something depends on them.
- *Statements that do not compile and allocations that fail*, in `server.c`
  (each handler answers 500 or skips the insert) and `image.c` (`NULL`), where no
  property depends on them.
- *Build, deployment, packaging, benchmarks, tests*: sequential scripts.

## 7. Plan

Done, in order of importance: the pool, the handlers over the shared file, the
dynamic loader and its abstract specification, `self-exec` in both modes against
the converter, start-up and journal mode, the resolver database and the closure
packer; proofs for all of them.

Next:

1. `SiteService`: what a client may observe of a site in WAL mode, each request
   one atomic step, refined by `HttpdHandlers`, with its proof on top of
   `HandlersInv`.
2. The stack `selfld.c` builds (1 MiB against what `execve` admits), the last of
   the hazards without a property that a model would reach.
