# TLA+ models of imsh

imsh (`src/src`) is an image-processing shell: an embedded Scheme interpreter,
SIOD (`src/src/siod`), extended in `src/src/imsh.c` with bitmaps as a cell type
and with the `img_*` filters. This directory models both halves: the interpreter (store,
collectors, errors, interrupts, symbols, evaluator, reader, printer, files,
primitives, and the command that runs it) and the image filters with the
wrappers that call them from Lisp.

The program has one thread. What makes it hard is re-entrance: any allocation
may run a collection, a collection may run an arbitrary Lisp expression
(`*after-gc*`), any primitive may leave through `longjmp`, and SIGINT may do the
same between any two steps. Three modules take those interleavings apart: `Storage` the
allocations that nest through `*after-gc*`, `Control` errors, throws, critical sections and
SIGINT, `Obarray` the calls of `gen_intern` inside each other. SIGINT is in `Control` only:
to the store an interrupt is one more `longjmp`, between two allocations. The others take a whole call, or a whole form typed
at the prompt, as one step, because nothing they model can be seen half done; their
difficulty is in long sequences of such steps.

## 1. The parts of the system

| part | state | operations | interacts with |
|---|---|---|---|
| cell storage and collector, `siod/slib.c` 968-1430, `NEWCELL` in `siodp.h` | `heaps`, `heap`, `freelist`, the `gc_mark` and type of each cell, protected registers | `NEWCELL`, `gc_for_newcell`, `gc_mark_and_sweep`, `gc_relocate` and the copying collector, `allocate_aheap`, `gc` | every primitive allocates; the collector calls the finalizers of images and streams, and `leval` |
| image cells, `imsh.c` 1329-1420 | the bitmap each cell owns | `img_open`, `img_save`, `_img_gc_free`, `LISP2IMG` | collector (finalizer), FreeImage |
| errors and `*catch`, `slib.c` 592-636, 1830-1857 | `catch_framep`, `errjmp_ok`, `inside_err` | `err`, `*throw`, `*catch`, `repl_driver` | `longjmp` cuts whatever is on the C stack |
| interrupts, `slib.c` 243-280, `siodp.h` 66-76 | `nointerrupt`, `interrupt_differed` | `no_interrupt`, `handle_sigint`, `INTERRUPT_CHECK` | every critical section: `gen_intern`, `strcons`, `img_open`, the collector |
| symbol table, `slib.c` 882-908 | `obarray`, `oblistvar` | `gen_intern` | allocates between lookup and insertion, so `*after-gc*` may call it again |
| evaluator, `slib.c` 1498-1930, `sliba.c`, tracing in `trace.c` | environments, the values of symbols, the form being evaluated, which macros rewrite | `leval`, `lapply`, special forms, macros, `trace` | everything |
| reader, printer, loop, `slib.c` 284-585, 1930-2200 | position in the input, token buffer | `lread`, `lprin1g`, `repl_driver`, `repl_c_string` | evaluator, collectors (between two forms), `longjmp` |
| files, `slib.c` 2187-2400, `sliba.c` 751-1060, 1630-1690 | streams, files, which libraries are loaded | `fopen`, `load`, `require`, `save-forms`, `fast-save`, `fast-load` | reader, evaluator, collectors (which close streams) |
| primitives, `siod/sliba.c` | none but the cells | lists, strings, arrays, hash tables, codecs | storage, evaluator (`qsort`, `mapcar`) |
| utilities, `siod/slibu.c`, `md5.c`, `parser_pratt.c` | MD5 contexts | digests, dates, file modes, records, `readline`, tokens, CGI | files; linked into the interpreter `siod` and not into `imsh` |
| the command, `siod/siod.c`, `siod_main` in `slibu.c` | options, `*args*`, exit status | arguments, options, scripts with their own flags | `repl_c_string`, `require`, `repl_driver` |
| script driver, `main` in `imsh.c` 1457-1511 | the script as one string, exit status | `main` | `repl_c_string` |
| wrappers, `imsh.c` 1041-1325 | matrices copied from lists | `img_conv` and the other `img_*` | numbers of Lisp, `err`, filters |
| area filters, `imsh.c` 224-284, 423-603 | working copies of the bitmap | `algo_conv`, `algo_med`, `algo_bindilate`, `algo_binerode` | called by `img_*` |
| other filters, `imsh.c` 117-222, 289-422, 605-972 | the image, an error buffer | point filters, `algo_pix`, `algo_bin*`, dithering | called by `img_*` |

Not part of `imsh` or of `siod`, and not modelled: the loadable extensions in the other C
files of `siod/` (regular expressions, sockets, archives, graphics, databases,
accounting). FreeImage is a binary library.

What makes each part correct:

- *Storage and collectors.* A cell the program can reach keeps its kind and its place; a
  cell is handed out to one owner; marks and free list are ready for the next
  collection; `NEWCELL` finds a cell; a bitmap is unloaded exactly when its cell is
  reclaimed; copying moves each cell once and keeps sharing.
- *Errors and interrupts.* `longjmp` goes to live frames only (but for SIGINT in one window,
  section 6); no error is raised where the program can only exit; interrupts stay off in critical sections,
  come on again after them, and are not forgotten.
- *Symbols.* One symbol per name, filed where the next lookup finds it.
- *Evaluator.* A form answers what it means, the second time too, when its macros have
  been rewritten, whatever failed or was collected before; what was unwound is gone;
  loops in tail position need no stack; tracing changes no answer.
- *Reader, printer, files, codecs.* What is written is read back as an equal object.
- *Tables and strings.* The last write wins; equal keys have equal hashes; nothing is
  written past the end.
- *Scripts and commands.* They do what their forms do when typed, and the exit status
  tells a failure from a success (or the run shows where it does not).
- *Filters and wrappers.* Exactly the right pixels are replaced, from the samples of the
  original image; an error leaves the image as it was; buffers are given back; no wrap,
  no division by zero, no stale colour.

## 2. The modules

| module | models |
|---|---|
| `Storage` | the store and the images in it (`slib.c`, `siodp.h`, `imsh.c`) |
| `ObjectStore` | what the store promises: objects, what is held, reclaiming; no free list, no marks, no heaps |
| `Control` | errors, `*catch`, `*throw`, critical sections, SIGINT |
| `Obarray` | the table of symbols: `gen_intern`, nested through `*after-gc*` |
| `AreaFilter` | the passes, buffers and bounds that the four area filters share |
| `Kernels` | what each of the four computes for one pixel |
| `PointFilters` | the filters that look at one pixel or one square, and the binary operations |
| `Dithering` | the dithering filters |
| `Imsh` | the `img_*` functions on a set of images: arguments, matrices, `malloc`, `err`, and the filter |
| `Machine` | the cells of the interpreter as a value: symbols, conses, numbers, `*catch` frames, `err` |
| `Lists`, `Strings` | the primitives of `sliba.c` on lists, arrays, hash tables; on strings |
| `Codecs` | base64 and hexadecimal, as functions of the bytes |
| `Printer`, `Reader`, `Files` | printing, reading, streams, `load`, `require`, `fast-save` |
| `Libu`, `Md5` | the utilities of `slibu.c`, `parser_pratt.c` and `md5.c` |
| `Words`, `Digests` | the part of `md5.c` that theorems are about: words and their bytes; how a context takes a text in pieces and ends it, for any transformation of a block |
| `Environments` | binding and searching: `extend_env`, `envlookup`, `setvar` |
| `Eval` | `leval`, `lapply`, special forms, macros, tracing, and the table of primitives |
| `CellGraph` | the cells as a graph: marking, relocating and scanning, as functions of the cells and the registers |
| `Collectors` | what the two collectors do to a machine with it, between two forms: registers, sweep, new space |
| `Script`, `Command` | `repl_c_string` and `main` of `imsh`; `siod_main` with its arguments |
| `Session` | the state machine: a user, a script, a command or a program drives the machine |
| `Meaning` | a reference semantics of the core of the language, to compare `Eval` with |
| `StorageMC`, `ControlMC`, `MedianMC`, `AreaMC`, `ImshMC`, `LispMC`, `ObarrayMC` | instances for TLC and properties about them |
| `StorageProofs`, `ControlProofs`, `ObarrayProofs` | theorems about the interpreter's core |
| `AreaFilterProofs` | theorems about the loops of the area filters, and about what they leave in the image |
| `KernelProofs` | theorems about `Kernels`: one window at a time |
| `ImshProofs` | theorems about `PointFilters` and `Dithering`, and about the calls of `Imsh` |
| `LispProofs` | theorems about `CellGraph`, `Digests` and `Codecs` |
| `Recursion` | induction and recursion over the naturals, in a form the provers can cite |

### Storage

Addresses are numbers; heap *k* is the block of `HeapSize` addresses after the
first *k* blocks. `heap` is the bump pointer of `heaps[0]`, `type`, `mark`, `car`
and `cdr` the fields of a cell (the data pointer of an image overlays its cdr),
`freelist` the chain of free cells, first cell first. `stack` is the set of cells
that C variables hold, `reg` the Lisp variables.

`pend` is the stack of suspended calls of `NEWCELL`. An allocation is the action
`Cons` or `ImgOpen`, which pushes a request; then `NewcellTake`, `GcBump`,
`GcCollect`, `GcGrow`, `GcNoGrow` and `GcOutOfStorage` are the paths through
`NEWCELL`, `gc_for_newcell` and `allocate_aheap`, in the order of the code, one
step for each point at which the state of the store changes; reading and bumping `heap` or
`freelist` is one step, since nothing runs in between but SIGINT. `GcOutOfStorage` is the error
that leaves `gc_for_newcell`: no cell and no heap, or a `malloc` that fails. When
`*after-gc*` is evaluated the request stays on `pend` and the mutator runs again,
so that allocations nest. `NewcellNull` is what the macro does after that if the
expression used up the free list: it follows NIL.

Marking is not step by step: nothing else runs during it. `gc_mark` stops at a
cell that is already marked, and the C stack is scanned conservatively, so
`MarkSets` is every set of used cells that contains the roots and is closed at the
cells whose mark was clear; the extra cells in it are those that a stray word of
the C stack keeps. The marks of fresh memory are arbitrary: `Init` and
`AllocateAHeap` do not set them, as the code does not.

`Unwind` is any `longjmp` out of the mutator: it cuts `pend` anywhere and may drop
anything from `stack`.

### Control

`stack` is the C stack reduced to the frames that matter: `leval_catch`, a critical
section, the collector, the evaluation of `*after-gc*`, `err` before and after it
has cleared `nointerrupt`, and `repl_driver` after its `setjmp`. A frame of `leval_catch` is
`"landed"` when its `setjmp` has returned for a `longjmp`, and `"linked"` when it has set
`catch_framep` to itself again. The frame on top is
executing. `catch_framep` lists the places of the catch frames, as the linked
list does, and each frame keeps the rest of the list in `next`; that the list and
the stack agree is a property, not an assumption. `Raise` is `err` up to the choice
of the target; `ErrOpen` stores the value and clears `nointerrupt`; `ErrClear` clears
`inside_err`; `ErrJump` is the `longjmp` (as `Throw` is for `*throw`), which cuts the stack and
leaves `catch_framep` alone; `CatchRelink` and `CatchUnlink` are the two assignments of
`leval_catch` after it (`slib.c` 1843 and 1845). Until the first of them the list may name frames
that are gone (`Dangling`); `err`, called then, reads them, what follows is undefined, and the
status is `"astray"`. SIGINT is an action
that is enabled between any two of these steps: it sets `interrupt_differed` or raises the error at
once, by `nointerrupt` under Unix and always the former under Windows, where
`InterruptCheck` is the poll in the evaluator. Any allocation may enter a collection,
also the `cons` that `err` itself makes.

Tags of `*catch` are `errobj`, `all` (the catch-all) and any other. `(quit)`, which
returns from `repl_driver`, and the SIGFPE handler, which raises an error where
`Error` can, are left to `Machine`.

### AreaFilter and Kernels

`algo_conv`, `algo_med`, `algo_bindilate` and `algo_binerode` are one program with a
different function of the window, another number of buffers (3 or 6), and one of two
ways to give up when `malloc` fails. `AreaFilter` is that program, with the function
as the constant operator `Kernel`: one step per `malloc`, per pixel of the processing
pass, per pixel of the copying pass and per row. Loop bounds are C unsigned
subtractions modulo `Word`. A step whose window is not inside the image goes to
`pc = "outside"`: what happens next is undefined in C. So is freeing through the
unsigned loop `while (i >= 0) free(res[i--])`: it goes to `pc = "wild"`.

`Kernels` holds the four functions: C division and clamping, the sorted window and
the index the code takes from it, the test of the neighbours. A channel at a time
for the first two; the three channels of a pixel for the binary ones.

### Imsh, PointFilters, Dithering

A bitmap is a function from points to colours, a colour a record of three bytes. The
state of `Imsh` is the bitmap of each handle, the number of copies of matrices that are
still allocated, and the last call with its result. There is one action per `img_*`
function; its arguments come from sets that hold values of the wrong type as well
(`NotImg`, `NotNum`, `NotList`), and `malloc` may fail. The order of the code is kept:
which argument is converted before the copy is allocated and which after it decides
what an error leaves behind. A filter is applied as a function; that the area filters
compute that function pixel by pixel, and give up cleanly, is `AreaFilter`. A call that
ends the process (a division by zero, leaving the image) has the result that names it.

Where the code computes in `float` and stores a byte, the model computes the exact
fraction, rounds towards zero as the conversion does and takes it modulo 256, which is what the x86
compilers the makefiles name do with a value out of range. Values whose `float` is not
exact are kept out of the instances.

### Machine, Eval and the modules between them

A machine is a record: `cell` (a sequence; the place of a cell is its index), `vcell` (the
values of the symbols), `catch` (the frames, innermost last), `esc` (`Running`, the frame
a `longjmp` is on its way to, or `TopLevel`), `v` (the value just returned), streams and
files, the depth of `leval`, the seed of `rand`. A C function is an operator from a
machine and arguments to a machine; `Then(m, LAMBDA k : ...)` is what follows a call that
may have left by `longjmp`, so that no statement after an error has an effect. Objects
are never copied: assignment to a cell is seen through every reference, as in the code,
which matters to the macros that rewrite their form, to `nreverse` and to shared
structure. `Err` sets `errobj`, looks for a frame of `errobj` or `all`, and builds its pair
only for such a frame, in the order of `err`.

`Eval` is one recursion, `Evaluator`, since in the code `leval`, `lapply`, the primitives,
`lreadr` (through `#.`), `vload` and `repl` call each other; `Leval`, `Loop`, `Lapply`,
`Subr`, `Lreadr`, `Vload` and `Repl` are its entries, and have the arguments of the C functions. A call in tail position is a loop in
the code and does not add to `depth` in the model; every other call does, and a depth of
`StackLimit` is the error of the C stack check. C leaves open in which order the
arguments of a call are evaluated, and `leval` calls itself in the arguments of
primitives with more than two parameters: `fromRight` is the choice of the compiler.

What the model does not follow stops it and says so in `beyond`: reading or writing
outside an object, a number that is not an integer, freeing what is not there. Properties about
a session say explicitly that nothing was beyond, or compare a value that would not be there.

Streams hold a position in a file and text that is not yet flushed, so that a stream that
is left open by an error writes later, when the collector closes it. `fast-save` writes
the bytes of the format, with a 4-byte `long` as in the build for Windows. Dates are in UTC.

`Session` is the state machine. `Give` types a line when the interpreter waits;
`Evaluate` reads and evaluates one form of it, or comes back through `repl_driver`
after an error; `Collect` is a mark-and-sweep between two forms, in either order of
finalization, and with `Copying` each turn of `repl` begins with a copy, as `-g1` does;
`Run` is a process from its start to its end: a script, a command, or a program that
embeds the interpreter (`ProcessFor`). Which lines
may come is the constant `Offered`: `LispMC` gives it a grammar for every question it asks.

### Obarray

One allocation of `gen_intern` is one step, since a collection may evaluate `*after-gc*`
there and that may call `gen_intern` again, to any depth, and leave by `*throw`; an error for want
of storage leaves in the same way. `calls` is
the stack of the calls under way with the C variables they hold (`sl`, `sym`, the head of
`oblistvar`). `disturbed` is a history variable: the buckets that were written while an
outer call held their list. The hash is computed in C's signed arithmetic, in
`LongBits` bits (`ObarrayMC`).

## 3. The runs

| run | instance | shows |
|---|---|---|
| `storage_hook` | two heaps of one cell, `*after-gc*`, two bitmaps | invariants of the store with nested collections; nothing reachable is reclaimed; `NEWCELL` lacks a cell only after its own `*after-gc*`; images leak only by `longjmp`; the store implements `ObjectStore` |
| `storage_nohook` | two heaps of two cells, no `*after-gc*` | `NEWCELL` finds a cell; a cell missed by a sweep comes back |
| `control_unix` | Unix, no `*after-gc*`, 6 frames | every property of `Control`, the liveness one included |
| `control_hook` | Windows, `*after-gc*`, 5 frames | the list of catch frames, and the collector, with errors and throws from inside allocations |
| `control_pair` | violation | section 6 |
| `area_median` | `algo_med` with a window of 5, all two-level images of 6 rows and one column | a filter that leaves a narrow image does so at its first pixel, with nothing written before; a `malloc` that fails gives back every buffer |
| `area_kernels` | 4 rows and 3 columns: `algo_conv` with the emboss matrix, divisor 2 and shift 100, on images with up to two spots; `algo_bindilate` on the drawings in black and white or black and blue, the last row repeating the first | every property of `AreaFilter`, the liveness one included; sums of both signs and both clamps; the neighbourhood, and erosion as the dual |
| `imsh` | two calls of any `img_*` function, two images | what a call may change, leak and compute; impulses are removed |
| `imsh_floyd` | violation | section 6 |
| `lisp` | sessions, scripts, commands, texts; both orders of evaluation; three seeds; both collectors | the twelve properties of the interpreter, below |
| `lisp_traced` | violation | section 6 |
| `obarray` | two buckets, four names, three nested calls | one symbol per name, in its bucket |

### What `lisp` asks

The five properties `ReadsBack`, `StoresRemember`, `CodingsInvert`, `PiecesMakeTheWhole` and
`RunsAsTyped` are action properties, of the step in which the answer comes; the others are
invariants.

| property | parts | sessions |
|---|---|---|
| `AnswersMean` | | expressions of a context with two holes, put together from about 20 expressions that bind, assign, call, fail, throw and catch; defined, evaluated twice, with a collection in between or after forms that failed; the answer is that of `Meaning` |
| `StackReturned` | `Unwound`, `LoopsStayFlat` | all of them; loops through each form that has a tail call |
| `ReadsBack` | `ReadsWhatItPrints`, `SavedReadsBack` | data of every kind that has a notation, nested; through `save-forms`, `fast-save` with and without its table, and the parser in a comment |
| `StoresRemember` | `EqualsHashAlike`, `LastWriteWins`, `TextAsStored` | the same data; histories of `hset`, `strcpy`, `strcat`, `print-to-string` |
| `CodingsInvert` | `CodecsInvert`, `NumbersInvert` | strings of every length around a chunk, of what URLs and HTML give a meaning; numbers at the ends of months, which dates in words and digits must name, and of modes |
| `PiecesMakeTheWhole` | `LinesOfFile`, `TokensKeepBytes`, `DigestOfPieces` | files of up to five bytes, texts around the 64 bytes of a block |
| `QsortSorts` | | all short lists with three seeds |
| `TracedAnswers`, `RequiredOnce`, `SavedStays` | | histories with failures and collections |
| `RunsAsTyped` | `ScriptAsTyped`, `CommandAsTyped`, `RepliesFit` | all scripts of three statements of twelve, all commands of three arguments of nine, pairs of texts in a buffer of eight bytes |
| `CopyKeepsTheGraph` | | the objects of those sessions |

A property with parts is their conjunction, as in the other runs: `StoreSound`,
`ImagesSound` and `NothingLost` (`Storage`), `JumpsLand` and `FlagsMean` (`Control`),
`FilterSound` and `MemorySound` (`AreaFilter`), `Morphology` (`AreaMC`), `CleanFailure`,
`FiltersAsPromised` and `DitherSound` (`Imsh`), `TableSound` (`Obarray`). Each part has a
name, a comment and a mutation of its own where it can be broken by itself; this text
names the part when only that is meant.

Bounds and why they suffice:

- *Storage.* The interesting cases are a collection inside a suspended allocation
  (`MaxPend` 2), with the arguments of that allocation and a variable as the only
  references (`MaxStack` 2, so that a cons has two arguments that are cells and not
  only NIL), a second heap whose marks are arbitrary, an exhausted store, and an
  `*after-gc*` expression evaluated with a single free cell (`HookMin` 1 for the 100
  of the code). All occur at these sizes: each mutation of section 5 is found.
  Larger instances of up to 4.5 million states agree. The theorems hold for all.
- *Control.* `MaxDepth` bounds the frames on the stack; six are enough for a catch
  frame, a critical section, a collection inside it, and an error in each of them
  while another one is being handled; and for a throw that cuts off several catch frames, with
  SIGINT before, between and after the assignments that take them off the list.
- *AreaFilter.* A window of 3 on 4x3 has two central rows and one column, so that
  the second window reads what the first pixel would have overwritten. A width below
  the margin is `area_median`; all sizes are proved. `Quotients` bounds what a sum of nine
  levels, weighted and halved, can be. `Word` is 16 for
  2^32: it only has to exceed the image by the window.
- *Imsh.* All of this is proved for any number of calls, all images and arguments; the run
  shows that the cases exist. Two calls (`MaxCalls`): the second meets an image the first has changed, or a
  matrix the first has leaked. The images have 3x3 and 1x5 points, so that a square of
  `img_pix` sticks out on both sides, an operand is smaller in one direction and larger
  in the other, and a 3x3 matrix fits one and not the other. The lists are too long, too
  short, long enough for 5x5, and with a member that is not a number.
- *Lisp.* `StackLimit` 12 for the size of the C stack: a loop of 16 turns tells a tail
  call from another one. `TkBufferN` 300 and `GetsN` 4 for buffers of 5120 and 2048
  bytes: no name in the sessions is longer, and files have lines that fill the latter.
  `InumsDim` 62 for the 256 shared small numbers: larger numbers are cells of their own.
  The sessions are short because each of them starts from a fresh interpreter; the
  hazards need a failure, then a collection, then a use, in the longest case.
- *Obarray.* `MaxCalls` 3 and `MaxSymbols` 3: an outer call, a call that disturbs it, and
  one more, in a table of two buckets that two names share. `LongBits` 30 for the 32 or 64 bits of
  a `long`: TLC's numbers have no more, and no hash in the run needs them. The theorems hold for all.

Deadlock is not checked where the system ends: in `storage_hook` `NewcellNull` has no
successor; the processes of `Imsh` and `Session` exit, and their users run out of things to
say; `Obarray` stops at its bounds or outside the table.

### Fairness

`AreaFilter` assumes weak fairness of its whole next-state relation: one thread that
is never blocked. `Control` assumes weak fairness for the end of a collection and,
for every depth of the stack, strong fairness for the end of a critical section: the
code in one is straight-line and makes finitely many calls, each of which returns or
leaves by `longjmp`; it is disabled while such a call is on top, which is why weak
fairness would not do. Neither SIGINT nor anything Lisp does is fair: a program may
loop for ever, and `DeferredIsRaised` does not need it to stop.
`Session`, `Imsh` and `Obarray` state no fairness: what they promise, they promise of the
steps that are taken.

## 4. What is proved

All theorems hold for every value of the constants that satisfies the named
assumption of the module (`StorageAssumption`, `ControlAssumption`, `AreaAssumption`,
`ImshAssumption`, `ObarrayAssumption`): every size and number of heaps, depth of stack, size of
image and window, kernel, set of images and of arguments, number of calls, set of names, size
of table and hash function. `AlwaysNormalised`, `AlwaysMorphology`, `AlwaysInsideForAscii` and the
theorems of `LispProofs` have further hypotheses, named below.

**Storage** (`StorageProofs`). `TypeOK`, `StoreSound` (`FreelistSound`, `NoDangling`,
`MarkHygiene`), `ImagesSound` (`ImagesLoaded`, `FinalizerNeverFatal`), `NewcellTakesACell`,
`NothingLost` (`KeepsReachable`, `LeaksByUnwind`), `MissedOnce`, and the refinement
`Spec => ObjectStoreSpec`. The
invariants support one another and are proved as one: that a collection frees
nothing reachable needs clear marks (`MarkHygiene`), that marks are clear needs the
sweep to reach every cell, that a reclaimed address can be reused needs
`FreelistSound`, that the finalizer never meets an empty cell needs `ImagesLoaded`.
`Inv` adds what they do not say: which cells are raw memory (`RawShape`, without which
a bump allocation could hit the free list), that a collector about to return without
having evaluated `*after-gc*` leaves a cell (`TakeReady`), and that nothing is suspended
in an expression that does not exist (`HookOnly`). The refinement maps live objects to
the cells in use and what is held to the roots; each step of the store is a step of
the abstract one or a stutter, a collection being `Reclaim` of the swept cells.

**Control** (`ControlProofs`). `TypeOK`, `JumpsLand` (`CatchFramesLive`, `NeverFatal`,
`OnlyLandingStrays`); and,
without an `*after-gc*` expression, what `FlagsMean` says (`CriticalProtected`, `NotStuck`,
`InsideErrOnlyInErr`). The
invariant `Inv` adds that every frame `err` has chosen lies below it and is a catch frame (`Aimed`), and
that the collector, if it runs, is on top with interrupts off, and is the only time
`errjmp_ok` is 0 (`Collecting`). It has two forms: `Steady`, in which `catch_framep` lists exactly the
catch frames on the stack, and `Adrift`, in which a `longjmp` has just cut the stack and frames
that are gone come first in the list (`Stale`). `longjmp` leads from the first to the second or
stays (`LongjmpDrifts`); while adrift only the assignment of `leval_catch`, which leads back
(`RelinkKeeps`), and SIGINT are possible (`AdriftSteps`), and SIGINT leaves stack and list as
they are: it is put off, or strays. The lemmas are about the linked list: pushing a frame
that is not a catch frame, entering one, and cutting the stack at one keep the list
equal to the catch frames on the stack. That the first of the list is the frame
returning is a consequence (`HeadIsTop`), which is why `leval_catch_1` may unlink
whatever is first.
The last three need what the flags mean (`NoHook`): with no hook on the stack, catch frames
are only below C code (`Calm`), so a throw from Lisp cuts no section and no `err`;
`nointerrupt` is 1 exactly when the frame on top is a section, the collector, an `err` or
the restart; and the flag saved by a section says the same of the frame below it. That a
section may restore its flag blindly follows. `SIGINT` in the window of `err` (section 6)
is what makes "on top" necessary: below an `err` that has cleared `nointerrupt` there may
still be a section, which that `err` is about to cut off.

**AreaFilter** (`AreaFilterProofs`). `TypeOK`, `FilterSound` (`Filtered`, `SourceIntact`,
`CopiesWhatWasComputed`), `MemorySound` (`InsideImage`, `LeavesAtOnce`, `BuffersReturned`). The invariant
says what the loops have done so far: every pixel before the current one fits in the
image and has its value in the working copy (`Processing`), or back in the image
(`Copying`). A pass that ends has therefore seen exactly the central area; when a
bound wrapped, the first window is already outside and the pass cannot have ended.

**Kernels and recursion** (`KernelProofs`, `Recursion`). A loop over an array is a function
that recurses over an interval of numbers. `Recursion` proves, from the well-foundedness of
the naturals alone, that a set of numbers which is not empty has a least element, that such a
function exists and keeps the type of its step (`Iteration`, `BoundedIteration`), and induction
for sets of numbers (`Induction`). It takes functions and sets where the library's theorems take
operators, which is what the provers can instantiate; everything below that speaks of a sum
or a scan rests on it. `MedianRemovesImpulses`: sorting a window whose elements are the same but
for one leaves the odd one at an end, and the index that `algo_med` takes (`1 + side*side/2`,
one past the middle) is not at an end when the side is above 2. `ErodeIsDualOfDilate` needs every
channel to be 0 or 255: the code compares with 0, and the negative of any other level is not 0
either.

**AreaMC** (`AreaFilterProofs`). `Normalised` and `Morphology` for images of every height and width,
under `MixedSetting`: the window has a side of 3, the kernel is that of `AreaMC`, and every image
is either one of levels, of any value, or a drawing in colours whose channels are 0 or 255. The images of
the run are of that kind (`MixedImagesAreOfTheSetting`). Both follow from `Filtered`: a replaced pixel is
the kernel of its window in the original image; what is left is arithmetic on nine numbers, and
C's division.

**Imsh** (`ImshProofs`). `TypeOK`, `DitherSound`, and the action properties `CleanFailure` and `FiltersAsPromised`.
Each `img_*` function has a lemma that says which of three ways it goes (`Outcome`): it returns `t`
with a new image of the same size for its first operand; it stops, with nothing changed; or it
raises an error, with nothing changed and at most one block left. `NextOutcome` collects them. The
inductive invariant `IInv` is `TypeOK` with two additions. There are no more blocks than calls: without it
the bound of `TypeOK` is not inductive, as nothing ties the leaks to the number of calls. And if the last call was a
dithering one that returned `t`, its image is black and white: `DitherStable` follows from that, and
from nothing weaker.

The rest is about the filters, for all images. `DiffusedStable`: along the whole scan of a black and
white image the error is zero, so what is added to the neighbours is zero, by `Induction` over the scan and over the
entries of the matrix. `DiffusedCausal`: two images that differ in one place are dithered alike before
it, although a matrix may spread errors backwards, because the place a pixel is written to is
noted once (`NotedOnce`) and what is spread over it later goes to a copy that is not read
again. For `algo_pix`, a square's colour is within the range of what it covers since
every point outside the image counts as a colour read before in the same square
(`LastReadIn`, `MeanWithin`). For `algo_grl`, the order of brightness survives the integer square root
and both roundings (`IsqrtMonotone`, `RoundedMonotone`).

**Obarray** (`ObarrayProofs`). `TypeOK`, `TableSound` (`RightBucket`, `OneSymbolPerName`,
`StaysFiled`), the action property `SameAnswer`, and that without an `*after-gc*` expression no bucket is ever
disturbed. The invariant `Inv` says what a suspended call knows: the list it holds is that
of its bucket, or the bucket is disturbed; the name it is
making is not in that list; the symbol it made is in no bucket yet. A call that
writes its bucket therefore disturbs exactly those it should, and adds a name that is not
there. `SameAnswer` follows because an answer is filed (`StaysFiled`) and alone
(`OneSymbolPerName`), so that the next search finds it first.

`AlwaysInsideForAscii` proves `InsideForAscii` for all names, not only those of the run, under
`HashSetting`: names are strings of bytes other than zero, `Hash` is the loop of `gen_intern`, and
17 times a hash is less than half of 2^`LongBits` (`Fits`), for the table and for SIOD's own 100
buckets. The argument: `^` of two numbers whose sign bit is clear has it clear
(`XorOfNaturals`, by induction over the bits), and `%` of what is not negative is a bucket. A byte above 127
breaks the first step, which is the case in the code too.

**CellGraph** (`LispProofs`). The two collectors as functions of the cells and the registers, for
every heap (`IsHeap`: each cell has the fields of its type, and refers to cells of the heap) and
all registers (`AreRegisters`), whatever the cycles. The run `lisp` checks both hypotheses of every
machine it reaches, as part of `CopyKeepsTheGraph`. Heaps are finite sequences, and the
argument is about waves and turns, not about the shape of data, so that `Induction` suffices.

- `MarkIsLeast`: what `gc_mark` marks is the least set that holds the cells of the registers and is
  closed under the parts it follows (`Reached`). Every wave adds a cell or ends, and there are no
  more waves than cells (`ReachedIsLeast`).
- `CollectorsAgree`: without traced closures the mark-and-sweep collector keeps exactly what the
  copying one moves; with them it keeps no more. That it can keep less is the finding of
  section 6.
- `CopyKeepsGraph`: `KeepsTheGraph`, which `CopyKeepsTheGraph` checks of the sessions, of every heap.
  The invariant of the scan, `Scanning`, says after any number of turns: every cell in the new space is
  the copy of one old cell, at the place its forwarding pointer names (`Numbered`, `Grown`); the cells before the
  scan pointer have moved references and those after it still have old ones; what
  was moved is live; and what the scanned cells and the registers refer to is moved. When the
  pointer has passed the last cell, what is moved is closed, hence all that is live. The
  new space has room, since no old cell is moved twice (`NewHeapFits`).
- `CopyIsLiveHeap`: the new space is a heap again, the moved registers lead to every cell of it,
  and each live cell is there with its type and, for its parts, the moved ones. A
  collection can thus follow a collection. `EofValStaysFirst`: `eof_val` is its first cell.

**Digests** (`LispProofs`). For any transformation of a block, any context and texts below 2^29 bytes,
where the count of `MD5Update` takes its high part from the carry alone:

- `PiecesAreTheWhole`: two calls of `MD5Update` leave the digest that one call with both texts leaves. What a
  call leaves is the transformation of the pending bytes and the text up to the last full block, and the
  rest pending (`UpdateLeaves`); the blocks of the whole are those of the first piece,
  then those of its rest with the second (`PartsOfBoth`); and the low word of the count wraps at most once
  (`CountedTwice`). The bytes of the buffer beyond the pending ones may differ; the digest
  does not read them.
- `DigestIsOfThePaddedText`: from an empty context the digest is the transformation of whole
  blocks, the text, 1 to 64 bytes of padding and 8 of count, with no byte left over.

`Md5` instantiates `Digests` with the transformation of `md5.c`. `DigestOfPieces` asks the same of the
primitives, with that transformation, the context in a byte array and texts around the end of a block.

**Codecs** (`LispProofs`). For strings of bytes of every length:

- `Base64Inverts`: `base64decode` gives back any non-empty string that `base64encode` was given, zeros
  included. The length of the code is a multiple of four and all of its letters but the padding
  are legal, so neither the error nor the empty answer of the decoder is taken. Every item of six bits comes back from
  its letter and no item has the letter that pads (`ItemsComeBack`), so the padding of the code tells how many bytes
  the last chunk lacks (`EncodedLacks`), and three bytes come back from their four items (`BytesOfItems`).
  No byte of the code is zero (`EncodedHasNoZero`): the decoder, which takes a C string, sees all of it.
- `HexInverts`: `hexstr2bytes` gives back what `hexstr` was given, which has no zero byte either.

`CodecsInvert` asks the same of the primitives, on the interpreter's strings and byte arrays.

Only model-checked:

- `Terminates` and `DeferredIsRaised`, which are liveness properties (fairness and ENABLED are
  out of the prover's reach);
- everything else about the interpreter. Its definitions are recursive operators over lists and
  forms, for which the prover loses its arithmetic; and what they compute needs an
  induction over the structure of the form, not over a number.

## 5. Mutations

Each property of each passing run has at least one mutation of one definition, next to the
definition it changes and named after it: a mark not cleared, a catch frame left linked by `leval_catch` after a `longjmp` or after its last form,
`no_interrupt(0)` for `no_interrupt(flag)`, a row too many, a matrix allocated before the
arguments are checked, an assignment that goes to the global value, a frame that `*catch`
leaves behind, a tail call that became a call, a backslash not escaped, an argument that
is pasted into a form unescaped. TLC finds the property violated by each.

## 6. Where the code and its documents disagree

- `control_pair`: `siod.html` describes an error as a throw of the pair of message and
  object; an error raised while `err` runs (its own allocation fails, or SIGINT arrives
  between `nointerrupt = 0` and `inside_err = 0`) throws NIL.
- `lisp_traced`: `siod.html` says that a `user_mark` may return a part of its object instead
  of marking it. `gc_mark` drops what it returns. The one hook that relies on it is that of
  traced closures, whose environment is freed by the next collection.
- `imsh_floyd`: the general dithering filter with the Floyd-Steinberg matrix of
  `imsh.scm` is presented as another implementation of the special one. `img_gendith`
  takes a third of the length of the list for the length, reads that much of it, and
  divides by three again: of four points one is used.

Noted in the models, without a run of their own, since no document promises otherwise or
the disagreement is small:

- `siod.html` says that `*throw`, and likewise an error, locates an active `*catch`
  (302-303, 545-547). After a `longjmp` to a frame that is not the innermost, `catch_framep` names
  frames that are gone until `leval_catch` assigns to it (`slib.c` 1843), and interrupts are
  allowed: SIGINT under Unix makes `err` follow the list through memory that no longer holds them.
  The states of `control_unix` with status `"astray"` are these; `OnlyLandingStrays` says
  that this is the only place and the only cause. Under Windows the handler sets a flag.
- The area filters leave an image smaller than their margin, since the unsigned bound wraps
  (`InsideImage`, `LeavesAtOnce`); the "middle element" of the median is the one after it
  (`ImpulseRemoved` says that impulses are removed all the same); dilation and erosion skip the
  centre of their matrix although a test passes a matrix that names it.
- A script with an error exits with status 0, because the wrapper catches the error; one with
  a comment does nothing and exits with 2, because the newlines are gone (`ScriptAsTyped`).
- A command with `-m` exits with the status of `main`, also when an argument failed before
  (`CommandAsTyped`).
- `save-forms` that fails half-way writes what it had later, over what was saved since
  (`SavedStays`); `load` takes an array in the first line for a comment (`SavedReadsBack`).
- `decode-file-mode` gives names that `encode-file-mode` does not know (`NumbersInvert`).

Conditions under which properties are stated, because the code breaks them otherwise:

- `*after-gc*`: `NEWCELL` does not look at the free list again after evaluating it. An
  expression that uses up the last cells makes it follow NIL (`NewcellTakesACell` says that
  nothing else does). A throw out of it, or an error caught in it, leaves
  `nointerrupt` and `inside_err` other than the suspended code expects
  (`CriticalProtected`, `NotStuck`, `InsideErrOnlyInErr` are stated without one). A symbol
  it interns in the bucket that `gen_intern` is working on is lost
  (`OneSymbolPerName`, `StaysFiled`, `SameAnswer` except such buckets).
- Names with bytes above 127 may take `gen_intern` outside its table (`InsideForAscii`).
- `algo_grl` divides by zero for more than 441 grey levels (`FiltersAsPromised` speaks of the
  calls that return), and an error-diffusing filter wraps the byte of a neighbour, which the model
  computes and no property forbids.
- A bitmap loaded by `img_open` is lost when the allocation of its cell leaves by
  `longjmp` (`LeaksByUnwind` says that nothing else loses one); a matrix is lost when
  an element is not a number (`LeakOnlyByErr`).

## 7. What is not modelled

- `Storage`: the contents of symbols, strings, numbers and closures (a pair stands for every
  cell with references, a flag for its kind); `gc_protect`; the freeing of heaps at exit.
  Collections inside an evaluation are there and not in `Session`, where the collector runs
  between forms and cells are never reused.
- Interpreter: numbers that are not integers, other than as the exact results of
  functions of integers; prompts, verbose messages and the printing of `repl` (except by `repl_c_string`); a
  stream that reads itself through `#.`, streams opened for reading and writing; an object
  printed into its own string; a comparison that changes the list that `qsort` sorts;
  `obarray_dim` of 1; a `malloc` that fails, in `main` of `imsh` for the text of the script
  (status 255) and elsewhere in the interpreter; primitives that only call the operating system (time, processes,
  users, directories, file attributes) and that print tables about the interpreter. Command
  options that size the interpreter are constants. The error page of `__cgi-main` is its
  message.
- Filters: the asserts, which are assumptions on the constants; the overflow of a weighted
  sum beyond 32 bits; what FreeImage does with a file.
- The loadable extensions of `siod/`, which the build of `imsh` does not contain, and the
  Scheme library and test scripts, which serve as inputs and as statements of what is
  promised.

A `longjmp` out of a signal handler leaves the signal mask as the C library saved it;
on a system where `setjmp` does not save it a second SIGINT would stay blocked. The
model takes SIGINT as possible at any time.

## 8. Plan

Done: `Storage`, `Control`, `AreaFilter`, `Obarray`, `Imsh` and its filters, and their
theorems; the interpreter from `Machine` to `Session`.

Left, most useful first:

1. Theorems about parts of the interpreter that need no recursion over data, in modules without
   recursive operators, as for `CellGraph`, `Digests` and `Codecs`: the table of `hset`.
2. Collections inside an evaluation: `Eval` with the conservative scan of the C stack, so
   that the roots of `Storage` are those of a program.
3. `gc_mark` step by step, shown to compute `Reached` of `CellGraph`, and that to be a member of the
   `MarkSets` of `Storage`.
4. Real numbers as dyadic fractions, for the printer and the reader.
