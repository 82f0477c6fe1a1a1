------------------------------ MODULE Storage ------------------------------
(***************************************************************************)
(* The mark-and-sweep store of the embedded SIOD interpreter               *)
(* (siod/slib.c) together with the image cells that imsh.c keeps in it.    *)
(*                                                                         *)
(* One C thread runs.  Every cell is taken by the macro NEWCELL; when the  *)
(* free list is empty NEWCELL calls gc_for_newcell, which collects, grows  *)
(* the store or evaluates the expression in *after-gc*.  That expression   *)
(* is an arbitrary Lisp program, so the allocation that called the         *)
(* collector stays suspended while the whole mutator runs again: `pend' is *)
(* the stack of suspended allocations.                                     *)
(*                                                                         *)
(* The collector finds its roots in the protected registers, precisely,    *)
(* and in the C stack, conservatively: any further cell may be pinned by a *)
(* word that happens to look like its address.                             *)
(***************************************************************************)
EXTENDS Naturals, Sequences, FiniteSets

CONSTANTS HeapSize,  \* cells in one heap (heap_size)
          NHeaps,    \* heaps the program may allocate (nheaps)
          HookMin,   \* free cells after which *after-gc* is evaluated (100)
          AfterGC,   \* whether *after-gc* holds an expression
          Reg,       \* the Lisp variables, all reachable from protected registers
          Bitmap,    \* the bitmaps img_open may load
          MaxStack,  \* bound: cells held in C variables at a time
          MaxPend    \* bound: allocations suspended at a time

NIL == 0
Addr == 1..(NHeaps * HeapSize)

ASSUME StorageAssumption ==
  /\ HeapSize \in Nat \ {0}
  /\ NHeaps \in Nat \ {0}
  /\ HookMin \in Nat \ {0}
  /\ AfterGC \in BOOLEAN
  /\ MaxStack \in Nat \ {0}
  /\ MaxPend \in Nat \ {0}
  /\ Bitmap \cap (Addr \cup {NIL}) = {}

VARIABLES
  active,    \* number of heaps allocated; heaps are allocated in order
  heap,      \* first cell of heaps[0] never handed out; it is all below 1+HeapSize
  type,      \* "raw" (memory never written), "free", "cons" or "img"
  mark,      \* the gc_mark field
  car, cdr,  \* contents; the data pointer of an image cell overlays its cdr
  freelist,  \* the chain of free cells, first cell first
  reg,       \* value of each Lisp variable
  stack,     \* cells held in C variables (arguments, results, saved registers)
  bitmap,    \* "none", "loaded" or "unloaded"
  pend,      \* suspended calls of NEWCELL, innermost last
  status     \* "running", "crashed" (NIL dereferenced), "fatal" (exit 10)

store == <<active, heap, type, mark, car, cdr, freelist>>
vars == <<store, reg, stack, bitmap, pend, status>>

Value == Addr \cup {NIL}
HeapCells(k) == {a \in Addr : k * HeapSize < a /\ a <= (k + 1) * HeapSize}
Active == {a \in Addr : a <= active * HeapSize}
Raw(a) == heap <= a /\ a <= HeapSize
InUse == {a \in Addr : type[a] \in {"cons", "img"}}

(* What a suspended allocation will write into the cell it gets.           *)
Content == [type : {"cons"}, car : Value, cdr : Value]
             \cup [type : {"img"}, car : {NIL}, cdr : Bitmap]
Phase == {"test", "grow", "hook", "take"}
Request == [cell : Content, at : Phase]

(* gc_mark follows both fields of a pair; an image has no gc_mark hook.    *)
Refs(a) == IF type[a] = "cons" THEN {car[a], cdr[a]} \cap Addr ELSE {}
RequestRefs(r) == {r.cell.car, r.cell.cdr} \cap Addr

Held == stack \cup ({reg[v] : v \in Reg} \cap Addr)
              \cup UNION {RequestRefs(pend[i]) : i \in 1..Len(pend)}

(* The mutator runs at top level and inside *after-gc*; while NEWCELL      *)
(* itself is executing nothing else does.                                  *)
Mutating == status = "running" /\ (pend # <<>> => pend[Len(pend)].at = "hook")
Top == pend[Len(pend)]
NewcellAt(p) == status = "running" /\ pend # <<>> /\ Top.at = p
SetTop(p) == pend' = [pend EXCEPT ![Len(pend)].at = p]
Pop == SubSeq(pend, 1, Len(pend) - 1)
-----------------------------------------------------------------------------
Init ==
  /\ active = 1
  /\ heap = 1
  /\ type = [a \in Addr |-> "raw"]
  /\ mark \in [Addr -> {0, 1}]      \* malloc'ed, never initialised
  /\ car = [a \in Addr |-> NIL]
  /\ cdr = [a \in Addr |-> NIL]
  /\ freelist = <<>>
  /\ reg = [v \in Reg |-> NIL]
  /\ stack = {}
  /\ bitmap = [b \in Bitmap |-> "none"]
  /\ pend = <<>>
  /\ status = "running"
-----------------------------------------------------------------------------
(* The mutator: what a Lisp program does between allocations.              *)

Hold(a) ==
  /\ stack' = stack \cup ({a} \cap Addr)
  /\ Cardinality(stack') <= MaxStack

Drop(a) ==
  /\ Mutating
  /\ a \in stack
  /\ stack' = stack \ {a}
  /\ UNCHANGED <<store, reg, bitmap, pend, status>>

Ask(cell) ==
  /\ Len(pend) < MaxPend
  /\ Cardinality(stack) < MaxStack
  /\ pend' = Append(pend, [cell |-> cell, at |-> "test"])

Cons(x, y) ==
  /\ Mutating
  /\ {x, y} \subseteq stack \cup {NIL}
  /\ Ask([type |-> "cons", car |-> x, cdr |-> y])
  /\ UNCHANGED <<store, reg, stack, bitmap, status>>

(* FreeImage_Load, then cons(NIL,NIL) whose cell becomes the image.  A     *)
(* failing load raises an error, which is an Unwind.                       *)
ImgOpen(b) ==
  /\ Mutating
  /\ bitmap[b] = "none"
  /\ bitmap' = [bitmap EXCEPT ![b] = "loaded"]
  /\ Ask([type |-> "img", car |-> NIL, cdr |-> b])
  /\ UNCHANGED <<store, reg, stack, status>>

Car(a) ==
  /\ Mutating
  /\ a \in stack /\ type[a] = "cons"
  /\ Hold(car[a])
  /\ UNCHANGED <<store, reg, bitmap, pend, status>>

Cdr(a) ==
  /\ Mutating
  /\ a \in stack /\ type[a] = "cons"
  /\ Hold(cdr[a])
  /\ UNCHANGED <<store, reg, bitmap, pend, status>>

SetCar(a, x) ==
  /\ Mutating
  /\ a \in stack /\ x \in stack \cup {NIL} /\ type[a] = "cons"
  /\ car' = [car EXCEPT ![a] = x]
  /\ UNCHANGED <<active, heap, type, mark, cdr, freelist, reg, stack, bitmap, pend, status>>

SetCdr(a, x) ==
  /\ Mutating
  /\ a \in stack /\ x \in stack \cup {NIL} /\ type[a] = "cons"
  /\ cdr' = [cdr EXCEPT ![a] = x]
  /\ UNCHANGED <<active, heap, type, mark, car, freelist, reg, stack, bitmap, pend, status>>

SetVar(v, x) ==
  /\ Mutating
  /\ x \in stack \cup {NIL}
  /\ reg' = [reg EXCEPT ![v] = x]
  /\ UNCHANGED <<store, stack, bitmap, pend, status>>

GetVar(v) ==
  /\ Mutating
  /\ Hold(reg[v])
  /\ UNCHANGED <<store, reg, bitmap, pend, status>>

(* A longjmp out of the mutator, raised by err or by *throw: every frame   *)
(* above the one that catches disappears, with the allocations suspended   *)
(* in them.  A bitmap that was waiting for its cell then has no owner.     *)
UnwindTo(n) ==
  /\ pend' = SubSeq(pend, 1, n)
  /\ stack' \in SUBSET stack

Unwind ==
  /\ Mutating
  /\ pend # <<>>
  /\ \E n \in 0..(Len(pend) - 1) : UnwindTo(n)
  /\ UNCHANGED <<store, reg, bitmap, status>>
-----------------------------------------------------------------------------
(* Mutations of Place: the image pointer is not stored; the mark is kept.   *)
Place_NoData(a, cell) ==
  /\ type' = [type EXCEPT ![a] = cell.type]
  /\ mark' = [mark EXCEPT ![a] = 0]
  /\ car' = [car EXCEPT ![a] = cell.car]
  /\ cdr' = [cdr EXCEPT ![a] = IF cell.type = "img" THEN NIL ELSE cell.cdr]
  /\ stack' = stack \cup {a}
  /\ pend' = Pop

Place_KeepMark(a, cell) ==
  /\ type' = [type EXCEPT ![a] = cell.type]
  /\ UNCHANGED mark
  /\ car' = [car EXCEPT ![a] = cell.car]
  /\ cdr' = [cdr EXCEPT ![a] = cell.cdr]
  /\ stack' = stack \cup {a}
  /\ pend' = Pop

(* NEWCELL: the cell leaves the free list and receives its contents.       *)
Place(a, cell) ==
  /\ type' = [type EXCEPT ![a] = cell.type]
  /\ mark' = [mark EXCEPT ![a] = 0]
  /\ car' = [car EXCEPT ![a] = cell.car]
  /\ cdr' = [cdr EXCEPT ![a] = cell.cdr]
  /\ stack' = stack \cup {a}
  /\ pend' = Pop

MayTake ==
  /\ status = "running" /\ pend # <<>>
  /\ Top.at \in {"hook", "take"} \/ (Top.at = "test" /\ freelist # <<>>)
  /\ Cardinality(stack) < MaxStack

(* Mutation: the free list is not advanced.                                *)
NewcellTake_Stuck ==
  /\ MayTake
  /\ freelist # <<>>
  /\ Place(Head(freelist), Top.cell)
  /\ UNCHANGED <<active, heap, freelist, reg, bitmap, status>>

NewcellTake ==
  /\ MayTake
  /\ freelist # <<>>
  /\ Place(Head(freelist), Top.cell)
  /\ freelist' = Tail(freelist)
  /\ UNCHANGED <<active, heap, reg, bitmap, status>>

(* After *after-gc* returns NEWCELL does not test the free list again: a   *)
(* hook that used up every cell makes it take, and dereference, NIL.       *)
NewcellNull ==
  /\ MayTake
  /\ freelist = <<>>
  /\ status' = "crashed"
  /\ UNCHANGED <<store, reg, stack, bitmap, pend>>

(* gc_for_newcell, while heaps[0] still has cells never handed out.        *)
GcBump ==
  /\ NewcellAt("test")
  /\ freelist = <<>>
  /\ heap <= HeapSize
  /\ Cardinality(stack) < MaxStack
  /\ Place(heap, Top.cell)
  /\ heap' = heap + 1
  /\ UNCHANGED <<active, freelist, reg, bitmap, status>>
-----------------------------------------------------------------------------
(* Mutations of MarkSets: the arguments of suspended allocations, or the   *)
(* protected registers, are not marked.                                    *)
MarkSets_NoArgs ==
  {M \in SUBSET InUse :
     /\ stack \cup ({reg[v] : v \in Reg} \cap Addr) \subseteq M
     /\ \A a \in M : mark[a] = 0 => Refs(a) \subseteq M}

MarkSets_NoRegs ==
  {M \in SUBSET InUse :
     /\ stack \cup UNION {RequestRefs(pend[i]) : i \in 1..Len(pend)} \subseteq M
     /\ \A a \in M : mark[a] = 0 => Refs(a) \subseteq M}

(* gc_mark_and_sweep.  gc_mark stops at a cell whose mark is already set,  *)
(* so the set it marks is closed only at cells whose mark was clear.  Any  *)
(* closed set of used cells that contains the roots is the result for some *)
(* contents of the C stack.                                                *)
MarkSets ==
  {M \in SUBSET InUse :
     /\ Held \cap Addr \subseteq M
     /\ \A a \in M : mark[a] = 0 => Refs(a) \subseteq M}

(* gc_sweep collects what is unmarked: the cells of heaps[0] that were     *)
(* never handed out have just been made free and unmarked.                 *)
Unmarked(M) == {a \in Active : a \notin M /\ (mark[a] = 0 \/ Raw(a))}

(* gc_sweep pushes the cells in address order: the last is the first.      *)
Descending(S) ==
  {q \in [1..Cardinality(S) -> S] :
     /\ \A i, j \in 1..Cardinality(S) : i < j => q[i] > q[j]
     /\ \A a \in S : \E i \in 1..Cardinality(S) : q[i] = a}

(* allocate_aheap chains a new heap in address order before the free list. *)
Ascending(S) ==
  {q \in [1..Cardinality(S) -> S] :
     /\ \A i, j \in 1..Cardinality(S) : i < j => q[i] < q[j]
     /\ \A a \in S : \E i \in 1..Cardinality(S) : q[i] = a}

(* Mutations: every image is finalized; none is.                           *)
Finalized_All(S) == {cdr[a] : a \in {s \in Addr : type[s] = "img"}}
Finalized_None(S) == {}

(* Which bitmaps the finalizer _img_gc_free unloads.                       *)
Finalized(S) == {cdr[a] : a \in {s \in S : type[s] = "img"}}

(* Mutation: gc_sweep does not clear the marks gc_mark has set.            *)
Sweep_KeepMarks(M) ==
  LET S == Unmarked(M) IN
  /\ heap' = HeapSize + 1
  /\ type' = [a \in Addr |-> IF a \in S THEN "free" ELSE type[a]]
  /\ mark' = [a \in Addr |-> IF a \in M THEN 1 ELSE mark[a]]
  /\ car' = [a \in Addr |-> IF a \in S THEN NIL ELSE car[a]]
  /\ cdr' = [a \in Addr |-> IF a \in S THEN NIL ELSE cdr[a]]
  /\ freelist' \in Descending(S)
  /\ bitmap' = [b \in Bitmap |-> IF b \in Finalized(S) THEN "unloaded" ELSE bitmap[b]]
  /\ UNCHANGED <<active, status>>

(* gc_sweep, over the heaps allocated so far.                              *)
Sweep(M) ==
  LET S == Unmarked(M) IN
  /\ heap' = HeapSize + 1
  /\ type' = [a \in Addr |-> IF a \in S THEN "free" ELSE type[a]]
  /\ mark' = [a \in Addr |-> IF a \in Active THEN 0 ELSE mark[a]]
  /\ car' = [a \in Addr |-> IF a \in S THEN NIL ELSE car[a]]
  /\ cdr' = [a \in Addr |-> IF a \in S THEN NIL ELSE cdr[a]]
  /\ freelist' \in Descending(S)
  /\ bitmap' = [b \in Bitmap |-> IF b \in Finalized(S) THEN "unloaded" ELSE bitmap[b]]
  /\ status' = IF \E a \in S : type[a] = "img" /\ cdr[a] = NIL THEN "fatal" ELSE status
  /\ UNCHANGED active

(* What gc_for_newcell does with n free cells after a collection.          *)
AfterCollect(n) == IF n < HookMin THEN "grow" ELSE IF AfterGC THEN "hook" ELSE "take"

GcCollect ==
  /\ NewcellAt("test")
  /\ freelist = <<>>
  /\ heap > HeapSize
  /\ \E M \in MarkSets : Sweep(M) /\ SetTop(AfterCollect(Cardinality(Unmarked(M))))
  /\ UNCHANGED <<reg, stack>>

(* The Lisp function gc.                                                   *)
UserGc ==
  /\ Mutating
  /\ \E M \in MarkSets : Sweep(M)
  /\ UNCHANGED <<reg, stack, pend>>

(* Mutation: one heap too many.                                            *)
AllocateAHeap_OneMore ==
  /\ active <= NHeaps
  /\ active' = active + 1
  /\ type' = [a \in Addr |-> IF a \in HeapCells(active) THEN "free" ELSE type[a]]
  /\ \E q \in Ascending(HeapCells(active)) : freelist' = q \o freelist
  /\ UNCHANGED <<heap, mark, car, cdr>>

(* allocate_aheap: the gc_mark fields of the new cells keep whatever the   *)
(* memory held.                                                            *)
AllocateAHeap ==
  /\ active < NHeaps
  /\ active' = active + 1
  /\ type' = [a \in Addr |-> IF a \in HeapCells(active) THEN "free" ELSE type[a]]
  /\ \E q \in Ascending(HeapCells(active)) : freelist' = q \o freelist
  /\ UNCHANGED <<heap, mark, car, cdr>>

GcGrow ==
  /\ NewcellAt("grow")
  /\ AllocateAHeap
  /\ SetTop("take")
  /\ UNCHANGED <<reg, stack, bitmap, status>>

(* Mutation: an empty free list is not noticed.                            *)
GcNoGrow_Unchecked ==
  /\ NewcellAt("grow")
  /\ active = NHeaps
  /\ SetTop("take")
  /\ UNCHANGED <<store, reg, stack, bitmap, status>>

(* No heap left to allocate, but the collection found some cells.          *)
GcNoGrow ==
  /\ NewcellAt("grow")
  /\ active = NHeaps
  /\ freelist # <<>>
  /\ SetTop("take")
  /\ UNCHANGED <<store, reg, stack, bitmap, status>>

(* An error leaves gc_for_newcell: no heap is left and no cell was found   *)
(* ("ran out of storage"), or must_malloc fails in allocate_aheap, whether *)
(* or not some were.                                                       *)
GcOutOfStorage ==
  /\ NewcellAt("grow")
  /\ active < NHeaps \/ freelist = <<>>
  /\ \E n \in 0..(Len(pend) - 1) : UnwindTo(n)
  /\ UNCHANGED <<store, reg, bitmap, status>>

(* The Lisp function allocate-heap.                                        *)
UserAllocateHeap ==
  /\ Mutating
  /\ AllocateAHeap
  /\ UNCHANGED <<reg, stack, bitmap, pend, status>>
-----------------------------------------------------------------------------
Mutator ==
  \/ \E a \in stack : Drop(a) \/ Car(a) \/ Cdr(a)
  \/ \E a \in stack, x \in stack \cup {NIL} : SetCar(a, x) \/ SetCdr(a, x)
  \/ \E x, y \in stack \cup {NIL} : Cons(x, y)
  \/ \E b \in Bitmap : ImgOpen(b)
  \/ \E v \in Reg : GetVar(v)
  \/ \E v \in Reg, x \in stack \cup {NIL} : SetVar(v, x)
  \/ Unwind
  \/ UserGc
  \/ UserAllocateHeap

Newcell == NewcellTake \/ NewcellNull \/ GcBump \/ GcCollect
             \/ GcGrow \/ GcNoGrow \/ GcOutOfStorage

Next == Mutator \/ Newcell

Spec == Init /\ [][Next]_vars
-----------------------------------------------------------------------------
(* Every variable has its type, and the suspended calls below the top one  *)
(* are all inside *after-gc*.                                              *)
TypeOK ==
  /\ active \in 1..NHeaps
  /\ heap \in 1..(HeapSize + 1)
  /\ type \in [Addr -> {"raw", "free", "cons", "img"}]
  /\ mark \in [Addr -> {0, 1}]
  /\ car \in [Addr -> Value]
  /\ cdr \in [Addr -> Value \cup Bitmap]
  /\ freelist \in Seq(Addr)
  /\ reg \in [Reg -> Value]
  /\ stack \in SUBSET Addr
  /\ bitmap \in [Bitmap -> {"none", "loaded", "unloaded"}]
  /\ pend \in Seq(Request)
  /\ status \in {"running", "crashed", "fatal"}
  /\ \A i \in 1..(Len(pend) - 1) : pend[i].at = "hook"

(* No cell is on the free list twice and only free cells are on it: a cell *)
(* handed out by NEWCELL belongs to one owner.                             *)
OnFreelist == {freelist[i] : i \in 1..Len(freelist)}
FreelistSound ==
  /\ \A i, j \in 1..Len(freelist) : freelist[i] = freelist[j] => i = j
  /\ \A a \in OnFreelist : type[a] = "free"

(* Nothing the program can reach, nor any cell in use, refers to a cell    *)
(* that is free or was never allocated, across collections that run inside *)
(* allocations of suspended callers.                                       *)
NoDangling ==
  /\ Held \subseteq InUse
  /\ \A a \in InUse : Refs(a) \subseteq InUse

(* Between collections the marks of the cells in use are clear: gc_mark    *)
(* would otherwise stop early and their children would be swept.  And a    *)
(* free cell missing from the free list, because allocate_aheap left a     *)
(* stale mark in it when the last sweep passed, has a clear mark by now.   *)
MarkHygiene ==
  /\ \A a \in InUse : mark[a] = 0
  /\ \A a \in Active : type[a] = "free" /\ a \notin OnFreelist => mark[a] = 0

(* The store stays sound while collections run inside suspended            *)
(* allocations: free list, references and marks agree on what is free.     *)
StoreSound == FreelistSound /\ NoDangling /\ MarkHygiene

(* Each image cell owns a loaded bitmap that no other cell and no          *)
(* suspended img_open owns, so img_* never gets a stale bitmap and the     *)
(* finalizer never unloads one twice.                                      *)
Owner(b) == {a \in Addr : type[a] = "img" /\ cdr[a] = b}
Waiting(b) == {i \in 1..Len(pend) : pend[i].cell.type = "img" /\ pend[i].cell.cdr = b}
ImagesLoaded ==
  /\ \A a \in Addr : type[a] = "img" => cdr[a] \in Bitmap
  /\ \A b \in Bitmap :
       Owner(b) # {} \/ Waiting(b) # {} => bitmap[b] = "loaded"
  /\ \A b \in Bitmap :
       /\ \A a1, a2 \in Owner(b) : a1 = a2
       /\ \A i, j \in Waiting(b) : i = j
       /\ Owner(b) = {} \/ Waiting(b) = {}

(* The finalizer never raises an error inside the collector, where it      *)
(* would end the process.                                                  *)
FinalizerNeverFatal == status # "fatal"

(* Image cells and bitmaps correspond one to one, so that the finalizer    *)
(* neither raises an error nor unloads a bitmap in use.                    *)
ImagesSound == ImagesLoaded /\ FinalizerNeverFatal

(* NEWCELL dereferences NIL only for an allocation whose own collection    *)
(* found cells enough to evaluate *after-gc*, which then used them up:     *)
(* without the expression, and for every other path through                *)
(* gc_for_newcell, there is a cell to take.                                *)
NewcellTakesACell ==
  status = "crashed" => AfterGC /\ pend # <<>> /\ Top.at = "hook"

(* The cells the program can reach: the least set with the roots that is   *)
(* closed under Refs.                                                      *)
Reachable ==
  {a \in Addr : \A M \in SUBSET Addr :
     (Held \subseteq M /\ \A m \in M : Refs(m) \subseteq M) => a \in M}

(* No step takes a cell the program can still reach, or changes what kind  *)
(* of cell it is; nor the bitmap of an image it can reach.                 *)
KeepsReachable ==
  \A a \in Reachable :
    /\ type'[a] = type[a]
    /\ type[a] = "img" => cdr'[a] = cdr[a] /\ bitmap'[cdr[a]] = "loaded"

(* A loaded bitmap is left without an owner only by a longjmp that cuts    *)
(* off the img_open that loaded it: no other path leaks an image.          *)
Owned(b) == Owner(b) # {} \/ Waiting(b) # {}
LeaksByUnwind ==
  \A b \in Bitmap :
    Owned(b) /\ ~Owned(b)' /\ bitmap'[b] = "loaded" => Unwind \/ GcOutOfStorage

(* No step takes from the program what it can reach, a cell or a bitmap,   *)
(* nor loses the last owner of a loaded bitmap but by such a longjmp.      *)
NothingLost == [][KeepsReachable /\ LeaksByUnwind]_vars

(* A cell missed by one sweep because of a stale mark is not missed by the *)
(* next one.                                                               *)
MissedOnce ==
  [][GcCollect \/ UserGc
       => \A a \in Active : type[a] = "free" /\ a \notin OnFreelist => a \in OnFreelist']_vars
-----------------------------------------------------------------------------
(* The store implements the abstract one: what is in use is what is live.  *)
Objects == INSTANCE ObjectStore WITH
             obj <- [a \in InUse |-> [type |-> type[a], car |-> car[a], cdr |-> cdr[a]]],
             held <- Held
ObjectStoreSpec == Objects!Spec
=============================================================================
