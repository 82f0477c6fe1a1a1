--------------------------- MODULE StorageProofs ---------------------------
(***************************************************************************)
(* Storage, for every number and size of heaps.  Inv is the inductive      *)
(* invariant; the lemmas up to InvStep prove it preserved, one per kind of *)
(* step; the theorems draw the checked properties and the refinement of    *)
(* ObjectStore from it.                                                    *)
(***************************************************************************)
EXTENDS Storage, FiniteSetTheorems, SequenceTheorems, TLAPS

(* A cell is raw memory exactly when it was never handed out of heaps[0]   *)
(* or lies in a heap not allocated yet: gc_for_newcell may take the next   *)
(* cell of heaps[0], and allocate_aheap chain a new heap, without touching *)
(* a cell already on the free list or in use.                              *)
RawShape ==
  /\ \A a \in Addr : type[a] = "raw" <=> Raw(a) \/ a \notin Active
  /\ \A a \in Addr : Raw(a) => a \in Active

(* When gc_for_newcell is about to return without having evaluated         *)
(* *after-gc*, the free list has a cell for NEWCELL.                       *)
TakeReady == pend # <<>> /\ Top.at = "take" => freelist # <<>>

(* No allocation is suspended in *after-gc* when that holds no expression. *)
HookOnly == ~AfterGC => \A i \in 1..Len(pend) : pend[i].at # "hook"

(* The inductive invariant: the checked invariants, strengthened by the    *)
(* three conditions above.                                                 *)
Inv ==
  /\ TypeOK
  /\ FreelistSound
  /\ RawShape
  /\ MarkHygiene
  /\ NoDangling
  /\ ImagesLoaded
  /\ TakeReady
  /\ HookOnly

(* The arithmetic of heap boundaries.                                      *)
LEMMA SizeNat ==
  ASSUME NEW k \in Nat
  PROVE  /\ k * HeapSize \in Nat
         /\ (k + 1) * HeapSize = k * HeapSize + HeapSize
         /\ k # 0 => HeapSize <= k * HeapSize
         /\ k <= NHeaps => k * HeapSize <= NHeaps * HeapSize
<1>1. HeapSize \in Nat /\ HeapSize # 0 /\ NHeaps \in Nat
  BY StorageAssumption
<1>2. k * HeapSize \in Nat
  BY <1>1
<1>3. (k + 1) * HeapSize = k * HeapSize + HeapSize
  BY <1>1
<1>4. k # 0 => HeapSize <= k * HeapSize
  BY <1>1
<1>5. k <= NHeaps => k * HeapSize <= NHeaps * HeapSize
  BY <1>1
<1> QED
  BY <1>2, <1>3, <1>4, <1>5

(* Addresses are positive numbers, heaps[0] exists, there are finitely     *)
(* many.                                                                   *)
LEMMA AddrNat ==
  /\ Addr \subseteq Nat
  /\ NIL \notin Addr
  /\ 1..HeapSize \subseteq Addr
  /\ IsFiniteSet(Addr)
<1>1. NHeaps * HeapSize \in Nat /\ HeapSize <= NHeaps * HeapSize
  BY SizeNat, StorageAssumption
<1>2. IsFiniteSet(1..(NHeaps * HeapSize))
  BY <1>1, FS_Interval
<1> DEFINE n == NHeaps * HeapSize
<1>3. n \in Nat /\ HeapSize <= n /\ Addr = 1..n
  BY <1>1 DEF Addr
<1> HIDE DEF n
<1> QED
  BY <1>2, <1>3, StorageAssumption DEF Addr, NIL

(* The chains gc_sweep and allocate_aheap build list each cell of a set    *)
(* once.                                                                   *)
LEMMA ListingIsSeq ==
  ASSUME NEW S \in SUBSET Addr, NEW q,
         q \in Descending(S) \/ q \in Ascending(S)
  PROVE  /\ q \in Seq(Addr)
         /\ Len(q) = Cardinality(S)
         /\ {q[i] : i \in 1..Len(q)} = S
         /\ \A i, j \in 1..Len(q) : q[i] = q[j] => i = j
<1>1. Cardinality(S) \in Nat
  BY AddrNat, FS_Subset, FS_CardinalityType
<1>2. q \in [1..Cardinality(S) -> S]
  BY DEF Descending, Ascending
<1>3. q \in Seq(Addr) /\ Len(q) = Cardinality(S)
  BY <1>1, <1>2
<1>4. \A a \in S : \E i \in 1..Cardinality(S) : q[i] = a
  BY DEF Descending, Ascending
<1>5. \A i, j \in 1..Cardinality(S) : i < j => q[i] # q[j]
  <2>1. \A i \in 1..Cardinality(S) : q[i] \in Nat
    BY <1>2, AddrNat
  <2> QED BY <2>1 DEF Descending, Ascending
<1> QED
  BY <1>1, <1>2, <1>3, <1>4, <1>5

(* A longjmp leaves the calls below the catching frame as they were.       *)
LEMMA PendCut ==
  ASSUME TypeOK, NEW n \in 0..(Len(pend) - 1), pend' = SubSeq(pend, 1, n)
  PROVE  /\ pend' \in Seq(Request)
         /\ Len(pend') = n
         /\ \A i \in 1..n : i \in 1..(Len(pend) - 1) /\ pend'[i] = pend[i]
<1>1. pend \in Seq(Request)
  BY DEF TypeOK
<1>2. \A i \in 1..n : pend[i] \in Request
  BY <1>1
<1> QED
  BY <1>1, <1>2, SubSeqProperties

(* A new call of NEWCELL goes on top of the suspended ones.                *)
LEMMA PendPush ==
  ASSUME TypeOK, NEW r \in Request, pend' = Append(pend, r)
  PROVE  /\ pend' \in Seq(Request)
         /\ Len(pend') = Len(pend) + 1
         /\ pend'[Len(pend) + 1] = r
         /\ \A i \in 1..Len(pend) : pend'[i] = pend[i]
BY DEF TypeOK

(* Only the phase of the innermost call of NEWCELL changes.                *)
LEMMA PendSet ==
  ASSUME TypeOK, pend # <<>>, NEW p \in Phase, SetTop(p)
  PROVE  /\ pend' \in Seq(Request)
         /\ Len(pend') = Len(pend)
         /\ Len(pend) \in 1..Len(pend)
         /\ pend'[Len(pend)].at = p
         /\ \A i \in 1..Len(pend) : pend'[i].cell = pend[i].cell
         /\ \A i \in 1..(Len(pend) - 1) : pend'[i] = pend[i]
<1>1. pend \in Seq(Request) /\ Len(pend) \in 1..Len(pend) /\ Len(pend) \in Nat
  BY DEF TypeOK
<1> DEFINE L == Len(pend)
           e == [pend[L] EXCEPT !.at = p]
<1>2. pend[L] \in Request
  BY <1>1
<1>3. e \in Request /\ e.at = p /\ e.cell = pend[L].cell
  BY <1>2 DEF Request
<1>4. pend' = [pend EXCEPT ![L] = e]
  BY DEF SetTop
<1> HIDE DEF e
<1> QED
  BY <1>1, <1>3, <1>4, ExceptSeq

(* NEWCELL takes the first free cell: the rest of the list is the others.  *)
LEMMA TakeFirst ==
  ASSUME TypeOK, FreelistSound, freelist # <<>>, freelist' = Tail(freelist)
  PROVE  /\ Head(freelist) \in Addr
         /\ Head(freelist) \in OnFreelist
         /\ freelist' \in Seq(Addr)
         /\ \A i, j \in 1..Len(freelist') : freelist'[i] = freelist'[j] => i = j
         /\ OnFreelist' = OnFreelist \ {Head(freelist)}
<1>1. freelist \in Seq(Addr)
  BY DEF TypeOK
<1>2. /\ Head(freelist) \in Addr /\ Tail(freelist) \in Seq(Addr)
      /\ Len(Tail(freelist)) = Len(freelist) - 1
      /\ \A i \in 1..Len(Tail(freelist)) : Tail(freelist)[i] = freelist[i + 1]
      /\ Len(freelist) \in Nat \ {0}
      /\ Head(freelist) = freelist[1]
  BY <1>1, HeadTailProperties, EmptySeq
<1>3. \A i, j \in 1..Len(freelist) : freelist[i] = freelist[j] => i = j
  BY DEF FreelistSound
<1>4. \A i, j \in 1..Len(freelist') : freelist'[i] = freelist'[j] => i = j
  BY <1>2, <1>3
<1>5. OnFreelist' = OnFreelist \ {Head(freelist)}
  <2>1. ASSUME NEW a \in OnFreelist' PROVE a \in OnFreelist /\ a # Head(freelist)
    BY <1>2, <1>3 DEF OnFreelist
  <2>2. ASSUME NEW a \in OnFreelist, a # Head(freelist) PROVE a \in OnFreelist'
    <3>1. PICK i \in 1..Len(freelist) : freelist[i] = a
      BY DEF OnFreelist
    <3>2. i - 1 \in 1..Len(freelist') /\ freelist'[i - 1] = a
      BY <1>2, <2>2, <3>1
    <3> QED BY <3>2 DEF OnFreelist
  <2> QED BY <2>1, <2>2
<1>6. Head(freelist) \in OnFreelist
  BY <1>2 DEF OnFreelist
<1> QED
  BY <1>2, <1>4, <1>5, <1>6


(* Dropping, following and storing references preserves the invariant.     *)
LEMMA MutatorWrites ==
  ASSUME Inv,
         \/ \E a \in stack : Drop(a) \/ Car(a) \/ Cdr(a)
         \/ \E a \in stack, x \in stack \cup {NIL} : SetCar(a, x) \/ SetCdr(a, x)
         \/ \E v \in Reg : GetVar(v)
         \/ \E v \in Reg, x \in stack \cup {NIL} : SetVar(v, x)
  PROVE  Inv'
<1> USE DEF Inv, store
<1>1. UNCHANGED <<active, heap, type, mark, freelist, bitmap, pend, status>>
  BY DEF Drop, Car, Cdr, SetCar, SetCdr, GetVar, SetVar
<1>2. TypeOK'
  <2>1. /\ stack \in SUBSET Addr /\ reg \in [Reg -> Value]
        /\ car \in [Addr -> Value] /\ cdr \in [Addr -> Value \cup Bitmap]
    BY DEF TypeOK
  <2>2. stack' \in SUBSET Addr
    BY <2>1 DEF Drop, Car, Cdr, SetCar, SetCdr, GetVar, SetVar, Hold
  <2>3. stack \cup {NIL} \subseteq Value
    BY <2>1 DEF Value
  <2>4. reg' \in [Reg -> Value]
    BY <2>1, <2>3 DEF Drop, Car, Cdr, SetCar, SetCdr, GetVar, SetVar
  <2>5. car' \in [Addr -> Value]
    BY <2>1, <2>3 DEF Drop, Car, Cdr, SetCar, SetCdr, GetVar, SetVar
  <2>6. cdr' \in [Addr -> Value \cup Bitmap]
    BY <2>1, <2>3 DEF Drop, Car, Cdr, SetCar, SetCdr, GetVar, SetVar
  <2> QED BY <1>1, <2>2, <2>4, <2>5, <2>6 DEF TypeOK
<1>3. (FreelistSound /\ RawShape /\ MarkHygiene /\ TakeReady /\ HookOnly)'
  BY <1>1 DEF FreelistSound, OnFreelist, RawShape, Raw, Active, MarkHygiene, InUse,
              TakeReady, Top, HookOnly
<1>4. InUse' = InUse
  BY <1>1 DEF InUse
<1>5. NoDangling'
  <2>1. /\ stack \subseteq InUse
        /\ \A v \in Reg : reg[v] \in Addr => reg[v] \in InUse
        /\ \A i \in 1..Len(pend) : RequestRefs(pend[i]) \subseteq InUse
    BY DEF NoDangling, Held
  <2>2. \A a \in InUse : Refs(a) \subseteq InUse
    BY DEF NoDangling
  <2>3. /\ stack' \subseteq InUse
        /\ \A v \in Reg : reg'[v] \in Addr => reg'[v] \in InUse
    BY <2>1, <2>2, AddrNat
       DEF Drop, Car, Cdr, SetCar, SetCdr, GetVar, SetVar, Hold, Refs, TypeOK
  <2>4. \A a \in InUse : Refs(a)' \subseteq InUse
    BY <1>1, <2>1, <2>2, AddrNat
       DEF Drop, Car, Cdr, SetCar, SetCdr, GetVar, SetVar, Refs, TypeOK, InUse
  <2>5. \A i \in 1..Len(pend) : RequestRefs(pend[i])' = RequestRefs(pend[i])
    BY <1>1 DEF RequestRefs
  <2>6. Held' \subseteq InUse
    BY <1>1, <2>1, <2>3, <2>5 DEF Held
  <2> QED BY <1>4, <2>4, <2>6 DEF NoDangling
<1>6. ImagesLoaded'
  <2>1. \A a \in Addr : type[a] = "img" => cdr'[a] = cdr[a]
    BY DEF Drop, Car, Cdr, SetCar, SetCdr, GetVar, SetVar, TypeOK
  <2>2. \A b \in Bitmap : Owner(b)' = Owner(b) /\ Waiting(b)' = Waiting(b)
    BY <1>1, <2>1 DEF Owner, Waiting
  <2> QED BY <1>1, <2>1, <2>2 DEF ImagesLoaded
<1> QED
  BY <1>2, <1>3, <1>5, <1>6

(* Entering NEWCELL, for cons or for img_open, preserves the invariant.    *)
LEMMA Requests ==
  ASSUME Inv,
         \/ \E x, y \in stack \cup {NIL} : Cons(x, y)
         \/ \E b \in Bitmap : ImgOpen(b)
  PROVE  Inv'
<1> USE DEF Inv, store
<1>1. UNCHANGED <<active, heap, type, mark, car, cdr, freelist, reg, stack, status>> /\ Mutating
  BY DEF Cons, ImgOpen
<1>2. PICK c \in Content :
        /\ pend' = Append(pend, [cell |-> c, at |-> "test"])
        /\ \/ /\ c.type = "cons" /\ {c.car, c.cdr} \subseteq stack \cup {NIL}
              /\ bitmap' = bitmap
           \/ /\ c.type = "img" /\ c.car = NIL /\ bitmap[c.cdr] = "none"
              /\ bitmap' = [bitmap EXCEPT ![c.cdr] = "loaded"]
  <2>1. CASE \E x, y \in stack \cup {NIL} : Cons(x, y)
    <3>1. PICK x \in stack \cup {NIL}, y \in stack \cup {NIL} : Cons(x, y)
      BY <2>1
    <3>2. [type |-> "cons", car |-> x, cdr |-> y] \in Content
      BY DEF Content, Value, TypeOK
    <3> QED BY <3>1, <3>2 DEF Cons, Ask
  <2>2. CASE \E b \in Bitmap : ImgOpen(b)
    <3>1. PICK b \in Bitmap : ImgOpen(b)
      BY <2>2
    <3>2. [type |-> "img", car |-> NIL, cdr |-> b] \in Content
      BY DEF Content
    <3> QED BY <3>1, <3>2 DEF ImgOpen, Ask
  <2> QED BY <2>1, <2>2
<1> DEFINE L == Len(pend)
           r == [cell |-> c, at |-> "test"]
<1>3. r \in Request /\ r.cell = c /\ r.at = "test"
  BY DEF Request, Phase
<1>4. /\ pend' \in Seq(Request) /\ Len(pend') = L + 1 /\ L \in Nat
      /\ pend'[L + 1] = r /\ \A i \in 1..L : pend'[i] = pend[i]
  BY <1>2, <1>3, PendPush DEF TypeOK
<1> HIDE DEF r
<1>5. TypeOK'
  <2>1. bitmap' \in [Bitmap -> {"none", "loaded", "unloaded"}]
    BY <1>2 DEF TypeOK
  <2>2. \A i \in 1..(Len(pend') - 1) : pend'[i].at = "hook"
    BY <1>1, <1>4 DEF TypeOK, Mutating
  <2> QED BY <1>1, <1>4, <2>1, <2>2 DEF TypeOK
<1>6. (FreelistSound /\ RawShape /\ MarkHygiene)'
  BY <1>1 DEF FreelistSound, OnFreelist, RawShape, Raw, Active, MarkHygiene, InUse
<1>7. (TakeReady /\ HookOnly)'
  BY <1>1, <1>3, <1>4 DEF TakeReady, Top, HookOnly
<1>8. InUse' = InUse /\ \A a \in InUse : Refs(a)' = Refs(a)
  BY <1>1 DEF InUse, Refs
<1>9. NoDangling'
  <2>1. /\ stack \subseteq InUse
        /\ \A v \in Reg : reg[v] \in Addr => reg[v] \in InUse
        /\ \A i \in 1..Len(pend) : RequestRefs(pend[i]) \subseteq InUse
    BY DEF NoDangling, Held
  <2>2. RequestRefs(r) \subseteq InUse
    BY <1>2, <1>3, <2>1, AddrNat, StorageAssumption DEF RequestRefs, Content
  <2>3. \A i \in 1..Len(pend') : RequestRefs(pend'[i]) \subseteq InUse
    BY <1>4, <2>1, <2>2
  <2>4. Held' \subseteq InUse
    BY <1>1, <2>1, <2>3 DEF Held, RequestRefs
  <2> QED BY <1>8, <2>4 DEF NoDangling
<1>10. ImagesLoaded'
  <2>1. \A b \in Bitmap : Owner(b)' = Owner(b)
    BY <1>1 DEF Owner
  <2>2. \A b \in Bitmap :
          Waiting(b)' = Waiting(b) \cup (IF c.type = "img" /\ c.cdr = b THEN {L + 1} ELSE {})
    BY <1>3, <1>4 DEF Waiting
  <2>3. c.type = "img" => c.cdr \in Bitmap
    BY DEF Content
  <2>4. c.type = "img" => Owner(c.cdr) = {} /\ Waiting(c.cdr) = {} /\ bitmap'[c.cdr] = "loaded"
    BY <1>2, <2>3 DEF ImagesLoaded, TypeOK
  <2>5. \A b \in Bitmap : b # c.cdr \/ c.type = "cons" => bitmap'[b] = bitmap[b]
    BY <1>2 DEF TypeOK
  <2>6. c.type \in {"cons", "img"}
    BY DEF Content
  <2>7. \A b \in Bitmap :
          \/ Waiting(b)' = Waiting(b) /\ bitmap'[b] = bitmap[b]
          \/ /\ Waiting(b)' = {L + 1} /\ Owner(b) = {} /\ bitmap'[b] = "loaded"
    BY <2>2, <2>4, <2>5, <2>6
  <2> QED BY <1>1, <2>1, <2>7 DEF ImagesLoaded
<1> QED
  BY <1>5, <1>6, <1>7, <1>9, <1>10

(* A longjmp preserves the invariant, whatever allocations it abandons.    *)
LEMMA Unwinding ==
  ASSUME Inv, NEW n \in 0..(Len(pend) - 1), UnwindTo(n),
         UNCHANGED <<store, reg, bitmap, status>>
  PROVE  Inv'
<1> USE DEF Inv
<1>1. UNCHANGED <<active, heap, type, mark, car, cdr, freelist, reg, bitmap, status>>
  BY DEF store
<1>2. stack' \subseteq stack /\ pend' = SubSeq(pend, 1, n)
  BY DEF UnwindTo
<1>3. /\ pend' \in Seq(Request) /\ Len(pend') = n /\ n \in Nat /\ Len(pend) \in Nat
      /\ \A i \in 1..n : i \in 1..(Len(pend) - 1) /\ pend'[i] = pend[i]
  BY <1>2, PendCut DEF TypeOK
<1>4. \A i \in 1..n : pend'[i].at = "hook"
  BY <1>3 DEF TypeOK
<1>5. TypeOK'
  BY <1>1, <1>2, <1>3, <1>4 DEF TypeOK
<1>6. (FreelistSound /\ RawShape /\ MarkHygiene)'
  BY <1>1 DEF FreelistSound, OnFreelist, RawShape, Raw, Active, MarkHygiene, InUse
<1>7. (TakeReady /\ HookOnly)'
  <2>1. pend' # <<>> => Top' = pend'[n] /\ n \in 1..n
    BY <1>3 DEF Top
  <2>2. \A i \in 1..n : i \in 1..Len(pend) /\ pend'[i] = pend[i]
    BY <1>3
  <2>3. TakeReady'
    BY <1>4, <2>1 DEF TakeReady
  <2>4. HookOnly'
    BY <1>3, <2>2 DEF HookOnly
  <2> QED BY <2>3, <2>4
<1>8. NoDangling'
  <2>1. InUse' = InUse /\ \A a \in InUse : Refs(a)' = Refs(a)
    BY <1>1 DEF InUse, Refs
  <2>2. Held' \subseteq Held
    BY <1>1, <1>2, <1>3 DEF Held, RequestRefs
  <2> QED BY <2>1, <2>2 DEF NoDangling
<1>9. ImagesLoaded'
  <2>1. \A b \in Bitmap : Owner(b)' = Owner(b) /\ Waiting(b)' \subseteq Waiting(b)
    BY <1>1, <1>3 DEF Owner, Waiting
  <2> QED BY <1>1, <2>1 DEF ImagesLoaded
<1> QED
  BY <1>5, <1>6, <1>7, <1>8, <1>9

(* Filling a cell that is not in use with the contents of the innermost    *)
(* request: nothing dangles, and an image passes from the suspended        *)
(* img_open to its cell.                                                   *)
LEMMA Placing ==
  ASSUME Inv, pend # <<>>, NEW a \in Addr, type[a] \in {"free", "raw"},
         Place(a, Top.cell), UNCHANGED <<reg, bitmap>>
  PROVE  /\ type' \in [Addr -> {"raw", "free", "cons", "img"}]
         /\ mark' \in [Addr -> {0, 1}]
         /\ car' \in [Addr -> Value]
         /\ cdr' \in [Addr -> Value \cup Bitmap]
         /\ stack' \in SUBSET Addr
         /\ pend' \in Seq(Request)
         /\ \A i \in 1..(Len(pend') - 1) : pend'[i].at = "hook"
         /\ type'[a] \in {"cons", "img"} /\ mark'[a] = 0
         /\ \A x \in Addr \ {a} : type'[x] = type[x] /\ mark'[x] = mark[x]
         /\ NoDangling' /\ ImagesLoaded' /\ TakeReady' /\ HookOnly'
<1> USE DEF Inv
<1> DEFINE L == Len(pend)
           c == pend[L].cell
<1>1. pend \in Seq(Request) /\ L \in 1..L /\ L \in Nat
  BY DEF TypeOK
<1>2. pend[L] \in Request /\ c \in Content /\ Top.cell = c
  <2>1. pend[L] \in Request
    BY <1>1, ElementOfSeq
  <2> QED BY <2>1 DEF Request, Top
<1>3. pend' = SubSeq(pend, 1, L - 1)
  BY DEF Place, Pop
<1>4. /\ pend' \in Seq(Request) /\ Len(pend') = L - 1
      /\ \A i \in 1..(L - 1) : i \in 1..(L - 1) /\ pend'[i] = pend[i]
  <2>1. L - 1 \in 0..(Len(pend) - 1)
    BY <1>1
  <2> HIDE DEF L
  <2>2. TypeOK
    OBVIOUS
  <2> QED BY <1>3, <2>1, <2>2, PendCut
<1>5. \A i \in 1..(L - 1) : pend'[i].at = "hook"
  BY <1>4 DEF TypeOK
<1>6. c.type \in {"cons", "img"} /\ c.car \in Value /\ c.cdr \in Value \cup Bitmap
  BY <1>2 DEF Content, Value
<1>7. /\ type' = [type EXCEPT ![a] = c.type]
      /\ mark' = [mark EXCEPT ![a] = 0]
      /\ car' = [car EXCEPT ![a] = c.car]
      /\ cdr' = [cdr EXCEPT ![a] = c.cdr]
      /\ stack' = stack \cup {a}
  BY <1>2 DEF Place
<1>20. c.type = "img" => c.cdr \in Bitmap
  BY <1>2 DEF Content
<1> HIDE DEF c
<1>8. /\ type' \in [Addr -> {"raw", "free", "cons", "img"}]
      /\ mark' \in [Addr -> {0, 1}]
      /\ car' \in [Addr -> Value]
      /\ cdr' \in [Addr -> Value \cup Bitmap]
      /\ stack' \in SUBSET Addr
  BY <1>6, <1>7 DEF TypeOK
<1>9. /\ type'[a] = c.type /\ mark'[a] = 0 /\ car'[a] = c.car /\ cdr'[a] = c.cdr
      /\ \A x \in Addr \ {a} : /\ type'[x] = type[x] /\ mark'[x] = mark[x]
                               /\ car'[x] = car[x] /\ cdr'[x] = cdr[x]
  BY <1>7 DEF TypeOK
<1>10. (TakeReady /\ HookOnly)'
  <2>1. pend' # <<>> => Top' = pend'[L - 1] /\ L - 1 \in 1..(L - 1)
    BY <1>1, <1>4 DEF Top
  <2>2. TakeReady'
    BY <1>5, <2>1 DEF TakeReady
  <2>3. HookOnly'
    BY <1>1, <1>4 DEF HookOnly
  <2> QED BY <2>2, <2>3
<1>11. NoDangling'
  <2>1. /\ stack \subseteq InUse
        /\ \A v \in Reg : reg[v] \in Addr => reg[v] \in InUse
        /\ \A i \in 1..L : RequestRefs(pend[i]) \subseteq InUse
    BY DEF NoDangling, Held
  <2>2. InUse' = InUse \cup {a} /\ a \notin InUse
    BY <1>6, <1>9 DEF InUse
  <2>3. Held' \subseteq InUse'
    <3>1. \A i \in 1..Len(pend') : RequestRefs(pend'[i]) \subseteq InUse
      BY <1>1, <1>4, <2>1
    <3> QED BY <1>7, <2>1, <2>2, <3>1 DEF Held, RequestRefs
  <2>4. Refs(a)' \subseteq InUse
    BY <1>1, <1>9, <2>1 DEF Refs, RequestRefs, c
  <2>5. \A x \in InUse : Refs(x)' = Refs(x)
    BY <1>9, <2>2 DEF Refs, InUse
  <2> QED BY <2>2, <2>3, <2>4, <2>5 DEF NoDangling
<1>12. ImagesLoaded'
  <2>1. \A b \in Bitmap :
          Owner(b)' = Owner(b) \cup (IF c.type = "img" /\ c.cdr = b THEN {a} ELSE {})
    BY <1>9 DEF Owner
  <2>2. \A b \in Bitmap : Waiting(b)' = Waiting(b) \ {L}
    BY <1>1, <1>4 DEF Waiting
  <2>3. \A b \in Bitmap : L \in Waiting(b) <=> c.type = "img" /\ c.cdr = b
    BY <1>1 DEF Waiting, c
  <2>4. \A x \in Addr : type'[x] = "img" => cdr'[x] \in Bitmap
    BY <1>9, <1>20 DEF ImagesLoaded
  <2>5. \A b \in Bitmap :
          \/ Owner(b)' = Owner(b) /\ Waiting(b)' = Waiting(b)
          \/ /\ Owner(b)' = {a} /\ Waiting(b)' = {} /\ bitmap[b] = "loaded"
    <3> TAKE b \in Bitmap
    <3>1. CASE L \in Waiting(b)
      <4>1. /\ Waiting(b) # {} => bitmap[b] = "loaded"
            /\ \A i, j \in Waiting(b) : i = j
            /\ Owner(b) = {} \/ Waiting(b) = {}
        BY DEF ImagesLoaded
      <4>2. Waiting(b)' = {} /\ Owner(b) = {} /\ bitmap[b] = "loaded"
        BY <2>2, <3>1, <4>1
      <4>3. Owner(b)' = {a}
        BY <2>1, <2>3, <3>1, <4>2
      <4> QED BY <4>2, <4>3
    <3>2. CASE L \notin Waiting(b)
      <4>1. ~(c.type = "img" /\ c.cdr = b)
        BY <2>3, <3>2
      <4>2. Owner(b)' = Owner(b)
        BY <2>1, <4>1
      <4>3. Waiting(b)' = Waiting(b)
        BY <2>2, <3>2
      <4> QED BY <4>2, <4>3
    <3> QED BY <3>1, <3>2
  <2> QED BY <2>4, <2>5 DEF ImagesLoaded
<1> QED
  BY <1>4, <1>5, <1>6, <1>8, <1>9, <1>10, <1>11, <1>12

(* After the mark phase exactly the marked cells stay in use, unchanged;   *)
(* they contain the roots and are closed under references because no used  *)
(* cell had a stale mark.                                                  *)
LEMMA SweepKeepsMarked ==
  ASSUME Inv, NEW M \in MarkSets, Sweep(M)
  PROVE  /\ Held \subseteq M /\ M \subseteq InUse
         /\ \A a \in M : Refs(a) \subseteq M
         /\ Unmarked(M) \in SUBSET Addr
         /\ InUse' = M /\ InUse \cap Unmarked(M) = InUse \ M
         /\ \A a \in M : type'[a] = type[a] /\ car'[a] = car[a] /\ cdr'[a] = cdr[a]
         /\ UNCHANGED <<active, status>>
<1> USE DEF Inv
<1>1. M \subseteq InUse /\ Held \cap Addr \subseteq M
  BY DEF MarkSets
<1>2. Held \subseteq M
  BY <1>1 DEF NoDangling, InUse
<1>3. \A a \in M : Refs(a) \subseteq M
  BY <1>1 DEF MarkSets, MarkHygiene
<1>4. Unmarked(M) \in SUBSET Addr
  BY DEF Unmarked, Active
<1>5. InUse \cap Unmarked(M) = InUse \ M
  <2>1. \A a \in InUse : a \in Active /\ mark[a] = 0
    BY DEF RawShape, MarkHygiene, InUse
  <2> QED BY <2>1, <1>1 DEF Unmarked, InUse
<1>6. /\ type' = [a \in Addr |-> IF a \in Unmarked(M) THEN "free" ELSE type[a]]
      /\ car' = [a \in Addr |-> IF a \in Unmarked(M) THEN NIL ELSE car[a]]
      /\ cdr' = [a \in Addr |-> IF a \in Unmarked(M) THEN NIL ELSE cdr[a]]
  BY DEF Sweep
<1>7. InUse' = M
  BY <1>1, <1>5, <1>6 DEF InUse
<1>8. \A a \in M : a \in Addr /\ a \notin Unmarked(M)
  BY <1>1, <1>5 DEF InUse
<1>9. \A a \in M : type'[a] = type[a] /\ car'[a] = car[a] /\ cdr'[a] = cdr[a]
  BY <1>6, <1>8
<1>10. UNCHANGED <<active, status>>
  <2>1. \A a \in Unmarked(M) : type[a] = "img" => cdr[a] # NIL
    BY <1>4, StorageAssumption DEF ImagesLoaded
  <2> QED BY <2>1 DEF Sweep
<1> QED
  BY <1>1, <1>2, <1>3, <1>4, <1>5, <1>7, <1>9, <1>10

(* A collection preserves the parts of the invariant about the store.      *)
LEMMA Sweeping ==
  ASSUME Inv, NEW M \in MarkSets, Sweep(M), UNCHANGED <<reg, stack>>,
         pend' \in Seq(Request), Len(pend') = Len(pend),
         \A i \in 1..Len(pend) : pend'[i].cell = pend[i].cell,
         \A i \in 1..(Len(pend) - 1) : pend'[i] = pend[i]
  PROVE  /\ TypeOK' /\ FreelistSound' /\ RawShape' /\ MarkHygiene'
         /\ NoDangling' /\ ImagesLoaded'
         /\ Len(freelist') = Cardinality(Unmarked(M))
<1> USE DEF Inv
<1> DEFINE S == Unmarked(M)
<1>1. /\ Held \subseteq M /\ M \subseteq InUse
      /\ \A a \in M : Refs(a) \subseteq M
      /\ S \in SUBSET Addr
      /\ InUse' = M /\ InUse \cap S = InUse \ M
      /\ \A a \in M : type'[a] = type[a] /\ car'[a] = car[a] /\ cdr'[a] = cdr[a]
      /\ UNCHANGED <<active, status>>
  BY SweepKeepsMarked
<1>2. freelist' \in Descending(S)
  BY DEF Sweep
<1>3. /\ freelist' \in Seq(Addr) /\ Len(freelist') = Cardinality(S)
      /\ OnFreelist' = S
      /\ \A i, j \in 1..Len(freelist') : freelist'[i] = freelist'[j] => i = j
  <2> HIDE DEF S
  <2> QED BY <1>1, <1>2, ListingIsSeq DEF OnFreelist
<1>4. /\ heap' = HeapSize + 1
      /\ type' = [a \in Addr |-> IF a \in S THEN "free" ELSE type[a]]
      /\ mark' = [a \in Addr |-> IF a \in Active THEN 0 ELSE mark[a]]
      /\ car' = [a \in Addr |-> IF a \in S THEN NIL ELSE car[a]]
      /\ cdr' = [a \in Addr |-> IF a \in S THEN NIL ELSE cdr[a]]
      /\ bitmap' = [b \in Bitmap |-> IF b \in Finalized(S) THEN "unloaded" ELSE bitmap[b]]
  BY DEF Sweep
<1>5. TypeOK'
  <2>1. /\ type' \in [Addr -> {"raw", "free", "cons", "img"}]
        /\ mark' \in [Addr -> {0, 1}]
        /\ car' \in [Addr -> Value]
        /\ cdr' \in [Addr -> Value \cup Bitmap]
        /\ bitmap' \in [Bitmap -> {"none", "loaded", "unloaded"}]
    <3> HIDE DEF S
    <3> QED BY <1>4 DEF TypeOK, Value
  <2>2. heap' \in 1..(HeapSize + 1) /\ active' \in 1..NHeaps /\ status' \in {"running", "crashed", "fatal"}
    BY <1>1, <1>4, StorageAssumption DEF TypeOK
  <2>3. \A i \in 1..(Len(pend') - 1) : pend'[i].at = "hook"
    BY DEF TypeOK
  <2>4. stack' \in SUBSET Addr /\ reg' \in [Reg -> Value]
    BY DEF TypeOK
  <2> QED BY <1>3, <2>1, <2>2, <2>3, <2>4 DEF TypeOK
<1>6. FreelistSound'
  <2>1. \A a \in S : type'[a] = "free"
    BY <1>1, <1>4
  <2> QED BY <1>3, <2>1 DEF FreelistSound
<1>7. Active' = Active
  BY <1>1 DEF Active
<1>8. RawShape'
  <2>1. \A a \in Addr : ~Raw(a)'
    BY <1>4, AddrNat, StorageAssumption DEF Raw
  <2>2. \A a \in Active : type[a] = "raw" => a \in S
    BY <1>1 DEF RawShape, Unmarked, InUse, Active
  <2>3. \A a \in S : a \in Active
    BY DEF Unmarked
  <2>4. \A a \in Addr : type'[a] = "raw" <=> a \notin Active
    BY <1>4, <2>2, <2>3 DEF RawShape
  <2> QED BY <1>7, <2>1, <2>4 DEF RawShape
<1>9. MarkHygiene'
  <2>1. \A a \in Active : mark'[a] = 0
    BY <1>4 DEF Active
  <2>2. M \subseteq Active
    BY <1>1 DEF RawShape, InUse
  <2> QED BY <1>1, <1>7, <2>1, <2>2 DEF MarkHygiene
<1>10. NoDangling'
  <2>1. Held' = Held
    BY DEF Held, RequestRefs
  <2>2. \A a \in M : Refs(a)' = Refs(a)
    BY <1>1 DEF Refs
  <2> QED BY <1>1, <2>1, <2>2 DEF NoDangling
<1>11. ImagesLoaded'
  <2>1. \A a \in Addr : type'[a] = "img" => a \in M /\ type[a] = "img" /\ cdr'[a] = cdr[a]
    BY <1>1 DEF InUse
  <2>2. \A b \in Bitmap : Owner(b)' \subseteq Owner(b) /\ Owner(b)' \subseteq M
    BY <2>1 DEF Owner
  <2>3. \A b \in Bitmap : Waiting(b)' = Waiting(b)
    BY DEF Waiting
  <2>4. \A b \in Bitmap : b \in Finalized(S) => \E a \in Owner(b) : a \notin M
    <3> SUFFICES ASSUME NEW b \in Bitmap, b \in Finalized(S)
                 PROVE  \E a \in Owner(b) : a \notin M
      OBVIOUS
    <3>1. PICK a \in S : type[a] = "img" /\ cdr[a] = b
      BY DEF Finalized
    <3>2. a \in Addr /\ a \notin M
      BY <1>1 DEF Unmarked
    <3> QED BY <3>1, <3>2 DEF Owner
  <2>5. \A b \in Bitmap : b \in Finalized(S) => Owner(b)' = {} /\ Waiting(b)' = {}
    <3> SUFFICES ASSUME NEW b \in Bitmap, b \in Finalized(S)
                 PROVE  Owner(b)' = {} /\ Waiting(b)' = {}
      OBVIOUS
    <3>1. PICK a \in Owner(b) : a \notin M
      BY <2>4
    <3>2. \A x \in Owner(b) : x = a
      BY DEF ImagesLoaded
    <3>3. Waiting(b) = {}
      BY <3>1 DEF ImagesLoaded
    <3> QED BY <2>2, <2>3, <3>1, <3>2, <3>3
  <2>6. \A b \in Bitmap : b \notin Finalized(S) => bitmap'[b] = bitmap[b]
    <3> HIDE DEF S
    <3> QED BY <1>4
  <2>7. \A a \in Addr : type'[a] = "img" => cdr'[a] \in Bitmap
    BY <2>1 DEF ImagesLoaded
  <2>8. \A b \in Bitmap : Owner(b)' # {} \/ Waiting(b)' # {} => bitmap'[b] = "loaded"
    BY <2>2, <2>3, <2>5, <2>6 DEF ImagesLoaded
  <2>9. \A b \in Bitmap :
          /\ \A a1, a2 \in Owner(b)' : a1 = a2
          /\ \A i, j \in Waiting(b)' : i = j
          /\ Owner(b)' = {} \/ Waiting(b)' = {}
    BY <2>2, <2>3 DEF ImagesLoaded
  <2> QED BY <2>7, <2>8, <2>9 DEF ImagesLoaded
<1> QED
  BY <1>3, <1>5, <1>6, <1>8, <1>9, <1>10, <1>11

(* allocate_aheap preserves the parts of the invariant about the store.    *)
LEMMA Growing ==
  ASSUME Inv, AllocateAHeap, UNCHANGED <<reg, stack, bitmap, status>>,
         pend' \in Seq(Request), Len(pend') = Len(pend),
         \A i \in 1..Len(pend) : pend'[i].cell = pend[i].cell,
         \A i \in 1..(Len(pend) - 1) : pend'[i] = pend[i]
  PROVE  /\ TypeOK' /\ FreelistSound' /\ RawShape' /\ MarkHygiene'
         /\ NoDangling' /\ ImagesLoaded'
         /\ freelist' # <<>>
<1> USE DEF Inv
<1> DEFINE New == HeapCells(active)
<1>1. /\ active < NHeaps /\ active' = active + 1
      /\ type' = [a \in Addr |-> IF a \in New THEN "free" ELSE type[a]]
      /\ UNCHANGED <<heap, mark, car, cdr>>
  BY DEF AllocateAHeap
<1>2. PICK q \in Ascending(New) : freelist' = q \o freelist
  BY DEF AllocateAHeap
<1>3. New \in SUBSET Addr
  BY DEF HeapCells
<1>4. active \in Nat /\ active # 0 /\ heap \in Nat
  BY StorageAssumption DEF TypeOK
<1> DEFINE m == active * HeapSize
<1>5. /\ m \in Nat /\ (active + 1) * HeapSize = m + HeapSize /\ HeapSize <= m
      /\ HeapSize \in Nat \ {0} /\ m + HeapSize <= NHeaps * HeapSize
  <2>1. active + 1 \in Nat /\ active + 1 <= NHeaps
    BY <1>1, <1>4, StorageAssumption
  <2> QED BY <1>4, <2>1, SizeNat, StorageAssumption
<1>6. New = {a \in Addr : m < a /\ a <= m + HeapSize}
  BY <1>5 DEF HeapCells
<1>7. Active = {a \in Addr : a <= m}
  BY DEF Active
<1>8. Active' = {a \in Addr : a <= m + HeapSize}
  BY <1>1, <1>5 DEF Active
<1> HIDE DEF m, New
<1>9. Active' = Active \cup New /\ Active \cap New = {}
  <2>1. \A a \in Addr : a \in Nat
    BY AddrNat
  <2>2. \A a \in Addr : a <= m + HeapSize <=> a <= m \/ (m < a /\ a <= m + HeapSize)
    BY <1>5, <2>1
  <2>3. \A a \in Addr : ~(a <= m /\ m < a)
    BY <1>5, <2>1
  <2> QED BY <1>6, <1>7, <1>8, <2>2, <2>3
<1>10. \A a \in New : type[a] = "raw" /\ a \notin OnFreelist /\ a \notin InUse
  BY <1>3, <1>9 DEF RawShape, FreelistSound, InUse
<1>11. /\ freelist' \in Seq(Addr)
       /\ OnFreelist' = New \cup OnFreelist
       /\ \A i, j \in 1..Len(freelist') : freelist'[i] = freelist'[j] => i = j
  <2>1. /\ q \in Seq(Addr) /\ {q[i] : i \in 1..Len(q)} = New
        /\ \A i, j \in 1..Len(q) : q[i] = q[j] => i = j
    BY <1>2, <1>3, ListingIsSeq
  <2>2. freelist \in Seq(Addr)
    BY DEF TypeOK
  <2>3. /\ freelist' \in Seq(Addr)
        /\ Len(freelist') = Len(q) + Len(freelist)
        /\ \A i \in 1..(Len(q) + Len(freelist)) :
             freelist'[i] = IF i <= Len(q) THEN q[i] ELSE freelist[i - Len(q)]
    BY <1>2, <2>1, <2>2, ConcatProperties
  <2>4. Len(q) \in Nat /\ Len(freelist) \in Nat
    BY <2>1, <2>2, LenProperties
  <2>5. \A i \in 1..Len(freelist') :
          \/ i \in 1..Len(q) /\ freelist'[i] = q[i] /\ freelist'[i] \in New
          \/ /\ i - Len(q) \in 1..Len(freelist) /\ ~(i <= Len(q))
             /\ freelist'[i] = freelist[i - Len(q)] /\ freelist'[i] \in OnFreelist
    BY <2>1, <2>3, <2>4 DEF OnFreelist
  <2>6. OnFreelist' \subseteq New \cup OnFreelist
    BY <2>5 DEF OnFreelist
  <2>7. \A i \in 1..Len(q) : i \in 1..Len(freelist') /\ freelist'[i] = q[i]
    BY <2>3, <2>4
  <2>8. \A i \in 1..Len(freelist) :
          i + Len(q) \in 1..Len(freelist') /\ freelist'[i + Len(q)] = freelist[i]
    <3> TAKE i \in 1..Len(freelist)
    <3>1. /\ i + Len(q) \in 1..(Len(q) + Len(freelist))
          /\ ~(i + Len(q) <= Len(q)) /\ (i + Len(q)) - Len(q) = i
      BY <2>4
    <3> QED BY <2>3, <3>1
  <2>9. New \subseteq OnFreelist'
    BY <2>1, <2>7 DEF OnFreelist
  <2>10. OnFreelist \subseteq OnFreelist'
    BY <2>8 DEF OnFreelist
  <2>11. ASSUME NEW i \in 1..Len(freelist'), NEW j \in 1..Len(freelist'),
                freelist'[i] = freelist'[j]
         PROVE  i = j
    <3>1. CASE i \in 1..Len(q) /\ freelist'[i] = q[i] /\ freelist'[i] \in New
      <4>1. j \in 1..Len(q) /\ freelist'[j] = q[j]
        BY <1>10, <2>5, <2>11, <3>1
      <4>2. q[i] = q[j]
        BY <2>11, <3>1, <4>1
      <4> QED BY <2>1, <3>1, <4>1, <4>2
    <3>2. CASE /\ i - Len(q) \in 1..Len(freelist)
               /\ freelist'[i] = freelist[i - Len(q)] /\ freelist'[i] \in OnFreelist
      <4>1. /\ j - Len(q) \in 1..Len(freelist)
            /\ freelist'[j] = freelist[j - Len(q)]
        BY <1>10, <2>5, <2>11, <3>2
      <4>2. freelist[i - Len(q)] = freelist[j - Len(q)]
        BY <2>11, <3>2, <4>1
      <4>3. i - Len(q) = j - Len(q)
        BY <3>2, <4>1, <4>2 DEF FreelistSound
      <4>4. i \in Nat /\ j \in Nat
        BY <2>11
      <4> QED BY <2>4, <4>3, <4>4
    <3> QED BY <2>5, <3>1, <3>2
  <2> QED BY <2>3, <2>6, <2>9, <2>10, <2>11
<1>12. TypeOK'
  <2>1. type' \in [Addr -> {"raw", "free", "cons", "img"}]
    BY <1>1 DEF TypeOK
  <2>2. active' \in 1..NHeaps
    BY <1>1, <1>4, StorageAssumption
  <2>3. \A i \in 1..(Len(pend') - 1) : pend'[i].at = "hook"
    BY DEF TypeOK
  <2> QED BY <1>1, <1>11, <2>1, <2>2, <2>3 DEF TypeOK
<1>13. FreelistSound'
  <2>1. \A a \in New \cup OnFreelist : type'[a] = "free"
    BY <1>1, <1>3 DEF FreelistSound, OnFreelist, TypeOK
  <2> QED BY <1>11, <2>1 DEF FreelistSound
<1>14. RawShape'
  <2>1. \A a \in Addr : Raw(a)' = Raw(a)
    BY <1>1 DEF Raw
  <2>2. \A a \in New : ~Raw(a)
    BY <1>3, <1>4, <1>5, <1>6, AddrNat DEF Raw
  <2>3. \A a \in Addr : Raw(a) => a \in Active'
    BY <1>9 DEF RawShape
  <2>4. \A a \in Addr : type'[a] = "raw" <=> Raw(a) \/ a \notin Active'
    BY <1>1, <1>9, <2>2 DEF RawShape
  <2> QED BY <2>1, <2>3, <2>4 DEF RawShape
<1>15. InUse' = InUse
  BY <1>1, <1>10 DEF InUse
<1>16. MarkHygiene'
  <2>1. \A a \in Addr \ New : type'[a] = type[a]
    BY <1>1
  <2>2. \A a \in Active' : a \in Addr /\ (a \notin New => a \in Active)
    BY <1>8, <1>9
  <2>3. \A a \in Active' : type'[a] = "free" /\ a \notin OnFreelist' => mark[a] = 0
    BY <1>11, <2>1, <2>2 DEF MarkHygiene
  <2> QED BY <1>1, <1>15, <2>3 DEF MarkHygiene
<1>17. NoDangling'
  <2>1. Held' = Held
    BY DEF Held, RequestRefs
  <2>2. \A a \in InUse : Refs(a)' = Refs(a)
    BY <1>1, <1>10 DEF Refs, InUse
  <2> QED BY <1>15, <2>1, <2>2 DEF NoDangling
<1>18. ImagesLoaded'
  <2>1. \A a \in Addr : type'[a] = "img" <=> type[a] = "img"
    BY <1>1, <1>10
  <2>2. \A b \in Bitmap : Owner(b)' = Owner(b) /\ Waiting(b)' = Waiting(b)
    BY <1>1, <2>1 DEF Owner, Waiting
  <2> QED BY <1>1, <2>1, <2>2 DEF ImagesLoaded
<1>19. freelist' # <<>>
  <2>1. m + 1 \in New
    <3>1. m + 1 \in Nat /\ m + 1 <= NHeaps * HeapSize /\ NHeaps * HeapSize \in Nat
      BY <1>5, SizeNat, StorageAssumption
    <3>2. m + 1 \in Addr
      BY <1>5, <3>1 DEF Addr
    <3> QED BY <1>5, <1>6, <3>2
  <2>2. OnFreelist' # {}
    BY <1>11, <2>1
  <2> QED BY <2>2 DEF OnFreelist
<1> QED
  BY <1>12, <1>13, <1>14, <1>16, <1>17, <1>18, <1>19

(* Taking a cell, from the list or from heaps[0], preserves the invariant. *)
LEMMA CallsOfNewcell ==
  ASSUME Inv, NewcellTake \/ GcBump
  PROVE  Inv'
<1> USE DEF Inv
<1>1. pend # <<>> /\ UNCHANGED <<active, reg, bitmap, status>>
  BY DEF NewcellTake, GcBump, MayTake, NewcellAt
<1>2. CASE NewcellTake
  <2> DEFINE a == Head(freelist)
  <2>1. /\ a \in Addr /\ a \in OnFreelist /\ freelist' \in Seq(Addr)
        /\ \A i, j \in 1..Len(freelist') : freelist'[i] = freelist'[j] => i = j
        /\ OnFreelist' = OnFreelist \ {a}
    BY <1>2, TakeFirst DEF NewcellTake
  <2>2. type[a] = "free" /\ Place(a, Top.cell) /\ heap' = heap
    BY <1>2, <2>1 DEF NewcellTake, FreelistSound
  <2> HIDE DEF a
  <2>3. /\ type' \in [Addr -> {"raw", "free", "cons", "img"}]
        /\ mark' \in [Addr -> {0, 1}]
        /\ car' \in [Addr -> Value]
        /\ cdr' \in [Addr -> Value \cup Bitmap]
        /\ stack' \in SUBSET Addr
        /\ pend' \in Seq(Request)
        /\ \A i \in 1..(Len(pend') - 1) : pend'[i].at = "hook"
        /\ type'[a] \in {"cons", "img"} /\ mark'[a] = 0
        /\ \A x \in Addr \ {a} : type'[x] = type[x] /\ mark'[x] = mark[x]
        /\ NoDangling' /\ ImagesLoaded' /\ TakeReady' /\ HookOnly'
    BY <1>1, <2>1, <2>2, Placing
  <2>4. TypeOK'
    BY <1>1, <2>1, <2>2, <2>3 DEF TypeOK
  <2>5. FreelistSound'
    <3>0. \A x \in OnFreelist : x \in Addr /\ type[x] = "free"
      BY DEF FreelistSound, OnFreelist, TypeOK
    <3>1. \A x \in OnFreelist' : x \in Addr \ {a} /\ type[x] = "free"
      BY <2>1, <3>0
    <3> QED BY <2>1, <2>3, <3>1 DEF FreelistSound
  <2>6. Active' = Active /\ \A x \in Addr : Raw(x)' = Raw(x)
    BY <1>1, <2>2 DEF Active, Raw
  <2>7. RawShape'
    BY <2>1, <2>2, <2>3, <2>6 DEF RawShape
  <2>8. MarkHygiene'
    <3>1. \A x \in InUse' : mark'[x] = 0
      BY <2>3 DEF MarkHygiene, InUse
    <3>2. \A x \in Active : type'[x] = "free" /\ x \notin OnFreelist' => mark'[x] = 0
      BY <2>1, <2>3 DEF MarkHygiene, Active
    <3> QED BY <2>6, <3>1, <3>2 DEF MarkHygiene
  <2> QED BY <2>3, <2>4, <2>5, <2>7, <2>8
<1>3. CASE GcBump
  <2>1. /\ heap \in Addr /\ Raw(heap) /\ type[heap] = "raw" /\ heap \in Active
        /\ Place(heap, Top.cell) /\ heap' = heap + 1 /\ freelist' = freelist
    BY <1>3, AddrNat, StorageAssumption DEF GcBump, TypeOK, RawShape, Raw
  <2>2. /\ type' \in [Addr -> {"raw", "free", "cons", "img"}]
        /\ mark' \in [Addr -> {0, 1}]
        /\ car' \in [Addr -> Value]
        /\ cdr' \in [Addr -> Value \cup Bitmap]
        /\ stack' \in SUBSET Addr
        /\ pend' \in Seq(Request)
        /\ \A i \in 1..(Len(pend') - 1) : pend'[i].at = "hook"
        /\ type'[heap] \in {"cons", "img"} /\ mark'[heap] = 0
        /\ \A x \in Addr \ {heap} : type'[x] = type[x] /\ mark'[x] = mark[x]
        /\ NoDangling' /\ ImagesLoaded' /\ TakeReady' /\ HookOnly'
    BY <1>1, <2>1, Placing
  <2>3. heap' \in 1..(HeapSize + 1)
    BY <1>3, <2>1, StorageAssumption DEF GcBump, TypeOK
  <2>4. TypeOK'
    BY <1>1, <2>1, <2>2, <2>3 DEF TypeOK
  <2>5. OnFreelist' = OnFreelist /\ \A x \in OnFreelist : x \in Addr /\ x # heap
    BY <2>1 DEF OnFreelist, FreelistSound, TypeOK
  <2>6. FreelistSound'
    BY <2>1, <2>2, <2>5 DEF FreelistSound
  <2>7. Active' = Active /\ \A x \in Addr : Raw(x)' <=> Raw(x) /\ x # heap
    BY <1>1, <2>1, AddrNat, StorageAssumption DEF Active, Raw, TypeOK
  <2>8. RawShape'
    BY <2>1, <2>2, <2>7 DEF RawShape
  <2>9. MarkHygiene'
    <3>1. \A x \in InUse' : mark'[x] = 0
      BY <2>2 DEF MarkHygiene, InUse
    <3>2. \A x \in Active : type'[x] = "free" /\ x \notin OnFreelist' => mark'[x] = 0
      BY <2>2, <2>5 DEF MarkHygiene, Active
    <3> QED BY <2>7, <3>1, <3>2 DEF MarkHygiene
  <2> QED BY <2>2, <2>4, <2>6, <2>8, <2>9
<1> QED
  BY <1>2, <1>3

(* Both ways into the collector preserve the invariant.                    *)
LEMMA Collections ==
  ASSUME Inv, GcCollect \/ UserGc
  PROVE  Inv'
<1> USE DEF Inv
<1>1. CASE GcCollect
  <2>1. PICK M \in MarkSets : Sweep(M) /\ SetTop(AfterCollect(Cardinality(Unmarked(M))))
    BY <1>1 DEF GcCollect
  <2> DEFINE n == Cardinality(Unmarked(M))
             p == AfterCollect(n)
  <2>2. pend # <<>> /\ UNCHANGED <<reg, stack>>
    BY <1>1 DEF GcCollect, NewcellAt
  <2>3. p \in Phase
    BY DEF AfterCollect, Phase
  <2>4. /\ pend' \in Seq(Request)
        /\ Len(pend') = Len(pend) /\ Len(pend) \in 1..Len(pend)
        /\ pend'[Len(pend)].at = p
        /\ \A i \in 1..Len(pend) : pend'[i].cell = pend[i].cell
        /\ \A i \in 1..(Len(pend) - 1) : pend'[i] = pend[i]
    BY <2>1, <2>2, <2>3, PendSet
  <2>5. /\ TypeOK' /\ FreelistSound' /\ RawShape' /\ MarkHygiene'
        /\ NoDangling' /\ ImagesLoaded'
        /\ Len(freelist') = n
    BY <2>1, <2>2, <2>4, Sweeping
  <2>6. TakeReady'
    <3>1. p = "take" => n # 0
      BY StorageAssumption DEF AfterCollect
    <3>2. Len(<<>>) = 0
      OBVIOUS
    <3> QED BY <2>4, <2>5, <3>1, <3>2 DEF TakeReady, Top
  <2>7. HookOnly'
    <3>1. ~AfterGC => p # "hook"
      BY DEF AfterCollect
    <3>2. \A i \in 1..Len(pend) : i = Len(pend) \/ i \in 1..(Len(pend) - 1)
      BY <2>4
    <3> QED BY <2>4, <3>1, <3>2 DEF HookOnly
  <2> QED BY <2>5, <2>6, <2>7
<1>2. CASE UserGc
  <2>1. PICK M \in MarkSets : Sweep(M)
    BY <1>2 DEF UserGc
  <2>2. UNCHANGED <<reg, stack, pend>> /\ Mutating
    BY <1>2 DEF UserGc
  <2>3. pend' \in Seq(Request)
    BY <2>2 DEF TypeOK
  <2>4. /\ TypeOK' /\ FreelistSound' /\ RawShape' /\ MarkHygiene'
        /\ NoDangling' /\ ImagesLoaded'
    BY <2>1, <2>2, <2>3, Sweeping
  <2>5. TakeReady'
    BY <2>2 DEF TakeReady, Top, Mutating
  <2>6. HookOnly'
    BY <2>2 DEF HookOnly
  <2> QED BY <2>4, <2>5, <2>6
<1> QED
  BY <1>1, <1>2

(* Growing the store, or finding it cannot grow, preserves the invariant.  *)
LEMMA Growths ==
  ASSUME Inv, GcGrow \/ GcNoGrow \/ UserAllocateHeap
  PROVE  Inv'
<1> USE DEF Inv
<1>1. CASE GcGrow \/ GcNoGrow
  <2>1. pend # <<>> /\ SetTop("take") /\ UNCHANGED <<reg, stack, bitmap, status>>
    BY <1>1 DEF GcGrow, GcNoGrow, NewcellAt
  <2>2. /\ pend' \in Seq(Request)
        /\ Len(pend') = Len(pend) /\ Len(pend) \in 1..Len(pend)
        /\ pend'[Len(pend)].at = "take"
        /\ \A i \in 1..Len(pend) : pend'[i].cell = pend[i].cell
        /\ \A i \in 1..(Len(pend) - 1) : pend'[i] = pend[i]
    BY <2>1, PendSet DEF Phase
  <2>3. HookOnly'
    <3>1. \A i \in 1..Len(pend) : i = Len(pend) \/ i \in 1..(Len(pend) - 1)
      BY <2>2
    <3> QED BY <2>2, <3>1 DEF HookOnly
  <2>4. CASE GcGrow
    <3>1. /\ TypeOK' /\ FreelistSound' /\ RawShape' /\ MarkHygiene'
          /\ NoDangling' /\ ImagesLoaded' /\ freelist' # <<>>
      BY <2>1, <2>2, <2>4, Growing DEF GcGrow
    <3> QED BY <2>3, <3>1 DEF TakeReady
  <2>5. CASE GcNoGrow
    <3>1. UNCHANGED <<active, heap, type, mark, car, cdr, freelist>> /\ freelist # <<>>
      BY <2>5 DEF GcNoGrow, store
    <3>2. TypeOK'
      BY <2>1, <2>2, <3>1 DEF TypeOK
    <3>3. (FreelistSound /\ RawShape /\ MarkHygiene /\ TakeReady)'
      BY <3>1 DEF FreelistSound, OnFreelist, RawShape, Raw, Active, MarkHygiene,
                  InUse, TakeReady
    <3>4. Held' = Held /\ InUse' = InUse /\ \A a \in InUse : Refs(a)' = Refs(a)
      BY <2>1, <2>2, <3>1 DEF Held, RequestRefs, InUse, Refs
    <3>5. NoDangling'
      BY <3>4 DEF NoDangling
    <3>6. \A b \in Bitmap : Owner(b)' = Owner(b) /\ Waiting(b)' = Waiting(b)
      BY <2>2, <3>1 DEF Owner, Waiting
    <3>7. ImagesLoaded'
      BY <2>1, <3>1, <3>6 DEF ImagesLoaded
    <3> QED BY <2>3, <3>2, <3>3, <3>5, <3>7
  <2> QED BY <1>1, <2>4, <2>5
<1>2. CASE UserAllocateHeap
  <2>1. /\ AllocateAHeap /\ UNCHANGED <<reg, stack, bitmap, status, pend>>
        /\ pend' \in Seq(Request)
    BY <1>2 DEF UserAllocateHeap, TypeOK
  <2>2. /\ TypeOK' /\ FreelistSound' /\ RawShape' /\ MarkHygiene'
        /\ NoDangling' /\ ImagesLoaded' /\ freelist' # <<>>
    BY <2>1, Growing
  <2>3. TakeReady' /\ HookOnly'
    BY <2>1, <2>2 DEF TakeReady, HookOnly
  <2> QED BY <2>2, <2>3
<1> QED
  BY <1>1, <1>2

(* The store as init_storage_1 leaves it satisfies the invariant.          *)
LEMMA InvInit == Init => Inv
<1> SUFFICES ASSUME Init PROVE Inv
  OBVIOUS
<1> USE DEF Init
<1>1. TypeOK
  BY StorageAssumption DEF TypeOK, Value
<1>2. InUse = {} /\ Held = {} /\ OnFreelist = {}
  BY AddrNat DEF InUse, Held, OnFreelist
<1>3. FreelistSound /\ MarkHygiene /\ NoDangling /\ TakeReady /\ HookOnly
  <2>1. FreelistSound
    BY <1>2 DEF FreelistSound
  <2>2. MarkHygiene
    BY <1>2 DEF MarkHygiene, Active
  <2>3. NoDangling
    BY <1>2 DEF NoDangling
  <2>4. TakeReady /\ HookOnly
    BY DEF TakeReady, HookOnly
  <2> QED BY <2>1, <2>2, <2>3, <2>4
<1>4. RawShape
  <2>1. Active = {a \in Addr : a <= HeapSize}
    BY StorageAssumption DEF Active
  <2>2. \A a \in Addr : Raw(a) <=> a \in Active
    BY <2>1, AddrNat, StorageAssumption DEF Raw, Addr
  <2> QED BY <2>2 DEF RawShape
<1>5. ImagesLoaded
  <2>1. \A b \in Bitmap : Owner(b) = {} /\ Waiting(b) = {}
    BY DEF Owner, Waiting
  <2> QED BY <2>1 DEF ImagesLoaded
<1> QED
  BY <1>1, <1>3, <1>4, <1>5 DEF Inv

(* Every step preserves the invariant.                                     *)
LEMMA InvStep == Inv /\ [Next]_vars => Inv'
<1> SUFFICES ASSUME Inv, [Next]_vars PROVE Inv'
  OBVIOUS
<1>1. CASE \/ \E a \in stack : Drop(a) \/ Car(a) \/ Cdr(a)
           \/ \E a \in stack, x \in stack \cup {NIL} : SetCar(a, x) \/ SetCdr(a, x)
           \/ \E v \in Reg : GetVar(v)
           \/ \E v \in Reg, x \in stack \cup {NIL} : SetVar(v, x)
  BY <1>1, MutatorWrites
<1>2. CASE (\E x, y \in stack \cup {NIL} : Cons(x, y)) \/ (\E b \in Bitmap : ImgOpen(b))
  BY <1>2, Requests
<1>3. CASE Unwind
  BY <1>3, Unwinding DEF Unwind
<1>4. CASE GcOutOfStorage
  BY <1>4, Unwinding DEF GcOutOfStorage
<1>5. CASE NewcellTake \/ GcBump
  BY <1>5, CallsOfNewcell
<1>6. CASE GcCollect \/ UserGc
  BY <1>6, Collections
<1>7. CASE GcGrow \/ GcNoGrow \/ UserAllocateHeap
  BY <1>7, Growths
<1>8. CASE NewcellNull \/ UNCHANGED vars
  <2>1. UNCHANGED <<active, heap, type, mark, car, cdr, freelist, reg, stack, bitmap, pend>>
    BY <1>8 DEF NewcellNull, vars, store
  <2>2. TypeOK'
    BY <1>8, <2>1 DEF TypeOK, Inv, NewcellNull, vars
  <2>3. (FreelistSound /\ RawShape /\ MarkHygiene /\ TakeReady /\ HookOnly)'
    BY <2>1 DEF Inv, FreelistSound, OnFreelist, RawShape, Raw, Active, MarkHygiene,
                InUse, TakeReady, Top, HookOnly
  <2>4. Held' = Held /\ InUse' = InUse /\ \A a \in InUse : Refs(a)' = Refs(a)
    BY <2>1 DEF Held, RequestRefs, InUse, Refs
  <2>5. NoDangling'
    BY <2>4 DEF NoDangling, Inv
  <2>6. \A b \in Bitmap : Owner(b)' = Owner(b) /\ Waiting(b)' = Waiting(b)
    BY <2>1 DEF Owner, Waiting
  <2>7. ImagesLoaded'
    BY <2>1, <2>6 DEF ImagesLoaded, Inv
  <2> QED BY <2>2, <2>3, <2>5, <2>7 DEF Inv
<1> QED
  BY <1>1, <1>2, <1>3, <1>4, <1>5, <1>6, <1>7, <1>8 DEF Next, Mutator, Newcell

(* The inductive invariant holds in every reachable state.                 *)
THEOREM Invariance == Spec => []Inv
<1> QED
  BY InvInit, InvStep, PTL DEF Spec

(* Every variable keeps its type.                                          *)
THEOREM TypeCorrect == Spec => []TypeOK
<1>1. Inv => TypeOK
  BY DEF Inv
<1> QED
  BY <1>1, Invariance, PTL

(* Every image cell owns a loaded bitmap of its own.                       *)
THEOREM ImagesSafe == Spec => []ImagesLoaded
<1>1. Inv => ImagesLoaded
  BY DEF Inv
<1> QED
  BY <1>1, Invariance, PTL
-----------------------------------------------------------------------------
(* The process is stopped neither by the finalizer nor, but after          *)
(* *after-gc*, by NEWCELL.                                                 *)
StatusSafe == status # "fatal" /\ NewcellTakesACell

(* Relative to the invariant this is preserved by every step.              *)
LEMMA StatusStep == Inv /\ StatusSafe /\ [Next]_vars => StatusSafe'
<1> SUFFICES ASSUME Inv, StatusSafe, [Next]_vars PROVE StatusSafe'
  OBVIOUS
<1>1. CASE GcCollect \/ UserGc
  <2>1. status' = status /\ status = "running"
    BY <1>1, SweepKeepsMarked DEF GcCollect, UserGc, NewcellAt, Mutating
  <2> QED BY <2>1 DEF StatusSafe, NewcellTakesACell
<1>2. CASE NewcellNull
  <2>1. Top.at # "take" /\ Top.at # "test" /\ pend # <<>> /\ freelist = <<>>
    BY <1>2 DEF NewcellNull, MayTake, Inv, TakeReady
  <2>2. Top.at = "hook" /\ Top = pend[Len(pend)] /\ Len(pend) \in 1..Len(pend)
    BY <1>2, <2>1 DEF NewcellNull, MayTake, Top, Inv, TypeOK
  <2>3. AfterGC
    BY <2>2 DEF Inv, HookOnly
  <2>4. Top' = Top /\ pend' = pend /\ status' = "crashed"
    BY <1>2 DEF NewcellNull, Top
  <2> QED BY <2>1, <2>2, <2>3, <2>4 DEF StatusSafe, NewcellTakesACell
<1>3. CASE ~(GcCollect \/ UserGc \/ NewcellNull)
  <2>1. status' = status /\ (status # "running" => pend' = pend)
    BY <1>3 DEF Next, Mutator, Newcell, vars, Drop, Car, Cdr, SetCar, SetCdr, Cons,
      ImgOpen, GetVar, SetVar, Unwind, UserAllocateHeap, NewcellTake, GcBump, GcGrow,
      GcNoGrow, GcOutOfStorage, Mutating, MayTake, NewcellAt
  <2>2. CASE status = "running"
    BY <2>1, <2>2 DEF StatusSafe, NewcellTakesACell
  <2>3. CASE status # "running"
    BY <2>1, <2>3 DEF StatusSafe, NewcellTakesACell, Top
  <2> QED BY <2>2, <2>3
<1> QED
  BY <1>1, <1>2, <1>3

(* _img_gc_free never raises its error while gc_sweep runs.                *)
THEOREM CollectorNeverFatal == Spec => []FinalizerNeverFatal
<1>1. Init => StatusSafe
  BY DEF Init, StatusSafe, NewcellTakesACell
<1>2. StatusSafe => FinalizerNeverFatal
  BY DEF StatusSafe, FinalizerNeverFatal
<1> QED
  BY <1>1, <1>2, StatusStep, Invariance, PTL DEF Spec

(* The free list holds free cells, each once; marks are clear between      *)
(* collections; nothing in use refers to a free cell - for any heap size   *)
(* and number, and any nesting of *after-gc* evaluations inside            *)
(* allocations.                                                            *)
THEOREM StoreAlwaysSound == Spec => []StoreSound
<1>1. Inv => StoreSound
  BY DEF Inv, StoreSound
<1> QED
  BY <1>1, Invariance, PTL

(* Images and bitmaps correspond, and the finalizer never ends the process. *)
THEOREM ImagesAlwaysSound == Spec => []ImagesSound
  BY ImagesSafe, CollectorNeverFatal, PTL DEF ImagesSound

(* NEWCELL takes NIL for a cell only after an *after-gc* expression, that  *)
(* it evaluated itself, has used up the cells it collected.                *)
THEOREM NewcellNeverNil == Spec => []NewcellTakesACell
<1>1. Init => StatusSafe
  BY DEF Init, StatusSafe, NewcellTakesACell
<1>2. StatusSafe => NewcellTakesACell
  BY DEF StatusSafe
<1> QED
  BY <1>1, <1>2, StatusStep, Invariance, PTL DEF Spec
-----------------------------------------------------------------------------
(* Only a collection changes the type of a used cell or the bitmap of an   *)
(* image.                                                                  *)
LEMMA OthersKeepCells ==
  ASSUME Inv, [Next]_vars, ~(GcCollect \/ UserGc), NEW a \in InUse
  PROVE  type'[a] = type[a] /\ (type[a] = "img" => cdr'[a] = cdr[a])
<1> USE DEF Inv
<1>1. CASE NewcellTake \/ GcBump
  <2>1. PICK x \in Addr : type[x] \in {"free", "raw"} /\ Place(x, Top.cell)
    <3>1. CASE NewcellTake
      BY <3>1, TakeFirst DEF NewcellTake, FreelistSound
    <3>2. CASE GcBump
      BY <3>2, AddrNat, StorageAssumption DEF GcBump, RawShape, Raw, TypeOK
    <3> QED BY <1>1, <3>1, <3>2
  <2>2. a \in Addr /\ a # x
    BY <2>1 DEF InUse
  <2> QED BY <2>1, <2>2 DEF Place, TypeOK
<1>2. CASE GcGrow \/ UserAllocateHeap
  <2>1. AllocateAHeap
    BY <1>2 DEF GcGrow, UserAllocateHeap
  <2>2. a \notin HeapCells(active)
    <3>1. active * HeapSize \in Nat
      BY SizeNat, StorageAssumption DEF TypeOK
    <3>2. a \in Addr /\ a \in Nat /\ a <= active * HeapSize
      BY AddrNat DEF InUse, RawShape, Active
    <3> QED BY <3>1, <3>2 DEF HeapCells
  <2> QED BY <2>1, <2>2 DEF AllocateAHeap, InUse
<1>3. CASE ~(NewcellTake \/ GcBump \/ GcGrow \/ UserAllocateHeap)
  <2>1. type' = type
    BY <1>3 DEF Next, Mutator, Newcell, vars, store, Drop, Car, Cdr, SetCar, SetCdr, Cons,
      ImgOpen, GetVar, SetVar, Unwind, NewcellNull, GcNoGrow, GcOutOfStorage
  <2>2. type[a] = "img" => cdr'[a] = cdr[a]
    <3>1. CASE \E x \in stack, y \in stack \cup {NIL} : SetCdr(x, y)
      <4>1. PICK x \in stack, y \in stack \cup {NIL} : SetCdr(x, y)
        BY <3>1
      <4> QED BY <4>1 DEF SetCdr, TypeOK
    <3>2. CASE ~ \E x \in stack, y \in stack \cup {NIL} : SetCdr(x, y)
      <4>1. cdr' = cdr
        BY <1>3, <3>2 DEF Next, Mutator, Newcell, vars, store, Drop, Car, Cdr, SetCar, Cons,
          ImgOpen, GetVar, SetVar, Unwind, NewcellNull, GcNoGrow, GcOutOfStorage
      <4> QED BY <4>1
    <3> QED BY <3>1, <3>2
  <2> QED BY <2>1, <2>2
<1> QED
  BY <1>1, <1>2, <1>3

(* What the program can reach survives every step: a reachable cell keeps  *)
(* its type, a reachable image its loaded bitmap.                          *)
LEMMA ReachableStep == Inv /\ Inv' /\ [Next]_vars => KeepsReachable
<1>1. ASSUME Inv, Inv', [Next]_vars PROVE KeepsReachable
  <2> SUFFICES ASSUME NEW a \in Reachable
               PROVE  /\ type'[a] = type[a]
                      /\ type[a] = "img" => cdr'[a] = cdr[a] /\ bitmap'[cdr[a]] = "loaded"
    BY DEF KeepsReachable
  <2>1. \A M \in SUBSET Addr :
          Held \subseteq M /\ (\A m \in M : Refs(m) \subseteq M) => a \in M
    BY DEF Reachable
  <2>2. a \in Addr /\ a \in InUse
    <3>1. InUse \in SUBSET Addr /\ Held \subseteq InUse /\ \A m \in InUse : Refs(m) \subseteq InUse
      BY <1>1 DEF Inv, NoDangling, InUse
    <3> QED BY <2>1, <3>1 DEF InUse
  <2>3. type'[a] = type[a] /\ (type[a] = "img" => cdr'[a] = cdr[a])
    <3>1. CASE GcCollect \/ UserGc
      <4>1. PICK M \in MarkSets : Sweep(M)
        BY <3>1 DEF GcCollect, UserGc
      <4>2. /\ Held \subseteq M /\ M \subseteq InUse
            /\ \A m \in M : Refs(m) \subseteq M
            /\ \A m \in M : type'[m] = type[m] /\ cdr'[m] = cdr[m]
        BY <1>1, <4>1, SweepKeepsMarked
      <4>3. M \in SUBSET Addr
        BY <4>2 DEF InUse
      <4> QED BY <2>1, <4>2, <4>3
    <3>2. CASE ~(GcCollect \/ UserGc)
      BY <1>1, <2>2, <3>2, OthersKeepCells
    <3> QED BY <3>1, <3>2
  <2>4. ASSUME type[a] = "img" PROVE bitmap'[cdr[a]] = "loaded"
    <3>1. cdr'[a] \in Bitmap /\ a \in Owner(cdr[a])'
      BY <1>1, <2>2, <2>3, <2>4 DEF Inv, ImagesLoaded, Owner
    <3> QED BY <1>1, <2>3, <2>4, <3>1 DEF Inv, ImagesLoaded
  <2> QED BY <2>3, <2>4
<1> QED
  BY <1>1
-----------------------------------------------------------------------------
(* The operators of the abstract store, in terms of the cells in use.      *)
LEMMA ObjectsOf ==
  ASSUME Inv
  PROVE  /\ Objects!Live = InUse
         /\ \A a \in InUse : Objects!Links([type |-> type[a], car |-> car[a], cdr |-> cdr[a]]) = Refs(a)
         /\ \A S \in SUBSET InUse : Objects!Images(S) = Finalized(S)
<1>1. Objects!Live = InUse
  BY DEF Objects!Live
<1>2. \A a \in InUse : Objects!Links([type |-> type[a], car |-> car[a], cdr |-> cdr[a]]) = Refs(a)
  BY DEF Objects!Links, Refs
<1>3. \A S \in SUBSET InUse : Objects!Images(S) = Finalized(S)
  BY DEF Objects!Images, Finalized
<1> QED
  BY <1>1, <1>2, <1>3

(* The initial store is the empty abstract store.                          *)
LEMMA RefinesInit == Init => Objects!Init
<1> SUFFICES ASSUME Init PROVE Objects!Init
  OBVIOUS
<1>1. InUse = {} /\ Held = {}
  BY AddrNat DEF Init, InUse, Held
<1> QED
  BY <1>1 DEF Init, Objects!Init

(* The abstract objects under the refinement mapping.                      *)
Obj == [a \in InUse |-> [type |-> type[a], car |-> car[a], cdr |-> cdr[a]]]

(* What changes no field of a used cell changes no abstract object.        *)
LEMMA SameObjects ==
  ASSUME Inv, UNCHANGED <<car, cdr>>, InUse' = InUse, \A a \in InUse : type'[a] = type[a]
  PROVE  Obj' = Obj
BY DEF Obj, InUse

(* A collection is the abstract reclamation of what was not marked.        *)
LEMMA RefinesSweep ==
  ASSUME Inv, GcCollect \/ UserGc
  PROVE  Objects!Next
<1>1. PICK M \in MarkSets : Sweep(M)
  BY DEF GcCollect, UserGc
<1>2. /\ Held \subseteq M /\ M \subseteq InUse
      /\ \A a \in M : Refs(a) \subseteq M
      /\ Unmarked(M) \in SUBSET Addr
      /\ InUse' = M /\ InUse \cap Unmarked(M) = InUse \ M
      /\ \A a \in M : type'[a] = type[a] /\ car'[a] = car[a] /\ cdr'[a] = cdr[a]
  BY <1>1, SweepKeepsMarked
<1> PICK S \in SUBSET InUse : S = InUse \ M
  OBVIOUS
<1>3. Held' = Held
  <2>1. UNCHANGED <<reg, stack>>
    BY DEF GcCollect, UserGc
  <2>2. Len(pend') = Len(pend) /\ \A i \in 1..Len(pend) : pend'[i].cell = pend[i].cell
    <3>1. CASE GcCollect
      <4>1. pend # <<>> /\ \E p \in Phase : SetTop(p)
        BY <3>1 DEF GcCollect, NewcellAt, AfterCollect, Phase
      <4> QED BY <4>1, PendSet DEF Inv
    <3>2. CASE UserGc
      BY <3>2 DEF UserGc
    <3> QED BY <3>1, <3>2
  <2> QED BY <2>1, <2>2 DEF Held, RequestRefs
<1>4. Obj' = [a \in M |-> Obj[a]]
  BY <1>2 DEF Obj
<1>5. bitmap' = [b \in Bitmap |-> IF b \in Finalized(S) THEN "unloaded" ELSE bitmap[b]]
  <2>1. Finalized(S) = Finalized(Unmarked(M))
    BY <1>2 DEF Finalized, InUse
  <2> QED BY <1>1, <2>1 DEF Sweep
<1>6. Objects!Reclaim(S)
  <2>1. Held \cap S = {}
    BY <1>2
  <2>2. Objects!Live \ S = M
    BY <1>2, ObjectsOf
  <2>3. \A a \in M : Objects!Links(Obj[a]) \cap S = {}
    BY <1>2, ObjectsOf DEF Obj
  <2>4. Objects!Images(S) = Finalized(S)
    BY ObjectsOf
  <2> QED BY <1>3, <1>4, <1>5, <2>1, <2>2, <2>3, <2>4 DEF Objects!Reclaim, Obj
<1>7. S \in SUBSET Objects!Live
  BY ObjectsOf
<1>8. \E T \in SUBSET Objects!Live : Objects!Reclaim(T)
  BY <1>6, <1>7
<1> QED
  BY <1>8 DEF Objects!Next

(* setcar and setcdr are abstract writes.                                  *)
LEMMA RefinesWrite ==
  ASSUME Inv, NEW a \in stack, NEW x \in stack \cup {NIL}, SetCar(a, x) \/ SetCdr(a, x)
  PROVE  Objects!Next
<1> USE DEF Inv
<1>1. a \in InUse /\ a \in Held /\ type[a] = "cons" /\ x \in Held \cup {NIL} /\ a \in Addr
  BY DEF SetCar, SetCdr, Held, NoDangling, InUse
<1>2. UNCHANGED <<active, type, reg, stack, pend, bitmap>>
  BY DEF SetCar, SetCdr
<1>3. Held' = Held /\ InUse' = InUse
  BY <1>2 DEF Held, RequestRefs, InUse
<1>4. Obj' = [Obj EXCEPT ![a].car = x] \/ Obj' = [Obj EXCEPT ![a].cdr = x]
  <2>1. CASE SetCar(a, x)
    <3>1. Obj' = [Obj EXCEPT ![a].car = x]
      BY <1>1, <1>2, <1>3, <2>1 DEF Obj, SetCar, TypeOK, InUse
    <3> QED BY <3>1
  <2>2. CASE SetCdr(a, x)
    <3>1. Obj' = [Obj EXCEPT ![a].cdr = x]
      BY <1>1, <1>2, <1>3, <2>2 DEF Obj, SetCdr, TypeOK, InUse
    <3> QED BY <3>1
  <2> QED BY <2>1, <2>2
<1>5. Objects!Write(a, x)
  BY <1>1, <1>2, <1>3, <1>4 DEF Objects!Write, Obj
<1>6. \E y \in Held, z \in Held \cup {NIL} : Objects!Write(y, z)
  BY <1>1, <1>5
<1> QED
  BY <1>6 DEF Objects!Next

(* Filling a new cell is the creation of an abstract object.               *)
LEMMA RefinesTake ==
  ASSUME Inv, NewcellTake \/ GcBump
  PROVE  Objects!Next
<1> USE DEF Inv
<1>1. pend # <<>> /\ UNCHANGED <<active, reg, bitmap>>
  BY DEF NewcellTake, GcBump, MayTake, NewcellAt
<1>2. PICK a \in Addr : type[a] \in {"free", "raw"} /\ Place(a, Top.cell)
  <2>1. CASE NewcellTake
    BY <2>1, TakeFirst DEF NewcellTake, FreelistSound
  <2>2. CASE GcBump
    BY <2>2, AddrNat, StorageAssumption DEF GcBump, RawShape, Raw, TypeOK
  <2> QED BY <2>1, <2>2
<1> DEFINE L == Len(pend)
<1>3. pend \in Seq(Request) /\ L \in 1..L /\ L \in Nat
  BY <1>1 DEF TypeOK
<1>4. PICK c \in Content : pend[L].cell = c /\ Top.cell = c
  <2>1. pend[L] \in Request
    BY <1>3, ElementOfSeq
  <2> QED BY <2>1 DEF Request, Top
<1>5. /\ Len(pend') = L - 1
      /\ \A i \in 1..(L - 1) : i \in 1..L /\ pend'[i] = pend[i]
  <2>1. L - 1 \in 0..(Len(pend) - 1) /\ pend' = SubSeq(pend, 1, L - 1) /\ TypeOK
    BY <1>2, <1>3 DEF Place, Pop
  <2>2. \A i \in 1..(L - 1) : i \in 1..L
    BY <1>3
  <2> HIDE DEF L
  <2> QED BY <2>1, <2>2, PendCut
<1>6. a \notin InUse /\ InUse' = InUse \cup {a}
  BY <1>2, <1>4 DEF Place, InUse, TypeOK, Content
<1>7. Held' \subseteq Held \cup {a} /\ a \in Held'
  BY <1>1, <1>2, <1>5 DEF Held, RequestRefs, Place
<1>8. c = [type |-> c.type, car |-> c.car, cdr |-> c.cdr]
  BY <1>4 DEF Content
<1>9. Obj' = [y \in InUse \cup {a} |-> IF y = a THEN c ELSE Obj[y]]
  <2>1. /\ type'[a] = c.type /\ car'[a] = c.car /\ cdr'[a] = c.cdr
        /\ \A y \in InUse : type'[y] = type[y] /\ car'[y] = car[y] /\ cdr'[y] = cdr[y]
    BY <1>2, <1>4, <1>6 DEF Place, TypeOK, InUse
  <2> QED BY <1>6, <1>8, <2>1 DEF Obj
<1>10. c.type = "cons" => Objects!Links(c) \subseteq Held
  BY <1>3, <1>4 DEF Objects!Links, Held, RequestRefs
<1>11. c.type = "img" => bitmap[c.cdr] = "loaded" /\ c.cdr \notin Objects!Images(Objects!Live)
  <2> SUFFICES ASSUME c.type = "img"
               PROVE  bitmap[c.cdr] = "loaded" /\ c.cdr \notin Objects!Images(Objects!Live)
    OBVIOUS
  <2>1. c.cdr \in Bitmap /\ L \in Waiting(c.cdr)
    BY <1>3, <1>4 DEF Content, Waiting
  <2>2. bitmap[c.cdr] = "loaded" /\ Owner(c.cdr) = {}
    BY <2>1 DEF ImagesLoaded
  <2>3. c.cdr \notin Finalized(InUse)
    BY <2>2 DEF Owner, Finalized, InUse
  <2> QED BY <2>2, <2>3, ObjectsOf
<1>12. Objects!Live = InUse
  BY ObjectsOf
<1>13. c \in Objects!Cell
  BY <1>4 DEF Objects!Cell, Content, Value
<1>14. Objects!New(a, c)
  BY <1>1, <1>6, <1>7, <1>9, <1>10, <1>11, <1>12 DEF Objects!New, Obj
<1>15. \E y \in Addr, z \in Objects!Cell : Objects!New(y, z)
  BY <1>13, <1>14
<1> QED
  BY <1>15 DEF Objects!Next

(* Every other step loads a bitmap, moves references, or is invisible.     *)
LEMMA RefinesOther ==
  ASSUME Inv, [Next]_vars, ~(GcCollect \/ UserGc \/ NewcellTake \/ GcBump),
         ~ \E a \in stack, x \in stack \cup {NIL} : SetCar(a, x) \/ SetCdr(a, x)
  PROVE  [Objects!Next]_(Objects!vars)
<1> USE DEF Inv
<1>1. UNCHANGED <<car, cdr>>
  BY DEF Next, Mutator, Newcell, vars, store, Drop, Car, Cdr, Cons, ImgOpen, GetVar, SetVar,
    Unwind, UserAllocateHeap, AllocateAHeap, NewcellNull, GcGrow, GcNoGrow, GcOutOfStorage
<1>2. \A a \in InUse : type'[a] = type[a]
  BY OthersKeepCells
<1>3. InUse' = InUse
  <2>1. CASE type' = type
    BY <2>1 DEF InUse
  <2>2. CASE AllocateAHeap
    <3>1. \A a \in Addr : type'[a] = type[a] \/ type'[a] = "free"
      BY <2>2 DEF AllocateAHeap
    <3> QED BY <1>2, <3>1 DEF InUse
  <2>3. type' = type \/ AllocateAHeap
    BY DEF Next, Mutator, Newcell, vars, store, Drop, Car, Cdr, Cons, ImgOpen, GetVar, SetVar,
      Unwind, UserAllocateHeap, NewcellNull, GcGrow, GcNoGrow, GcOutOfStorage
  <2> QED BY <2>1, <2>2, <2>3
<1>4. Obj' = Obj
  BY <1>1, <1>2, <1>3, SameObjects
<1>5. CASE \E b \in Bitmap : ImgOpen(b)
  <2>1. PICK b \in Bitmap : ImgOpen(b)
    BY <1>5
  <2> DEFINE r == [cell |-> [type |-> "img", car |-> NIL, cdr |-> b], at |-> "test"]
  <2>2. r \in Request /\ RequestRefs(r) = {}
    BY AddrNat, StorageAssumption DEF Request, Content, Phase, RequestRefs
  <2>3. pend' = Append(pend, r) /\ UNCHANGED <<reg, stack>>
    BY <2>1 DEF ImgOpen, Ask
  <2> HIDE DEF r
  <2>4. /\ Len(pend') = Len(pend) + 1 /\ Len(pend) \in Nat /\ pend'[Len(pend) + 1] = r
        /\ \A i \in 1..Len(pend) : pend'[i] = pend[i]
    BY <2>2, <2>3, PendPush DEF TypeOK
  <2>5. UNION {RequestRefs(pend'[i]) : i \in 1..Len(pend')}
          = UNION {RequestRefs(pend[i]) : i \in 1..Len(pend)}
    <3>1. \A i \in 1..Len(pend') : i \in 1..Len(pend) \/ (i = Len(pend) + 1 /\ pend'[i] = r)
      BY <2>4
    <3>2. \A i \in 1..Len(pend) : i \in 1..Len(pend')
      BY <2>4
    <3> QED BY <2>2, <2>4, <3>1, <3>2
  <2>6. Held' = Held
    BY <2>3, <2>5 DEF Held, RequestRefs
  <2>7. Objects!Load(b)
    BY <1>4, <2>1, <2>6 DEF Objects!Load, Obj, ImgOpen
  <2>8. \E y \in Bitmap : Objects!Load(y)
    BY <2>7
  <2> QED BY <2>8 DEF Objects!Next
<1>6. CASE bitmap' = bitmap /\ Held' \subseteq Held \cup UNION {Refs(a) : a \in Held}
  <2>1. \A a \in Held : Objects!Links(Obj[a]) = Refs(a)
    BY ObjectsOf DEF Obj, NoDangling
  <2>2. UNION {Objects!Links(Obj[a]) : a \in Held} = UNION {Refs(a) : a \in Held}
    BY <2>1
  <2>3. Held' \subseteq Held \cup UNION {Objects!Links(Obj[a]) : a \in Held}
    BY <1>6, <2>2
  <2>4. Objects!Move
    BY <1>4, <1>6, <2>3 DEF Objects!Move, Obj
  <2> QED BY <2>4 DEF Objects!Next
<1>7. CASE ~ \E b \in Bitmap : ImgOpen(b)
  <2>1. bitmap' = bitmap
    BY <1>7 DEF Next, Mutator, Newcell, vars, Drop, Car, Cdr, Cons, GetVar, SetVar,
      Unwind, UserAllocateHeap, NewcellNull, GcGrow, GcNoGrow, GcOutOfStorage
  <2>2. CASE UNCHANGED <<stack, reg>>
             /\ (UNCHANGED pend \/ (pend # <<>> /\ \E p \in Phase : SetTop(p)))
    <3>1. Len(pend') = Len(pend) /\ \A i \in 1..Len(pend) : pend'[i].cell = pend[i].cell
      BY <2>2, PendSet
    <3>2. Held' = Held
      BY <2>2, <3>1 DEF Held, RequestRefs
    <3> QED BY <1>6, <2>1, <3>2
  <2>3. CASE \E n \in 0..(Len(pend) - 1) : UnwindTo(n) /\ reg' = reg
    <3>1. PICK n \in 0..(Len(pend) - 1) : UnwindTo(n) /\ reg' = reg
      BY <2>3
    <3>2. Len(pend') = n /\ \A i \in 1..n : i \in 1..Len(pend) /\ pend'[i] = pend[i]
      BY <3>1, PendCut DEF UnwindTo, TypeOK
    <3>3. Held' \subseteq Held
      BY <3>1, <3>2 DEF Held, RequestRefs, UnwindTo
    <3> QED BY <1>6, <2>1, <3>3
  <2>4. CASE \/ \E a \in stack : Drop(a) \/ Car(a) \/ Cdr(a)
             \/ \E v \in Reg : GetVar(v)
             \/ \E v \in Reg, x \in stack \cup {NIL} : SetVar(v, x)
    <3>1. pend' = pend
      BY <2>4 DEF Drop, Car, Cdr, GetVar, SetVar
    <3>2. /\ stack' \subseteq Held \cup UNION {Refs(a) : a \in Held}
          /\ \A v \in Reg : reg'[v] \in Addr => reg'[v] \in Held
      BY <2>4, AddrNat DEF Drop, Car, Cdr, GetVar, SetVar, Hold, Held, Refs, TypeOK
    <3>3. Held' \subseteq Held \cup UNION {Refs(a) : a \in Held}
      BY <3>1, <3>2 DEF Held, RequestRefs
    <3> QED BY <1>6, <2>1, <3>3
  <2>5. CASE \E x, y \in stack \cup {NIL} : Cons(x, y)
    <3>1. PICK x \in stack \cup {NIL}, y \in stack \cup {NIL} : Cons(x, y)
      BY <2>5
    <3> DEFINE r == [cell |-> [type |-> "cons", car |-> x, cdr |-> y], at |-> "test"]
    <3>2. r \in Request /\ RequestRefs(r) \subseteq Held
      BY AddrNat DEF Request, Content, Phase, RequestRefs, Value, TypeOK, Held
    <3>3. pend' = Append(pend, r) /\ UNCHANGED <<reg, stack>>
      BY <3>1 DEF Cons, Ask
    <3> HIDE DEF r
    <3>4. /\ Len(pend') = Len(pend) + 1 /\ Len(pend) \in Nat /\ pend'[Len(pend) + 1] = r
          /\ \A i \in 1..Len(pend) : pend'[i] = pend[i]
      BY <3>2, <3>3, PendPush DEF TypeOK
    <3>5. \A i \in 1..Len(pend') : RequestRefs(pend'[i]) \subseteq Held
      <4>1. \A i \in 1..Len(pend') : i \in 1..Len(pend) \/ (i = Len(pend) + 1 /\ pend'[i] = r)
        BY <3>4
      <4>2. \A i \in 1..Len(pend) : RequestRefs(pend[i]) \subseteq Held
        BY DEF Held
      <4> QED BY <3>2, <3>4, <4>1, <4>2
    <3>6. Held' \subseteq Held
      BY <3>3, <3>5 DEF Held, RequestRefs
    <3> QED BY <1>6, <2>1, <3>6
  <2>6. CASE UNCHANGED vars \/ UserAllocateHeap \/ NewcellNull \/ GcGrow \/ GcNoGrow
    BY <2>2, <2>6 DEF vars, UserAllocateHeap, NewcellNull, GcGrow, GcNoGrow, Phase, NewcellAt
  <2>7. CASE Unwind \/ GcOutOfStorage
    BY <2>3, <2>7 DEF Unwind, GcOutOfStorage
  <2> QED BY <1>7, <2>4, <2>5, <2>6, <2>7 DEF Next, Mutator, Newcell
<1> QED
  BY <1>5, <1>7

(* The mark-and-sweep store implements the abstract object store.          *)
THEOREM Refinement == Spec => ObjectStoreSpec
<1>1. Init => Objects!Init
  BY RefinesInit
<1>2. Inv /\ [Next]_vars => [Objects!Next]_(Objects!vars)
  BY RefinesSweep, RefinesWrite, RefinesTake, RefinesOther
<1> QED
  BY <1>1, <1>2, Invariance, PTL DEF Spec, ObjectStoreSpec, Objects!Spec
-----------------------------------------------------------------------------
(* A loaded bitmap loses its owner only in a longjmp that abandons         *)
(* img_open.                                                               *)
LEMMA LeaksStep == Inv /\ Inv' /\ [Next]_vars => LeaksByUnwind
<1>1. ASSUME Inv, Inv', [Next]_vars PROVE LeaksByUnwind
  <2> SUFFICES ASSUME NEW b \in Bitmap, Owned(b), ~Owned(b)', bitmap'[b] = "loaded",
                      ~(Unwind \/ GcOutOfStorage)
               PROVE  FALSE
    BY DEF LeaksByUnwind
  <2> USE <1>1 DEF Inv
  <2>1. CASE GcCollect \/ UserGc
    <3>1. PICK M \in MarkSets : Sweep(M)
      BY <2>1 DEF GcCollect, UserGc
    <3>2. Len(pend') = Len(pend) /\ \A i \in 1..Len(pend) : pend'[i].cell = pend[i].cell
      <4>1. CASE GcCollect
        <5>1. pend # <<>> /\ \E p \in Phase : SetTop(p)
          BY <4>1 DEF GcCollect, NewcellAt, AfterCollect, Phase
        <5> QED BY <5>1, PendSet
      <4>2. CASE UserGc
        BY <4>2 DEF UserGc
      <4> QED BY <2>1, <4>1, <4>2
    <3>3. Waiting(b)' = Waiting(b)
      BY <3>2 DEF Waiting
    <3>4. PICK a \in Owner(b) : TRUE
      BY <3>3 DEF Owned
    <3>5. a \in InUse /\ type[a] = "img" /\ cdr[a] = b /\ a \in Addr
      BY DEF Owner, InUse
    <3>6. a \notin M
      BY <3>1, <3>5, SweepKeepsMarked DEF Owned, Owner
    <3>7. b \in Finalized(Unmarked(M))
      BY <3>1, <3>5, <3>6, SweepKeepsMarked DEF Finalized
    <3> QED BY <3>1, <3>7 DEF Sweep
  <2>2. CASE NewcellTake \/ GcBump
    <3>1. PICK a \in Addr : a \notin InUse /\ Place(a, Top.cell) /\ pend # <<>>
      <4>1. CASE NewcellTake
        BY <4>1, TakeFirst DEF NewcellTake, FreelistSound, InUse, MayTake
      <4>2. CASE GcBump
        BY <4>2, AddrNat, StorageAssumption DEF GcBump, RawShape, Raw, TypeOK, InUse, NewcellAt
      <4> QED BY <2>2, <4>1, <4>2
    <3> DEFINE L == Len(pend)
    <3>2. L \in 1..L /\ L \in Nat
      BY <3>1 DEF TypeOK
    <3>3. Len(pend') = L - 1 /\ \A i \in 1..(L - 1) : pend'[i] = pend[i]
      <4>1. L - 1 \in 0..(Len(pend) - 1) /\ pend' = SubSeq(pend, 1, L - 1) /\ TypeOK
        BY <3>1, <3>2 DEF Place, Pop
      <4> HIDE DEF L
      <4> QED BY <4>1, PendCut
    <3>4. CASE L \in Waiting(b)
      <4>1. type'[a] = "img" /\ cdr'[a] = b
        BY <3>1, <3>4 DEF Waiting, Place, Top, TypeOK
      <4> QED BY <4>1 DEF Owned, Owner
    <3>5. CASE L \notin Waiting(b)
      <4>1. Waiting(b) \subseteq Waiting(b)'
        BY <3>2, <3>3, <3>5 DEF Waiting
      <4>2. Owner(b) \subseteq Owner(b)'
        BY <3>1 DEF Owner, Place, TypeOK, InUse
      <4> QED BY <4>1, <4>2 DEF Owned
    <3> QED BY <3>4, <3>5
  <2>3. CASE ~(GcCollect \/ UserGc \/ NewcellTake \/ GcBump)
    <3>1. Owner(b) \subseteq Owner(b)'
      BY <2>3, OthersKeepCells DEF Owner, InUse
    <3>2. \/ pend' = pend
          \/ pend # <<>> /\ \E p \in Phase : SetTop(p)
          \/ \E c \in Content : pend' = Append(pend, [cell |-> c, at |-> "test"])
      <4>1. CASE GcGrow \/ GcNoGrow
        BY <4>1 DEF GcGrow, GcNoGrow, NewcellAt, Phase
      <4>2. CASE \E x, y \in stack \cup {NIL} : Cons(x, y)
        BY <4>2 DEF Cons, Ask, Content, Value, TypeOK
      <4>3. CASE \E y \in Bitmap : ImgOpen(y)
        BY <4>3 DEF ImgOpen, Ask, Content
      <4>4. CASE ~(GcGrow \/ GcNoGrow) /\ ~(\E x, y \in stack \cup {NIL} : Cons(x, y))
                 /\ ~(\E y \in Bitmap : ImgOpen(y))
        BY <2>3, <4>4 DEF Next, Mutator, Newcell, vars, Drop, Car, Cdr, SetCar, SetCdr,
          GetVar, SetVar, UserAllocateHeap, NewcellNull
      <4> QED BY <4>1, <4>2, <4>3, <4>4
    <3>3. Waiting(b) \subseteq Waiting(b)'
      <4>1. CASE pend' = pend
        BY <4>1 DEF Waiting
      <4>2. CASE pend # <<>> /\ \E p \in Phase : SetTop(p)
        BY <4>2, PendSet DEF Waiting
      <4>3. CASE \E c \in Content : pend' = Append(pend, [cell |-> c, at |-> "test"])
        <5>1. PICK c \in Content : pend' = Append(pend, [cell |-> c, at |-> "test"])
          BY <4>3
        <5>2. [cell |-> c, at |-> "test"] \in Request
          BY DEF Request, Phase
        <5>3. Len(pend') = Len(pend) + 1 /\ \A i \in 1..Len(pend) : pend'[i] = pend[i]
          BY <5>1, <5>2, PendPush
        <5>4. Len(pend) \in Nat
          BY DEF TypeOK
        <5> QED BY <5>3, <5>4 DEF Waiting
      <4> QED BY <3>2, <4>1, <4>2, <4>3
    <3> QED BY <3>1, <3>3 DEF Owned
  <2> QED BY <2>1, <2>2, <2>3
<1> QED
  BY <1>1

(* No step, of any caller or of the collector, takes away what the program *)
(* can reach, and only a longjmp out of img_open leaks a bitmap.           *)
THEOREM NothingIsLost == Spec => NothingLost
<1>1. Inv /\ Inv' /\ [Next]_vars => [KeepsReachable /\ LeaksByUnwind]_vars
  BY ReachableStep, LeaksStep
<1> QED
  BY <1>1, Invariance, PTL DEF Spec, NothingLost

(* A free cell missed by one sweep is on the free list after the next.     *)
THEOREM MissedCellsReturn == Spec => MissedOnce
<1> DEFINE Back == GcCollect \/ UserGc
       => \A a \in Active : type[a] = "free" /\ a \notin OnFreelist => a \in OnFreelist'
<1>1. ASSUME Inv, [Next]_vars PROVE Back
  <2> SUFFICES ASSUME GcCollect \/ UserGc, NEW a \in Active, type[a] = "free", a \notin OnFreelist
               PROVE  a \in OnFreelist'
    OBVIOUS
  <2>1. PICK M \in MarkSets : Sweep(M)
    BY DEF GcCollect, UserGc
  <2>2. mark[a] = 0 /\ a \notin M
    BY <1>1 DEF Inv, MarkHygiene, MarkSets, InUse
  <2>3. a \in Unmarked(M) /\ Unmarked(M) \in SUBSET Addr
    BY <2>2 DEF Unmarked, Active
  <2>4. {freelist'[i] : i \in 1..Len(freelist')} = Unmarked(M)
    BY <2>1, <2>3, ListingIsSeq DEF Sweep
  <2> QED BY <2>3, <2>4 DEF OnFreelist
<1>2. Inv /\ [Next]_vars => [Back]_vars
  BY <1>1
<1> QED
  BY <1>2, Invariance, PTL DEF Spec, MissedOnce
=============================================================================
