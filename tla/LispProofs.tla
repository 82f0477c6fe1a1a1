----------------------------- MODULE LispProofs -----------------------------
(***************************************************************************)
(* What is proved of SIOD's collectors, of its digests and of its codes    *)
(* for bytes, for every value of the constants.                            *)
(* The cell graph of CellGraph: that gc_mark takes the least set that holds*)
(* the cell and is closed under its parts, that the two collectors agree   *)
(* on what lives, and that the stop-and-copy collector's new space is the  *)
(* heap of the old one's live cells, each once, with its references moved. *)
(* The digests of Digests: that MD5Update may take a text in any pieces,   *)
(* and what MD5Final adds to it.                                           *)
(* The codes of Codecs: that base64 and hexadecimal give back what they    *)
(* were given.                                                             *)
(***************************************************************************)
EXTENDS CellGraph, Digests, Codecs, Recursion, FiniteSetTheorems, SequenceTheorems

Closed(to, places) == \A j \in places : to[j] \subseteq places
(* A graph: where each of finitely many places leads, which is to places.  *)
IsGraph(to) == IsFiniteSet(DOMAIN to) /\ \A j \in DOMAIN to : to[j] \subseteq DOMAIN to
(* The least closed set with some places.                                  *)
LeastClosed(to, places, least) ==
  /\ least \subseteq DOMAIN to /\ places \subseteq least /\ Closed(to, least)
  /\ \A T \in SUBSET DOMAIN to : places \subseteq T /\ Closed(to, T) => least \subseteq T

(* The turns of the loop in Reached.                                       *)
Wave(to, w) ==
  LET all == w.marked \union w.ahead
  IN  [marked |-> all, ahead |-> (UNION {to[j] : j \in w.ahead}) \ all]
WaveSteps(wave, to, places) ==
  LET turns == Cardinality(DOMAIN to) + 1 IN
  /\ wave \in [0..turns -> [marked : SUBSET DOMAIN to, ahead : SUBSET DOMAIN to]]
  /\ wave[0] = [marked |-> {}, ahead |-> places]
  /\ \A n \in 1..turns : wave[n] = Wave(to, wave[n - 1])
  /\ Reached(to, places) = wave[turns].marked

(* The function of Reached exists: every wave follows from the one before. *)
LEMMA ReachedHasSteps ==
  ASSUME NEW to, IsGraph(to), NEW places \in SUBSET DOMAIN to
  PROVE  \E wave : WaveSteps(wave, to, places)
<1>. DEFINE D == DOMAIN to
            N == Cardinality(DOMAIN to) + 1
            S == [marked : SUBSET D, ahead : SUBSET D]
            G == [x \in (1..N) \X S |-> Wave(to, x[2])]
            a == [marked |-> {}, ahead |-> places]
            Run == CHOOSE wave : wave = [n \in 0..N |-> IF n = 0 THEN a ELSE Wave(to, wave[n - 1])]
<1>1. N \in Nat /\ a \in S
  BY FS_CardinalityType DEF IsGraph
<1>2. ASSUME NEW s \in S PROVE Wave(to, s) \in S
  <2>1. \A j \in s.ahead : to[j] \subseteq D
    BY DEF IsGraph
  <2>2. (UNION {to[j] : j \in s.ahead}) \subseteq D
    BY <2>1
  <2>. QED BY <2>2 DEF Wave
<1>3. \A n \in 1..N, s \in S : G[<<n, s>>] \in S
  BY <1>2
<1>4. \A n \in 1..N, s \in S : G[<<n, s>>] = Wave(to, s)
  OBVIOUS
<1>5. Reached(to, places) = Run[N].marked
  BY DEF Reached, Wave
<1>. HIDE DEF S, G, N, a
<1>6. PICK f : Repeats(f, N, S, a, G)
  BY <1>1, <1>3, BoundedIteration
<1>7. f = [n \in 0..N |-> IF n = 0 THEN a ELSE Wave(to, f[n - 1])]
  <2>1. f \in [0..N -> S] /\ f = [n \in 0..N |-> IF n = 0 THEN a ELSE G[<<n, f[n - 1]>>]]
    BY <1>6 DEF Repeats
  <2>2. ASSUME NEW n \in 0..N PROVE f[n] = IF n = 0 THEN a ELSE Wave(to, f[n - 1])
    <3>1. CASE n = 0
      BY <2>1, <3>1
    <3>2. CASE n # 0
      <4>1. n \in 1..N /\ n - 1 \in 0..N
        BY <1>1, <3>2
      <4>2. f[n] = G[<<n, f[n - 1]>>] /\ f[n - 1] \in S
        BY <2>1, <3>2, <4>1
      <4>. QED BY <1>4, <3>2, <4>1, <4>2
    <3>. QED BY <3>1, <3>2
  <2>. QED BY <2>1, <2>2
<1>8. Run = [n \in 0..N |-> IF n = 0 THEN a ELSE Wave(to, Run[n - 1])]
  BY <1>7
<1>. HIDE DEF Run
<1>9. 0..N \subseteq {n \in 0..N : Run[n] \in S}
  <2>. DEFINE T == {n \in 0..N : Run[n] \in S}
  <2>1. 0 \in T
    BY <1>1, <1>8
  <2>2. ASSUME NEW n \in 0..(N - 1), n \in T PROVE n + 1 \in T
    <3>1. n + 1 \in 0..N /\ (n + 1) - 1 = n /\ n + 1 # 0 /\ Run[n] \in S
      BY <1>1, <2>2
    <3>2. Run[n + 1] = Wave(to, Run[n])
      BY <1>8, <3>1
    <3>. QED BY <1>2, <3>1, <3>2
  <2>. HIDE DEF T
  <2>3. 0..N \subseteq T
    BY <1>1, <2>1, <2>2, Induction
  <2>. QED BY <2>3 DEF T
<1>10. Run \in [0..N -> S] /\ Run[0] = a
  BY <1>1, <1>8, <1>9
<1>11. ASSUME NEW n \in 1..N PROVE Run[n] = Wave(to, Run[n - 1])
  <2>1. n \in 0..N /\ n # 0
    BY <1>1
  <2>. QED BY <1>8, <2>1
<1>12. WaveSteps(Run, to, places)
  BY <1>5, <1>10, <1>11 DEF WaveSteps, N, S, a
<1>. QED
  BY <1>12

(* What Reached returns is the least closed set.                           *)
LEMMA ReachedIsLeast ==
  ASSUME NEW to, IsGraph(to), NEW places \in SUBSET DOMAIN to
  PROVE  LeastClosed(to, places, Reached(to, places))
<1>. DEFINE D == DOMAIN to
            N == Cardinality(DOMAIN to) + 1
<1>1. N \in Nat /\ N > 0 /\ IsFiniteSet(D)
  BY FS_CardinalityType DEF IsGraph
<1>2. PICK wave : WaveSteps(wave, to, places)
  BY ReachedHasSteps
<1>3. /\ wave \in [0..N -> [marked : SUBSET D, ahead : SUBSET D]]
      /\ wave[0] = [marked |-> {}, ahead |-> places]
      /\ \A n \in 1..N : wave[n] = Wave(to, wave[n - 1])
      /\ Reached(to, places) = wave[N].marked
  BY <1>2 DEF WaveSteps
<1>. DEFINE good(n) == /\ places \subseteq wave[n].marked \union wave[n].ahead
                       /\ \A j \in wave[n].marked : to[j] \subseteq wave[n].marked \union wave[n].ahead
                       /\ \A U \in SUBSET D : places \subseteq U /\ Closed(to, U)
                                                => wave[n].marked \union wave[n].ahead \subseteq U
                       /\ wave[n].marked \intersect wave[n].ahead = {}
                       /\ wave[n].ahead = {} \/ Cardinality(wave[n].marked) >= n
            T == {n \in 0..N : good(n)}
<1>4. 0 \in T
  <2>1. 0 \in 0..N /\ Cardinality({}) = 0
    BY <1>1, FS_EmptySet
  <2>2. wave[0].marked = {} /\ wave[0].ahead = places
    BY <1>3
  <2>3. good(0)
    BY <2>1, <2>2
  <2>. QED BY <2>1, <2>3
<1>5. ASSUME NEW n \in 0..(N - 1), n \in T PROVE n + 1 \in T
  <2>. DEFINE w == wave[n]
              v == wave[n + 1]
              all == w.marked \union w.ahead
  <2>1. n \in 0..N /\ n + 1 \in 1..N /\ n + 1 \in 0..N /\ (n + 1) - 1 = n /\ n \in Nat
    BY <1>1
  <2>2. v = Wave(to, w) /\ w \in [marked : SUBSET D, ahead : SUBSET D] /\ v \in [marked : SUBSET D, ahead : SUBSET D]
    BY <1>3, <2>1
  <2>3. v.marked = all /\ v.ahead = (UNION {to[j] : j \in w.ahead}) \ all
    BY <2>2 DEF Wave
  <2>4. good(n)
    BY <1>5
  <2>5. Cardinality(v.marked) \in Nat /\ (v.ahead = {} \/ Cardinality(v.marked) >= n + 1)
    <3>1. IsFiniteSet(all) /\ IsFiniteSet(w.marked) /\ Cardinality(all) \in Nat /\ Cardinality(w.marked) \in Nat
      BY <1>1, <2>2, FS_Subset, FS_CardinalityType
    <3>2. CASE w.ahead = {}
      BY <2>3, <3>1, <3>2
    <3>3. CASE w.ahead # {}
      <4>1. w.marked \subseteq all /\ w.marked # all
        BY <2>4, <3>3
      <4>2. Cardinality(w.marked) <= Cardinality(all) /\ Cardinality(w.marked) # Cardinality(all)
        BY <3>1, <4>1, FS_Subset
      <4>3. Cardinality(w.marked) >= n
        BY <2>4, <3>3
      <4>. QED BY <2>1, <2>3, <3>1, <4>2, <4>3
    <3>. QED BY <3>2, <3>3
  <2>. HIDE DEF w, v
  <2>6. places \subseteq v.marked \union v.ahead
    BY <2>3, <2>4 DEF w
  <2>7. ASSUME NEW j \in v.marked PROVE to[j] \subseteq v.marked \union v.ahead
    <3>1. CASE j \in w.marked
      BY <2>3, <2>4, <3>1 DEF w
    <3>2. CASE j \in w.ahead
      BY <2>3, <3>2
    <3>. QED BY <2>3, <3>1, <3>2
  <2>8. ASSUME NEW U \in SUBSET D, places \subseteq U, Closed(to, U) PROVE v.marked \union v.ahead \subseteq U
    <3>1. all \subseteq U
      BY <2>4, <2>8 DEF w
    <3>2. \A j \in w.ahead : to[j] \subseteq U
      BY <2>8, <3>1 DEF Closed
    <3>. QED BY <2>3, <3>1, <3>2
  <2>9. v.marked \intersect v.ahead = {}
    BY <2>3
  <2>10. good(n + 1)
    BY <2>1, <2>5, <2>6, <2>7, <2>8, <2>9 DEF v
  <2>. QED BY <2>1, <2>10
<1>. HIDE DEF T
<1>6. N \in T
  <2>1. 0..N \subseteq T
    BY <1>1, <1>4, <1>5, Induction
  <2>. QED BY <1>1, <2>1
<1>7. good(N) /\ wave[N] \in [marked : SUBSET D, ahead : SUBSET D]
  BY <1>1, <1>3, <1>6 DEF T
<1>8. wave[N].ahead = {}
  <2>1. Cardinality(wave[N].marked) <= Cardinality(D) /\ Cardinality(wave[N].marked) \in Nat /\ Cardinality(D) \in Nat
    BY <1>1, <1>7, FS_Subset, FS_CardinalityType
  <2>. QED BY <1>7, <2>1
<1>9. \A j \in wave[N].marked : to[j] \subseteq wave[N].marked
  BY <1>7, <1>8
<1>. QED
  BY <1>3, <1>7, <1>8, <1>9 DEF LeastClosed, Closed

MovedCells(s) == {j \in DOMAIN s.moved : s.moved[j] # 0}
IsSpace(cell, s) ==
  /\ s = [new |-> s.new, moved |-> s.moved]
  /\ IsSequence(s.new)
  /\ s.moved \in [DOMAIN cell -> Nat]
(* The places of the new heap number the cells that have been moved.       *)
Numbered(s) ==
  /\ \A j \in DOMAIN s.moved : s.moved[j] <= Len(s.new)
  /\ \A k \in 1..Len(s.new) : \E j \in DOMAIN s.moved : s.moved[j] = k
  /\ \A i, j \in MovedCells(s) : s.moved[i] = s.moved[j] => i = j
(* r has the cells of s, and after them further cells as they were.        *)
Grown(cell, s, r) ==
  /\ Len(s.new) <= Len(r.new)
  /\ \A k \in 1..Len(s.new) : r.new[k] = s.new[k]
  /\ \A j \in MovedCells(s) : r.moved[j] = s.moved[j]
  /\ \A j \in MovedCells(r) \ MovedCells(s) : r.moved[j] > Len(s.new) /\ r.new[r.moved[j]] = cell[j]
(* r is s with the cells at some places moved as well.                     *)
MovesAlso(cell, s, r, places) ==
  /\ IsSpace(cell, r)
  /\ Numbered(r)
  /\ Grown(cell, s, r)
  /\ MovedCells(r) = MovedCells(s) \union places

(* Sequences of any values: appending, and replacing an element.           *)
LEMMA SequenceFacts ==
  ASSUME NEW s, IsSequence(s)
  PROVE  /\ Len(s) \in Nat /\ DOMAIN s = 1..Len(s)
         /\ s = [k \in 1..Len(s) |-> s[k]]
         /\ \A e : /\ IsSequence(Append(s, e)) /\ Len(Append(s, e)) = Len(s) + 1
                   /\ Append(s, e)[Len(s) + 1] = e
                   /\ \A k \in 1..Len(s) : Append(s, e)[k] = s[k]
         /\ \A p \in DOMAIN s : \A e : LET r == [s EXCEPT ![p] = e] IN
                   /\ IsSequence(r) /\ Len(r) = Len(s) /\ r[p] = e
                   /\ \A k \in 1..Len(s) : k # p => r[k] = s[k]
<1>. DEFINE X == {s[j] : j \in DOMAIN s}
<1>1. s \in Seq(X)
  BY DEF IsSequence
<1>2. Len(s) \in Nat /\ DOMAIN s = 1..Len(s) /\ s = [k \in 1..Len(s) |-> s[k]]
  BY <1>1
<1>3. ASSUME NEW e
      PROVE  /\ IsSequence(Append(s, e)) /\ Len(Append(s, e)) = Len(s) + 1
             /\ Append(s, e)[Len(s) + 1] = e
             /\ \A k \in 1..Len(s) : Append(s, e)[k] = s[k]
  <2>. DEFINE r == Append(s, e)
  <2>1. s \in Seq(X \union {e})
    BY <1>1
  <2>2. r \in Seq(X \union {e}) /\ Len(r) = Len(s) + 1 /\ r[Len(s) + 1] = e /\ \A k \in 1..Len(s) : r[k] = s[k]
    BY <2>1
  <2>. HIDE DEF r, X
  <2>3. r \in Seq({r[j] : j \in DOMAIN r})
    BY <2>2
  <2>. QED BY <2>2, <2>3 DEF IsSequence, r
<1>4. ASSUME NEW p \in DOMAIN s, NEW e
      PROVE  LET r == [s EXCEPT ![p] = e] IN
                   /\ IsSequence(r) /\ Len(r) = Len(s) /\ r[p] = e
                   /\ \A k \in 1..Len(s) : k # p => r[k] = s[k]
  <2>. DEFINE r == [s EXCEPT ![p] = e]
  <2>1. s \in Seq(X \union {e})
    BY <1>1
  <2>2. r \in Seq(X \union {e}) /\ Len(r) = Len(s) /\ r[p] = e /\ \A k \in 1..Len(s) : k # p => r[k] = s[k]
    BY <1>2, <2>1
  <2>. HIDE DEF r, X
  <2>3. r \in Seq({r[j] : j \in DOMAIN r})
    BY <2>2
  <2>. QED BY <2>2, <2>3 DEF IsSequence, r
<1>. QED
  BY <1>2, <1>3, <1>4

(* A relocated value is moved, and nothing else is.                        *)
LEMMA RelocateMoves ==
  ASSUME NEW cell, NEW s, IsSpace(cell, s), Numbered(s), NEW x, x.t = "ref" => x.at \in DOMAIN cell
  PROVE  MovesAlso(cell, s, GcRelocate(cell, s, x), IF x.t = "ref" THEN {x.at} ELSE {})
<1>. DEFINE r == GcRelocate(cell, s, x)
<1>0. Len(s.new) \in Nat /\ DOMAIN s.moved = DOMAIN cell /\ s.moved \in [DOMAIN cell -> Nat]
  BY SequenceFacts DEF IsSpace
<1>1. CASE r = s /\ (x.t = "ref" => s.moved[x.at] # 0)
  <2>1. Grown(cell, s, s)
    BY <1>0 DEF Grown
  <2>2. MovedCells(s) = MovedCells(s) \union (IF x.t = "ref" THEN {x.at} ELSE {})
    BY <1>0, <1>1 DEF MovedCells
  <2>. QED BY <1>1, <2>1, <2>2 DEF MovesAlso
<1>2. CASE x.t = "ref" /\ s.moved[x.at] = 0
  <2>. DEFINE n == Len(s.new) + 1
  <2>1. r = [new |-> Append(s.new, cell[x.at]), moved |-> [s.moved EXCEPT ![x.at] = n]]
    BY <1>2 DEF GcRelocate
  <2>2. x.at \in DOMAIN cell /\ n \in Nat /\ n # 0
    BY <1>0, <1>2
  <2>3. r.new = Append(s.new, cell[x.at]) /\ r.moved = [s.moved EXCEPT ![x.at] = n]
    BY <2>1
  <2>4. IsSequence(r.new) /\ Len(r.new) = n /\ r.new[n] = cell[x.at] /\ \A k \in 1..Len(s.new) : r.new[k] = s.new[k]
    BY <2>3, SequenceFacts DEF IsSpace
  <2>5. /\ r.moved \in [DOMAIN cell -> Nat] /\ r.moved[x.at] = n /\ DOMAIN r.moved = DOMAIN cell
        /\ \A j \in DOMAIN cell : j # x.at => r.moved[j] = s.moved[j]
    BY <1>0, <2>2, <2>3
  <2>6. IsSpace(cell, r)
    BY <2>1, <2>4, <2>5 DEF IsSpace
  <2>. HIDE DEF r
  <2>7. MovedCells(r) = MovedCells(s) \union {x.at}
    BY <1>0, <2>2, <2>5 DEF MovedCells
  <2>8. Grown(cell, s, r)
    <3>1. ASSUME NEW j \in MovedCells(s) PROVE r.moved[j] = s.moved[j]
      BY <1>0, <1>2, <2>5 DEF MovedCells
    <3>2. ASSUME NEW j \in MovedCells(r) \ MovedCells(s) PROVE r.moved[j] > Len(s.new) /\ r.new[r.moved[j]] = cell[j]
      BY <1>0, <2>4, <2>5, <2>7
    <3>. QED BY <1>0, <2>4, <3>1, <3>2 DEF Grown
  <2>9. Numbered(r)
    <3>1. ASSUME NEW j \in DOMAIN r.moved PROVE r.moved[j] <= Len(r.new)
      BY <1>0, <2>4, <2>5 DEF Numbered
    <3>2. ASSUME NEW k \in 1..Len(r.new) PROVE \E j \in DOMAIN r.moved : r.moved[j] = k
      <4>1. CASE k = n
        BY <2>2, <2>5, <4>1
      <4>2. CASE k # n
        <5>1. k \in 1..Len(s.new)
          BY <1>0, <2>4, <4>2
        <5>2. PICK j \in DOMAIN s.moved : s.moved[j] = k
          BY <5>1 DEF Numbered
        <5>3. j # x.at
          BY <1>2, <5>1, <5>2
        <5>. QED BY <1>0, <2>5, <5>2, <5>3
      <4>. QED BY <4>1, <4>2
    <3>3. ASSUME NEW i \in MovedCells(r), NEW j \in MovedCells(r), r.moved[i] = r.moved[j] PROVE i = j
      <4>1. \A k \in MovedCells(s) : k \in DOMAIN cell /\ k # x.at /\ r.moved[k] = s.moved[k] /\ s.moved[k] # n
        BY <1>0, <1>2, <2>5 DEF Numbered, MovedCells
      <4>. QED BY <2>5, <2>7, <3>3, <4>1 DEF Numbered
    <3>. QED BY <3>1, <3>2, <3>3 DEF Numbered
  <2>. QED BY <1>2, <2>6, <2>7, <2>8, <2>9 DEF MovesAlso, r
<1>. QED
  BY <1>1, <1>2 DEF GcRelocate

(* What a space keeps while it grows, it keeps while it grows twice.       *)
LEMMA GrownTwice ==
  ASSUME NEW cell, NEW s, NEW r, NEW q, IsSpace(cell, s), IsSpace(cell, r), IsSpace(cell, q),
         Grown(cell, s, r), Grown(cell, r, q), MovedCells(s) \subseteq MovedCells(r), Numbered(r)
  PROVE  Grown(cell, s, q)
<1>1. Len(s.new) \in Nat /\ Len(r.new) \in Nat /\ Len(q.new) \in Nat
  BY SequenceFacts DEF IsSpace
<1>2. \A k \in 1..Len(s.new) : k \in 1..Len(r.new)
  BY <1>1 DEF Grown
<1>3. ASSUME NEW j \in MovedCells(q) \ MovedCells(s) PROVE q.moved[j] > Len(s.new) /\ q.new[q.moved[j]] = cell[j]
  <2>1. CASE j \in MovedCells(r)
    <3>1. r.moved[j] > Len(s.new) /\ r.new[r.moved[j]] = cell[j] /\ q.moved[j] = r.moved[j]
      BY <1>3, <2>1 DEF Grown
    <3>2. r.moved[j] \in 1..Len(r.new)
      BY <1>1, <2>1 DEF Numbered, MovedCells, IsSpace
    <3>. QED BY <3>1, <3>2 DEF Grown
  <2>2. CASE j \notin MovedCells(r)
    <3>1. q.moved[j] > Len(r.new) /\ q.new[q.moved[j]] = cell[j]
      BY <1>3, <2>2 DEF Grown
    <3>2. q.moved[j] \in Nat
      BY <1>3 DEF MovedCells, IsSpace
    <3>. QED BY <1>1, <3>1, <3>2 DEF Grown
  <2>. QED BY <2>1, <2>2
<1>. QED
  BY <1>1, <1>2, <1>3 DEF Grown

(* The turns of the loop in Relocated.                                     *)
RelocateSteps(after, cell, s, values) ==
  /\ after[0] = s
  /\ \A n \in 1..Len(values) : after[n] = GcRelocate(cell, after[n - 1], values[n])
  /\ Relocated(cell, s, values) = after[Len(values)]

(* The function of Relocated exists: every value is relocated after the    *)
(* one before it.                                                          *)
LEMMA RelocatedHasSteps ==
  ASSUME NEW cell, NEW s, IsSpace(cell, s), NEW values, AreValues(values, DOMAIN cell)
  PROVE  \E after : RelocateSteps(after, cell, s, values)
<1>. DEFINE N == Len(values)
            X == {s.new[j] : j \in DOMAIN s.new} \union {cell[j] : j \in DOMAIN cell}
            S == [new : Seq(X), moved : [DOMAIN cell -> Nat]]
            G == [x \in (1..N) \X S |-> GcRelocate(cell, x[2], values[x[1]])]
            Run == CHOOSE after : after = [n \in 0..N |-> IF n = 0 THEN s ELSE GcRelocate(cell, after[n - 1], values[n])]
<1>1. N \in Nat /\ DOMAIN values = 1..N
  BY SequenceFacts DEF AreValues
<1>2. s \in S
  <2>1. s.new \in Seq({s.new[j] : j \in DOMAIN s.new}) /\ s.moved \in [DOMAIN cell -> Nat]
        /\ s = [new |-> s.new, moved |-> s.moved]
    BY DEF IsSpace, IsSequence
  <2>2. s.new \in Seq(X)
    BY <2>1
  <2>. HIDE DEF X
  <2>3. [new |-> s.new, moved |-> s.moved] \in S
    BY <2>1, <2>2
  <2>. QED BY <2>1, <2>3
<1>3. ASSUME NEW n \in 1..N, NEW q \in S PROVE GcRelocate(cell, q, values[n]) \in S
  <2>. DEFINE x == values[n]
  <2>1. x.t = "ref" => x.at \in DOMAIN cell
    BY <1>1 DEF AreValues
  <2>2. q.new \in Seq(X) /\ q.moved \in [DOMAIN cell -> Nat] /\ Len(q.new) \in Nat
    OBVIOUS
  <2>3. CASE x.t = "ref"
    <3>1. cell[x.at] \in X
      BY <2>1, <2>3
    <3>. HIDE DEF X, x
    <3>2. Append(q.new, cell[x.at]) \in Seq(X)
      BY <2>2, <3>1
    <3>4. [q.moved EXCEPT ![x.at] = Len(q.new) + 1] \in [DOMAIN cell -> Nat]
      <4>1. Len(q.new) + 1 \in Nat
        BY <2>2
      <4>. HIDE DEF S
      <4>. QED BY <2>2, <4>1
    <3>3. [new |-> Append(q.new, cell[x.at]), moved |-> [q.moved EXCEPT ![x.at] = Len(q.new) + 1]] \in S
      BY <3>2, <3>4
    <3>. HIDE DEF S
    <3>. QED BY <3>3 DEF GcRelocate, x
  <2>4. CASE x.t # "ref"
    BY <2>4 DEF GcRelocate
  <2>. QED BY <2>3, <2>4
<1>4. \A n \in 1..N, q \in S : G[<<n, q>>] = GcRelocate(cell, q, values[n])
  OBVIOUS
<1>5. \A n \in 1..N, q \in S : G[<<n, q>>] \in S
  BY <1>3
<1>6. Relocated(cell, s, values) = Run[N]
  BY DEF Relocated
<1>. HIDE DEF S, G, N
<1>7. PICK f : Repeats(f, N, S, s, G)
  BY <1>1, <1>2, <1>5, BoundedIteration
<1>8. f = [n \in 0..N |-> IF n = 0 THEN s ELSE GcRelocate(cell, f[n - 1], values[n])]
  <2>1. f \in [0..N -> S] /\ f = [n \in 0..N |-> IF n = 0 THEN s ELSE G[<<n, f[n - 1]>>]]
    BY <1>7 DEF Repeats
  <2>2. ASSUME NEW n \in 0..N PROVE f[n] = IF n = 0 THEN s ELSE GcRelocate(cell, f[n - 1], values[n])
    <3>1. CASE n = 0
      BY <2>1, <3>1
    <3>2. CASE n # 0
      <4>1. n \in 1..N /\ n - 1 \in 0..N
        BY <1>1, <3>2
      <4>2. f[n] = G[<<n, f[n - 1]>>] /\ f[n - 1] \in S
        BY <2>1, <3>2, <4>1
      <4>. QED BY <1>4, <3>2, <4>1, <4>2
    <3>. QED BY <3>1, <3>2
  <2>. QED BY <2>1, <2>2
<1>9. Run = [n \in 0..N |-> IF n = 0 THEN s ELSE GcRelocate(cell, Run[n - 1], values[n])]
  BY <1>8
<1>. HIDE DEF Run
<1>10. Run[0] = s
  BY <1>1, <1>9
<1>11. ASSUME NEW n \in 1..N PROVE Run[n] = GcRelocate(cell, Run[n - 1], values[n])
  <2>1. n \in 0..N /\ n # 0
    BY <1>1
  <2>. QED BY <1>9, <2>1
<1>12. RelocateSteps(Run, cell, s, values)
  BY <1>6, <1>10, <1>11 DEF RelocateSteps, N
<1>. QED
  BY <1>12

(* The values of a cell, or the registers, are moved and nothing else is.  *)
LEMMA RelocatedMoves ==
  ASSUME NEW cell, NEW s, IsSpace(cell, s), Numbered(s), NEW values, AreValues(values, DOMAIN cell)
  PROVE  MovesAlso(cell, s, Relocated(cell, s, values), Places(values))
<1>. DEFINE N == Len(values)
            first(n) == {values[j].at : j \in {i \in 1..n : values[i].t = "ref"}}
<1>1. N \in Nat /\ DOMAIN values = 1..N
  BY SequenceFacts DEF AreValues
<1>2. PICK after : RelocateSteps(after, cell, s, values)
  BY RelocatedHasSteps
<1>. DEFINE T == {n \in 0..N : MovesAlso(cell, s, after[n], first(n))}
<1>3. 0 \in T
  <2>1. after[0] = s /\ first(0) = {}
    BY <1>2 DEF RelocateSteps
  <2>2. Grown(cell, s, s)
    BY SequenceFacts DEF Grown, IsSpace
  <2>3. MovedCells(s) = MovedCells(s) \union {}
    OBVIOUS
  <2>. QED BY <1>1, <2>1, <2>2, <2>3 DEF MovesAlso
<1>4. ASSUME NEW n \in 0..(N - 1), n \in T PROVE n + 1 \in T
  <2>. DEFINE x == values[n + 1]
              q == after[n]
              r == after[n + 1]
              also == IF x.t = "ref" THEN {x.at} ELSE {}
  <2>1. n + 1 \in 1..N /\ n + 1 \in 0..N /\ (n + 1) - 1 = n
    BY <1>1
  <2>2. r = GcRelocate(cell, q, x)
    BY <1>2, <2>1 DEF RelocateSteps
  <2>3. MovesAlso(cell, s, q, first(n))
    BY <1>4
  <2>4. x.t = "ref" => x.at \in DOMAIN cell
    BY <1>1, <2>1 DEF AreValues
  <2>5. first(n + 1) = first(n) \union also
    <3>1. 1..(n + 1) = (1..n) \union {n + 1}
      BY <1>1
    <3>. QED BY <3>1
  <2>. HIDE DEF q, r, x, first
  <2>6. MovesAlso(cell, q, r, also)
    BY <2>2, <2>3, <2>4, RelocateMoves DEF MovesAlso
  <2>7. MovedCells(r) = MovedCells(s) \union first(n + 1) /\ MovedCells(s) \subseteq MovedCells(q)
    BY <2>3, <2>5, <2>6 DEF MovesAlso
  <2>. HIDE DEF also
  <2>8. Grown(cell, s, r)
    BY <2>3, <2>6, <2>7, GrownTwice DEF MovesAlso
  <2>9. MovesAlso(cell, s, r, first(n + 1))
    BY <2>6, <2>7, <2>8 DEF MovesAlso
  <2>. QED BY <2>1, <2>9 DEF r
<1>. HIDE DEF T
<1>5. 0..N \subseteq T
  BY <1>1, <1>3, <1>4, Induction
<1>6. MovesAlso(cell, s, after[N], first(N))
  <2>1. N \in 0..N
    BY <1>1
  <2>. QED BY <1>5, <2>1 DEF T
<1>7. first(N) = Places(values) /\ after[N] = Relocated(cell, s, values)
  BY <1>1, <1>2 DEF Places, RelocateSteps
<1>. QED
  BY <1>6, <1>7

(* The turns of the loop in ScanNewspace.                                  *)
ScanTurn(cell, r, n) == IF n > Len(r.new) THEN r ELSE ScanCell(cell, r, n)
ScanSteps(after, cell, s) ==
  /\ after[0] = s
  /\ \A n \in 1..Len(cell) : after[n] = ScanTurn(cell, after[n - 1], n)
  /\ ScanNewspace(cell, s) = after[Len(cell)]

(* The function of ScanNewspace exists: every turn follows from the one    *)
(* before.                                                                 *)
LEMMA ScanHasSteps ==
  ASSUME NEW cell, Len(cell) \in Nat, NEW s
  PROVE  \E after : ScanSteps(after, cell, s)
<1>. DEFINE N == Len(cell)
            Is(g, n) == g = [k \in 0..n |-> IF k = 0 THEN s ELSE ScanTurn(cell, g[k - 1], k)]
            T == {n \in 0..N : \E g : Is(g, n)}
            Run == CHOOSE after : after = [n \in 0..N |-> IF n = 0 THEN s ELSE ScanTurn(cell, after[n - 1], n)]
<1>1. ScanNewspace(cell, s) = Run[N]
  BY DEF ScanNewspace, ScanTurn
<1>2. 0 \in T
  <2>. DEFINE g == [k \in 0..0 |-> s]
  <2>1. Is(g, 0)
    OBVIOUS
  <2>. HIDE DEF Is, g
  <2>. QED BY <2>1
<1>3. ASSUME NEW n \in 0..(N - 1), n \in T PROVE n + 1 \in T
  <2>1. PICK g : Is(g, n)
    BY <1>3
  <2>. DEFINE h == [k \in 0..(n + 1) |-> IF k = n + 1 THEN ScanTurn(cell, g[n], n + 1) ELSE g[k]]
              v(k) == IF k = 0 THEN s ELSE ScanTurn(cell, h[k - 1], k)
  <2>2. n \in Nat /\ n + 1 \in 0..N /\ n + 1 # 0 /\ (n + 1) - 1 = n /\ n \in 0..(n + 1) /\ n # n + 1
    OBVIOUS
  <2>3. ASSUME NEW k \in 0..(n + 1) PROVE h[k] = v(k)
    <3>1. CASE k = n + 1
      <4>1. h[k] = ScanTurn(cell, g[n], n + 1) /\ h[n] = g[n]
        BY <2>2, <3>1
      <4>. HIDE DEF h
      <4>. QED BY <2>2, <3>1, <4>1
    <3>2. CASE k = 0
      <4>1. h[k] = g[k] /\ g[k] = s
        BY <2>1, <2>2, <3>2
      <4>. HIDE DEF h
      <4>. QED BY <3>2, <4>1
    <3>3. CASE k # 0 /\ k # n + 1
      <4>1. k \in 0..n /\ k - 1 \in 0..(n + 1) /\ k - 1 # n + 1
        BY <2>2, <3>3
      <4>2. h[k] = g[k] /\ h[k - 1] = g[k - 1]
        BY <3>3, <4>1
      <4>3. g[k] = ScanTurn(cell, g[k - 1], k)
        BY <2>1, <3>3, <4>1
      <4>. HIDE DEF h
      <4>. QED BY <3>3, <4>2, <4>3
    <3>. QED BY <3>1, <3>2, <3>3
  <2>4. h = [k \in 0..(n + 1) |-> h[k]]
    OBVIOUS
  <2>. HIDE DEF h
  <2>5. Is(h, n + 1)
    BY <2>3, <2>4
  <2>. QED BY <2>2, <2>5
<1>4. N \in T
  <2>. HIDE DEF T
  <2>1. 0..N \subseteq T
    BY <1>2, <1>3, Induction
  <2>. QED BY <2>1
<1>5. PICK f : Is(f, N)
  BY <1>4
<1>6. Run = [n \in 0..N |-> IF n = 0 THEN s ELSE ScanTurn(cell, Run[n - 1], n)]
  BY <1>5
<1>. HIDE DEF Run
<1>7. Run[0] = s
  BY <1>6
<1>8. ASSUME NEW n \in 1..N PROVE Run[n] = ScanTurn(cell, Run[n - 1], n)
  <2>1. n \in 0..N /\ n # 0
    OBVIOUS
  <2>. QED BY <1>6, <2>1
<1>. QED
  BY <1>1, <1>7, <1>8 DEF ScanSteps

(* What gc_relocate has done before the turn n + 1 of the scan.            *)
Scanning(cell, registers, s, n) ==
  /\ IsSpace(cell, s)
  /\ Numbered(s)
  /\ Places(registers) \subseteq MovedCells(s)
  /\ registers # <<>> /\ registers[1].t = "ref" => s.moved[registers[1].at] = 1
  /\ \A j \in MovedCells(s) : s.moved[j] > n => s.new[s.moved[j]] = cell[j]
  /\ \A j \in MovedCells(s) : s.moved[j] <= n =>
        /\ Places(Scanned(cell[j])) \subseteq MovedCells(s)
        /\ s.new[s.moved[j]] = WithValues(cell[j], MovedValues(s, Scanned(cell[j])))
  /\ \A U \in SUBSET DOMAIN cell :
        Places(registers) \subseteq U /\ (\A j \in U : Places(Scanned(cell[j])) \subseteq U) => MovedCells(s) \subseteq U

(* Values whose cells have been moved stay where they are.                 *)
LEMMA MovedValuesStay ==
  ASSUME NEW s, NEW r, NEW values, Places(values) \subseteq MovedCells(s),
         \A j \in MovedCells(s) : r.moved[j] = s.moved[j]
  PROVE  MovedValues(r, values) = MovedValues(s, values)
<1>1. ASSUME NEW j \in DOMAIN values PROVE Moved(r, values[j]) = Moved(s, values[j])
  <2>1. CASE values[j].t = "ref"
    <3>1. values[j].at \in MovedCells(s)
      BY <2>1 DEF Places
    <3>2. r.moved[values[j].at] = s.moved[values[j].at]
      BY <3>1
    <3>. QED BY <3>2 DEF Moved
  <2>2. CASE values[j].t # "ref"
    BY <2>2 DEF Moved
  <2>. QED BY <2>1, <2>2
<1>. QED
  BY <1>1 DEF MovedValues

(* The first cell of the registers is the first of the new heap.           *)
LEMMA FirstIsFirst ==
  ASSUME NEW cell, NEW registers, AreRegisters(cell, registers), registers # <<>>, registers[1].t = "ref"
  PROVE  ScanRegisters(cell, registers).moved[registers[1].at] = 1
<1>. DEFINE a == GetNewspace(cell)
            N == Len(registers)
            p == registers[1].at
<1>1. a.new = <<>> /\ a.moved = [j \in DOMAIN cell |-> 0] /\ a = [new |-> a.new, moved |-> a.moved]
  BY DEF GetNewspace
<1>. HIDE DEF a
<1>2. N \in Nat /\ N >= 1 /\ DOMAIN registers = 1..N /\ p \in DOMAIN cell
  <2>1. N \in Nat /\ DOMAIN registers = 1..N /\ registers = [k \in 1..N |-> registers[k]]
    BY SequenceFacts DEF AreRegisters, AreValues
  <2>2. N # 0
    BY <2>1
  <2>3. N >= 1 /\ 1 \in DOMAIN registers
    BY <2>1, <2>2
  <2>. QED BY <2>1, <2>3 DEF AreRegisters, AreValues
<1>3. IsSpace(cell, a)
  BY <1>1 DEF IsSpace, IsSequence
<1>4. PICK after : RelocateSteps(after, cell, a, registers)
  BY <1>3, RelocatedHasSteps DEF AreRegisters
<1>5. /\ after[0] = a /\ \A n \in 1..N : after[n] = GcRelocate(cell, after[n - 1], registers[n])
      /\ ScanRegisters(cell, registers) = after[N]
  BY <1>4 DEF RelocateSteps, ScanRegisters, a
<1>. HIDE DEF p
<1>. DEFINE T == {n \in 0..N : DOMAIN after[n].moved = DOMAIN cell /\ (n >= 1 => after[n].moved[p] = 1)}
<1>6. 0 \in T
  BY <1>1, <1>2, <1>5
<1>7. ASSUME NEW n \in 0..(N - 1), n \in T PROVE n + 1 \in T
  <2>. DEFINE q == after[n]
              r == after[n + 1]
              x == registers[n + 1]
  <2>1. n + 1 \in 1..N /\ n + 1 \in 0..N /\ (n + 1) - 1 = n /\ n \in Nat
    BY <1>2
  <2>2. r = GcRelocate(cell, q, x)
    BY <1>5, <2>1
  <2>3. DOMAIN q.moved = DOMAIN cell /\ (n >= 1 => q.moved[p] = 1)
    BY <1>7
  <2>4. r = q \/ (x.t = "ref" /\ q.moved[x.at] = 0 /\ r.moved = [q.moved EXCEPT ![x.at] = Len(q.new) + 1])
    BY <2>2 DEF GcRelocate
  <2>5. CASE n = 0
    <3>1. q = a /\ x = registers[1] /\ x.at = p /\ x.t = "ref"
      BY <1>5, <2>5 DEF p
    <3>2. q.moved[p] = 0 /\ Len(q.new) = 0
      BY <1>1, <1>2, <3>1
    <3>. HIDE DEF q, r, x
    <3>3. r.moved = [q.moved EXCEPT ![p] = 1]
      BY <2>2, <3>1, <3>2 DEF GcRelocate
    <3>4. r.moved[p] = 1 /\ DOMAIN r.moved = DOMAIN cell
      BY <1>2, <2>3, <3>3
    <3>. QED BY <2>1, <3>4 DEF r
  <2>6. CASE n # 0
    <3>1. q.moved[p] = 1
      BY <2>1, <2>3, <2>6
    <3>. HIDE DEF q, r, x
    <3>2. r.moved[p] = 1 /\ DOMAIN r.moved = DOMAIN cell
      BY <1>2, <2>3, <2>4, <3>1
    <3>. QED BY <2>1, <3>2 DEF r
  <2>. QED BY <2>5, <2>6
<1>. HIDE DEF T
<1>8. 0..N \subseteq T
  <2>1. N \in Nat
    BY <1>2
  <2>. HIDE DEF N
  <2>. QED BY <1>6, <1>7, <2>1, Induction
<1>9. after[N].moved[p] = 1
  BY <1>2, <1>8 DEF T
<1>. QED
  BY <1>5, <1>9 DEF p

(* Relocating the registers begins the scan: no cell of the new space is   *)
(* scanned yet.                                                            *)
LEMMA RegistersScanned ==
  ASSUME NEW cell, IsHeap(cell), NEW registers, AreRegisters(cell, registers)
  PROVE  Scanning(cell, registers, ScanRegisters(cell, registers), 0)
<1>. DEFINE a == GetNewspace(cell)
            s == ScanRegisters(cell, registers)
<1>1. a.new = <<>> /\ a.moved = [j \in DOMAIN cell |-> 0] /\ a = [new |-> a.new, moved |-> a.moved]
  BY DEF GetNewspace
<1>. HIDE DEF a
<1>2. IsSpace(cell, a) /\ Numbered(a) /\ MovedCells(a) = {}
  BY <1>1 DEF IsSpace, Numbered, MovedCells, IsSequence
<1>3. MovesAlso(cell, a, s, Places(registers))
  BY <1>2, RelocatedMoves DEF a, AreRegisters, ScanRegisters
<1>4. MovedCells(s) = Places(registers) /\ Grown(cell, a, s) /\ IsSpace(cell, s) /\ Numbered(s)
  BY <1>2, <1>3 DEF MovesAlso
<1>5. \A j \in MovedCells(s) : s.new[s.moved[j]] = cell[j] /\ s.moved[j] \in Nat /\ s.moved[j] # 0
  <2>1. \A j \in MovedCells(s) : s.new[s.moved[j]] = cell[j]
    BY <1>2, <1>4 DEF Grown
  <2>. QED BY <1>4, <2>1 DEF IsSpace, MovedCells
<1>6. registers # <<>> /\ registers[1].t = "ref" => s.moved[registers[1].at] = 1
  BY FirstIsFirst
<1>. HIDE DEF s
<1>7. \A j \in MovedCells(s) : ~(s.moved[j] <= 0)
  BY <1>5
<1>. QED
  BY <1>4, <1>5, <1>6, <1>7 DEF Scanning, s

(* A turn of the scan moves what the next cell of the new space refers to, *)
(* and keeps what the scan promises.                                       *)
LEMMA CellScanned ==
  ASSUME NEW cell, IsHeap(cell), NEW registers, AreRegisters(cell, registers),
         NEW n \in Nat, NEW s, Scanning(cell, registers, s, n)
  PROVE  Scanning(cell, registers, ScanTurn(cell, s, n + 1), n + 1)
<1>. DEFINE p == n + 1
            t == ScanTurn(cell, s, p)
<1>0. Len(s.new) \in Nat /\ DOMAIN s.new = 1..Len(s.new) /\ DOMAIN s.moved = DOMAIN cell /\ s.moved \in [DOMAIN cell -> Nat]
      /\ IsSpace(cell, s) /\ Numbered(s)
  BY SequenceFacts DEF Scanning, IsSpace
<1>1. CASE p > Len(s.new)
  <2>1. t = s
    BY <1>1 DEF ScanTurn
  <2>2. \A j \in MovedCells(s) : s.moved[j] \in Nat /\ s.moved[j] < p
    BY <1>0, <1>1 DEF Numbered, MovedCells
  <2>3. \A j \in MovedCells(s) : s.moved[j] <= n /\ ~(s.moved[j] > p)
    BY <2>2
  <2>. HIDE DEF t, p
  <2>4. Scanning(cell, registers, s, p)
    BY <2>3 DEF Scanning
  <2>. QED BY <2>1, <2>4 DEF t, p
<1>2. CASE ~(p > Len(s.new))
  <2>1. p \in 1..Len(s.new) /\ p \in Nat
    BY <1>0, <1>2
  <2>2. PICK j0 \in DOMAIN cell : s.moved[j0] = p
    BY <1>0, <2>1 DEF Numbered
  <2>3. j0 \in MovedCells(s) /\ s.new[p] = cell[j0]
    BY <1>0, <2>1, <2>2 DEF Scanning, MovedCells
  <2>. DEFINE values == Scanned(cell[j0])
              r == Relocated(cell, s, values)
  <2>4. AreValues(values, DOMAIN cell) /\ Places(values) \subseteq DOMAIN cell
    BY DEF IsHeap, AreValues, Places
  <2>5. MovesAlso(cell, s, r, Places(values))
    BY <1>0, <2>4, RelocatedMoves
  <2>6. t = [r EXCEPT !.new[p] = WithValues(@, MovedValues(r, values))]
    BY <1>2, <2>3 DEF ScanTurn, ScanCell
  <2>. HIDE DEF values, r, t, p
  <2>7. /\ IsSpace(cell, r) /\ Numbered(r) /\ Grown(cell, s, r) /\ MovedCells(r) = MovedCells(s) \union Places(values)
        /\ Len(r.new) \in Nat /\ DOMAIN r.new = 1..Len(r.new) /\ DOMAIN r.moved = DOMAIN cell /\ r.moved \in [DOMAIN cell -> Nat]
    BY <2>5, SequenceFacts DEF MovesAlso, IsSpace
  <2>8. p \in 1..Len(r.new) /\ r.new[p] = cell[j0]
    BY <1>0, <2>1, <2>3, <2>7 DEF Grown
  <2>9. /\ t = [new |-> t.new, moved |-> t.moved]
        /\ t.moved = r.moved
        /\ t.new = [r.new EXCEPT ![p] = WithValues(cell[j0], MovedValues(r, values))]
    BY <2>6, <2>7, <2>8 DEF IsSpace
  <2>10. /\ IsSequence(t.new) /\ Len(t.new) = Len(r.new) /\ t.new[p] = WithValues(cell[j0], MovedValues(r, values))
         /\ \A k \in 1..Len(r.new) : k # p => t.new[k] = r.new[k]
    BY <2>7, <2>8, <2>9, SequenceFacts DEF IsSpace
  <2>11. IsSpace(cell, t) /\ Numbered(t) /\ MovedCells(t) = MovedCells(r)
    BY <2>7, <2>9, <2>10 DEF IsSpace, Numbered, MovedCells
  <2>12. ASSUME NEW v PROVE MovedValues(t, v) = MovedValues(r, v)
    BY <2>9 DEF MovedValues, Moved
  <2>13. \A j \in MovedCells(r) : r.moved[j] \in 1..Len(r.new)
    BY <2>7 DEF Numbered, MovedCells
  <2>14. ASSUME NEW j \in MovedCells(t), t.moved[j] > p PROVE t.new[t.moved[j]] = cell[j]
    <3>1. t.moved[j] = r.moved[j] /\ r.moved[j] # p /\ t.new[t.moved[j]] = r.new[r.moved[j]]
      BY <2>1, <2>9, <2>10, <2>11, <2>13, <2>14
    <3>2. CASE j \in MovedCells(s)
      <4>1. r.moved[j] = s.moved[j] /\ s.moved[j] > n /\ s.moved[j] \in 1..Len(s.new)
        BY <1>0, <2>1, <2>7, <2>9, <2>14, <3>2 DEF Grown, Numbered, MovedCells, p
      <4>2. r.new[s.moved[j]] = s.new[s.moved[j]] /\ s.new[s.moved[j]] = cell[j]
        BY <2>7, <3>2, <4>1 DEF Grown, Scanning
      <4>. QED BY <3>1, <4>1, <4>2
    <3>3. CASE j \notin MovedCells(s)
      BY <2>7, <2>11, <3>1, <3>3 DEF Grown
    <3>. QED BY <3>2, <3>3
  <2>15. ASSUME NEW j \in MovedCells(t), t.moved[j] <= p
         PROVE  /\ Places(Scanned(cell[j])) \subseteq MovedCells(t)
                /\ t.new[t.moved[j]] = WithValues(cell[j], MovedValues(t, Scanned(cell[j])))
    <3>1. j \in MovedCells(s) /\ r.moved[j] = s.moved[j] /\ t.moved[j] = s.moved[j]
      <4>1. t.moved[j] = r.moved[j] /\ r.moved[j] \in Nat
        BY <2>7, <2>9, <2>11 DEF MovedCells
      <4>2. j \in MovedCells(s)
        BY <1>0, <2>1, <2>7, <2>11, <2>15, <4>1 DEF Grown
      <4>. QED BY <2>7, <4>1, <4>2 DEF Grown
    <3>2. CASE s.moved[j] = p
      <4>1. j = j0
        BY <1>0, <2>2, <2>3, <3>1, <3>2 DEF Numbered
      <4>. QED BY <2>7, <2>10, <2>11, <2>12, <3>1, <3>2, <4>1 DEF values
    <3>3. CASE s.moved[j] # p
      <4>1. s.moved[j] \in 1..Len(s.new) /\ s.moved[j] <= n /\ s.moved[j] \in 1..Len(r.new)
        BY <1>0, <2>1, <2>7, <2>15, <3>1, <3>3 DEF Numbered, MovedCells, Grown, p
      <4>2. Places(Scanned(cell[j])) \subseteq MovedCells(s)
            /\ s.new[s.moved[j]] = WithValues(cell[j], MovedValues(s, Scanned(cell[j])))
        BY <3>1, <4>1 DEF Scanning
      <4>3. MovedValues(r, Scanned(cell[j])) = MovedValues(s, Scanned(cell[j]))
        BY <2>7, <4>2, MovedValuesStay DEF Grown
      <4>4. t.new[s.moved[j]] = s.new[s.moved[j]]
        BY <2>7, <2>10, <3>3, <4>1 DEF Grown
      <4>. QED BY <2>7, <2>11, <2>12, <3>1, <4>2, <4>3, <4>4
    <3>. QED BY <3>2, <3>3
  <2>16. ASSUME NEW U \in SUBSET DOMAIN cell, Places(registers) \subseteq U, \A j \in U : Places(Scanned(cell[j])) \subseteq U
         PROVE  MovedCells(t) \subseteq U
    <3>1. MovedCells(s) \subseteq U
      BY <2>16 DEF Scanning
    <3>2. Places(values) \subseteq U
      BY <2>3, <2>16, <3>1 DEF values
    <3>. QED BY <2>7, <2>11, <3>1, <3>2
  <2>17. Places(registers) \subseteq MovedCells(t)
    BY <2>7, <2>11 DEF Scanning
  <2>18. ASSUME registers # <<>>, registers[1].t = "ref" PROVE t.moved[registers[1].at] = 1
    <3>1. registers[1].at \in Places(registers)
      <4>1. 1 \in DOMAIN registers
        BY <2>18, SequenceFacts DEF AreRegisters, AreValues
      <4>. QED BY <2>18, <4>1 DEF Places
    <3>2. registers[1].at \in MovedCells(s) /\ s.moved[registers[1].at] = 1
      BY <2>18, <3>1 DEF Scanning
    <3>. QED BY <2>7, <2>9, <3>2 DEF Grown
  <2>19. Scanning(cell, registers, t, p)
    BY <2>11, <2>14, <2>15, <2>16, <2>17, <2>18 DEF Scanning
  <2>. QED BY <2>19 DEF t, p
<1>. QED
  BY <1>1, <1>2

(* Where each cell of a heap leads, for the copying collector and for the  *)
(* marking one.                                                            *)
ScannedPlaces(cell) == [j \in DOMAIN cell |-> Places(Scanned(cell[j]))]
MarkedPlaces(cell) == [j \in DOMAIN cell |-> Places(Subparts(cell[j]))]

(* The parts of the cells of a heap are places of the heap, those that are *)
(* marked among those that are scanned.                                    *)
LEMMA HeapIsGraph ==
  ASSUME NEW cell, IsHeap(cell)
  PROVE  /\ IsGraph(ScannedPlaces(cell)) /\ DOMAIN ScannedPlaces(cell) = DOMAIN cell
         /\ IsGraph(MarkedPlaces(cell)) /\ DOMAIN MarkedPlaces(cell) = DOMAIN cell
         /\ \A j \in DOMAIN cell : MarkedPlaces(cell)[j] \subseteq ScannedPlaces(cell)[j]
         /\ (\A j \in DOMAIN cell : cell[j].t # "tc_closure_traced") => MarkedPlaces(cell) = ScannedPlaces(cell)
<1>1. IsFiniteSet(DOMAIN cell)
  <2>1. Len(cell) \in Nat /\ DOMAIN cell = 1..Len(cell)
    BY SequenceFacts DEF IsHeap
  <2>. QED BY <2>1, FS_Interval
<1>2. \A j \in DOMAIN cell : Places(Scanned(cell[j])) \subseteq DOMAIN cell
  BY DEF IsHeap, AreValues, Places
<1>3. ASSUME NEW j \in DOMAIN cell
      PROVE  /\ Places(Subparts(cell[j])) \subseteq Places(Scanned(cell[j]))
             /\ cell[j].t # "tc_closure_traced" => Places(Subparts(cell[j])) = Places(Scanned(cell[j]))
  <2>. DEFINE c == cell[j]
  <2>0. \A a, b : Places(<<a, b>>) = Places(<<b, a>>) /\ Places(<<a>>) \subseteq Places(<<b, a>>)
    BY DEF Places
  <2>1. CASE c.t = "tc_cons"
    BY <2>1 DEF Subparts, Scanned
  <2>2. CASE c.t = "tc_closure"
    BY <2>0, <2>2 DEF Subparts, Scanned
  <2>3. CASE c.t = "tc_closure_traced"
    BY <2>0, <2>3 DEF Subparts, Scanned, CtGcMark, CtGcScan
  <2>4. CASE c.t = "tc_lisp_array"
    BY <2>4 DEF Subparts, Scanned, ArrayGcMark, ArrayGcScan
  <2>5. CASE c.t \notin {"tc_cons", "tc_closure", "tc_closure_traced", "tc_lisp_array"}
    BY <2>5 DEF Subparts, Scanned
  <2>. QED BY <2>1, <2>2, <2>3, <2>4, <2>5
<1>4. ASSUME \A j \in DOMAIN cell : cell[j].t # "tc_closure_traced" PROVE MarkedPlaces(cell) = ScannedPlaces(cell)
  BY <1>3, <1>4 DEF MarkedPlaces, ScannedPlaces
<1>. QED
  BY <1>1, <1>2, <1>3, <1>4 DEF IsGraph, ScannedPlaces, MarkedPlaces

(* gc_mark marks exactly the least set of cells that has those of the      *)
(* registers and, with each cell, what gc_mark follows from it.            *)
THEOREM MarkIsLeast ==
  ASSUME NEW cell, IsHeap(cell), NEW registers, AreRegisters(cell, registers)
  PROVE  LeastClosed(MarkedPlaces(cell), Places(registers), GcMark(cell, registers))
<1>1. Places(registers) \subseteq DOMAIN cell
  BY DEF AreRegisters, AreValues, Places
<1>. QED
  BY <1>1, HeapIsGraph, ReachedIsLeast DEF GcMark, MarkedPlaces

(* So is Live, for what the copying collector follows.                     *)
LEMMA LiveIsLeast ==
  ASSUME NEW cell, IsHeap(cell), NEW registers, AreRegisters(cell, registers)
  PROVE  LeastClosed(ScannedPlaces(cell), Places(registers), Live(cell, registers))
<1>1. Places(registers) \subseteq DOMAIN cell
  BY DEF AreRegisters, AreValues, Places
<1>. QED
  BY <1>1, HeapIsGraph, ReachedIsLeast DEF Live, ScannedPlaces

(* The two collectors keep the same cells, but for what only the           *)
(* environment of a traced closure leads to: gc_mark never marks more than *)
(* the copying collector moves, and no less in a heap without traced       *)
(* closures.                                                               *)
THEOREM CollectorsAgree ==
  ASSUME NEW cell, IsHeap(cell), NEW registers, AreRegisters(cell, registers)
  PROVE  /\ GcMark(cell, registers) \subseteq Live(cell, registers)
         /\ (\A j \in DOMAIN cell : cell[j].t # "tc_closure_traced") => GcMark(cell, registers) = Live(cell, registers)
<1>1. LeastClosed(MarkedPlaces(cell), Places(registers), GcMark(cell, registers))
  BY MarkIsLeast
<1>2. LeastClosed(ScannedPlaces(cell), Places(registers), Live(cell, registers))
  BY LiveIsLeast
<1>3. Live(cell, registers) \subseteq DOMAIN cell /\ Closed(MarkedPlaces(cell), Live(cell, registers))
  BY <1>2, HeapIsGraph DEF LeastClosed, Closed
<1>4. GcMark(cell, registers) \subseteq Live(cell, registers)
  BY <1>1, <1>2, <1>3, HeapIsGraph DEF LeastClosed
<1>5. ASSUME \A j \in DOMAIN cell : cell[j].t # "tc_closure_traced" PROVE GcMark(cell, registers) = Live(cell, registers)
  BY <1>5, HeapIsGraph DEF GcMark, Live, MarkedPlaces, ScannedPlaces
<1>. QED
  BY <1>4, <1>5

(* No more cells are moved than there are: the loop has met the end of the *)
(* new heap after a turn for each old cell.                                *)
LEMMA NewHeapFits ==
  ASSUME NEW cell, IsHeap(cell), NEW s, IsSpace(cell, s), Numbered(s)
  PROVE  Len(s.new) <= Len(cell)
<1>1. /\ Len(cell) \in Nat /\ DOMAIN cell = 1..Len(cell) /\ Len(s.new) \in Nat
      /\ s.moved \in [DOMAIN cell -> Nat]
  BY SequenceFacts DEF IsHeap, IsSpace
<1>2. /\ IsFiniteSet(1..Len(cell)) /\ Cardinality(1..Len(cell)) = Len(cell)
      /\ IsFiniteSet(1..Len(s.new)) /\ Cardinality(1..Len(s.new)) = Len(s.new)
  <2>1. ASSUME NEW n \in Nat PROVE IsFiniteSet(1..n) /\ Cardinality(1..n) = n
    <3>1. 1 \in Int /\ n \in Int
      OBVIOUS
    <3>2. IsFiniteSet(1..n) /\ Cardinality(1..n) = IF 1 > n THEN 0 ELSE n - 1 + 1
      BY <3>1, FS_Interval
    <3>. QED BY <3>2
  <2>. QED BY <1>1, <2>1
<1>. DEFINE f == [k \in 1..Len(s.new) |-> CHOOSE j \in DOMAIN cell : s.moved[j] = k]
<1>3. \A k \in 1..Len(s.new) : f[k] \in DOMAIN cell /\ s.moved[f[k]] = k
  BY <1>1 DEF Numbered
<1>. HIDE DEF f
<1>4. f \in Injection(1..Len(s.new), DOMAIN cell)
  <2>1. f \in [1..Len(s.new) -> DOMAIN cell]
    BY <1>3 DEF f
  <2>. QED BY <1>3, <2>1 DEF Injection, IsInjective
<1>. QED
  BY <1>1, <1>2, <1>4, FS_Injection

(* The copying collector on any heap.                                      *)
LEMMA NewspaceScanned ==
  ASSUME NEW cell, IsHeap(cell), NEW registers, AreRegisters(cell, registers)
  PROVE  Scanning(cell, registers, Newspace(cell, registers), Len(cell))
<1>. DEFINE N == Len(cell)
            a == ScanRegisters(cell, registers)
<1>1. N \in Nat
  BY SequenceFacts DEF IsHeap
<1>2. PICK after : ScanSteps(after, cell, a)
  BY <1>1, ScanHasSteps
<1>. HIDE DEF a
<1>3. after[0] = a /\ (\A n \in 1..N : after[n] = ScanTurn(cell, after[n - 1], n)) /\ Newspace(cell, registers) = after[N]
  BY <1>2 DEF ScanSteps, Newspace, a
<1>. DEFINE T == {n \in 0..N : Scanning(cell, registers, after[n], n)}
<1>4. 0 \in T
  BY <1>1, <1>3, RegistersScanned DEF a
<1>5. ASSUME NEW n \in 0..(N - 1), n \in T PROVE n + 1 \in T
  <2>1. n + 1 \in 1..N /\ n + 1 \in 0..N /\ (n + 1) - 1 = n /\ n \in Nat
    BY <1>1
  <2>2. after[n + 1] = ScanTurn(cell, after[n], n + 1)
    BY <1>3, <2>1
  <2>3. Scanning(cell, registers, after[n + 1], n + 1)
    BY <1>5, <2>1, <2>2, CellScanned
  <2>. QED BY <2>1, <2>3
<1>. HIDE DEF T
<1>6. 0..N \subseteq T /\ N \in 0..N
  BY <1>1, <1>4, <1>5, Induction
<1>. QED
  BY <1>3, <1>6 DEF T

(* The copying collector (gc_stop_and_copy) keeps the graph of the cells:  *)
(* it moves exactly what the registers lead to, each cell once and to a    *)
(* place of its own, with what it refers to at the new places; and when it *)
(* stops, each cell of the new heap has been scanned.                      *)
THEOREM CopyKeepsGraph ==
  ASSUME NEW cell, IsHeap(cell), NEW registers, AreRegisters(cell, registers)
  PROVE  /\ KeepsTheGraph(cell, registers, Newspace(cell, registers))
         /\ Len(Newspace(cell, registers).new) <= Len(cell)
<1>. DEFINE s == Newspace(cell, registers)
            live == Live(cell, registers)
<1>1. Scanning(cell, registers, s, Len(cell))
  BY NewspaceScanned
<1>. HIDE DEF s, live
<1>2. /\ IsSpace(cell, s) /\ Numbered(s) /\ DOMAIN s.moved = DOMAIN cell /\ s.moved \in [DOMAIN cell -> Nat]
      /\ Len(s.new) \in Nat /\ DOMAIN s.new = 1..Len(s.new) /\ Len(cell) \in Nat
  BY <1>1, SequenceFacts DEF Scanning, IsSpace, IsHeap
<1>3. Len(s.new) <= Len(cell)
  BY <1>2, NewHeapFits
<1>4. \A j \in MovedCells(s) : s.moved[j] \in 1..Len(s.new) /\ s.moved[j] <= Len(cell)
  BY <1>2, <1>3 DEF Numbered, MovedCells
<1>5. \A j \in MovedCells(s) : /\ Places(Scanned(cell[j])) \subseteq MovedCells(s)
                               /\ s.new[s.moved[j]] = WithValues(cell[j], MovedValues(s, Scanned(cell[j])))
  BY <1>1, <1>4 DEF Scanning
<1>6. MovedCells(s) = live
  <2>1. LeastClosed(ScannedPlaces(cell), Places(registers), live)
    BY LiveIsLeast DEF live
  <2>2. live \subseteq MovedCells(s)
    <3>1. MovedCells(s) \subseteq DOMAIN cell /\ Places(registers) \subseteq MovedCells(s)
      BY <1>1, <1>2 DEF Scanning, MovedCells
    <3>2. Closed(ScannedPlaces(cell), MovedCells(s))
      BY <1>5, <3>1 DEF Closed, ScannedPlaces
    <3>. QED BY <2>1, <3>1, <3>2, HeapIsGraph DEF LeastClosed
  <2>3. MovedCells(s) \subseteq live
    <3>1. live \subseteq DOMAIN cell /\ Places(registers) \subseteq live
          /\ \A j \in live : Places(Scanned(cell[j])) \subseteq live
      BY <2>1, HeapIsGraph DEF LeastClosed, Closed, ScannedPlaces
    <3>. QED BY <1>1, <3>1 DEF Scanning
  <2>. QED BY <2>2, <2>3
<1>7. {j \in DOMAIN cell : s.moved[j] # 0} = live
  BY <1>2, <1>6 DEF MovedCells
<1>8. {s.moved[j] : j \in live} = DOMAIN s.new
  <2>1. \A k \in 1..Len(s.new) : \E j \in live : s.moved[j] = k
    BY <1>2, <1>6 DEF Numbered, MovedCells
  <2>. QED BY <1>2, <1>4, <1>6, <2>1
<1>9. \A i, j \in live : s.moved[i] = s.moved[j] => i = j
  BY <1>2, <1>6 DEF Numbered
<1>10. KeepsTheGraph(cell, registers, s)
  BY <1>5, <1>6, <1>7, <1>8, <1>9 DEF KeepsTheGraph, live
<1>. QED
  BY <1>3, <1>10 DEF s

(* eof_val, whose register is scanned first, stays the first cell of the   *)
(* heap (Registers in Collectors).                                         *)
THEOREM EofValStaysFirst ==
  ASSUME NEW cell, IsHeap(cell), NEW registers, AreRegisters(cell, registers),
         registers # <<>>, registers[1].t = "ref"
  PROVE  Moved(Newspace(cell, registers), registers[1]).at = 1
<1>1. Newspace(cell, registers).moved[registers[1].at] = 1
  BY NewspaceScanned DEF Scanning
<1>2. 1 \in DOMAIN registers
  BY SequenceFacts DEF AreRegisters, AreValues
<1>3. {"t", "at"} \subseteq DOMAIN registers[1]
  BY <1>2 DEF AreRegisters, AreValues
<1>. QED
  BY <1>1, <1>3 DEF Moved

(* A cell with other values in place of its own.                           *)
LEMMA WithValuesScanned ==
  ASSUME NEW c, HasItsFields(c), NEW values, IsSequence(values), Len(values) = Len(Scanned(c))
  PROVE  /\ WithValues(c, values).t = c.t
         /\ HasItsFields(WithValues(c, values))
         /\ Scanned(WithValues(c, values)) = values
<1>. DEFINE d == WithValues(c, values)
<1>0. values = [k \in 1..Len(values) |-> values[k]]
  BY SequenceFacts
<1>1. CASE c.t = "tc_cons"
  <2>1. d = [c EXCEPT !.car = values[1], !.cdr = values[2]] /\ {"t", "car", "cdr"} \subseteq DOMAIN c
    BY <1>1 DEF WithValues, HasItsFields
  <2>2. d.t = c.t /\ DOMAIN d = DOMAIN c /\ d.car = values[1] /\ d.cdr = values[2]
    BY <2>1
  <2>3. Len(values) = 2
    BY <1>1 DEF Scanned
  <2>4. values = <<values[1], values[2]>>
    BY <1>0, <2>3
  <2>. HIDE DEF d
  <2>. QED BY <1>1, <2>2, <2>4 DEF HasItsFields, Scanned, d
<1>2. CASE c.t \in {"tc_closure", "tc_closure_traced"}
  <2>1. d = [c EXCEPT !.env = values[1], !.code = values[2]] /\ {"t", "env", "code"} \subseteq DOMAIN c
    BY <1>2 DEF WithValues, HasItsFields
  <2>2. d.t = c.t /\ DOMAIN d = DOMAIN c /\ d.env = values[1] /\ d.code = values[2]
    BY <2>1
  <2>3. Len(values) = 2
    BY <1>2 DEF Scanned, CtGcScan
  <2>4. values = <<values[1], values[2]>>
    BY <1>0, <2>3
  <2>. HIDE DEF d
  <2>. QED BY <1>2, <2>2, <2>4 DEF HasItsFields, Scanned, CtGcScan, d
<1>3. CASE c.t = "tc_lisp_array"
  <2>1. d = [c EXCEPT !.data = values] /\ {"t", "data"} \subseteq DOMAIN c
    BY <1>3 DEF WithValues, HasItsFields
  <2>2. d.t = c.t /\ DOMAIN d = DOMAIN c /\ d.data = values
    BY <2>1
  <2>. HIDE DEF d
  <2>. QED BY <1>3, <2>2 DEF HasItsFields, Scanned, ArrayGcScan, d
<1>4. CASE c.t \notin {"tc_cons", "tc_closure", "tc_closure_traced", "tc_lisp_array"}
  <2>1. d = c /\ Scanned(c) = <<>>
    BY <1>4 DEF WithValues, Scanned
  <2>2. values = <<>>
    BY <1>0, <2>1
  <2>. QED BY <2>1, <2>2
<1>. QED
  BY <1>1, <1>2, <1>3, <1>4

(* Values whose cells have been moved refer to places of the new heap.     *)
LEMMA MovedValuesRefer ==
  ASSUME NEW s, NEW D, NEW values, AreValues(values, D), Places(values) \subseteq MovedCells(s),
         NEW P, \A j \in MovedCells(s) : s.moved[j] \in P
  PROVE  /\ AreValues(MovedValues(s, values), P)
         /\ Len(MovedValues(s, values)) = Len(values)
         /\ Places(MovedValues(s, values)) = {s.moved[j] : j \in Places(values)}
<1>. DEFINE new == MovedValues(s, values)
<1>1. Len(values) \in Nat /\ DOMAIN values = 1..Len(values)
  BY SequenceFacts DEF AreValues
<1>2. new = [j \in 1..Len(values) |-> Moved(s, values[j])]
  BY <1>1 DEF MovedValues
<1>. HIDE DEF new
<1>3. DOMAIN new = 1..Len(values) /\ Len(new) = Len(values) /\ \A j \in 1..Len(values) : new[j] = Moved(s, values[j])
  BY <1>1, <1>2
<1>4. IsSequence(new)
  <2>. DEFINE X == {new[j] : j \in DOMAIN new}
  <2>1. \A j \in 1..Len(values) : new[j] \in X
    BY <1>3
  <2>2. new = [j \in 1..Len(values) |-> new[j]]
    BY <1>2, <1>3
  <2>. HIDE DEF X
  <2>3. new \in [1..Len(values) -> X]
    BY <2>1, <2>2
  <2>4. new \in Seq(X)
    BY <1>1, <2>3
  <2>. QED BY <2>4 DEF IsSequence, X
<1>5. ASSUME NEW j \in 1..Len(values)
      PROVE  /\ new[j].t = "ref" <=> values[j].t = "ref"
             /\ values[j].t = "ref" => /\ {"t", "at"} \subseteq DOMAIN new[j]
                                       /\ new[j].at = s.moved[values[j].at]
                                       /\ values[j].at \in MovedCells(s)
  <2>1. CASE values[j].t = "ref"
    <3>1. {"t", "at"} \subseteq DOMAIN values[j] /\ new[j] = [values[j] EXCEPT !.at = s.moved[@]]
      BY <1>1, <1>3, <2>1 DEF AreValues, Moved
    <3>2. values[j].at \in MovedCells(s)
      BY <1>1, <2>1 DEF Places
    <3>3. new[j].t = values[j].t /\ new[j].at = s.moved[values[j].at] /\ DOMAIN new[j] = DOMAIN values[j]
      BY <3>1
    <3>. QED BY <2>1, <3>1, <3>2, <3>3
  <2>2. CASE values[j].t # "ref"
    BY <1>3, <2>2 DEF Moved
  <2>. QED BY <2>1, <2>2
<1>6. AreValues(new, P)
  BY <1>3, <1>4, <1>5 DEF AreValues
<1>7. Places(new) = {s.moved[j] : j \in Places(values)}
  <2>1. ASSUME NEW p \in Places(new) PROVE p \in {s.moved[j] : j \in Places(values)}
    <3>1. PICK j \in 1..Len(values) : new[j].t = "ref" /\ p = new[j].at
      BY <1>3 DEF Places
    <3>2. values[j].t = "ref" /\ p = s.moved[values[j].at]
      BY <1>5, <3>1
    <3>3. values[j].at \in Places(values)
      BY <1>1, <3>2 DEF Places
    <3>. QED BY <3>2, <3>3
  <2>2. ASSUME NEW i \in Places(values) PROVE s.moved[i] \in Places(new)
    <3>1. PICK j \in 1..Len(values) : values[j].t = "ref" /\ i = values[j].at
      BY <1>1 DEF Places
    <3>2. new[j].t = "ref" /\ new[j].at = s.moved[i]
      BY <1>5, <3>1
    <3>. QED BY <1>3, <3>2 DEF Places
  <2>. QED BY <2>1, <2>2
<1>. QED
  BY <1>3, <1>6, <1>7 DEF new

(* The new space is a heap of its own: the moved registers are in it and   *)
(* lead to every cell of it (nothing dead was copied), and each live cell  *)
(* is there with its type and, for its parts, the moved ones.              *)
THEOREM CopyIsLiveHeap ==
  ASSUME NEW cell, IsHeap(cell), NEW registers, AreRegisters(cell, registers)
  PROVE  LET s == Newspace(cell, registers)
             new == MovedValues(s, registers)
         IN  /\ IsHeap(s.new)
             /\ AreRegisters(s.new, new)
             /\ Live(s.new, new) = DOMAIN s.new
             /\ \A j \in Live(cell, registers) :
                   /\ s.new[s.moved[j]].t = cell[j].t
                   /\ Scanned(s.new[s.moved[j]]) = MovedValues(s, Scanned(cell[j]))
<1>. DEFINE s == Newspace(cell, registers)
            new == MovedValues(s, registers)
            live == Live(cell, registers)
            D == DOMAIN s.new
<1>1. Scanning(cell, registers, s, Len(cell)) /\ KeepsTheGraph(cell, registers, s)
  BY NewspaceScanned, CopyKeepsGraph
<1>2. LeastClosed(ScannedPlaces(cell), Places(registers), live)
  BY LiveIsLeast
<1>. HIDE DEF s, live
<1>3. /\ IsSpace(cell, s) /\ Numbered(s) /\ DOMAIN s.moved = DOMAIN cell /\ s.moved \in [DOMAIN cell -> Nat]
      /\ Len(s.new) \in Nat /\ D = 1..Len(s.new) /\ IsSequence(s.new)
  BY <1>1, SequenceFacts DEF Scanning, IsSpace
<1>4. /\ MovedCells(s) = live
      /\ {s.moved[j] : j \in live} = D
      /\ \A i, j \in live : s.moved[i] = s.moved[j] => i = j
      /\ \A j \in live : s.new[s.moved[j]] = WithValues(cell[j], MovedValues(s, Scanned(cell[j])))
  BY <1>1, <1>3 DEF KeepsTheGraph, MovedCells, live
<1>5. live \subseteq DOMAIN cell /\ Places(registers) \subseteq live /\ \A j \in live : Places(Scanned(cell[j])) \subseteq live
  BY <1>2, HeapIsGraph DEF LeastClosed, Closed, ScannedPlaces
<1>6. ASSUME NEW j \in live
      PROVE  /\ s.new[s.moved[j]].t = cell[j].t
             /\ HasItsFields(s.new[s.moved[j]])
             /\ Scanned(s.new[s.moved[j]]) = MovedValues(s, Scanned(cell[j]))
             /\ AreValues(Scanned(s.new[s.moved[j]]), D)
             /\ Places(Scanned(s.new[s.moved[j]])) = {s.moved[i] : i \in Places(Scanned(cell[j]))}
  <2>. DEFINE values == Scanned(cell[j])
  <2>1. HasItsFields(cell[j]) /\ AreValues(values, DOMAIN cell) /\ Places(values) \subseteq MovedCells(s)
    BY <1>4, <1>5 DEF IsHeap
  <2>2. \A i \in MovedCells(s) : s.moved[i] \in D
    BY <1>4
  <2>. HIDE DEF D
  <2>3. /\ AreValues(MovedValues(s, values), D) /\ Len(MovedValues(s, values)) = Len(values)
        /\ Places(MovedValues(s, values)) = {s.moved[i] : i \in Places(values)}
    BY <2>1, <2>2, MovedValuesRefer
  <2>4. IsSequence(MovedValues(s, values))
    BY <2>3 DEF AreValues
  <2>. QED BY <1>4, <2>1, <2>3, <2>4, WithValuesScanned
<1>7. \A p \in D : \E j \in live : s.moved[j] = p
  BY <1>4
<1>8. IsHeap(s.new)
  <2>1. ASSUME NEW p \in D PROVE HasItsFields(s.new[p]) /\ AreValues(Scanned(s.new[p]), D)
    BY <1>6, <1>7
  <2>. QED BY <1>3, <2>1 DEF IsHeap
<1>9. AreRegisters(s.new, new) /\ Places(new) = {s.moved[i] : i \in Places(registers)}
  <2>1. AreValues(registers, DOMAIN cell) /\ Places(registers) \subseteq MovedCells(s) /\ \A i \in MovedCells(s) : s.moved[i] \in D
    BY <1>4, <1>5 DEF AreRegisters
  <2>. HIDE DEF D
  <2>2. AreValues(new, D) /\ Places(new) = {s.moved[i] : i \in Places(registers)}
    BY <2>1, MovedValuesRefer
  <2>. QED BY <2>2 DEF AreRegisters, D
<1>. HIDE DEF new
<1>10. Live(s.new, new) = D
  <2>. DEFINE R == Live(s.new, new)
              U == {j \in live : s.moved[j] \in R}
  <2>1. LeastClosed(ScannedPlaces(s.new), Places(new), R)
    BY <1>8, <1>9, LiveIsLeast
  <2>2. R \subseteq D /\ Places(new) \subseteq R /\ \A p \in R : Places(Scanned(s.new[p])) \subseteq R
    BY <1>8, <2>1, HeapIsGraph DEF LeastClosed, Closed, ScannedPlaces
  <2>. HIDE DEF R
  <2>3. Places(registers) \subseteq U
    BY <1>5, <1>9, <2>2
  <2>4. ASSUME NEW j \in U PROVE Places(Scanned(cell[j])) \subseteq U
    <3>1. Places(Scanned(cell[j])) \subseteq live
      BY <1>5
    <3>2. {s.moved[i] : i \in Places(Scanned(cell[j]))} \subseteq R
      BY <1>6, <2>2
    <3>. QED BY <3>1, <3>2
  <2>5. U \in SUBSET DOMAIN cell /\ Closed(ScannedPlaces(cell), U)
    BY <1>5, <2>4 DEF Closed, ScannedPlaces
  <2>6. live \subseteq U
    BY <1>2, <2>3, <2>5, HeapIsGraph DEF LeastClosed
  <2>. QED BY <1>7, <2>2, <2>6 DEF R
<1>. QED
  BY <1>6, <1>8, <1>9, <1>10 DEF s, new, live

-----------------------------------------------------------------------------
Octet == 0..255
Halves == {h \in Nat : h < Half}
Word == Halves \X Halves
IsContext(ctx) ==
  /\ ctx.count \in Word \X Word
  /\ ctx.buffer \in Seq(Octet)
  /\ Len(ctx.buffer) = 64

(* The turns of the loop in Transformed.                                   *)
TransformSteps(after, state, bytes) ==
  /\ after[0] = state
  /\ \A j \in 1..Full(bytes) : after[j] = Transform(after[j - 1], Block(bytes, j))
  /\ Transformed(state, bytes) = after[Full(bytes)]

(* The function of Transformed exists: every block is transformed after    *)
(* the one before it.                                                      *)
LEMMA TransformedHasSteps ==
  ASSUME NEW state, NEW bytes, Full(bytes) \in Nat
  PROVE  \E after : TransformSteps(after, state, bytes)
<1>. DEFINE N == Full(bytes)
            Is(g, n) == g = [k \in 0..n |-> IF k = 0 THEN state ELSE Transform(g[k - 1], Block(bytes, k))]
            T == {n \in 0..N : \E g : Is(g, n)}
            Run == CHOOSE after : after = [j \in 0..N |-> IF j = 0 THEN state ELSE Transform(after[j - 1], Block(bytes, j))]
<1>1. Transformed(state, bytes) = Run[N]
  BY DEF Transformed
<1>. HIDE DEF N
<1>2. N \in Nat
  BY DEF N
<1>3. 0 \in T
  <2>. DEFINE g == [k \in 0..0 |-> state]
  <2>1. Is(g, 0)
    OBVIOUS
  <2>. HIDE DEF Is, g
  <2>. QED BY <1>2, <2>1
<1>4. ASSUME NEW n \in 0..(N - 1), n \in T PROVE n + 1 \in T
  <2>1. PICK g : Is(g, n)
    BY <1>4
  <2>. DEFINE h == [k \in 0..(n + 1) |-> IF k = n + 1 THEN Transform(g[n], Block(bytes, n + 1)) ELSE g[k]]
              v(k) == IF k = 0 THEN state ELSE Transform(h[k - 1], Block(bytes, k))
  <2>2. n \in Nat /\ n + 1 \in 0..N /\ n + 1 # 0 /\ (n + 1) - 1 = n /\ n \in 0..(n + 1) /\ n # n + 1
    BY <1>2
  <2>3. ASSUME NEW k \in 0..(n + 1) PROVE h[k] = v(k)
    <3>1. CASE k = n + 1
      <4>1. h[k] = Transform(g[n], Block(bytes, n + 1)) /\ h[n] = g[n]
        BY <2>2, <3>1
      <4>. HIDE DEF h
      <4>. QED BY <2>2, <3>1, <4>1
    <3>2. CASE k = 0
      <4>1. h[k] = g[k] /\ g[k] = state
        BY <2>1, <2>2, <3>2
      <4>. HIDE DEF h
      <4>. QED BY <3>2, <4>1
    <3>3. CASE k # 0 /\ k # n + 1
      <4>1. k \in 0..n /\ k - 1 \in 0..(n + 1) /\ k - 1 # n + 1
        BY <2>2, <3>3
      <4>2. h[k] = g[k] /\ h[k - 1] = g[k - 1]
        BY <3>3, <4>1
      <4>3. g[k] = Transform(g[k - 1], Block(bytes, k))
        BY <2>1, <3>3, <4>1
      <4>. HIDE DEF h
      <4>. QED BY <3>3, <4>2, <4>3
    <3>. QED BY <3>1, <3>2, <3>3
  <2>4. h = [k \in 0..(n + 1) |-> h[k]]
    OBVIOUS
  <2>. HIDE DEF h
  <2>5. Is(h, n + 1)
    BY <2>3, <2>4
  <2>. QED BY <2>2, <2>5
<1>5. N \in T
  <2>. HIDE DEF T
  <2>1. 0..N \subseteq T
    BY <1>2, <1>3, <1>4, Induction
  <2>. QED BY <1>2, <2>1
<1>6. PICK f : Is(f, N)
  BY <1>5
<1>7. Run = [j \in 0..N |-> IF j = 0 THEN state ELSE Transform(Run[j - 1], Block(bytes, j))]
  BY <1>6
<1>. HIDE DEF Run
<1>8. Run[0] = state
  BY <1>2, <1>7
<1>9. ASSUME NEW j \in 1..N PROVE Run[j] = Transform(Run[j - 1], Block(bytes, j))
  <2>1. j \in 0..N /\ j # 0
    BY <1>2
  <2>. QED BY <1>7, <2>1
<1>. QED
  BY <1>1, <1>8, <1>9 DEF TransformSteps, N

(* The blocks and the rest of a text.                                      *)
LEMMA Parts ==
  ASSUME NEW u \in Seq(Octet)
  PROVE  /\ Full(u) \in Nat /\ Len(u) \in Nat
         /\ 64 * Full(u) <= Len(u) /\ Len(u) < (64 * Full(u)) + 64
         /\ Remaining(u) \in Seq(Octet)
         /\ Len(Remaining(u)) = Len(u) % 64
         /\ Len(Remaining(u)) = Len(u) - (64 * Full(u))
         /\ \A i \in 1..Len(Remaining(u)) : Remaining(u)[i] = u[(64 * Full(u)) + i]
         /\ \A j \in 1..Full(u) : /\ Block(u, j) \in Seq(Octet)
                                  /\ Len(Block(u, j)) = 64
                                  /\ \A i \in 1..64 : Block(u, j)[i] = u[(64 * j) - 64 + i]
<1>. DEFINE L == Len(u)
            f == Full(u)
<1>1. L \in Nat /\ \A i \in 1..L : u[i] \in Octet
  BY LenProperties, ElementOfSeq
<1>2. f \in Nat /\ 64 * f <= L /\ L < (64 * f) + 64 /\ L % 64 = L - (64 * f)
  BY <1>1 DEF Full
<1>. HIDE DEF L, f
<1>3. /\ Remaining(u) \in Seq(Octet)
      /\ Len(Remaining(u)) = L - (64 * f)
      /\ \A i \in 1..Len(Remaining(u)) : Remaining(u)[i] = u[(64 * f) + i]
  <2>. DEFINE m == (64 * f) + 1
  <2>1. m \in Int /\ L \in Int /\ \A i \in m..L : u[i] \in Octet
    BY <1>1, <1>2
  <2>. HIDE DEF m
  <2>2. /\ SubSeq(u, m, L) \in Seq(Octet)
        /\ Len(SubSeq(u, m, L)) = IF m <= L THEN L - m + 1 ELSE 0
        /\ \A i \in 1..L - m + 1 : SubSeq(u, m, L)[i] = u[m + i - 1]
    BY <2>1, SubSeqProperties
  <2>3. Remaining(u) = SubSeq(u, m, L)
    BY DEF m, Remaining, L, f
  <2>4. Len(Remaining(u)) = L - (64 * f)
    BY <1>1, <1>2, <2>2, <2>3 DEF m
  <2>5. ASSUME NEW i \in 1..Len(Remaining(u)) PROVE Remaining(u)[i] = u[(64 * f) + i]
    <3>1. i \in 1..L - m + 1 /\ m + i - 1 = (64 * f) + i
      BY <1>1, <1>2, <2>4, <2>5 DEF m
    <3>. QED BY <2>2, <2>3, <3>1
  <2>. QED BY <2>2, <2>3, <2>4, <2>5
<1>4. ASSUME NEW j \in 1..f
      PROVE  /\ Block(u, j) \in Seq(Octet)
             /\ Len(Block(u, j)) = 64
             /\ \A i \in 1..64 : Block(u, j)[i] = u[(64 * j) - 64 + i]
  <2>. DEFINE m == (64 * j) - 63
              n == 64 * j
  <2>1. m \in Int /\ n \in Int /\ (\A i \in m..n : i \in 1..L) /\ n - m + 1 = 64 /\ m <= n
    BY <1>1, <1>2
  <2>2. \A i \in m..n : u[i] \in Octet
    BY <1>1, <2>1
  <2>. HIDE DEF m, n
  <2>3. /\ SubSeq(u, m, n) \in Seq(Octet)
        /\ Len(SubSeq(u, m, n)) = IF m <= n THEN n - m + 1 ELSE 0
        /\ \A i \in 1..n - m + 1 : SubSeq(u, m, n)[i] = u[m + i - 1]
    BY <2>1, <2>2, SubSeqProperties
  <2>4. \A i \in 1..64 : m + i - 1 = (64 * j) - 64 + i
    BY DEF m
  <2>. QED BY <2>1, <2>3, <2>4 DEF m, n, Block
<1>. QED
  BY <1>1, <1>2, <1>3, <1>4 DEF L, f

(* A full block has 64 bytes, those of its place in the text.              *)
LEMMA BlockOf ==
  ASSUME NEW u \in Seq(Octet), NEW j \in 1..Full(u)
  PROVE  /\ Block(u, j) \in Seq(Octet)
         /\ Len(Block(u, j)) = 64
         /\ \A i \in 1..64 : Block(u, j)[i] = u[(64 * j) - 64 + i]
  BY Parts

(* Blocks are equal when their bytes are.                                  *)
LEMMA SameBlock ==
  ASSUME NEW s \in Seq(Octet), NEW t \in Seq(Octet), Len(s) = 64, Len(t) = 64, \A i \in 1..64 : s[i] = t[i]
  PROVE  s = t
<1>1. Len(s) = Len(t) /\ \A i \in 1..Len(s) : s[i] = t[i]
  OBVIOUS
<1>. QED
  BY <1>1, SeqEqual

(* The rest of a text, with what follows, is where the blocks go on.       *)
LEMMA PartsOfBoth ==
  ASSUME NEW u \in Seq(Octet), NEW v \in Seq(Octet)
  PROVE  /\ Full(u \o v) = Full(u) + Full(Remaining(u) \o v)
         /\ \A j \in 1..Full(u) : Block(u \o v, j) = Block(u, j)
         /\ \A j \in 1..Full(Remaining(u) \o v) : Block(u \o v, Full(u) + j) = Block(Remaining(u) \o v, j)
         /\ Remaining(Remaining(u) \o v) = Remaining(u \o v)
<1>. DEFINE x == u \o v
            r == Remaining(u)
            w == r \o v
            f == Full(u)
            g == Full(w)
<1>1. /\ f \in Nat /\ Len(u) \in Nat /\ Len(v) \in Nat /\ r \in Seq(Octet) /\ Len(r) = Len(u) - (64 * f)
      /\ 64 * f <= Len(u) /\ \A i \in 1..Len(r) : r[i] = u[(64 * f) + i]
  BY Parts, LenProperties
<1>2. /\ x \in Seq(Octet) /\ Len(x) = Len(u) + Len(v)
      /\ \A i \in 1..(Len(u) + Len(v)) : x[i] = IF i <= Len(u) THEN u[i] ELSE v[i - Len(u)]
  BY ConcatProperties
<1>. HIDE DEF r
<1>3. /\ w \in Seq(Octet) /\ Len(w) = Len(r) + Len(v)
      /\ \A i \in 1..(Len(r) + Len(v)) : w[i] = IF i <= Len(r) THEN r[i] ELSE v[i - Len(r)]
  BY <1>1, ConcatProperties
<1>. HIDE DEF x, w, f
<1>10. x \in Seq(Octet) /\ w \in Seq(Octet)
  BY <1>2, <1>3
<1>4. /\ Full(x) \in Nat /\ 64 * Full(x) <= Len(x) /\ Len(x) < (64 * Full(x)) + 64
      /\ g \in Nat /\ 64 * g <= Len(w) /\ Len(w) < (64 * g) + 64
  BY <1>2, <1>3, Parts
<1>. DEFINE h == Full(x)
<1>. HIDE DEF g, h
<1>5. h = f + g
  <2>1. h \in Nat /\ 64 * h <= Len(x) /\ Len(x) < (64 * h) + 64
    BY <1>4 DEF h
  <2>2. Len(x) = Len(u) + Len(v) /\ Len(w) = Len(u) - (64 * f) + Len(v)
    BY <1>1, <1>2, <1>3
  <2>3. 64 * (f + g) <= Len(x) /\ Len(x) < (64 * (f + g)) + 64
    BY <1>1, <1>4, <2>2
  <2>. QED BY <1>1, <1>4, <2>1, <2>3
<1>6. ASSUME NEW i \in 1..Len(w) PROVE w[i] = x[(64 * f) + i]
  <2>1. CASE i <= Len(r)
    <3>1. w[i] = u[(64 * f) + i] /\ (64 * f) + i <= Len(u) /\ (64 * f) + i \in 1..(Len(u) + Len(v))
      BY <1>1, <1>3, <2>1
    <3>. QED BY <1>2, <3>1
  <2>2. CASE ~(i <= Len(r))
    <3>1. w[i] = v[i - Len(r)] /\ (64 * f) + i > Len(u) /\ (64 * f) + i \in 1..(Len(u) + Len(v))
          /\ ((64 * f) + i) - Len(u) = i - Len(r)
      BY <1>1, <1>3, <2>2
    <3>2. x[(64 * f) + i] = v[((64 * f) + i) - Len(u)]
      BY <1>1, <1>2, <3>1
    <3>. QED BY <3>1, <3>2
  <2>. QED BY <2>1, <2>2
<1>7. ASSUME NEW j \in 1..f PROVE Block(x, j) = Block(u, j)
  <2>1. j \in 1..Full(x) /\ j \in 1..Full(u)
    BY <1>1, <1>4, <1>5 DEF f, h
  <2>2. Block(x, j) \in Seq(Octet) /\ Len(Block(x, j)) = 64 /\ \A i \in 1..64 : Block(x, j)[i] = x[(64 * j) - 64 + i]
    BY <1>10, <2>1, BlockOf
  <2>3. Block(u, j) \in Seq(Octet) /\ Len(Block(u, j)) = 64 /\ \A i \in 1..64 : Block(u, j)[i] = u[(64 * j) - 64 + i]
    BY <2>1, BlockOf
  <2>4. ASSUME NEW i \in 1..64 PROVE Block(x, j)[i] = Block(u, j)[i]
    <3>. DEFINE k == (64 * j) - 64 + i
    <3>1. k \in 1..(Len(u) + Len(v)) /\ k <= Len(u)
      BY <1>1
    <3>2. Block(x, j)[i] = x[k] /\ Block(u, j)[i] = u[k]
      BY <2>2, <2>3
    <3>. HIDE DEF k
    <3>. QED BY <1>2, <3>1, <3>2
  <2>. QED BY <2>2, <2>3, <2>4, SameBlock
<1>8. ASSUME NEW j \in 1..g PROVE Block(x, f + j) = Block(w, j)
  <2>. DEFINE l == f + j
  <2>1. l \in 1..Full(x) /\ j \in 1..Full(w)
    BY <1>1, <1>4, <1>5 DEF h, g
  <2>2. Block(w, j) \in Seq(Octet) /\ Len(Block(w, j)) = 64 /\ \A i \in 1..64 : Block(w, j)[i] = w[(64 * j) - 64 + i]
    BY <1>10, <2>1, BlockOf
  <2>. HIDE DEF l
  <2>3. Block(x, l) \in Seq(Octet) /\ Len(Block(x, l)) = 64 /\ \A i \in 1..64 : Block(x, l)[i] = x[(64 * l) - 64 + i]
    BY <1>10, <2>1, BlockOf
  <2>4. ASSUME NEW i \in 1..64 PROVE Block(x, l)[i] = Block(w, j)[i]
    <3>. DEFINE k == (64 * j) - 64 + i
    <3>1. k \in 1..Len(w) /\ (64 * f) + k = (64 * l) - 64 + i
      BY <1>1, <1>4 DEF l
    <3>2. Block(x, l)[i] = x[(64 * l) - 64 + i] /\ Block(w, j)[i] = w[k]
      BY <2>2, <2>3
    <3>. HIDE DEF k
    <3>. QED BY <1>6, <3>1, <3>2
  <2>5. Block(x, l) = Block(w, j)
    BY <2>2, <2>3, <2>4, SameBlock
  <2>. QED BY <2>5 DEF l
<1>9. Remaining(w) = Remaining(x)
  <2>1. /\ Remaining(w) \in Seq(Octet) /\ Len(Remaining(w)) = Len(w) - (64 * g)
        /\ \A i \in 1..Len(Remaining(w)) : Remaining(w)[i] = w[(64 * g) + i]
    BY <1>3, Parts DEF g
  <2>2. /\ Remaining(x) \in Seq(Octet) /\ Len(Remaining(x)) = Len(x) - (64 * h)
        /\ \A i \in 1..Len(Remaining(x)) : Remaining(x)[i] = x[(64 * h) + i]
    BY <1>2, Parts DEF h
  <2>3. Len(Remaining(w)) = Len(Remaining(x))
    BY <1>1, <1>2, <1>3, <1>4, <1>5, <2>1, <2>2
  <2>4. ASSUME NEW i \in 1..Len(Remaining(w)) PROVE Remaining(w)[i] = Remaining(x)[i]
    <3>. DEFINE k == (64 * g) + i
    <3>1. k \in 1..Len(w)
      BY <1>4, <2>1
    <3>3. (64 * f) + k = (64 * h) + i
      BY <1>1, <1>4, <1>5
    <3>2. Remaining(w)[i] = w[k] /\ Remaining(x)[i] = x[(64 * h) + i]
      BY <2>1, <2>2, <2>3
    <3>. HIDE DEF k
    <3>. QED BY <1>6, <3>1, <3>2, <3>3
  <2>. QED BY <2>1, <2>2, <2>3, <2>4, SeqEqual
<1>. QED
  BY <1>5, <1>7, <1>8, <1>9 DEF x, w, r, f, g, h

(* Transforming a text and then, from there, its rest and more is          *)
(* transforming both in one.                                               *)
LEMMA TransformedTwice ==
  ASSUME NEW state, NEW u \in Seq(Octet), NEW v \in Seq(Octet)
  PROVE  Transformed(Transformed(state, u), Remaining(u) \o v) = Transformed(state, u \o v)
<1>. DEFINE x == u \o v
            w == Remaining(u) \o v
            f == Full(u)
            g == Full(w)
            mid == Transformed(state, u)
<1>1. /\ f \in Nat /\ x \in Seq(Octet) /\ w \in Seq(Octet) /\ g \in Nat /\ Full(x) = f + g
      /\ \A j \in 1..f : Block(x, j) = Block(u, j)
      /\ \A j \in 1..g : Block(x, f + j) = Block(w, j)
  <2>1. Remaining(u) \in Seq(Octet) /\ f \in Nat
    BY Parts
  <2>2. x \in Seq(Octet) /\ w \in Seq(Octet)
    BY <2>1, ConcatProperties
  <2>. QED BY <2>1, <2>2, Parts, PartsOfBoth
<1>. HIDE DEF x, w, f, g
<1>2. PICK first : TransformSteps(first, state, u)
  BY <1>1, TransformedHasSteps DEF f
<1>3. PICK second : TransformSteps(second, mid, w)
  BY <1>1, TransformedHasSteps DEF g
<1>4. PICK whole : TransformSteps(whole, state, x)
  <2>1. Full(x) \in Nat
    BY <1>1
  <2>. QED BY <2>1, TransformedHasSteps
<1>. DEFINE T == {j \in 0..f : whole[j] = first[j]}
            V == {j \in 0..g : whole[f + j] = second[j]}
<1>5. f \in T
  <2>1. 0 \in T
    BY <1>1, <1>2, <1>4 DEF TransformSteps
  <2>2. ASSUME NEW j \in 0..(f - 1), j \in T PROVE j + 1 \in T
    <3>1. j + 1 \in 1..f /\ j + 1 \in 0..f /\ j + 1 \in 1..Full(x) /\ (j + 1) - 1 = j
      BY <1>1
    <3>2. first[j + 1] = Transform(first[j], Block(u, j + 1)) /\ whole[j + 1] = Transform(whole[j], Block(x, j + 1))
      BY <1>2, <1>4, <3>1 DEF TransformSteps, f
    <3>. QED BY <1>1, <2>2, <3>1, <3>2
  <2>. HIDE DEF T
  <2>3. 0..f \subseteq T
    BY <1>1, <2>1, <2>2, Induction
  <2>. QED BY <1>1, <2>3
<1>6. whole[f] = mid
  BY <1>2, <1>5 DEF TransformSteps, f
<1>7. g \in V
  <2>1. 0 \in V
    <3>1. f + 0 = f /\ 0 \in 0..g
      BY <1>1
    <3>. QED BY <1>3, <1>6, <3>1 DEF TransformSteps
  <2>2. ASSUME NEW j \in 0..(g - 1), j \in V PROVE j + 1 \in V
    <3>1. j + 1 \in 1..g /\ j + 1 \in 0..g /\ f + (j + 1) \in 1..Full(x) /\ (j + 1) - 1 = j /\ (f + (j + 1)) - 1 = f + j
      BY <1>1
    <3>2. second[j + 1] = Transform(second[j], Block(w, j + 1))
      BY <1>3, <3>1 DEF TransformSteps, g
    <3>3. whole[f + (j + 1)] = Transform(whole[f + j], Block(x, f + (j + 1)))
      BY <1>4, <3>1 DEF TransformSteps
    <3>. QED BY <1>1, <2>2, <3>1, <3>2, <3>3
  <2>. HIDE DEF V
  <2>3. 0..g \subseteq V
    BY <1>1, <2>1, <2>2, Induction
  <2>. QED BY <1>1, <2>3
<1>8. whole[Full(x)] = second[g]
  BY <1>1, <1>7
<1>. QED
  BY <1>3, <1>4, <1>8 DEF TransformSteps, x, w, g

TwoTo29 == 536870912
Two32 == Half * Half
Value(w) == (Half * w[1]) + w[2]

(* A word is a pair of halves, and its value is below 2^32.                *)
LEMMA WordValue ==
  ASSUME NEW x \in Word
  PROVE  /\ x[1] \in Halves /\ x[2] \in Halves /\ x = <<x[1], x[2]>>
         /\ Value(x) \in Nat /\ Value(x) < Two32
<1>1. x[1] \in Halves /\ x[2] \in Halves /\ x = <<x[1], x[2]>>
  BY DEF Word
<1>. DEFINE h == x[1]
            l == x[2]
<1>2. Value(x) = (Half * h) + l
  BY DEF Value
<1>3. h \in Halves /\ l \in Halves
  BY <1>1
<1>. HIDE DEF h, l
<1>4. (Half * h) + l \in Nat /\ (Half * h) + l < Two32
  BY <1>3, SMT DEF Half, Halves, Two32
<1>. QED
  BY <1>1, <1>2, <1>4

(* Words of one value are equal.                                           *)
LEMMA SameWord ==
  ASSUME NEW x \in Word, NEW y \in Word, Value(x) = Value(y)
  PROVE  x = y
<1>. DEFINE a == x[1]
            b == x[2]
            c == y[1]
            d == y[2]
<1>1. a \in Halves /\ b \in Halves /\ x = <<a, b>> /\ c \in Halves /\ d \in Halves /\ y = <<c, d>>
  BY WordValue
<1>2. (Half * a) + b = (Half * c) + d
  BY DEF Value
<1>. HIDE DEF a, b, c, d
<1>3. a = c /\ b = d
  BY <1>1, <1>2, SMT DEF Halves, Half
<1>. QED
  BY <1>1, <1>3

(* Sum2 adds modulo 2^32, and Exceeds compares values.                     *)
LEMMA SumValue ==
  ASSUME NEW x \in Word, NEW y \in Word
  PROVE  /\ Sum2(x, y) \in Word
         /\ Value(Sum2(x, y)) = IF Value(x) + Value(y) < Two32 THEN Value(x) + Value(y)
                                ELSE Value(x) + Value(y) - Two32
         /\ Exceeds(x, y) <=> Value(x) > Value(y)
<1>. DEFINE a == x[1]
            b == x[2]
            c == y[1]
            d == y[2]
            l == (b + d) % Half
            k == (b + d) \div Half
            h == (a + c + k) % Half
<1>1. a \in Halves /\ b \in Halves /\ c \in Halves /\ d \in Halves
  BY WordValue
<1>2. Sum2(x, y) = <<h, l>> /\ Value(x) = (Half * a) + b /\ Value(y) = (Half * c) + d /\ Value(Sum2(x, y)) = (Half * h) + l
  BY DEF Sum2, Value
<1>3. Exceeds(x, y) <=> (a > c \/ (a = c /\ b > d))
  BY DEF Exceeds
<1>. HIDE DEF a, b, c, d
<1>4. k \in Nat /\ k <= 1 /\ l \in Halves /\ (Half * k) + l = b + d
  BY <1>1, SMT DEF Half, Halves
<1>. HIDE DEF k, l
<1>5. h \in Halves /\ h = IF a + c + k < Half THEN a + c + k ELSE a + c + k - Half
  BY <1>1, <1>4, SMT DEF Half, Halves
<1>. HIDE DEF h
<1>6. <<h, l>> \in Word
  BY <1>4, <1>5 DEF Word
<1>7. (Half * h) + l = IF (Half * a) + b + ((Half * c) + d) < Two32 THEN (Half * a) + b + ((Half * c) + d)
                       ELSE (Half * a) + b + ((Half * c) + d) - Two32
  BY <1>1, <1>4, <1>5, SMT DEF Half, Halves, Two32
<1>8. (a > c \/ (a = c /\ b > d)) <=> (Half * a) + b > (Half * c) + d
  BY <1>1, SMT DEF Half, Halves
<1>. QED
  BY <1>2, <1>3, <1>6, <1>7, <1>8, Zenon

(* BitCount is 8 times the number of bytes, in one word.                   *)
LEMMA BitCountValue ==
  ASSUME NEW n \in Nat, n < TwoTo29
  PROVE  BitCount(n) \in Word /\ Value(BitCount(n)) = 8 * n
<1>. DEFINE q == n \div 8192
            r == n % 8192
<1>1. q \in Nat /\ q < Half /\ r \in Nat /\ r < 8192 /\ n = (8192 * q) + r
  BY SMT DEF TwoTo29, Half
<1>2. BitCount(n) = <<q, r * 8>> /\ Value(BitCount(n)) = (Half * q) + (r * 8)
  BY DEF BitCount, Value
<1>. HIDE DEF q, r
<1>3. r * 8 \in Halves /\ q \in Halves /\ (Half * q) + (r * 8) = 8 * n
  BY <1>1, SMT DEF Halves, Half
<1>. QED
  BY <1>2, <1>3 DEF Word

(* The count after n bytes.                                                *)
Counted(count, n) == Counting(count, Sum2(count[1], BitCount(n)), BitCount(n))

(* The low word counts modulo 2^32 and carries into the high one exactly   *)
(* when it wraps.                                                          *)
LEMMA CountedValue ==
  ASSUME NEW count \in Word \X Word, NEW n \in Nat, n < TwoTo29
  PROVE  /\ Counted(count, n) \in Word \X Word
         /\ Value(Counted(count, n)[1]) = IF Value(count[1]) + (8 * n) < Two32 THEN Value(count[1]) + (8 * n)
                                          ELSE Value(count[1]) + (8 * n) - Two32
         /\ Counted(count, n)[2] = IF Value(count[1]) + (8 * n) < Two32 THEN count[2] ELSE Sum2(count[2], <<0, 1>>)
<1>. DEFINE low == count[1]
            added == BitCount(n)
            sum == Sum2(low, added)
            v == Value(low)
<1>1. low \in Word /\ count[2] \in Word
  OBVIOUS
<1>2. added \in Word /\ Value(added) = 8 * n
  BY BitCountValue
<1>. HIDE DEF low, added
<1>3. /\ sum \in Word
      /\ Value(sum) = IF v + (8 * n) < Two32 THEN v + (8 * n) ELSE v + (8 * n) - Two32
  BY <1>1, <1>2, SumValue
<1>. HIDE DEF sum
<1>4. Exceeds(added, sum) <=> 8 * n > Value(sum)
  BY <1>2, <1>3, SumValue
<1>5. v \in Nat /\ v < Two32
  BY <1>1, WordValue
<1>. HIDE DEF v
<1>6. Exceeds(added, sum) <=> ~(v + (8 * n) < Two32)
  <2>1. 8 * n < Two32
    BY SMT DEF TwoTo29, Two32, Half
  <2>2. Two32 \in Nat
    BY SMT DEF Two32, Half
  <2>. QED BY <1>3, <1>4, <1>5, <2>1, <2>2, SMT
<1>7. Sum2(count[2], <<0, 1>>) \in Word
  <2>1. <<0, 1>> \in Word
    BY SMT DEF Word, Halves, Half
  <2>. QED BY <1>1, <2>1, SumValue
<1>. DEFINE high == IF Exceeds(added, sum) THEN Sum2(count[2], <<0, 1>>) ELSE count[2]
<1>8. Counted(count, n) = <<sum, high>>
  BY DEF Counted, Counting, low, added, sum
<1>9. high \in Word /\ high = IF v + (8 * n) < Two32 THEN count[2] ELSE Sum2(count[2], <<0, 1>>)
  BY <1>1, <1>6, <1>7
<1>. HIDE DEF high
<1>. QED
  BY <1>3, <1>8, <1>9 DEF low, v

(* Counting a bytes and then b counts a + b: the carry is taken once or    *)
(* not at all.                                                             *)
LEMMA CountedTwice ==
  ASSUME NEW count \in Word \X Word, NEW a \in Nat, NEW b \in Nat, a + b < TwoTo29
  PROVE  Counted(Counted(count, a), b) = Counted(count, a + b)
<1>. DEFINE one == Counted(count, a)
            two == Counted(one, b)
            all == Counted(count, a + b)
            v == Value(count[1])
<1>1. a < TwoTo29 /\ b < TwoTo29 /\ a + b \in Nat
  BY SMT DEF TwoTo29
<1>2. /\ one \in Word \X Word /\ all \in Word \X Word
      /\ Value(one[1]) = IF v + (8 * a) < Two32 THEN v + (8 * a) ELSE v + (8 * a) - Two32
      /\ one[2] = IF v + (8 * a) < Two32 THEN count[2] ELSE Sum2(count[2], <<0, 1>>)
      /\ Value(all[1]) = IF v + (8 * (a + b)) < Two32 THEN v + (8 * (a + b)) ELSE v + (8 * (a + b)) - Two32
      /\ all[2] = IF v + (8 * (a + b)) < Two32 THEN count[2] ELSE Sum2(count[2], <<0, 1>>)
  BY <1>1, CountedValue
<1>3. v \in Nat /\ v < Two32
  <2>1. count[1] \in Word
    OBVIOUS
  <2>. QED BY <2>1, WordValue
<1>. HIDE DEF one, all, v
<1>4. /\ two \in Word \X Word
      /\ Value(two[1]) = IF Value(one[1]) + (8 * b) < Two32 THEN Value(one[1]) + (8 * b) ELSE Value(one[1]) + (8 * b) - Two32
      /\ two[2] = IF Value(one[1]) + (8 * b) < Two32 THEN one[2] ELSE Sum2(one[2], <<0, 1>>)
  BY <1>1, <1>2, CountedValue
<1>. HIDE DEF two
<1>10. Two32 \in Nat /\ 8 * (a + b) < Two32 /\ 8 * (a + b) = (8 * a) + (8 * b)
  BY SMT DEF TwoTo29, Two32, Half
<1>5. Value(two[1]) = Value(all[1]) /\ two[2] = all[2]
  <2>1. CASE v + (8 * a) < Two32
    <3>1. Value(one[1]) = v + (8 * a) /\ one[2] = count[2]
      BY <1>2, <2>1
    <3>2. Value(one[1]) + (8 * b) = v + (8 * (a + b))
      BY <1>3, <3>1
    <3>. DEFINE w == v + (8 * (a + b))
    <3>3. w \in Int /\ Value(one[1]) + (8 * b) = w
      BY <1>3, <3>2
    <3>. HIDE DEF w
    <3>4. CASE w < Two32
      <4>1. Value(two[1]) = w /\ two[2] = one[2]
        BY <1>4, <3>3, <3>4
      <4>2. Value(all[1]) = w /\ all[2] = count[2]
        BY <1>2, <3>4 DEF w
      <4>. QED BY <3>1, <4>1, <4>2
    <3>5. CASE ~(w < Two32)
      <4>1. Value(two[1]) = w - Two32 /\ two[2] = Sum2(one[2], <<0, 1>>)
        BY <1>3, <1>4, <1>10, <3>1, <3>3, <3>5
      <4>2. Value(all[1]) = w - Two32 /\ all[2] = Sum2(count[2], <<0, 1>>)
        BY <1>2, <1>3, <1>10, <3>3, <3>5 DEF w
      <4>. QED BY <3>1, <4>1, <4>2
    <3>. QED BY <3>4, <3>5
  <2>2. CASE ~(v + (8 * a) < Two32)
    <3>1. Value(one[1]) = v + (8 * a) - Two32 /\ one[2] = Sum2(count[2], <<0, 1>>)
      BY <1>2, <2>2
    <3>2. ~(v + (8 * (a + b)) < Two32) /\ Value(one[1]) + (8 * b) < Two32
      BY <1>3, <1>10, <2>2, <3>1, SMT
    <3>3. Value(two[1]) = Value(one[1]) + (8 * b) /\ two[2] = one[2]
      BY <1>4, <3>2
    <3>4. Value(all[1]) = v + (8 * (a + b)) - Two32 /\ all[2] = Sum2(count[2], <<0, 1>>)
      BY <1>2, <3>2
    <3>5. v + (8 * a) - Two32 + (8 * b) = v + (8 * (a + b)) - Two32
      BY <1>3, <1>10, SMT
    <3>. QED BY <3>1, <3>3, <3>4, <3>5
  <2>. QED BY <2>1, <2>2
<1>6. two[1] \in Word /\ all[1] \in Word /\ two = <<two[1], two[2]>> /\ all = <<all[1], all[2]>>
  BY <1>2, <1>4
<1>7. two[1] = all[1]
  BY <1>5, <1>6, SameWord
<1>8. two = all
  BY <1>5, <1>6, <1>7, Zenon
<1>. QED
  BY <1>8 DEF one, two, all

(* Where a count leaves the buffer.                                        *)
At(count) == (count[1][2] \div 8) % 64

(* The place in the buffer advances by the number of bytes, modulo 64.     *)
LEMMA AtCounted ==
  ASSUME NEW count \in Word \X Word, NEW n \in Nat, n < TwoTo29
  PROVE  At(count) \in 0..63 /\ At(Counted(count, n)) = (At(count) + n) % 64
<1>. DEFINE l == count[1][2]
            r == n % 8192
            m == (l + (r * 8)) % Half
<1>1. l \in Halves
  BY WordValue
<1>2. Counted(count, n)[1] = Sum2(count[1], BitCount(n))
  BY DEF Counted, Counting
<1>3. Counted(count, n)[1][2] = m
  BY <1>2 DEF Sum2, BitCount
<1>. HIDE DEF l
<1>4. (l \div 8) % 64 \in 0..63
  BY <1>1 DEF Halves
<1>5. (m \div 8) % 64 = (((l \div 8) % 64) + n) % 64
  BY <1>1, SMT DEF Half, Halves
<1>. QED
  BY <1>3, <1>4, <1>5 DEF At, l

(* A part of a sequence of octets.                                         *)
LEMMA Piece ==
  ASSUME NEW s \in Seq(Octet), NEW m \in 1..(Len(s) + 1), NEW n \in 0..Len(s), m <= n + 1
  PROVE  /\ SubSeq(s, m, n) \in Seq(Octet)
         /\ Len(SubSeq(s, m, n)) = n + 1 - m
         /\ \A k \in 1..(n + 1 - m) : SubSeq(s, m, n)[k] = s[m + k - 1]
<1>. DEFINE l == Len(s)
<1>1. l \in Nat /\ \A k \in 1..l : s[k] \in Octet
  BY LenProperties, ElementOfSeq
<1>. HIDE DEF l
<1>2. m \in 1..(l + 1) /\ n \in 0..l
  BY DEF l
<1>3. m \in Int /\ n \in Int /\ \A k \in m..n : s[k] \in Octet
  BY <1>1, <1>2
<1>4. /\ SubSeq(s, m, n) \in Seq(Octet)
      /\ Len(SubSeq(s, m, n)) = IF m <= n THEN n - m + 1 ELSE 0
      /\ \A k \in 1..n - m + 1 : SubSeq(s, m, n)[k] = s[m + k - 1]
  BY <1>3, SubSeqProperties
<1>5. n - m + 1 = n + 1 - m /\ (m <= n \/ n + 1 - m = 0)
  BY <1>1, <1>2
<1>. QED
  BY <1>4, <1>5

(* What a context has pending is as many bytes as its place in the buffer. *)
LEMMA PendingOf ==
  ASSUME NEW ctx, IsContext(ctx)
  PROVE  /\ Index(ctx) = At(ctx.count) /\ Index(ctx) \in 0..63
         /\ Pending(ctx) \in Seq(Octet) /\ Len(Pending(ctx)) = Index(ctx)
<1>1. Index(ctx) = At(ctx.count)
  BY DEF Index, At
<1>2. ctx.count \in Word \X Word /\ ctx.buffer \in Seq(Octet) /\ Len(ctx.buffer) = 64
  BY DEF IsContext
<1>3. 0 \in Nat /\ 0 < TwoTo29
  BY SMT DEF TwoTo29
<1>4. Index(ctx) \in 0..63
  BY <1>1, <1>2, <1>3, AtCounted
<1>. DEFINE i == Index(ctx)
            s == ctx.buffer
<1>5. i \in 0..63 /\ s \in Seq(Octet) /\ Len(s) = 64 /\ Pending(ctx) = SubSeq(s, 1, i)
  BY <1>2, <1>4 DEF Pending
<1>. HIDE DEF i, s
<1>6. 1 \in 1..(Len(s) + 1) /\ i \in 0..Len(s) /\ 1 <= i + 1 /\ i + 1 - 1 = i
  BY <1>5
<1>7. SubSeq(s, 1, i) \in Seq(Octet) /\ Len(SubSeq(s, 1, i)) = i
  BY <1>5, <1>6, Piece
<1>. QED
  BY <1>1, <1>4, <1>5, <1>7 DEF i

(* What a call leaves: the state after the full blocks, the rest of the    *)
(* bytes before Index, the count of all.                                   *)
LEMMA UpdateLeaves ==
  ASSUME NEW ctx, IsContext(ctx), NEW input \in Seq(Octet), Len(input) < TwoTo29
  PROVE  LET u == MD5Update(ctx, input)
         IN  /\ IsContext(u)
             /\ u.count = Counted(ctx.count, Len(input))
             /\ u.state = Transformed(ctx.state, Pending(ctx) \o input)
             /\ Pending(u) = Remaining(Pending(ctx) \o input)
<1>. DEFINE u == MD5Update(ctx, input)
            p == Pending(ctx)
            all == p \o input
            rest == Remaining(all)
            first == IF Full(all) > 0 THEN Block(all, 1) ELSE ctx.buffer
            tail == SubSeq(first, Len(rest) + 1, 64)
            n == Len(input)
            r == Len(rest)
<1>1. u = [state |-> Transformed(ctx.state, all), count |-> Counted(ctx.count, n), buffer |-> rest \o tail]
  BY DEF MD5Update, Counted
<1>. HIDE DEF p, all, rest, first, tail, n, r
<1>2. u.count = Counted(ctx.count, n) /\ u.state = Transformed(ctx.state, all) /\ u.buffer = rest \o tail
  BY <1>1
<1>. HIDE DEF u
<1>3. /\ p \in Seq(Octet) /\ Len(p) = Index(ctx) /\ Index(ctx) \in 0..63 /\ Index(ctx) = At(ctx.count)
      /\ ctx.count \in Word \X Word /\ ctx.buffer \in Seq(Octet) /\ Len(ctx.buffer) = 64
  BY PendingOf DEF IsContext, p
<1>4. n \in Nat /\ n < TwoTo29
  BY LenProperties DEF n
<1>5. all \in Seq(Octet) /\ Len(all) = Len(p) + n
  <2>1. p \in Seq(Octet)
    BY <1>3
  <2>2. p \o input \in Seq(Octet) /\ Len(p \o input) = Len(p) + Len(input)
    BY <2>1, ConcatProperties
  <2>. QED BY <2>2 DEF n, all
<1>6. rest \in Seq(Octet) /\ Len(rest) = r /\ r = Len(all) % 64 /\ Full(all) \in Nat
  BY <1>5, Parts DEF rest, r
<1>7. r \in 0..63
  <2>1. Len(all) \in Nat /\ r = Len(all) % 64
    BY <1>5, <1>6, LenProperties
  <2>2. \A k \in Nat : k % 64 \in 0..63
    OBVIOUS
  <2>. QED BY <2>1, <2>2, Zenon
<1>8. first \in Seq(Octet) /\ Len(first) = 64
  <2>1. CASE Full(all) > 0
    <3>1. 1 \in 1..Full(all) /\ first = Block(all, 1)
      BY <1>6, <2>1 DEF first
    <3>2. Block(all, 1) \in Seq(Octet) /\ Len(Block(all, 1)) = 64
      BY <1>5, <3>1, BlockOf
    <3>. QED BY <3>1, <3>2
  <2>2. CASE ~(Full(all) > 0)
    BY <1>3, <2>2 DEF first
  <2>. QED BY <2>1, <2>2
<1>9. tail \in Seq(Octet) /\ Len(tail) = 64 - r
  <2>1. r + 1 \in 1..(Len(first) + 1) /\ 64 \in 0..Len(first) /\ r + 1 <= 64 + 1 /\ 64 + 1 - (r + 1) = 64 - r
    BY <1>7, <1>8
  <2>2. SubSeq(first, r + 1, 64) \in Seq(Octet) /\ Len(SubSeq(first, r + 1, 64)) = 64 + 1 - (r + 1)
    BY <1>8, <2>1, Piece
  <2>3. tail = SubSeq(first, r + 1, 64)
    BY <1>6 DEF tail
  <2>. QED BY <2>1, <2>2, <2>3
<1>. DEFINE b == rest \o tail
<1>10. b \in Seq(Octet) /\ Len(b) = 64 /\ \A k \in 1..r : b[k] = rest[k]
  <2>1. /\ b \in Seq(Octet) /\ Len(b) = Len(rest) + Len(tail)
        /\ \A k \in 1..Len(rest) + Len(tail) : b[k] = IF k <= Len(rest) THEN rest[k] ELSE tail[k - Len(rest)]
    BY <1>6, <1>9, ConcatProperties
  <2>. HIDE DEF b
  <2>2. Len(b) = 64
    BY <1>6, <1>7, <1>9, <2>1
  <2>3. ASSUME NEW k \in 1..r PROVE b[k] = rest[k]
    <3>1. k \in 1..Len(rest) + Len(tail) /\ k <= Len(rest)
      BY <1>6, <1>7, <1>9
    <3>. QED BY <2>1, <3>1
  <2>. QED BY <2>1, <2>2, <2>3
<1>. HIDE DEF b
<1>11. u.buffer = b
  BY <1>2 DEF b
<1>12. IsContext(u)
  <2>1. Counted(ctx.count, n) \in Word \X Word
    BY <1>3, <1>4, CountedValue
  <2>. QED BY <1>2, <1>10, <1>11, <2>1 DEF IsContext
<1>13. Index(u) = r
  <2>1. Index(u) = At(Counted(ctx.count, n))
    BY <1>2, <1>12, PendingOf
  <2>2. At(Counted(ctx.count, n)) = (At(ctx.count) + n) % 64
    BY <1>3, <1>4, AtCounted
  <2>. QED BY <1>3, <1>5, <1>6, <2>1, <2>2
<1>14. Pending(u) = rest
  <2>1. Pending(u) = SubSeq(b, 1, r)
    BY <1>11, <1>13 DEF Pending
  <2>2. 1 \in 1..(Len(b) + 1) /\ r \in 0..Len(b) /\ 1 <= r + 1 /\ r + 1 - 1 = r
    <3>1. Len(b) = 64
      BY <1>10
    <3>. QED BY <1>7, <3>1
  <2>3. /\ SubSeq(b, 1, r) \in Seq(Octet) /\ Len(SubSeq(b, 1, r)) = r + 1 - 1
        /\ \A k \in 1..(r + 1 - 1) : SubSeq(b, 1, r)[k] = b[1 + k - 1]
    <3>1. b \in Seq(Octet)
      BY <1>10
    <3>. QED BY <2>2, <3>1, Piece
  <2>4. ASSUME NEW k \in 1..r PROVE SubSeq(b, 1, r)[k] = rest[k]
    <3>1. k \in 1..(r + 1 - 1) /\ 1 + k - 1 = k
      BY <1>7
    <3>2. SubSeq(b, 1, r)[k] = b[1 + k - 1]
      BY <2>3, <3>1, Zenon
    <3>3. b[k] = rest[k]
      BY <1>10
    <3>. QED BY <3>1, <3>2, <3>3, Zenon
  <2>5. Len(SubSeq(b, 1, r)) = Len(rest)
    BY <1>6, <2>2, <2>3
  <2>6. SubSeq(b, 1, r) = rest
    <3>. DEFINE s == SubSeq(b, 1, r)
    <3>1. s \in Seq(Octet) /\ Len(s) = Len(rest) /\ \A k \in 1..Len(s) : s[k] = rest[k]
      BY <1>6, <2>3, <2>4, <2>5
    <3>. HIDE DEF s
    <3>2. s = rest
      BY <1>6, <3>1, SeqEqual
    <3>. QED BY <3>2 DEF s
  <2>. QED BY <2>1, <2>6
<1>. QED
  BY <1>2, <1>12, <1>14 DEF u, all, rest, n, p

(* Sequences of octets joined in either order.                             *)
LEMMA ConcatTwice ==
  ASSUME NEW s \in Seq(Octet), NEW t \in Seq(Octet), NEW u \in Seq(Octet)
  PROVE  (s \o t) \o u = s \o (t \o u)
  BY ConcatAssociative

(* A text given in two pieces leaves the state, the count and the pending  *)
(* bytes that it leaves when it is given whole.                            *)
LEMMA UpdatedTwice ==
  ASSUME NEW ctx, IsContext(ctx), NEW a \in Seq(Octet), NEW b \in Seq(Octet), Len(a) + Len(b) < TwoTo29
  PROVE  LET two == MD5Update(MD5Update(ctx, a), b)
             one == MD5Update(ctx, a \o b)
         IN  /\ IsContext(two) /\ IsContext(one)
             /\ two.state = one.state /\ two.count = one.count /\ Pending(two) = Pending(one)
<1>. DEFINE p == Pending(ctx)
            mid == MD5Update(ctx, a)
            two == MD5Update(mid, b)
            one == MD5Update(ctx, a \o b)
<1>1. /\ Len(a) \in Nat /\ Len(b) \in Nat /\ Len(a) < TwoTo29 /\ Len(b) < TwoTo29
      /\ a \o b \in Seq(Octet) /\ Len(a \o b) = Len(a) + Len(b)
  <2>1. Len(a) \in Nat /\ Len(b) \in Nat /\ a \o b \in Seq(Octet) /\ Len(a \o b) = Len(a) + Len(b)
    BY LenProperties, ConcatProperties
  <2>2. Len(a) < TwoTo29 /\ Len(b) < TwoTo29
    BY <2>1, SMT DEF TwoTo29
  <2>. QED BY <2>1, <2>2
<1>2. p \in Seq(Octet) /\ ctx.count \in Word \X Word
  BY PendingOf DEF IsContext
<1>3. /\ IsContext(mid) /\ mid.count = Counted(ctx.count, Len(a))
      /\ mid.state = Transformed(ctx.state, p \o a) /\ Pending(mid) = Remaining(p \o a)
  BY <1>1, UpdateLeaves
<1>4. /\ IsContext(one) /\ one.count = Counted(ctx.count, Len(a \o b))
      /\ one.state = Transformed(ctx.state, p \o (a \o b)) /\ Pending(one) = Remaining(p \o (a \o b))
  <2>1. Len(a \o b) < TwoTo29
    BY <1>1
  <2>. QED BY <1>1, <2>1, UpdateLeaves
<1>. HIDE DEF p, mid, one
<1>5. /\ IsContext(two) /\ two.count = Counted(mid.count, Len(b))
      /\ two.state = Transformed(mid.state, Pending(mid) \o b) /\ Pending(two) = Remaining(Pending(mid) \o b)
  BY <1>1, <1>3, UpdateLeaves
<1>. HIDE DEF two
<1>6. two.count = one.count
  <2>1. Counted(Counted(ctx.count, Len(a)), Len(b)) = Counted(ctx.count, Len(a) + Len(b))
    BY <1>1, <1>2, CountedTwice
  <2>. QED BY <1>1, <1>3, <1>4, <1>5, <2>1
<1>. DEFINE q == p \o a
<1>7. q \in Seq(Octet) /\ p \o (a \o b) = q \o b
  <2>1. q \in Seq(Octet)
    BY <1>2, ConcatProperties
  <2>2. (p \o a) \o b = p \o (a \o b)
    BY <1>2, ConcatTwice
  <2>. QED BY <2>1, <2>2
<1>. HIDE DEF q
<1>8. mid.state = Transformed(ctx.state, q) /\ Pending(mid) = Remaining(q)
  BY <1>3 DEF q
<1>9. Transformed(Transformed(ctx.state, q), Remaining(q) \o b) = Transformed(ctx.state, q \o b)
  BY <1>7, TransformedTwice
<1>10. Remaining(Remaining(q) \o b) = Remaining(q \o b)
  BY <1>7, PartsOfBoth
<1>11. two.state = one.state /\ Pending(two) = Pending(one)
  BY <1>4, <1>5, <1>7, <1>8, <1>9, <1>10
<1>. QED
  BY <1>4, <1>5, <1>6, <1>11 DEF two, one, mid

(* The bytes that end a text: the padding and the count.                   *)
Ending(ctx) == SubSeq(Padding, 1, PadLen(Index(ctx))) \o Encode(ctx.count)

(* A function of octets from 1 is a sequence.                              *)
LEMMA BytesAreASeq ==
  ASSUME NEW n \in Nat, NEW f \in [1..n -> Octet]
  PROVE  f \in Seq(Octet) /\ Len(f) = n
  OBVIOUS

(* A count is encoded in 8 bytes.                                          *)
LEMMA EncodedCount ==
  ASSUME NEW count \in Word \X Word
  PROVE  Encode(count) \in Seq(Octet) /\ Len(Encode(count)) = 8
<1>. DEFINE byte(j) == LET w == count[((j - 1) \div 4) + 1]
                       IN  <<w[2] % 256, w[2] \div 256, w[1] % 256, w[1] \div 256>>[((j - 1) % 4) + 1]
<1>1. Len(count) = 2 /\ count[1] \in Word /\ count[2] \in Word
  OBVIOUS
<1>2. Encode(count) = [j \in 1..8 |-> byte(j)]
  <2>1. 1..(4 * Len(count)) = 1..8
    BY <1>1
  <2>. QED BY <2>1 DEF Encode
<1>3. ASSUME NEW j \in 1..8 PROVE byte(j) \in Octet
  <2>. DEFINE w == count[((j - 1) \div 4) + 1]
  <2>1. ((j - 1) \div 4) + 1 \in 1..2 /\ ((j - 1) % 4) + 1 \in 1..4
    OBVIOUS
  <2>2. w \in Word
    BY <1>1, <2>1
  <2>. HIDE DEF w
  <2>. DEFINE h == w[1]
              l == w[2]
              quad == <<l % 256, l \div 256, h % 256, h \div 256>>
  <2>3. h \in Halves /\ l \in Halves
    BY <2>2, WordValue
  <2>. HIDE DEF h, l
  <2>4. l % 256 \in Octet /\ l \div 256 \in Octet /\ h % 256 \in Octet /\ h \div 256 \in Octet
    BY <2>3, SMT DEF Halves, Half, Octet
  <2>5. \A k \in 1..4 : quad[k] \in Octet
    BY <2>4
  <2>6. byte(j) = quad[((j - 1) % 4) + 1]
    BY DEF w, h, l
  <2>. HIDE DEF quad
  <2>. QED BY <2>1, <2>5, <2>6
<1>. HIDE DEF byte
<1>4. Encode(count) \in [1..8 -> Octet]
  BY <1>2, <1>3
<1>. QED
  BY <1>4, BytesAreASeq

(* The padding and the count end the last block.                           *)
LEMMA EndingFills ==
  ASSUME NEW ctx, IsContext(ctx)
  PROVE  /\ SubSeq(Padding, 1, PadLen(Index(ctx))) \in Seq(Octet)
         /\ Len(SubSeq(Padding, 1, PadLen(Index(ctx)))) = PadLen(Index(ctx))
         /\ PadLen(Index(ctx)) \in 1..64
         /\ Encode(ctx.count) \in Seq(Octet) /\ Len(Encode(ctx.count)) = 8
         /\ Ending(ctx) \in Seq(Octet) /\ Len(Ending(ctx)) = PadLen(Index(ctx)) + 8
         /\ (Index(ctx) + PadLen(Index(ctx)) + 8) % 64 = 0
<1>. DEFINE i == Index(ctx)
            l == PadLen(i)
            pad == SubSeq(Padding, 1, l)
            code == Encode(ctx.count)
<1>1. i \in 0..63
  BY PendingOf
<1>2. ctx.count \in Word \X Word
  BY DEF IsContext
<1>3. code \in Seq(Octet) /\ Len(code) = 8
  BY <1>2, EncodedCount
<1>. HIDE DEF i, code
<1>4. l \in 1..64 /\ (i + l + 8) % 64 = 0
  BY <1>1 DEF PadLen
<1>5. Padding \in Seq(Octet) /\ Len(Padding) = 64
  <2>1. \A j \in 1..64 : Padding[j] \in Octet
    BY DEF Padding, Octet
  <2>2. Padding \in [1..64 -> Octet]
    BY <2>1 DEF Padding
  <2>. QED BY <2>2, BytesAreASeq
<1>. HIDE DEF l
<1>6. pad \in Seq(Octet) /\ Len(pad) = l
  <2>1. 1 \in 1..(Len(Padding) + 1) /\ l \in 0..Len(Padding) /\ 1 <= l + 1 /\ l + 1 - 1 = l
    BY <1>4, <1>5
  <2>. QED BY <1>5, <2>1, Piece
<1>. HIDE DEF pad
<1>7. pad \o code \in Seq(Octet) /\ Len(pad \o code) = l + 8
  <2>1. pad \o code \in Seq(Octet) /\ Len(pad \o code) = Len(pad) + Len(code)
    BY <1>3, <1>6, ConcatProperties
  <2>. QED BY <1>3, <1>6, <2>1
<1>. QED
  BY <1>3, <1>4, <1>6, <1>7 DEF Ending, pad, code, l, i

(* MD5Final transforms what is pending, the padding and the count.         *)
LEMMA FinalOf ==
  ASSUME NEW ctx, IsContext(ctx)
  PROVE  MD5Final(ctx) = Encode(Transformed(ctx.state, Pending(ctx) \o Ending(ctx)))
<1>. DEFINE pad == SubSeq(Padding, 1, PadLen(Index(ctx)))
            code == Encode(ctx.count)
            two == MD5Update(MD5Update(ctx, pad), code)
            one == MD5Update(ctx, pad \o code)
<1>1. /\ pad \in Seq(Octet) /\ Len(pad) = PadLen(Index(ctx)) /\ PadLen(Index(ctx)) \in 1..64
      /\ code \in Seq(Octet) /\ Len(code) = 8
      /\ Ending(ctx) \in Seq(Octet) /\ Len(Ending(ctx)) = PadLen(Index(ctx)) + 8
  BY EndingFills
<1>2. MD5Final(ctx) = Encode(two.state) /\ Ending(ctx) = pad \o code
  BY DEF MD5Final, Ending
<1>. HIDE DEF pad, code
<1>3. Len(pad) + Len(code) < TwoTo29 /\ Len(Ending(ctx)) < TwoTo29
  <2>. DEFINE l == PadLen(Index(ctx))
  <2>3. l \in 1..64 /\ Len(pad) = l /\ Len(code) = 8 /\ Len(Ending(ctx)) = l + 8
    BY <1>1
  <2>. HIDE DEF l
  <2>1. Len(pad) + Len(code) \in 1..72 /\ Len(Ending(ctx)) \in 1..72
    BY <2>3
  <2>2. \A k \in 1..72 : k < TwoTo29
    BY SMT DEF TwoTo29
  <2>. QED BY <2>1, <2>2
<1>4. two.state = one.state
  BY <1>1, <1>3, UpdatedTwice
<1>5. MD5Update(ctx, Ending(ctx)).state = Transformed(ctx.state, Pending(ctx) \o Ending(ctx))
  BY <1>1, <1>3, UpdateLeaves
<1>. QED
  BY <1>2, <1>4, <1>5

(* A text given to MD5Update in two pieces has the digest that it has when *)
(* it is given whole, from any state, count and pending bytes, for texts   *)
(* below 2^29 bytes.                                                       *)
THEOREM PiecesAreTheWhole ==
  ASSUME NEW ctx, IsContext(ctx), NEW a \in Seq(Octet), NEW b \in Seq(Octet), Len(a) + Len(b) < TwoTo29
  PROVE  MD5Final(MD5Update(MD5Update(ctx, a), b)) = MD5Final(MD5Update(ctx, a \o b))
<1>. DEFINE two == MD5Update(MD5Update(ctx, a), b)
            one == MD5Update(ctx, a \o b)
<1>1. /\ IsContext(two) /\ IsContext(one)
      /\ two.state = one.state /\ two.count = one.count /\ Pending(two) = Pending(one)
  BY UpdatedTwice
<1>. HIDE DEF two, one
<1>2. Index(two) = Index(one)
  BY <1>1 DEF Index
<1>3. Ending(two) = Ending(one)
  BY <1>1, <1>2 DEF Ending
<1>4. MD5Final(two) = MD5Final(one)
  BY <1>1, <1>3, FinalOf
<1>. QED
  BY <1>4 DEF two, one

(* What MD5Final adds to a text.                                           *)
EndOf(text) == SubSeq(Padding, 1, PadLen(Len(text) % 64)) \o Encode(<<BitCount(Len(text)), <<0, 0>>>>)

(* The digest of a text from an empty context is that of whole blocks: the *)
(* text, one byte 128 with the zeros that follow it, and the count of the  *)
(* text's bits in 8 bytes, none of which is left in the buffer.            *)
THEOREM DigestIsOfThePaddedText ==
  ASSUME NEW ctx, IsContext(ctx), ctx.count = <<<<0, 0>>, <<0, 0>>>>,
         NEW text \in Seq(Octet), Len(text) < TwoTo29
  PROVE  /\ MD5Final(MD5Update(ctx, text)) = Encode(Transformed(ctx.state, text \o EndOf(text)))
         /\ Len(text \o EndOf(text)) % 64 = 0
         /\ Len(text \o EndOf(text)) <= Len(text) + 72
<1>. DEFINE u == MD5Update(ctx, text)
            p == Pending(ctx)
            e == Ending(u)
            n == Len(text)
<1>1. Index(ctx) = 0 /\ p = << >>
  <2>1. Index(ctx) = 0
    BY DEF Index
  <2>2. p \in Seq(Octet) /\ Len(p) = 0
    BY <2>1, PendingOf
  <2>. QED BY <2>1, <2>2, EmptySeq
<1>2. p \o text = text
  BY <1>1, ConcatEmptySeq
<1>3. /\ IsContext(u) /\ u.count = Counted(ctx.count, n)
      /\ u.state = Transformed(ctx.state, text) /\ Pending(u) = Remaining(text)
  BY <1>2, UpdateLeaves
<1>. HIDE DEF u, p
<1>4. /\ e \in Seq(Octet) /\ Len(e) = PadLen(Index(u)) + 8 /\ PadLen(Index(u)) \in 1..64
      /\ (Index(u) + PadLen(Index(u)) + 8) % 64 = 0
  BY <1>3, EndingFills
<1>. HIDE DEF e
<1>5. MD5Final(u) = Encode(Transformed(ctx.state, text \o e))
  <2>1. MD5Final(u) = Encode(Transformed(u.state, Pending(u) \o e))
    BY <1>3, FinalOf DEF e
  <2>2. Transformed(Transformed(ctx.state, text), Remaining(text) \o e) = Transformed(ctx.state, text \o e)
    BY <1>4, TransformedTwice
  <2>. QED BY <1>3, <2>1, <2>2
<1>8. Index(u) = n % 64
  <2>1. Len(Pending(u)) = Index(u)
    BY <1>3, PendingOf
  <2>2. Len(Remaining(text)) = n % 64
    BY Parts
  <2>. QED BY <1>3, <2>1, <2>2
<1>6. Len(text \o e) % 64 = 0 /\ Len(text \o e) <= n + 72
  <2>1. Len(text \o e) = n + Len(e) /\ n \in Nat
    BY <1>4, ConcatProperties, LenProperties
  <2>. DEFINE i == Index(u)
              l == PadLen(i)
  <2>5. l \in 1..64 /\ (i + l + 8) % 64 = 0 /\ Len(e) = l + 8 /\ i = n % 64
    BY <1>4, <1>8
  <2>. HIDE DEF n, l, i
  <2>3. l \in 1..64 /\ ((n % 64) + l + 8) % 64 = 0 /\ Len(text \o e) = n + l + 8
    BY <2>1, <2>5
  <2>4. (n + l + 8) % 64 = 0 /\ n + l + 8 <= n + 72
    BY <2>1, <2>3
  <2>. QED BY <2>3, <2>4
<1>7. u.count = <<BitCount(n), <<0, 0>>>>
  <2>. DEFINE zero == <<0, 0>>
              c == BitCount(n)
  <2>1. n \in Nat /\ n < TwoTo29
    BY LenProperties
  <2>. HIDE DEF n
  <2>2. zero \in Word /\ c \in Word /\ Value(c) = 8 * n /\ Value(zero) = 0
    BY <2>1, BitCountValue, SMT DEF Word, Halves, Half, Value
  <2>3. 8 * n < Two32
    BY <2>1, SMT DEF TwoTo29, Two32, Half
  <2>4. Counted(<<zero, zero>>, n) \in Word \X Word /\ Value(Counted(<<zero, zero>>, n)[1]) = 8 * n /\ Counted(<<zero, zero>>, n)[2] = zero
    <3>1. <<zero, zero>> \in Word \X Word /\ <<zero, zero>>[1] = zero /\ <<zero, zero>>[2] = zero /\ Value(zero) + (8 * n) = 8 * n
      BY <2>1, <2>2
    <3>. HIDE DEF zero
    <3>. QED BY <2>1, <2>3, <3>1, CountedValue
  <2>. DEFINE d == Counted(<<zero, zero>>, n)
  <2>5. d = <<d[1], d[2]>> /\ d[1] \in Word
    BY <2>4
  <2>. HIDE DEF zero, c, d
  <2>6. d[1] = c
    BY <2>2, <2>4, <2>5, SameWord DEF d
  <2>7. d = <<c, zero>>
    BY <2>4, <2>5, <2>6 DEF d
  <2>. QED BY <1>3, <2>7 DEF d, c, zero, n
<1>9. e = EndOf(text)
  BY <1>7, <1>8 DEF e, Ending, EndOf, n
<1>. QED
  BY <1>5, <1>6, <1>9 DEF u, n

-----------------------------------------------------------------------------
(* base64 and hexadecimal *)

(* Every item comes back from its letter, and no letter of an item is the  *)
(* one that pads.                                                          *)
LEMMA ItemsComeBack ==
  ASSUME NEW i \in 0..63
  PROVE  /\ EncodeTable[i + 1] \in DOMAIN DecodeTable /\ DecodeTable[EncodeTable[i + 1]] = i
         /\ EncodeTable[i + 1] # Pad
         /\ EncodeTable[i + 1] \in Octet /\ Pad \in Octet
<1>1. \A j \in 1..65 : EncodeTable[j] = IF j <= 26 THEN 64 + j ELSE IF j <= 52 THEN 70 + j ELSE IF j <= 62 THEN j - 5
                                        ELSE IF j = 63 THEN 43 ELSE IF j = 64 THEN 47 ELSE 61
  BY DEF EncodeTable
<1>2. \A j, k \in 1..65 : EncodeTable[j] = EncodeTable[k] => j = k
  BY <1>1
<1>3. \A j \in 1..65 : EncodeTable[j] \in Octet
  BY <1>1 DEF Octet
<1>. HIDE DEF EncodeTable
<1>. DEFINE letters == {EncodeTable[j] : j \in 1..65}
            e == EncodeTable[i + 1]
<1>4. i + 1 \in 1..65 /\ i + 1 # 65
  OBVIOUS
<1>5. e \in letters
  BY <1>4
<1>6. DecodeTable = [b \in letters |-> CHOOSE j \in 0..64 : EncodeTable[j + 1] = b]
  BY DEF DecodeTable
<1>7. \E j \in 0..64 : EncodeTable[j + 1] = e
  OBVIOUS
<1>8. \A j \in 0..64 : EncodeTable[j + 1] = e => j = i
  <2>1. SUFFICES ASSUME NEW j \in 0..64, EncodeTable[j + 1] = e PROVE j = i
    OBVIOUS
  <2>2. j + 1 \in 1..65
    OBVIOUS
  <2>3. j + 1 = i + 1
    BY <1>2, <1>4, <2>1, <2>2
  <2>. QED BY <2>3
<1>9. DOMAIN DecodeTable = letters
  BY <1>6
<1>10. DecodeTable[e] = CHOOSE j \in 0..64 : EncodeTable[j + 1] = e
  BY <1>5, <1>6
<1>11. DecodeTable[e] = i
  BY <1>7, <1>8, <1>10
<1>12. e # Pad
  BY <1>2, <1>4 DEF Pad
<1>13. e \in Octet /\ Pad \in Octet
  BY <1>3, <1>4 DEF Pad
<1>. QED
  BY <1>5, <1>9, <1>11, <1>12, <1>13

(* The letters that stand for six bits.                                    *)
Letters == DOMAIN DecodeTable \ {Pad}

(* The item of each letter: six bits of the bytes.                         *)
LEMMA LettersOfItems ==
  ASSUME NEW a \in Octet, NEW b \in Octet
  PROVE  /\ Item1(a) \in Letters /\ DecodeTable[Item1(a)] = a \div 4
         /\ Item2(a, b) \in Letters /\ DecodeTable[Item2(a, b)] = ((a % 4) * 16) + (b \div 16)
         /\ Item3(a, b) \in Letters /\ DecodeTable[Item3(a, b)] = ((a % 16) * 4) + (b \div 64)
         /\ Item4(a) \in Letters /\ DecodeTable[Item4(a)] = a % 64
         /\ \A x \in Letters : x # Pad
<1>1. /\ a \div 4 \in 0..63 /\ ((a % 4) * 16) + (b \div 16) \in 0..63
      /\ ((a % 16) * 4) + (b \div 64) \in 0..63 /\ a % 64 \in 0..63
  BY DEF Octet
<1>2. \A i \in 0..63 : EncodeTable[i + 1] \in Letters /\ DecodeTable[EncodeTable[i + 1]] = i
  BY ItemsComeBack DEF Letters
<1>. HIDE DEF Letters, EncodeTable, DecodeTable
<1>3. Item1(a) \in Letters /\ DecodeTable[Item1(a)] = a \div 4
  BY <1>1, <1>2 DEF Item1
<1>4. Item2(a, b) \in Letters /\ DecodeTable[Item2(a, b)] = ((a % 4) * 16) + (b \div 16)
  BY <1>1, <1>2 DEF Item2
<1>5. Item3(a, b) \in Letters /\ DecodeTable[Item3(a, b)] = ((a % 16) * 4) + (b \div 64)
  BY <1>1, <1>2 DEF Item3
<1>6. Item4(a) \in Letters /\ DecodeTable[Item4(a)] = a % 64
  BY <1>1, <1>2 DEF Item4
<1>. QED
  BY <1>3, <1>4, <1>5, <1>6 DEF Letters

(* Three bytes come back from their items, eight bits of 24 each.          *)
LEMMA BytesOfItems ==
  ASSUME NEW a \in Octet, NEW b \in Octet, NEW c \in Octet
  PROVE  /\ Out1(a \div 4, ((a % 4) * 16) + (b \div 16)) = a
         /\ Out2(((a % 4) * 16) + (b \div 16), ((b % 16) * 4) + (c \div 64)) = b
         /\ Out3(((b % 16) * 4) + (c \div 64), c % 64) = c
<1>1. Out1(a \div 4, ((a % 4) * 16) + (b \div 16)) = a
  BY SMT DEF Out1, Octet
<1>2. Out2(((a % 4) * 16) + (b \div 16), ((b % 16) * 4) + (c \div 64)) = b
  BY SMT DEF Out2, Octet
<1>3. Out3(((b % 16) * 4) + (c \div 64), c % 64) = c
  BY SMT DEF Out3, Octet
<1>. QED
  BY <1>1, <1>2, <1>3

Chunks(d) == (Len(d) + 2) \div 3

(* The four letters of a chunk.                                            *)
LEMMA EncodedChunk ==
  ASSUME NEW d \in Seq(Octet), NEW q \in 0..(Chunks(d) - 1)
  PROVE  LET s == Encoded(d)
             k == 3 * q
         IN  /\ k + 1 \in 1..Len(d)
             /\ s[(4 * q) + 1] = Item1(d[k + 1])
             /\ s[(4 * q) + 2] = Item2(d[k + 1], OrZero(d, k + 2))
             /\ s[(4 * q) + 3] = IF k + 2 <= Len(d) THEN Item3(d[k + 2], OrZero(d, k + 3)) ELSE Pad
             /\ s[(4 * q) + 4] = IF k + 3 <= Len(d) THEN Item4(d[k + 3]) ELSE Pad
<1>. DEFINE n == Len(d)
            c == Chunks(d)
            s == Encoded(d)
            letter(k, r) == CASE r = 1 -> Item1(d[k + 1])
                              [] r = 2 -> Item2(d[k + 1], OrZero(d, k + 2))
                              [] r = 3 -> IF k + 2 <= Len(d) THEN Item3(d[k + 2], OrZero(d, k + 3)) ELSE Pad
                              [] OTHER -> IF k + 3 <= Len(d) THEN Item4(d[k + 3]) ELSE Pad
            at(j) == letter(3 * ((j - 1) \div 4), j % 4)
<1>1. s = [j \in 1..(4 * c) |-> at(j)]
  BY DEF Encoded, Chunks
<1>2. n \in Nat
  BY LenProperties
<1>3. c \in Nat /\ 3 * c <= n + 2
  BY <1>2 DEF Chunks
<1>. HIDE DEF n, c, s
<1>4. q \in 0..(c - 1) /\ (3 * q) + 1 \in 1..n
  BY <1>2, <1>3 DEF c
<1>5. ASSUME NEW r \in 1..4
      PROVE  s[(4 * q) + r] = at((4 * q) + r) /\ ((4 * q) + r - 1) \div 4 = q /\ ((4 * q) + r) % 4 = r % 4
  <2>1. (4 * q) + r \in 1..(4 * c)
    BY <1>3, <1>4
  <2>2. ((4 * q) + r - 1) \div 4 = q /\ ((4 * q) + r) % 4 = r % 4
    BY <1>4
  <2>. HIDE DEF at
  <2>. QED BY <1>1, <2>1, <2>2
<1>. HIDE DEF letter
<1>10. ASSUME NEW r \in 1..4 PROVE s[(4 * q) + r] = letter(3 * q, r % 4)
  BY <1>5
<1>11. s[(4 * q) + 1] = letter(3 * q, 1) /\ s[(4 * q) + 2] = letter(3 * q, 2) /\ s[(4 * q) + 3] = letter(3 * q, 3) /\ s[(4 * q) + 4] = letter(3 * q, 0)
  BY <1>10
<1>6. s[(4 * q) + 1] = Item1(d[(3 * q) + 1])
  BY <1>11 DEF letter
<1>7. s[(4 * q) + 2] = Item2(d[(3 * q) + 1], OrZero(d, (3 * q) + 2))
  BY <1>11 DEF letter
<1>8. s[(4 * q) + 3] = IF (3 * q) + 2 <= Len(d) THEN Item3(d[(3 * q) + 2], OrZero(d, (3 * q) + 3)) ELSE Pad
  BY <1>11 DEF letter
<1>9. s[(4 * q) + 4] = IF (3 * q) + 3 <= Len(d) THEN Item4(d[(3 * q) + 3]) ELSE Pad
  BY <1>11 DEF letter
<1>. QED
  BY <1>4, <1>6, <1>7, <1>8, <1>9 DEF n, s

(* What a string of base64 lacks is what the last chunk did.               *)
LEMMA EncodedLacks ==
  ASSUME NEW d \in Seq(Octet), d # << >>
  PROVE  /\ Chunks(d) \in Nat \ {0} /\ Len(d) \in 1..(3 * Chunks(d)) /\ Len(d) >= (3 * Chunks(d)) - 2
         /\ Len(Encoded(d)) = 4 * Chunks(d) /\ DOMAIN Encoded(d) = 1..(4 * Chunks(d))
         /\ Lacking(Encoded(d)) = (3 * Chunks(d)) - Len(d)
<1>. DEFINE n == Len(d)
            c == Chunks(d)
            s == Encoded(d)
            q == c - 1
<1>1. n \in Nat \ {0}
  BY EmptySeq
<1>2. c \in Nat \ {0} /\ n <= 3 * c /\ n >= (3 * c) - 2
  BY <1>1 DEF Chunks
<1>3. Len(s) = 4 * c /\ DOMAIN s = 1..(4 * c)
  <2>1. DOMAIN s = 1..(4 * c)
    BY DEF Encoded, Chunks
  <2>2. 4 * c \in Nat
    BY <1>2
  <2>. HIDE DEF s, c
  <2>3. s = [j \in 1..(4 * c) |-> s[j]]
    BY <2>1 DEF s, Encoded
  <2>. QED BY <2>1, <2>2, <2>3
<1>. DEFINE k == 3 * q
<1>4. /\ s[(4 * q) + 3] = IF k + 2 <= n THEN Item3(d[k + 2], OrZero(d, k + 3)) ELSE Pad
      /\ s[(4 * q) + 4] = IF k + 3 <= n THEN Item4(d[k + 3]) ELSE Pad
  <2>1. q \in 0..(c - 1)
    BY <1>2
  <2>. QED BY <2>1, EncodedChunk
<1>5. \A i \in 1..n : d[i] \in Octet
  BY ElementOfSeq
<1>6. ASSUME NEW i \in Nat PROVE OrZero(d, i + 1) \in Octet
  BY <1>1, <1>5 DEF OrZero, Octet
<1>. HIDE DEF s, c, n
<1>7. Lacking(s) = IF s[4 * c] # Pad THEN 0 ELSE IF s[(4 * c) - 1] = Pad THEN 2 ELSE 1
  BY <1>3 DEF Lacking
<1>8. (4 * q) + 4 = 4 * c /\ (4 * q) + 3 = (4 * c) - 1 /\ k + 3 = 3 * c /\ k + 2 = (3 * c) - 1 /\ k \in Nat
  BY <1>2
<1>9. Lacking(s) = (3 * c) - n
  <2>1. CASE n = 3 * c
    <3>1. k + 3 \in 1..n /\ s[4 * c] = Item4(d[k + 3])
      BY <1>1, <1>2, <1>4, <1>8, <2>1
    <3>2. s[4 * c] # Pad
      BY <1>5, <3>1, LettersOfItems
    <3>3. Lacking(s) = 0
      BY <1>7, <3>2
    <3>. QED BY <1>2, <2>1, <3>3
  <2>2. CASE n = (3 * c) - 1
    <3>1. k + 2 \in 1..n /\ s[4 * c] = Pad /\ s[(4 * c) - 1] = Item3(d[k + 2], OrZero(d, k + 3))
      BY <1>1, <1>2, <1>4, <1>8, <2>2
    <3>2. OrZero(d, k + 3) \in Octet
      <4>1. k + 3 = (k + 2) + 1 /\ k + 2 \in Nat
        BY <1>8
      <4>. QED BY <1>6, <4>1
    <3>3. s[(4 * c) - 1] # Pad
      BY <1>5, <3>1, <3>2, LettersOfItems
    <3>4. Lacking(s) = 1
      BY <1>7, <3>1, <3>3
    <3>. QED BY <1>2, <2>2, <3>4
  <2>3. CASE n = (3 * c) - 2
    <3>1. s[4 * c] = Pad /\ s[(4 * c) - 1] = Pad
      BY <1>1, <1>2, <1>4, <1>8, <2>3
    <3>2. Lacking(s) = 2
      BY <1>7, <3>1
    <3>. QED BY <1>2, <2>3, <3>2
  <2>. QED BY <1>1, <1>2, <2>1, <2>2, <2>3
<1>. QED
  BY <1>1, <1>2, <1>3, <1>9 DEF s, c, n

(* The item of letter r of chunk q.                                        *)
Item(s, q, r) == DecodeTable[s[(4 * q) + r]]

(* A chunk's letters and items, of the bytes it has.                       *)
LEMMA ItemsOfChunk ==
  ASSUME NEW d \in Seq(Octet), NEW q \in 0..(Chunks(d) - 1)
  PROVE  LET s == Encoded(d)
             k == 3 * q
             a == d[k + 1]
             b == OrZero(d, k + 2)
             c == OrZero(d, k + 3)
         IN  /\ k + 1 \in 1..Len(d) /\ a \in Octet /\ b \in Octet /\ c \in Octet
             /\ s[(4 * q) + 1] \in Letters /\ Item(s, q, 1) = a \div 4
             /\ s[(4 * q) + 2] \in Letters /\ Item(s, q, 2) = ((a % 4) * 16) + (b \div 16)
             /\ k + 2 <= Len(d) => s[(4 * q) + 3] \in Letters /\ Item(s, q, 3) = ((b % 16) * 4) + (c \div 64) /\ b = d[k + 2]
             /\ k + 3 <= Len(d) => s[(4 * q) + 4] \in Letters /\ Item(s, q, 4) = c % 64 /\ c = d[k + 3]
<1>. DEFINE s == Encoded(d)
            k == 3 * q
            n == Len(d)
            a == d[k + 1]
            b == OrZero(d, k + 2)
            c == OrZero(d, k + 3)
<1>1. /\ k + 1 \in 1..n
      /\ s[(4 * q) + 1] = Item1(a) /\ s[(4 * q) + 2] = Item2(a, b)
      /\ s[(4 * q) + 3] = IF k + 2 <= n THEN Item3(d[k + 2], c) ELSE Pad
      /\ s[(4 * q) + 4] = IF k + 3 <= n THEN Item4(d[k + 3]) ELSE Pad
  BY EncodedChunk
<1>2. n \in Nat /\ \A i \in 1..n : d[i] \in Octet
  BY LenProperties, ElementOfSeq
<1>3. k \in Nat
  <2>1. q \in Nat
    BY <1>2 DEF Chunks
  <2>. QED BY <2>1
<1>. HIDE DEF s, k, n
<1>4. a \in Octet
  BY <1>1, <1>2
<1>5. b \in Octet /\ (k + 2 <= n => b = d[k + 2]) /\ c \in Octet /\ (k + 3 <= n => c = d[k + 3])
  <2>1. 0 \in Octet
    BY DEF Octet
  <2>2. /\ k + 2 <= n => k + 2 \in 1..n
        /\ k + 3 <= n => k + 3 \in 1..n
    BY <1>2, <1>3
  <2>. QED BY <1>2, <2>1, <2>2 DEF OrZero, n
<1>. HIDE DEF a, b, c
<1>6. s[(4 * q) + 1] \in Letters /\ Item(s, q, 1) = a \div 4
  BY <1>1, <1>4, LettersOfItems DEF Item
<1>7. s[(4 * q) + 2] \in Letters /\ Item(s, q, 2) = ((a % 4) * 16) + (b \div 16)
  BY <1>1, <1>4, <1>5, LettersOfItems DEF Item
<1>8. ASSUME k + 2 <= n PROVE s[(4 * q) + 3] \in Letters /\ Item(s, q, 3) = ((b % 16) * 4) + (c \div 64) /\ b = d[k + 2]
  <2>1. s[(4 * q) + 3] = Item3(b, c) /\ b = d[k + 2]
    BY <1>1, <1>5, <1>8
  <2>. QED BY <1>5, <2>1, LettersOfItems DEF Item
<1>9. ASSUME k + 3 <= n PROVE s[(4 * q) + 4] \in Letters /\ Item(s, q, 4) = c % 64 /\ c = d[k + 3]
  <2>1. s[(4 * q) + 4] = Item4(c) /\ c = d[k + 3]
    BY <1>1, <1>5, <1>9
  <2>. QED BY <1>5, <2>1, LettersOfItems DEF Item
<1>. QED
  BY <1>1, <1>4, <1>5, <1>6, <1>7, <1>8, <1>9 DEF s, k, n, a, b, c

(* No letter of the code is zero, which would end it as a C string.        *)
LEMMA LettersAreNotZero == Pad # 0 /\ \A x \in Letters : x # 0
<1>1. \A j \in 1..65 : EncodeTable[j] # 0
  BY DEF EncodeTable
<1>2. DOMAIN DecodeTable = {EncodeTable[j] : j \in 1..65}
  BY DEF DecodeTable
<1>. HIDE DEF EncodeTable, DecodeTable
<1>. QED
  BY <1>1, <1>2 DEF Letters, Pad

(* The code is whole as a C string: its bytes are letters or padding.      *)
LEMMA EncodedHasNoZero ==
  ASSUME NEW d \in Seq(Octet), d # << >>
  PROVE  \A j \in DOMAIN Encoded(d) : Encoded(d)[j] # 0
<1>. DEFINE s == Encoded(d)
            n == Len(d)
            c == Chunks(d)
<1>1. c \in Nat \ {0} /\ n \in Nat /\ DOMAIN s = 1..(4 * c)
  BY EncodedLacks
<1>2. SUFFICES ASSUME NEW j \in 1..(4 * c) PROVE s[j] # 0
  BY <1>1
<1>. HIDE DEF s, n, c
<1>. DEFINE q == (j - 1) \div 4
            r == ((j - 1) % 4) + 1
<1>3. q \in 0..(c - 1) /\ r \in 1..4 /\ j = (4 * q) + r
  BY <1>1
<1>. HIDE DEF q, r
<1>4. /\ s[(4 * q) + 1] \in Letters /\ s[(4 * q) + 2] \in Letters
      /\ (3 * q) + 2 <= n => s[(4 * q) + 3] \in Letters
      /\ (3 * q) + 3 <= n => s[(4 * q) + 4] \in Letters
  BY <1>3, ItemsOfChunk DEF c, s, n
<1>5. /\ ~((3 * q) + 2 <= n) => s[(4 * q) + 3] = Pad
      /\ ~((3 * q) + 3 <= n) => s[(4 * q) + 4] = Pad
  BY <1>3, EncodedChunk DEF c, s, n
<1>6. r = 1 \/ r = 2 \/ r = 3 \/ r = 4
  BY <1>3
<1>. QED BY <1>3, <1>4, <1>5, <1>6, LettersAreNotZero

(* base64decode gives back what base64encode was given: the string it      *)
(* makes has whole chunks of four, all of its letters but the padding are  *)
(* legal, no letter ends it early, and the bytes are the same, zeros       *)
(* included.                                                               *)
THEOREM Base64Inverts ==
  ASSUME NEW d \in Seq(Octet), d # << >>
  PROVE  /\ Len(Encoded(d)) % 4 = 0 /\ Legal(Encoded(d)) /\ Decoded(Encoded(d)) = d
         /\ \A j \in DOMAIN Encoded(d) : Encoded(d)[j] # 0
<1>. DEFINE s == Encoded(d)
            n == Len(d)
            c == Chunks(d)
<1>1. /\ c \in Nat \ {0} /\ n \in 1..(3 * c) /\ n >= (3 * c) - 2
      /\ Len(s) = 4 * c /\ Lacking(s) = (3 * c) - n
  BY EncodedLacks
<1>. HIDE DEF s, n, c
<1>2. Len(s) % 4 = 0 /\ Len(s) - Lacking(s) = c + n /\ ((Len(s) \div 4) * 3) - Lacking(s) = n
  BY <1>1
<1>3. Legal(s)
  <2>1. SUFFICES ASSUME NEW j \in 1..(c + n) PROVE s[j] \in Letters
    BY <1>2 DEF Legal, Letters
  <2>. DEFINE q == (j - 1) \div 4
              r == ((j - 1) % 4) + 1
  <2>2. q \in 0..(c - 1) /\ r \in 1..4 /\ j = (4 * q) + r
    BY <1>1
  <2>. HIDE DEF q, r
  <2>3. (r = 3 => (3 * q) + 2 <= n) /\ (r = 4 => (3 * q) + 3 <= n)
    BY <1>1, <2>2
  <2>4. /\ s[(4 * q) + 1] \in Letters /\ s[(4 * q) + 2] \in Letters
        /\ (3 * q) + 2 <= n => s[(4 * q) + 3] \in Letters
        /\ (3 * q) + 3 <= n => s[(4 * q) + 4] \in Letters
    BY <2>2, ItemsOfChunk DEF c, s, n
  <2>5. r = 1 \/ r = 2 \/ r = 3 \/ r = 4
    BY <2>2
  <2>. QED BY <2>2, <2>3, <2>4, <2>5
<1>. DEFINE byte(k, r) == LET j == 4 * k IN
                          CASE r = 1 -> Out1(Item(s, k, 1), Item(s, k, 2))
                            [] r = 2 -> Out2(Item(s, k, 2), Item(s, k, 3))
                            [] OTHER -> Out3(Item(s, k, 3), Item(s, k, 4))
<1>4. Decoded(s) = [i \in 1..n |-> byte((i - 1) \div 3, i % 3)]
  BY <1>2 DEF Decoded, Item
<1>5. ASSUME NEW i \in 1..n PROVE byte((i - 1) \div 3, i % 3) = d[i]
  <2>. DEFINE q == (i - 1) \div 3
              r == i % 3
              u == d[(3 * q) + 1]
              v == OrZero(d, (3 * q) + 2)
              w == OrZero(d, (3 * q) + 3)
  <2>1. /\ q \in 0..(c - 1) /\ r \in 0..2
        /\ r = 1 => i = (3 * q) + 1
        /\ r = 2 => i = (3 * q) + 2 /\ (3 * q) + 2 <= n
        /\ r = 0 => i = (3 * q) + 3 /\ (3 * q) + 2 <= n /\ (3 * q) + 3 <= n
    BY <1>1
  <2>. HIDE DEF q, r
  <2>2. /\ u \in Octet /\ v \in Octet /\ w \in Octet
        /\ Item(s, q, 1) = u \div 4
        /\ Item(s, q, 2) = ((u % 4) * 16) + (v \div 16)
        /\ (3 * q) + 2 <= n => Item(s, q, 3) = ((v % 16) * 4) + (w \div 64) /\ v = d[(3 * q) + 2]
        /\ (3 * q) + 3 <= n => Item(s, q, 4) = w % 64 /\ w = d[(3 * q) + 3]
    BY <2>1, ItemsOfChunk DEF c, s, n
  <2>. HIDE DEF v, w
  <2>3. u = d[(3 * q) + 1]
    OBVIOUS
  <2>. HIDE DEF u
  <2>4. /\ Out1(u \div 4, ((u % 4) * 16) + (v \div 16)) = u
        /\ Out2(((u % 4) * 16) + (v \div 16), ((v % 16) * 4) + (w \div 64)) = v
        /\ Out3(((v % 16) * 4) + (w \div 64), w % 64) = w
    BY <2>2, BytesOfItems
  <2>5. CASE r = 1
    <3>1. byte(q, r) = Out1(Item(s, q, 1), Item(s, q, 2))
      BY <2>5
    <3>. HIDE DEF byte
    <3>. QED BY <2>1, <2>2, <2>3, <2>4, <2>5, <3>1 DEF q, r
  <2>6. CASE r = 2
    <3>1. byte(q, r) = Out2(Item(s, q, 2), Item(s, q, 3))
      BY <2>6
    <3>. HIDE DEF byte
    <3>2. byte(q, r) = v /\ v = d[i]
      BY <2>1, <2>2, <2>4, <2>6, <3>1
    <3>. QED BY <3>2 DEF q, r
  <2>7. CASE r = 0
    <3>1. byte(q, r) = Out3(Item(s, q, 3), Item(s, q, 4))
      BY <2>7
    <3>. HIDE DEF byte
    <3>2. byte(q, r) = w /\ w = d[i]
      BY <2>1, <2>2, <2>4, <2>7, <3>1
    <3>. QED BY <3>2 DEF q, r
  <2>8. r = 0 \/ r = 1 \/ r = 2
    BY <2>1
  <2>. QED BY <2>5, <2>6, <2>7, <2>8
<1>. HIDE DEF byte
<1>6. Decoded(s) = [i \in 1..n |-> d[i]]
  BY <1>4, <1>5
<1>7. d = [i \in 1..n |-> d[i]]
  BY LenProperties DEF n
<1>. QED
  BY <1>2, <1>3, <1>6, <1>7, EncodedHasNoZero DEF s

(* hexstr2bytes gives back the bytes that hexstr was given.                *)
THEOREM HexInverts ==
  ASSUME NEW d \in Seq(Octet)
  PROVE  HexDecoded(HexEncoded(d)) = d /\ \A j \in DOMAIN HexEncoded(d) : HexEncoded(d)[j] # 0
<1>. DEFINE s == HexEncoded(d)
            n == Len(d)
            digit(i, r) == LowerHex(IF r = 1 THEN d[i] \div 16 ELSE d[i] % 16)
<1>1. n \in Nat /\ \A i \in 1..n : d[i] \in Octet
  BY LenProperties, ElementOfSeq
<1>2. s = [j \in 1..(2 * n) |-> digit((j + 1) \div 2, j % 2)]
  BY DEF HexEncoded
<1>. HIDE DEF s, n
<1>3. Len(s) = 2 * n
  <2>1. 2 * n \in Nat
    BY <1>1
  <2>. HIDE DEF digit
  <2>. QED BY <1>2, <2>1
<1>4. ASSUME NEW i \in 1..n PROVE s[(2 * i) - 1] = LowerHex(d[i] \div 16) /\ s[2 * i] = LowerHex(d[i] % 16)
  <2>1. /\ (2 * i) - 1 \in 1..(2 * n) /\ (((2 * i) - 1) + 1) \div 2 = i /\ ((2 * i) - 1) % 2 = 1
        /\ 2 * i \in 1..(2 * n) /\ ((2 * i) + 1) \div 2 = i /\ (2 * i) % 2 = 0
    BY <1>1
  <2>. HIDE DEF digit
  <2>2. s[(2 * i) - 1] = digit(i, 1) /\ s[2 * i] = digit(i, 0)
    BY <1>2, <2>1
  <2>. QED BY <2>2 DEF digit
<1>5. \A h \in 0..15 : Xdigitvalue(LowerHex(h)) = h
  BY DEF Xdigitvalue, LowerHex, IsXdigit, IsDigit, DigitValue, Toupper
<1>6. \A b \in Octet : b \div 16 \in 0..15 /\ b % 16 \in 0..15 /\ ((b \div 16) * 16) + (b % 16) = b
  BY DEF Octet
<1>7. ASSUME NEW i \in 1..n PROVE (Xdigitvalue(s[(2 * i) - 1]) * 16) + Xdigitvalue(s[2 * i]) = d[i]
  <2>1. d[i] \in Octet
    BY <1>1
  <2>2. d[i] \div 16 \in 0..15 /\ d[i] % 16 \in 0..15 /\ ((d[i] \div 16) * 16) + (d[i] % 16) = d[i]
    BY <1>6, <2>1
  <2>. QED BY <1>4, <1>5, <2>2
<1>8. Len(s) \div 2 = n
  BY <1>1, <1>3
<1>9. HexDecoded(s) = [i \in 1..n |-> d[i]]
  BY <1>7, <1>8 DEF HexDecoded
<1>10. ASSUME NEW j \in 1..(2 * n) PROVE s[j] # 0
  <2>. DEFINE b == d[(j + 1) \div 2]
  <2>1. (j + 1) \div 2 \in 1..n
    BY <1>1
  <2>2. b \in Octet
    BY <1>1, <2>1
  <2>. HIDE DEF b
  <2>3. \A h \in 0..15 : LowerHex(h) # 0
    BY DEF LowerHex
  <2>4. b \div 16 \in 0..15 /\ b % 16 \in 0..15
    BY <1>6, <2>2
  <2>5. s[j] = LowerHex(IF j % 2 = 1 THEN b \div 16 ELSE b % 16)
    BY <1>2 DEF b
  <2>. QED BY <2>3, <2>4, <2>5
<1>11. DOMAIN s = 1..(2 * n)
  BY <1>2
<1>12. d = [i \in 1..n |-> d[i]]
  BY LenProperties DEF n
<1>. QED
  BY <1>9, <1>10, <1>11, <1>12 DEF s
=============================================================================
