----------------------------- MODULE CellGraph -----------------------------
(***************************************************************************)
(* The graph of the cells of src/siod/slib.c, and what its two collectors  *)
(* do with it: gc_mark follows it from the registers, and the copying      *)
(* collector makes a copy of the part of it that they lead to.  A heap is  *)
(* the sequence of its cells; a value with t = "ref" is the cell at the    *)
(* place x.at, any other value is no cell of the heap.                     *)
(***************************************************************************)
EXTENDS Integers, Sequences, FiniteSets

(* The cells that a sequence of values refers to.                          *)
Places(values) == {values[j].at : j \in {i \in DOMAIN values : values[i].t = "ref"}}

-----------------------------------------------------------------------------
(* Mark and sweep *)

(* What gc_mark marks from a cell that it has marked.  ct_gc_mark marks    *)
(* the code of a traced closure and returns its environment to be marked,  *)
(* as siod.html:1903 allows, but gc_mark does not look at what it returns. *)
CtGcMark(c) == <<c.code>>
ArrayGcMark(c) == c.data
Subparts(c) ==
    CASE c.t = "tc_cons" -> <<c.car, c.cdr>>
      [] c.t = "tc_closure" -> <<c.code, c.env>>
      [] c.t = "tc_closure_traced" -> CtGcMark(c)
      [] c.t = "tc_lisp_array" -> ArrayGcMark(c)
      [] OTHER -> <<>>

(* All that some places lead to when the place j leads to to[j].  Each     *)
(* turn marks what is ahead and looks at what that leads to; as many turns *)
(* as there are places, and one, leave nothing ahead.                      *)
Reached(to, places) ==
    LET turns == Cardinality(DOMAIN to) + 1
        wave[n \in 0..turns] ==
            IF n = 0 THEN [marked |-> {}, ahead |-> places]
            ELSE LET w == wave[n - 1]
                     all == w.marked \union w.ahead
                 IN  [marked |-> all, ahead |-> (UNION {to[j] : j \in w.ahead}) \ all]
    IN  wave[turns].marked
GcMark(cell, registers) == Reached([j \in DOMAIN cell |-> Places(Subparts(cell[j]))], Places(registers))

-----------------------------------------------------------------------------
(* Stop and copy.  A space s has the cells of the new heap and, for each   *)
(* old cell that has been moved, its new place.                            *)

GetNewspace(cell) == [new |-> <<>>, moved |-> [j \in DOMAIN cell |-> 0]]

(* A cell copied for each value that refers to it. *)
GcRelocate_Again(cell, s, x) ==
    IF x.t # "ref" THEN s
    ELSE [new |-> Append(s.new, cell[x.at]), moved |-> [s.moved EXCEPT ![x.at] = Len(s.new) + 1]]
GcRelocate(cell, s, x) ==
    IF x.t # "ref" THEN s
    ELSE IF s.moved[x.at] # 0 THEN s
    ELSE [new |-> Append(s.new, cell[x.at]), moved |-> [s.moved EXCEPT ![x.at] = Len(s.new) + 1]]
Moved(s, x) == IF x.t = "ref" THEN [x EXCEPT !.at = s.moved[@]] ELSE x

(* One value after the other.                                              *)
Relocated(cell, s, values) ==
    LET after[n \in 0..Len(values)] == IF n = 0 THEN s ELSE GcRelocate(cell, after[n - 1], values[n])
    IN  after[Len(values)]

(* The values in a cell, in the order of gc_relocate's calls, and the cell *)
(* with others in their place.                                             *)
CtGcScan(c) == <<c.env, c.code>>
ArrayGcScan(c) == c.data
Scanned(c) ==
    CASE c.t = "tc_cons" -> <<c.car, c.cdr>>
      [] c.t = "tc_closure" -> <<c.env, c.code>>
      [] c.t = "tc_closure_traced" -> CtGcScan(c)
      [] c.t = "tc_lisp_array" -> ArrayGcScan(c)
      [] OTHER -> <<>>
WithValues(c, values) ==
    CASE c.t = "tc_cons" -> [c EXCEPT !.car = values[1], !.cdr = values[2]]
      [] c.t \in {"tc_closure", "tc_closure_traced"} -> [c EXCEPT !.env = values[1], !.code = values[2]]
      [] c.t = "tc_lisp_array" -> [c EXCEPT !.data = values]
      [] OTHER -> c
MovedValues(s, values) == [j \in DOMAIN values |-> Moved(s, values[j])]

ScanRegisters(cell, registers) == Relocated(cell, GetNewspace(cell), registers)
ScanCell(cell, s, ptr) ==
    LET values == Scanned(s.new[ptr])
        r == Relocated(cell, s, values)
    IN  [r EXCEPT !.new[ptr] = WithValues(@, MovedValues(r, values))]
(* The loop stops when it meets the end of the new heap, which has at most *)
(* one cell for each of the old one.                                       *)
ScanNewspace(cell, s) ==
    LET after[n \in 0..Len(cell)] ==
            IF n = 0 THEN s
            ELSE LET r == after[n - 1] IN IF n > Len(r.new) THEN r ELSE ScanCell(cell, r, n)
    IN  after[Len(cell)]
Newspace(cell, registers) == ScanNewspace(cell, ScanRegisters(cell, registers))

-----------------------------------------------------------------------------
(* What is a heap: each cell has the fields of its type, and what it       *)
(* refers to is in the heap.                                               *)
IsSequence(s) == s \in Seq({s[j] : j \in DOMAIN s})
AreValues(values, places) ==
    /\ IsSequence(values)
    /\ \A j \in DOMAIN values : values[j].t = "ref" => {"t", "at"} \subseteq DOMAIN values[j] /\ values[j].at \in places
HasItsFields(c) ==
    /\ "t" \in DOMAIN c
    /\ c.t = "tc_cons" => {"car", "cdr"} \subseteq DOMAIN c
    /\ c.t \in {"tc_closure", "tc_closure_traced"} => {"env", "code"} \subseteq DOMAIN c
    /\ c.t = "tc_lisp_array" => "data" \in DOMAIN c
IsHeap(cell) ==
    /\ IsSequence(cell)
    /\ \A j \in DOMAIN cell : HasItsFields(cell[j]) /\ AreValues(Scanned(cell[j]), DOMAIN cell)
AreRegisters(cell, registers) == AreValues(registers, DOMAIN cell)

(* What the registers lead to. *)
Live(cell, registers) == Reached([j \in DOMAIN cell |-> Places(Scanned(cell[j]))], Places(registers))

(* A copy s of the graph: it has exactly what the registers lead to, each  *)
(* cell once, and each cell of it is the old one with what it refers to at *)
(* the new places.                                                         *)
KeepsTheGraph(cell, registers, s) ==
    LET live == Live(cell, registers)
    IN  /\ {j \in DOMAIN cell : s.moved[j] # 0} = live
        /\ {s.moved[j] : j \in live} = DOMAIN s.new
        /\ \A i, j \in live : s.moved[i] = s.moved[j] => i = j
        /\ \A j \in live : s.new[s.moved[j]] = WithValues(cell[j], MovedValues(s, Scanned(cell[j])))
=============================================================================
