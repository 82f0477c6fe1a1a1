----------------------------- MODULE Collectors -----------------------------
(***************************************************************************)
(* The two collectors of src/siod/slib.c on the cells of a machine, between *)
(* two forms, when no C variable holds a cell.  With -g1, repl copies what *)
(* the registers lead to into the other heap before it reads a form; else  *)
(* the collector marks and sweeps, when the cells run out or (gc) asks it. *)
(* CellGraph has what each does with the graph of the cells.               *)
(* Both close a stream whose cell is lost (file_gc_free).                  *)
(***************************************************************************)
EXTENDS Eval, CellGraph
LOCAL SX == INSTANCE SequencesExt

(* The registers: eof_val first, so that it stays the first cell.  Every   *)
(* symbol is in obarray, and its value with it.                            *)
Registers(m) == <<EofVal>> \o SX!SetToSeq({m.vcell[n] : n \in DOMAIN m.vcell})

(* The streams of the cells that are not kept, oldest first or last.  The  *)
(* free list of a new heap gives the cells in the order of their addresses *)
(* and a swept one gives them the other way round.                         *)
Released(m, kept, oldestFirst) ==
    LET lost == SelectSeq([j \in DOMAIN m.cell |-> j],
                          LAMBDA j : j \notin kept /\ m.cell[j].t = "tc_c_file" /\ m.cell[j].at # 0)
    IN  SX!FoldLeft(LAMBDA n, j : CloseStream(n, m.cell[j].at), m, IF oldestFirst THEN lost ELSE SX!Reverse(lost))

-----------------------------------------------------------------------------
(* Mark and sweep *)

MarkProtectedRegisters(m) == GcMark(m.cell, Registers(m))

GcSweep(m, marked, oldestFirst) ==
    [Released(m, marked, oldestFirst) EXCEPT
        !.cell = [j \in DOMAIN @ |-> IF j \in marked THEN @[j] ELSE [t |-> "tc_free_cell"]], !.v = NIL]
GcMarkAndSweep(m, oldestFirst) == GcSweep(m, MarkProtectedRegisters(m), oldestFirst)

-----------------------------------------------------------------------------
(* Stop and copy *)

FreeOldspace(m, s) == Released(m, {j \in DOMAIN s.moved : s.moved[j] # 0}, TRUE)
Relocation(m, s) ==
    [FreeOldspace(m, s) EXCEPT !.cell = s.new, !.vcell = [n \in DOMAIN @ |-> Moved(s, @[n])], !.v = NIL]
GcStopAndCopy(m) == Relocation(m, Newspace(m.cell, Registers(m)))

-----------------------------------------------------------------------------
(* One turn of repl: collect, read a form from stdin and evaluate it.      *)
(* After a longjmp to errjmp repl_driver has dropped the frames and starts *)
(* anew.                                                                   *)

WithNewspace(m) == IF m.copying THEN GcStopAndCopy(m) ELSE m
Restarted(m) ==
    WithNewspace(IF m.esc = TopLevel THEN [m EXCEPT !.esc = Running, !.catch = <<>>, !.depth = 0, !.quit = FALSE] ELSE m)
Turn(m) == Repl(Restarted(m), "stdin", <<>>)
Given(m, text) == [m EXCEPT !.streams[Stdin] = Stream("stdin", "", text), !.out = <<>>]
=============================================================================
