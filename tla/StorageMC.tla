----------------------------- MODULE StorageMC -----------------------------
(***************************************************************************)
(* Storage on a few cells.  Bitmaps are interchangeable, so invariants may *)
(* be checked up to their permutation.                                     *)
(***************************************************************************)
EXTENDS Storage, TLC

Symmetry == Permutations(Bitmap)
=============================================================================
