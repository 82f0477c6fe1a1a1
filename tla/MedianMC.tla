------------------------------ MODULE MedianMC ------------------------------
(***************************************************************************)
(* algo_med on images of two levels that are narrower than its window.     *)
(***************************************************************************)
EXTENDS AreaFilter, Kernels

MCKernel(w) == MedianKernel(w, Side)

TwoLevels == [Point -> {0, 255}]
=============================================================================
