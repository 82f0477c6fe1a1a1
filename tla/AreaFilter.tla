----------------------------- MODULE AreaFilter -----------------------------
(***************************************************************************)
(* The area filters of imsh.c: algo_conv, algo_med, algo_bindilate and     *)
(* algo_binerode.  All four allocate working copies of the bitmap, compute *)
(* the central area into them from the untouched image, copy the result    *)
(* back and free the copies.  They differ in the function of the window    *)
(* (Kernel), in the number of buffers and in what they do when malloc      *)
(* fails (Rollback).  Rows, columns and their bounds are C unsigned ints,  *)
(* so height-margin wraps when the image is smaller than the margin.       *)
(***************************************************************************)
EXTENDS Integers, FiniteSets

CONSTANTS Height, Width,  \* size of the image
          Side,           \* side of the window, odd and above 2 (asserted)
          Word,           \* number of values of an unsigned int
          Pixel,          \* values of a pixel
          Images,         \* images the filter is called with
          Kernel(_),      \* value of a pixel from the window around it
          Buffers,        \* number of calls of malloc
          Rollback,       \* after a failed malloc: "goto" free_bufs, or "while"
          Unset           \* what memory fresh from malloc holds

Margin == Side \div 2
Point == (0..(Height - 1)) \X (0..(Width - 1))
Offset == (0..(Side - 1)) \X (0..(Side - 1))

(* The samples the loops over j and i read for the pixel at (r, c).        *)
Window(im, r, c) == [p \in Offset |-> im[<<r - Margin + p[1], c - Margin + p[2]>>]]

(* The pixels whose window lies inside the image.                          *)
Central == {p \in Point : /\ Margin <= p[1] /\ p[1] + Margin < Height
                          /\ Margin <= p[2] /\ p[2] + Margin < Width}

ASSUME AreaAssumption ==
  /\ Height \in Nat \ {0}
  /\ Width \in Nat \ {0}
  /\ Side \in Nat /\ Side > 2 /\ Side % 2 = 1
  /\ Word \in Nat /\ Word > Height + Side /\ Word > Width + Side
  /\ Images \subseteq [Point -> Pixel]
  /\ \A im \in Images, p \in Central : Kernel(Window(im, p[1], p[2])) \in Pixel
  /\ Buffers \in Nat \ {0}
  /\ Rollback \in {"goto", "while"}
  /\ Unset \notin Pixel

VARIABLES
  pc,    \* "alloc", "process", "copy", "free", "done", or after undefined
         \* behaviour "outside" (of the image) or "wild" (free of no block)
  img,   \* the caller's image
  orig,  \* the image at the call (never changes)
  res,   \* the working copies of the bitmap
  bufs,  \* buffers allocated and not freed
  row, col,
  ret    \* value returned, -1 before that

vars == <<pc, img, orig, res, bufs, row, col, ret>>

(* Subtraction of unsigned ints.                                           *)
Minus(a, b) == IF b <= a THEN a - b ELSE a - b + Word

(* Mutation: one row too many.                                             *)
RowEnd_Inclusive == Minus(Height, Margin) + 1

RowEnd == Minus(Height, Margin)
ColEnd == Minus(Width, Margin)
Fits(r, c) == r + Margin < Height /\ c + Margin < Width

(* Mutation: the first column is left out.                                 *)
Init_NextColumn ==
  /\ pc = "alloc"
  /\ img \in Images
  /\ orig = img
  /\ res = [p \in Point |-> Unset]
  /\ bufs = 0
  /\ row = Margin /\ col = Margin + 1
  /\ ret = -1

Init ==
  /\ pc = "alloc"
  /\ img \in Images
  /\ orig = img
  /\ res = [p \in Point |-> Unset]
  /\ bufs = 0
  /\ row = Margin /\ col = Margin
  /\ ret = -1

(* Mutation: one buffer too many.                                          *)
Malloc_OneMore ==
  /\ pc = "alloc"
  /\ bufs' = bufs + 1
  /\ pc' = IF bufs = Buffers THEN "process" ELSE "alloc"
  /\ UNCHANGED <<img, orig, res, row, col, ret>>

Malloc ==
  /\ pc = "alloc"
  /\ bufs' = bufs + 1
  /\ pc' = IF bufs + 1 = Buffers THEN "process" ELSE "alloc"
  /\ UNCHANGED <<img, orig, res, row, col, ret>>

(* Mutation: what was allocated before stays allocated.                    *)
MallocFails_Leak ==
  /\ pc = "alloc"
  /\ Rollback = "goto"
  /\ ret' = 1
  /\ pc' = "done"
  /\ UNCHANGED <<img, orig, res, bufs, row, col>>

(* malloc returns NULL and the function gives up with 1.                   *)
MallocFails ==
  /\ pc = "alloc"
  /\ Rollback = "goto"
  /\ bufs' = 0
  /\ ret' = 1
  /\ pc' = "done"
  /\ UNCHANGED <<img, orig, res, row, col>>

(* The index of `while (i >= 0) free(res[i--])' is unsigned: the loop does *)
(* not end but frees what lies before res.                                 *)
MallocFailsWhile ==
  /\ pc = "alloc"
  /\ Rollback = "while"
  /\ bufs' = 0
  /\ pc' = "wild"
  /\ UNCHANGED <<img, orig, res, row, col, ret>>
-----------------------------------------------------------------------------
(* Both passes visit rows Margin..RowEnd-1, columns Margin..ColEnd-1.      *)
AtPixel(p) == pc = p /\ row < RowEnd /\ col < ColEnd

NextPixel == col' = col + 1 /\ UNCHANGED row

(* Mutation: the row is not advanced.                                      *)
NextRow_Again ==
  /\ pc \in {"process", "copy"}
  /\ row < RowEnd /\ col >= ColEnd
  /\ col' = Margin
  /\ UNCHANGED <<pc, img, orig, res, bufs, row, ret>>

NextRow ==
  /\ pc \in {"process", "copy"}
  /\ row < RowEnd /\ col >= ColEnd
  /\ row' = row + 1
  /\ col' = Margin
  /\ UNCHANGED <<pc, img, orig, res, bufs, ret>>

(* Mutation: the result goes straight into the image.                      *)
ProcessPixel_InPlace ==
  /\ AtPixel("process")
  /\ Fits(row, col)
  /\ res' = [res EXCEPT ![<<row, col>>] = Kernel(Window(img, row, col))]
  /\ img' = [img EXCEPT ![<<row, col>>] = res'[<<row, col>>]]
  /\ NextPixel
  /\ UNCHANGED <<pc, orig, bufs, ret>>

ProcessPixel ==
  /\ AtPixel("process")
  /\ Fits(row, col)
  /\ res' = [res EXCEPT ![<<row, col>>] = Kernel(Window(img, row, col))]
  /\ NextPixel
  /\ UNCHANGED <<pc, img, orig, bufs, ret>>

(* The window, or the place in the buffer, is not part of the image.       *)
ProcessOutside ==
  /\ AtPixel("process")
  /\ ~Fits(row, col)
  /\ pc' = "outside"
  /\ UNCHANGED <<img, orig, res, bufs, row, col, ret>>

(* Mutation: the last row is not processed.                                *)
ProcessDone_Early ==
  /\ pc = "process"
  /\ row + 1 >= RowEnd
  /\ pc' = "copy"
  /\ row' = Margin /\ col' = Margin
  /\ UNCHANGED <<img, orig, res, bufs, ret>>

ProcessDone ==
  /\ pc = "process"
  /\ row >= RowEnd
  /\ pc' = "copy"
  /\ row' = Margin /\ col' = Margin
  /\ UNCHANGED <<img, orig, res, bufs, ret>>

CopyPixel ==
  /\ AtPixel("copy")
  /\ img' = [img EXCEPT ![<<row, col>>] = res[<<row, col>>]]
  /\ NextPixel
  /\ UNCHANGED <<pc, orig, res, bufs, ret>>

(* Mutation: the last row is not copied.                                   *)
CopyDone_Early ==
  /\ pc = "copy"
  /\ row + 1 >= RowEnd
  /\ pc' = "free"
  /\ UNCHANGED <<img, orig, res, bufs, row, col, ret>>

CopyDone ==
  /\ pc = "copy"
  /\ row >= RowEnd
  /\ pc' = "free"
  /\ UNCHANGED <<img, orig, res, bufs, row, col, ret>>

Free ==
  /\ pc = "free"
  /\ bufs' = 0
  /\ ret' = 0
  /\ pc' = "done"
  /\ UNCHANGED <<img, orig, res, row, col>>

Ended == pc \in {"done", "outside", "wild"} /\ UNCHANGED vars

Next ==
  \/ Malloc \/ MallocFails \/ MallocFailsWhile
  \/ ProcessPixel \/ ProcessOutside \/ ProcessDone
  \/ CopyPixel \/ CopyDone
  \/ NextRow
  \/ Free
  \/ Ended

Spec == Init /\ [][Next]_vars
FairSpec == Spec /\ WF_vars(Next)
-----------------------------------------------------------------------------
(* Every variable has its type.                                            *)
TypeOK ==
  /\ pc \in {"alloc", "process", "copy", "free", "done", "outside", "wild"}
  /\ img \in [Point -> Pixel]
  /\ orig \in Images
  /\ res \in [Point -> Pixel \cup {Unset}]
  /\ bufs \in 0..Buffers
  /\ row \in Nat /\ col \in Nat
  /\ ret \in {-1, 0, 1}

(* A successful call replaces exactly the pixels whose window lies inside  *)
(* the image, each by the function of its window in the image at the call. *)
Filtered ==
  ret = 0 => img = [p \in Point |->
                      IF p \in Central THEN Kernel(Window(orig, p[1], p[2])) ELSE orig[p]]

(* Until the copying pass, and for good when the call fails, the image is  *)
(* untouched: the samples are those of the original, with no recursion.    *)
SourceIntact == pc \in {"alloc", "process"} \/ ret = 1 => img = orig

(* The copying pass never copies a byte the processing pass did not write, *)
(* although the two loops run over bounds of their own.                    *)
CopiesWhatWasComputed == AtPixel("copy") => res[<<row, col>>] # Unset

(* The result is the filter of the image at the call, through both passes  *)
(* and whatever allocation fails.                                          *)
FilterSound == Filtered /\ SourceIntact /\ CopiesWhatWasComputed

(* An image at least as large as the margin is never read or written       *)
(* outside.                                                                *)
InsideImage == Height >= Margin /\ Width >= Margin => pc # "outside"

(* When it leaves the image it does so at the first pixel it visits: there *)
(* is never a partly filtered image, nor a partly written buffer.          *)
LeavesAtOnce ==
  pc = "outside" => /\ row = Margin /\ col = Margin
                    /\ img = orig
                    /\ \A p \in Point : res[p] = Unset

(* The function returns only with all its buffers freed, and a failing     *)
(* allocation ends in freeing a wild pointer only in the functions that    *)
(* roll back with the unsigned loop.                                       *)
BuffersReturned ==
  /\ pc = "done" => bufs = 0
  /\ pc = "wild" => Rollback = "while" /\ ret = -1

(* No pass leaves the memory it was given, and the function keeps none.    *)
MemorySound == InsideImage /\ LeavesAtOnce /\ BuffersReturned

(* The loops end, for every size of image.                                 *)
Terminates == <>(pc \in {"done", "outside", "wild"})
=============================================================================
