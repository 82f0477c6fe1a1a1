-------------------------- MODULE AreaFilterProofs --------------------------
(***************************************************************************)
(* The area filters are correct for every size of image and window, every  *)
(* kernel and every number of buffers.                                     *)
(*                                                                         *)
(* The argument follows the loops: the pixels before the current one are   *)
(* those the pass has finished with.  Every one of them fits, because the  *)
(* pass would have left the image otherwise; so a pass that ends has seen  *)
(* exactly the central area, also when height-margin wrapped.              *)
(*                                                                         *)
(* The second part is about algo_conv and algo_bindilate, as AreaMC        *)
(* instantiates AreaFilter for them, on images of every size with every    *)
(* level of grey, and on every drawing whose channels are 0 or 255.        *)
(***************************************************************************)
EXTENDS AreaMC, KernelProofs

New(r, c) == Kernel(Window(orig, r, c))
InLoop(r, c) == r \in Margin..(RowEnd - 1) /\ c \in Margin..(ColEnd - 1)
Before(r, c) == r < row \/ (r = row /\ c < col)
Rows == 0..(Height - 1)
Cols == 0..(Width - 1)

Position == row >= Margin /\ col >= Margin

Fresh ==
  pc = "alloc" => /\ row = Margin /\ col = Margin
                  /\ bufs < Buffers
                  /\ img = orig
                  /\ \A p \in Point : res[p] = Unset

AtStart ==
  pc = "process" /\ row = Margin /\ col = Margin => \A p \in Point : res[p] = Unset

Processing ==
  pc = "process" =>
    /\ img = orig
    /\ \A r, c \in Nat : InLoop(r, c) /\ Before(r, c) => Fits(r, c) /\ res[<<r, c>>] = New(r, c)

Copying ==
  pc = "copy" =>
    /\ \A r, c \in Nat : InLoop(r, c) => Fits(r, c) /\ res[<<r, c>>] = New(r, c)
    /\ \A r \in Rows, c \in Cols :
         img[<<r, c>>] = IF InLoop(r, c) /\ Before(r, c) THEN New(r, c) ELSE orig[<<r, c>>]

Finished ==
  pc = "free" \/ ret = 0 =>
    \A r \in Rows, c \in Cols :
      img[<<r, c>>] = IF <<r, c>> \in Central THEN New(r, c) ELSE orig[<<r, c>>]

Returned ==
  /\ ret # -1 => pc = "done"
  /\ ret = 1 => img = orig

Inv == TypeOK /\ Position /\ Fresh /\ AtStart /\ Processing /\ Copying /\ Finished
         /\ Returned /\ LeavesAtOnce /\ InsideImage /\ BuffersReturned
-----------------------------------------------------------------------------
(* The bounds of the loops, with and without the wrap of height-margin.    *)
LEMMA Bounds ==
  /\ Margin \in Nat \ {0} /\ Height \in Nat \ {0} /\ Width \in Nat \ {0}
  /\ RowEnd \in Nat /\ ColEnd \in Nat
  /\ Height >= Margin => RowEnd = Height - Margin
  /\ Width >= Margin => ColEnd = Width - Margin
  /\ Height < Margin => RowEnd > Height
  /\ Width < Margin => ColEnd > Width
BY AreaAssumption DEF Margin, RowEnd, ColEnd, Minus

(* A visited pixel whose window fits lies in the central area.             *)
LEMMA FitCentral ==
  ASSUME NEW r \in Nat, NEW c \in Nat, r >= Margin, c >= Margin, Fits(r, c)
  PROVE  <<r, c>> \in Central /\ <<r, c>> \in Point /\ r \in Rows /\ c \in Cols
BY Bounds DEF Central, Point, Fits, Rows, Cols

(* When one pixel the loops visit fits, all of them do.                    *)
LEMMA OneFitsAllFit ==
  ASSUME NEW r \in Nat, NEW c \in Nat, NEW r1 \in Nat, NEW c1 \in Nat,
         Fits(r, c), InLoop(r, c), InLoop(r1, c1)
  PROVE  Fits(r1, c1)
BY Bounds DEF Fits, InLoop

(* In an image no smaller than the margin every visited pixel fits.        *)
LEMMA LargeFits ==
  ASSUME Height >= Margin, Width >= Margin, NEW r \in Nat, NEW c \in Nat, InLoop(r, c)
  PROVE  Fits(r, c)
BY Bounds DEF Fits, InLoop

(* The central area is part of what the loops visit.                       *)
LEMMA CentralInLoop ==
  ASSUME NEW r \in Rows, NEW c \in Cols
  PROVE  <<r, c>> \in Central <=> Fits(r, c) /\ InLoop(r, c)
BY Bounds DEF Central, Fits, InLoop, Point, Rows, Cols

(* A new value is a pixel.                                                 *)
LEMMA NewPixel ==
  ASSUME TypeOK, NEW r \in Nat, NEW c \in Nat, <<r, c>> \in Central
  PROVE  New(r, c) \in Pixel
BY AreaAssumption DEF New, TypeOK

(* Every pixel of the image has a row and a column.                        *)
LEMMA PointIs == Point = Rows \X Cols
BY DEF Point, Rows, Cols
-----------------------------------------------------------------------------
(* The invariant holds at the call.                                        *)
LEMMA InitInv == Init => Inv
<1> SUFFICES ASSUME Init PROVE Inv
  OBVIOUS
<1> USE DEF Init
<1>1. TypeOK
  BY AreaAssumption, Bounds DEF TypeOK, Point
<1>2. Position /\ Fresh /\ AtStart /\ Processing /\ Copying
  BY AreaAssumption, Bounds DEF Position, Fresh, AtStart, Processing, Copying
<1>3. Finished /\ Returned /\ LeavesAtOnce /\ InsideImage /\ BuffersReturned
  BY DEF Finished, Returned, LeavesAtOnce, InsideImage, BuffersReturned
<1> QED BY <1>1, <1>2, <1>3 DEF Inv

(* A call of malloc.                                                       *)
LEMMA MallocInv == Inv /\ (Malloc \/ MallocFails \/ MallocFailsWhile) => Inv'
<1> SUFFICES ASSUME Inv, Malloc \/ MallocFails \/ MallocFailsWhile PROVE Inv'
  OBVIOUS
<1> USE DEF Malloc, MallocFails, MallocFailsWhile
<1>0. TypeOK /\ Fresh /\ Returned /\ Position /\ pc = "alloc"
  BY DEF Inv
<1>1. TypeOK'
  BY <1>0, AreaAssumption DEF TypeOK, Fresh
<1>2. Position' /\ Fresh' /\ AtStart'
  BY <1>0, AreaAssumption DEF Position, Fresh, AtStart, TypeOK
<1>3. Processing'
  BY <1>0, Bounds DEF Processing, Fresh, Before, InLoop
<1>4. Copying' /\ Finished'
  BY <1>0 DEF Copying, Finished, Returned
<1>5. Returned' /\ LeavesAtOnce' /\ InsideImage' /\ BuffersReturned'
  BY <1>0 DEF Returned, LeavesAtOnce, InsideImage, BuffersReturned, Fresh, TypeOK
<1> QED BY <1>1, <1>2, <1>3, <1>4, <1>5 DEF Inv

(* The next row of either pass: no pixel changes sides.                    *)
LEMMA NextRowInv == Inv /\ NextRow => Inv'
<1> SUFFICES ASSUME Inv, NextRow PROVE Inv'
  OBVIOUS
<1> USE DEF NextRow
<1>0. TypeOK /\ Position /\ Processing /\ Copying /\ Finished /\ Returned
  BY DEF Inv
<1>1. TypeOK'
  BY <1>0, Bounds DEF TypeOK
<1>2. Position' /\ Fresh' /\ AtStart'
  BY <1>0, Bounds DEF Position, Fresh, AtStart, TypeOK
<1>3. ASSUME NEW r \in Nat, NEW c \in Nat, InLoop(r, c)
      PROVE  Before(r, c)' <=> Before(r, c)
  BY <1>0, <1>3, Bounds DEF InLoop, Before, TypeOK
<1>4. Processing'
  BY <1>0, <1>3 DEF Processing, New
<1>5. Copying'
  BY <1>0, <1>3 DEF Copying, New, Rows, Cols
<1>6. Finished' /\ Returned'
  BY <1>0 DEF Finished, Returned, New
<1>7. LeavesAtOnce' /\ InsideImage' /\ BuffersReturned'
  BY DEF LeavesAtOnce, InsideImage, BuffersReturned
<1> QED BY <1>1, <1>2, <1>4, <1>5, <1>6, <1>7 DEF Inv

(* One pixel of the processing pass.                                       *)
LEMMA ProcessPixelInv == Inv /\ ProcessPixel => Inv'
<1> SUFFICES ASSUME Inv, ProcessPixel PROVE Inv'
  OBVIOUS
<1> USE DEF ProcessPixel, AtPixel, NextPixel
<1>0. TypeOK /\ Position /\ Processing /\ Returned
  BY DEF Inv
<1>1. <<row, col>> \in Central /\ <<row, col>> \in Point
  BY <1>0, FitCentral DEF TypeOK, Position
<1>2. New(row, col) \in Pixel /\ res' = [res EXCEPT ![<<row, col>>] = New(row, col)]
  BY <1>0, <1>1, NewPixel DEF Processing, New, TypeOK
<1>3. TypeOK'
  BY <1>0, <1>1, <1>2 DEF TypeOK
<1>4. Position' /\ Fresh' /\ AtStart'
  BY <1>0, Bounds DEF Position, Fresh, AtStart, TypeOK
<1>5. Processing'
  <2> SUFFICES ASSUME NEW r \in Nat, NEW c \in Nat, InLoop(r, c), Before(r, c)'
               PROVE  Fits(r, c) /\ res'[<<r, c>>] = New(r, c)'
    BY <1>0 DEF Processing
  <2>1. New(r, c)' = New(r, c)
    BY DEF New
  <2>2. CASE r = row /\ c = col
    BY <2>1, <2>2, <1>0, <1>1, <1>2 DEF TypeOK
  <2>3. CASE ~(r = row /\ c = col)
    <3>1. Before(r, c)
      BY <2>3, <1>0 DEF Before, TypeOK
    <3>2. Fits(r, c) /\ res[<<r, c>>] = New(r, c)
      BY <3>1, <1>0 DEF Processing
    <3>3. <<r, c>> \in Point
      BY <3>2, FitCentral, Bounds DEF InLoop
    <3>4. <<r, c>> # <<row, col>>
      BY <2>3
    <3> QED BY <2>1, <3>2, <3>3, <3>4, <1>0, <1>2 DEF TypeOK
  <2> QED BY <2>2, <2>3
<1>6. Copying' /\ Finished' /\ Returned'
  BY <1>0 DEF Copying, Finished, Returned
<1>7. LeavesAtOnce' /\ InsideImage' /\ BuffersReturned'
  BY DEF LeavesAtOnce, InsideImage, BuffersReturned
<1> QED BY <1>3, <1>4, <1>5, <1>6, <1>7 DEF Inv

(* The pass leaves the image: only at its first pixel, only in an image    *)
(* smaller than the margin.                                                *)
LEMMA ProcessOutsideInv == Inv /\ ProcessOutside => Inv'
<1> SUFFICES ASSUME Inv, ProcessOutside PROVE Inv'
  OBVIOUS
<1> USE DEF ProcessOutside, AtPixel
<1>0. TypeOK /\ Position /\ Processing /\ Returned /\ AtStart
  BY DEF Inv
<1>1. InLoop(row, col) /\ InLoop(Margin, Margin)
  BY <1>0, Bounds DEF InLoop, TypeOK, Position
<1>2. ~(Height >= Margin /\ Width >= Margin)
  BY <1>0, <1>1, LargeFits DEF TypeOK
<1>3. row = Margin /\ col = Margin
  <2> SUFFICES ASSUME ~(row = Margin /\ col = Margin) PROVE FALSE
    OBVIOUS
  <2>1. Before(Margin, Margin)
    BY <1>0, Bounds DEF Before, TypeOK, Position
  <2>2. Fits(Margin, Margin)
    BY <2>1, <1>0, <1>1, Bounds DEF Processing
  <2> QED BY <2>2, <1>0, <1>1, OneFitsAllFit, Bounds DEF TypeOK
<1>4. TypeOK' /\ Position' /\ Fresh' /\ AtStart' /\ Processing' /\ Copying'
  BY <1>0 DEF TypeOK, Position, Fresh, AtStart, Processing, Copying
<1>5. Finished' /\ Returned' /\ BuffersReturned'
  BY <1>0 DEF Finished, Returned, BuffersReturned
<1>6. LeavesAtOnce' /\ InsideImage'
  BY <1>0, <1>2, <1>3 DEF LeavesAtOnce, InsideImage, AtStart, Processing
<1> QED BY <1>4, <1>5, <1>6 DEF Inv

(* The processing pass ends: every pixel of the loops has been visited.    *)
LEMMA ProcessDoneInv == Inv /\ ProcessDone => Inv'
<1> SUFFICES ASSUME Inv, ProcessDone PROVE Inv'
  OBVIOUS
<1> USE DEF ProcessDone
<1>0. TypeOK /\ Position /\ Processing /\ Returned
  BY DEF Inv
<1>1. TypeOK' /\ Position' /\ Fresh' /\ AtStart' /\ Processing'
  BY <1>0, Bounds DEF TypeOK, Position, Fresh, AtStart, Processing
<1>2. ASSUME NEW r \in Nat, NEW c \in Nat, InLoop(r, c)
      PROVE  Fits(r, c) /\ res'[<<r, c>>] = New(r, c)' /\ ~Before(r, c)'
  <2>1. Before(r, c)
    BY <1>0, <1>2, Bounds DEF InLoop, Before, TypeOK
  <2>2. ~Before(r, c)'
    BY <1>2, Bounds DEF InLoop, Before
  <2> QED BY <2>1, <2>2, <1>0, <1>2 DEF Processing, New
<1>3. Copying'
  BY <1>0, <1>2 DEF Copying, Processing, Rows, Cols
<1>4. Finished' /\ Returned' /\ LeavesAtOnce' /\ InsideImage' /\ BuffersReturned'
  BY <1>0 DEF Finished, Returned, LeavesAtOnce, InsideImage, BuffersReturned
<1> QED BY <1>1, <1>3, <1>4 DEF Inv

(* One pixel of the copying pass.                                          *)
LEMMA CopyPixelInv == Inv /\ CopyPixel => Inv'
<1> SUFFICES ASSUME Inv, CopyPixel PROVE Inv'
  OBVIOUS
<1> USE DEF CopyPixel, AtPixel, NextPixel
<1>0. TypeOK /\ Position /\ Copying /\ Returned
  BY DEF Inv
<1>1. InLoop(row, col)
  BY <1>0, Bounds DEF InLoop, TypeOK, Position
<1>2. Fits(row, col) /\ res[<<row, col>>] = New(row, col)
  BY <1>0, <1>1 DEF Copying, TypeOK
<1>3. <<row, col>> \in Central /\ <<row, col>> \in Point
  BY <1>0, <1>2, FitCentral DEF TypeOK, Position
<1>4. New(row, col) \in Pixel
  BY <1>0, <1>3, NewPixel DEF TypeOK
<1>5. TypeOK'
  BY <1>0, <1>2, <1>3, <1>4 DEF TypeOK
<1>6. Position' /\ Fresh' /\ AtStart' /\ Processing'
  BY <1>0, Bounds DEF Position, Fresh, AtStart, Processing, TypeOK
<1>7. Copying'
  <2>1. \A r, c \in Nat : New(r, c)' = New(r, c)
    BY DEF New
  <2>2. ASSUME NEW r \in Nat, NEW c \in Nat, InLoop(r, c)
        PROVE  Fits(r, c) /\ res'[<<r, c>>] = New(r, c)'
    BY <2>1, <2>2, <1>0 DEF Copying
  <2>3. ASSUME NEW r \in Rows, NEW c \in Cols
        PROVE  img'[<<r, c>>] = IF InLoop(r, c) /\ Before(r, c)'
                                  THEN New(r, c)' ELSE orig'[<<r, c>>]
    <3>1. r \in Nat /\ c \in Nat /\ <<r, c>> \in Point
      BY PointIs, Bounds DEF Rows, Cols
    <3>2. CASE r = row /\ c = col
      <4>1. Before(r, c)'
        BY <3>2, <1>0 DEF Before, TypeOK
      <4>2. img'[<<r, c>>] = New(r, c)
        BY <3>2, <1>0, <1>2, <1>3 DEF TypeOK
      <4> QED BY <4>1, <4>2, <3>1, <3>2, <2>1, <1>1
    <3>3. CASE ~(r = row /\ c = col)
      <4>1. Before(r, c)' <=> Before(r, c)
        BY <3>1, <3>3, <1>0 DEF Before, TypeOK
      <4>2. <<r, c>> # <<row, col>>
        BY <3>3
      <4>3. img'[<<r, c>>] = img[<<r, c>>]
        BY <4>2, <3>1, <1>0 DEF TypeOK
      <4> QED BY <4>1, <4>3, <3>1, <2>1, <1>0 DEF Copying
    <3> QED BY <3>2, <3>3
  <2> QED BY <2>2, <2>3 DEF Copying
<1>8. Finished' /\ Returned' /\ LeavesAtOnce' /\ InsideImage' /\ BuffersReturned'
  BY <1>0 DEF Finished, Returned, LeavesAtOnce, InsideImage, BuffersReturned, TypeOK
<1> QED BY <1>5, <1>6, <1>7, <1>8 DEF Inv

(* The copying pass ends: it has seen exactly the central area.            *)
LEMMA CopyDoneInv == Inv /\ CopyDone => Inv'
<1> SUFFICES ASSUME Inv, CopyDone PROVE Inv'
  OBVIOUS
<1> USE DEF CopyDone
<1>0. TypeOK /\ Position /\ Copying /\ Returned
  BY DEF Inv
<1>1. TypeOK' /\ Position' /\ Fresh' /\ AtStart' /\ Processing' /\ Copying'
  BY <1>0 DEF TypeOK, Position, Fresh, AtStart, Processing, Copying
<1>2. ASSUME NEW r \in Rows, NEW c \in Cols
      PROVE  img'[<<r, c>>] = IF <<r, c>> \in Central THEN New(r, c)' ELSE orig'[<<r, c>>]
  <2>1. r \in Nat /\ c \in Nat
    BY Bounds DEF Rows, Cols
  <2>2. InLoop(r, c) => Fits(r, c) /\ Before(r, c)
    <3>1. InLoop(r, c) => Fits(r, c)
      BY <2>1, <1>0 DEF Copying
    <3>2. InLoop(r, c) => Before(r, c)
      BY <2>1, <1>0, Bounds DEF InLoop, Before, TypeOK
    <3> QED BY <3>1, <3>2
  <2>3. InLoop(r, c) /\ Before(r, c) <=> <<r, c>> \in Central
    BY <2>2, CentralInLoop
  <2>4. New(r, c)' = New(r, c)
    BY DEF New
  <2> QED BY <2>3, <2>4, <1>0 DEF Copying
<1>3. Finished'
  BY <1>2 DEF Finished
<1>4. Returned' /\ LeavesAtOnce' /\ InsideImage' /\ BuffersReturned'
  BY <1>0 DEF Returned, LeavesAtOnce, InsideImage, BuffersReturned
<1> QED BY <1>1, <1>3, <1>4 DEF Inv

(* The buffers are freed and the function returns.                         *)
LEMMA FreeInv == Inv /\ Free => Inv'
<1> SUFFICES ASSUME Inv, Free PROVE Inv'
  OBVIOUS
<1> USE DEF Free
<1>0. TypeOK /\ Position /\ Finished
  BY DEF Inv
<1>1. TypeOK' /\ Position' /\ Fresh' /\ AtStart' /\ Processing' /\ Copying'
  BY <1>0, AreaAssumption DEF TypeOK, Position, Fresh, AtStart, Processing, Copying
<1>2. Finished'
  BY <1>0 DEF Finished, New
<1>3. Returned' /\ LeavesAtOnce' /\ InsideImage' /\ BuffersReturned'
  BY <1>0 DEF Returned, LeavesAtOnce, InsideImage, BuffersReturned
<1> QED BY <1>1, <1>2, <1>3 DEF Inv

(* Nothing changes.                                                        *)
LEMMA StutterInv == Inv /\ UNCHANGED vars => Inv'
<1> SUFFICES ASSUME Inv, UNCHANGED vars PROVE Inv'
  OBVIOUS
<1> USE DEF vars
<1>1. TypeOK' /\ Position' /\ Fresh' /\ AtStart'
  BY DEF Inv, TypeOK, Position, Fresh, AtStart
<1>2. Processing' /\ Copying'
  BY DEF Inv, Processing, Copying, Before, New
<1>3. Finished' /\ Returned' /\ LeavesAtOnce' /\ InsideImage' /\ BuffersReturned'
  BY DEF Inv, Finished, New, Returned, LeavesAtOnce, InsideImage, BuffersReturned
<1> QED BY <1>1, <1>2, <1>3 DEF Inv

(* Every step preserves the invariant.                                     *)
LEMMA StepInv == Inv /\ [Next]_vars => Inv'
BY MallocInv, NextRowInv, ProcessPixelInv, ProcessOutsideInv, ProcessDoneInv,
   CopyPixelInv, CopyDoneInv, FreeInv, StutterInv
DEF Next, Ended

(* The invariant holds throughout the call.                                *)
THEOREM Invariance == Spec => []Inv
BY InitInv, StepInv, PTL DEF Spec

(* Every variable keeps its type.                                          *)
THEOREM TypeCorrect == Spec => []TypeOK
<1>1. Inv => TypeOK
  BY DEF Inv
<1> QED BY <1>1, Invariance, PTL

(* A successful call replaces exactly the central area, each pixel by the  *)
(* kernel of its window in the image the function was called with.         *)
THEOREM FilterCorrect == Spec => []Filtered
<1>1. Inv => Filtered
  <2> SUFFICES ASSUME Inv, ret = 0 PROVE img = [p \in Point |->
                 IF p \in Central THEN Kernel(Window(orig, p[1], p[2])) ELSE orig[p]]
    BY DEF Filtered
  <2>1. img \in [Point -> Pixel]
    BY DEF Inv, TypeOK
  <2>2. ASSUME NEW p \in Point
        PROVE  img[p] = IF p \in Central THEN Kernel(Window(orig, p[1], p[2])) ELSE orig[p]
    <3>1. p[1] \in Rows /\ p[2] \in Cols /\ p = <<p[1], p[2]>>
      BY PointIs
    <3>2. img[<<p[1], p[2]>>] = IF <<p[1], p[2]>> \in Central
                                  THEN New(p[1], p[2]) ELSE orig[<<p[1], p[2]>>]
      BY <3>1 DEF Inv, Finished
    <3> QED BY <3>1, <3>2 DEF New
  <2> QED BY <2>1, <2>2
<1> QED BY <1>1, Invariance, PTL

(* While a filter still reads the image, and when it fails, the image is   *)
(* the one it was called with.                                             *)
THEOREM SourceKept == Spec => []SourceIntact
<1>1. Inv => SourceIntact
  BY DEF Inv, SourceIntact, Fresh, Processing, Returned
<1> QED BY <1>1, Invariance, PTL

(* Only computed bytes are copied into the image.                          *)
THEOREM CopiesComputed == Spec => []CopiesWhatWasComputed
<1>1. Inv => CopiesWhatWasComputed
  <2> SUFFICES ASSUME Inv, AtPixel("copy") PROVE res[<<row, col>>] # Unset
    BY DEF CopiesWhatWasComputed
  <2>0. TypeOK /\ Position /\ Copying
    BY DEF Inv
  <2>1. InLoop(row, col)
    BY <2>0, Bounds DEF AtPixel, InLoop, TypeOK, Position
  <2>2. Fits(row, col) /\ res[<<row, col>>] = New(row, col)
    BY <2>0, <2>1 DEF Copying, TypeOK, AtPixel
  <2>3. New(row, col) \in Pixel
    BY <2>0, <2>2, FitCentral, NewPixel DEF TypeOK, Position
  <2> QED BY <2>2, <2>3, AreaAssumption
<1> QED BY <1>1, Invariance, PTL

(* An image at least as large as the margin is never left; a smaller one   *)
(* is left, if at all, at the first pixel.                                 *)
THEOREM NeverLeaves == Spec => [](InsideImage /\ LeavesAtOnce)
<1>1. Inv => InsideImage /\ LeavesAtOnce
  BY DEF Inv
<1> QED BY <1>1, Invariance, PTL

(* A filter returns with no buffer left allocated.                         *)
THEOREM NoBufferLeft == Spec => []BuffersReturned
<1>1. Inv => BuffersReturned
  BY DEF Inv
<1> QED BY <1>1, Invariance, PTL

(* The result of a call is the filter of the image at the call.            *)
THEOREM FilterAlwaysSound == Spec => []FilterSound
  BY FilterCorrect, SourceKept, CopiesComputed, PTL DEF FilterSound

(* No pass leaves the image unless it is smaller than the margin, and the  *)
(* function keeps no buffer.                                               *)
THEOREM MemoryAlwaysSound == Spec => []MemorySound
  BY NeverLeaves, NoBufferLeft, PTL DEF MemorySound

-----------------------------------------------------------------------------
(* algo_conv and algo_bindilate *)

Full == [Channels -> {0, 255}]
MixedSetting ==
  /\ Side = 3
  /\ \A w : Kernel(w) = MCKernel(w)
  /\ Images \subseteq [Point -> Samples] \cup [Point -> Full]

(* The sum over the nine cells of a window.                                *)
LEMMA SumOfNine ==
  ASSUME NEW f \in [0..8 -> Int]
  PROVE  SumUpTo(f, 9) = f[0] + f[1] + f[2] + f[3] + f[4] + f[5] + f[6] + f[7] + f[8]
<1>1. 9 \in Nat /\ f \in [0..(9 - 1) -> Int]
  OBVIOUS
<1>2. PICK s : PartialSums(s, f, 9)
  BY <1>1, SumUpToPartial
<1>3. s[0] = 0 /\ \A k \in 1..9 : s[k] = s[k - 1] + f[k - 1]
  BY <1>2 DEF PartialSums
<1>4. /\ s[1] = s[0] + f[0] /\ s[2] = s[1] + f[1] /\ s[3] = s[2] + f[2]
      /\ s[4] = s[3] + f[3] /\ s[5] = s[4] + f[4] /\ s[6] = s[5] + f[5]
      /\ s[7] = s[6] + f[6] /\ s[8] = s[7] + f[7] /\ s[9] = s[8] + f[8]
  BY <1>3
<1>5. SumUpTo(f, 9) = s[9]
  BY <1>2 DEF PartialSums
<1>6. \A k \in 0..8 : f[k] \in Int
  OBVIOUS
<1>. QED
  BY <1>3, <1>4, <1>5, <1>6

(* The weights of emboss1-matrix, and those of the full matrix without one *)
(* corner.                                                                 *)
LEMMA EmbossWeights ==
  /\ Emboss1[<<0, 0>>] = -2 /\ Emboss1[<<0, 1>>] = -1 /\ Emboss1[<<0, 2>>] = 0
  /\ Emboss1[<<1, 0>>] = -1 /\ Emboss1[<<1, 1>>] = 1 /\ Emboss1[<<1, 2>>] = 1
  /\ Emboss1[<<2, 0>>] = 0 /\ Emboss1[<<2, 1>>] = 1 /\ Emboss1[<<2, 2>>] = 2
  BY DEF Emboss1, Cells

LEMMA CellsInOrder ==
  /\ CellAt(3, 0) = <<0, 0>> /\ CellAt(3, 1) = <<0, 1>> /\ CellAt(3, 2) = <<0, 2>>
  /\ CellAt(3, 3) = <<1, 0>> /\ CellAt(3, 4) = <<1, 1>> /\ CellAt(3, 5) = <<1, 2>>
  /\ CellAt(3, 6) = <<2, 0>> /\ CellAt(3, 7) = <<2, 1>> /\ CellAt(3, 8) = <<2, 2>>
  BY DEF CellAt

LEMMA EmbossedSum ==
  ASSUME NEW w \in [Cells(3) -> Level]
  PROVE  WeightedSum(w, Emboss1, 3) =
           (2 * w[<<2, 2>>] + w[<<2, 1>>] + w[<<1, 2>>] + w[<<1, 1>>])
             - (2 * w[<<0, 0>>] + w[<<0, 1>>] + w[<<1, 0>>])
<1>. DEFINE f == [n \in 0..8 |-> w[CellAt(3, n)] * Emboss1[CellAt(3, n)]]
<1>1. WeightedSum(w, Emboss1, 3) = SumUpTo(f, 9)
  BY DEF WeightedSum
<1>2. \A o \in Cells(3) : w[o] \in Int
  BY DEF Level
<1>3. /\ <<0, 0>> \in Cells(3) /\ <<0, 1>> \in Cells(3) /\ <<0, 2>> \in Cells(3)
      /\ <<1, 0>> \in Cells(3) /\ <<1, 1>> \in Cells(3) /\ <<1, 2>> \in Cells(3)
      /\ <<2, 0>> \in Cells(3) /\ <<2, 1>> \in Cells(3) /\ <<2, 2>> \in Cells(3)
  BY DEF Cells
<1>4. /\ f[0] = w[<<0, 0>>] * (-2) /\ f[1] = w[<<0, 1>>] * (-1) /\ f[2] = w[<<0, 2>>] * 0
      /\ f[3] = w[<<1, 0>>] * (-1) /\ f[4] = w[<<1, 1>>] * 1 /\ f[5] = w[<<1, 2>>] * 1
      /\ f[6] = w[<<2, 0>>] * 0 /\ f[7] = w[<<2, 1>>] * 1 /\ f[8] = w[<<2, 2>>] * 2
  BY EmbossWeights, CellsInOrder
<1>5. f \in [0..8 -> Int]
  <2>1. \A n \in 0..8 : n \in {0, 1, 2, 3, 4, 5, 6, 7, 8}
    OBVIOUS
  <2>2. f[0] \in Int /\ f[1] \in Int /\ f[2] \in Int /\ f[3] \in Int /\ f[4] \in Int
        /\ f[5] \in Int /\ f[6] \in Int /\ f[7] \in Int /\ f[8] \in Int
    <3>. HIDE DEF f
    <3>. QED BY <1>2, <1>3, <1>4
  <2>3. f = [n \in 0..8 |-> f[n]]
    OBVIOUS
  <2>. HIDE DEF f
  <2>4. \A n \in 0..8 : f[n] \in Int
    BY <2>1, <2>2
  <2>. QED BY <2>3, <2>4
<1>. HIDE DEF f
<1>6. SumUpTo(f, 9) = f[0] + f[1] + f[2] + f[3] + f[4] + f[5] + f[6] + f[7] + f[8]
  BY <1>5, SumOfNine
<1>. QED
  BY <1>1, <1>2, <1>3, <1>4, <1>6
-----------------------------------------------------------------------------
(* The images of the setting.                                              *)
LEMMA SettingIs ==
  ASSUME MixedSetting
  PROVE  Margin = 1 /\ Offset = Cells(3)
<1>1. Margin = 1
  BY DEF MixedSetting, Margin
<1>. QED
  BY <1>1 DEF MixedSetting, Offset, Cells

LEMMA CentralIs ==
  ASSUME MixedSetting, NEW p \in Central
  PROVE  /\ p \in Point /\ p[1] \in Int /\ p[2] \in Int /\ p = <<p[1], p[2]>>
         /\ \A i, j \in -1..1 : <<p[1] + i, p[2] + j>> \in Point
         /\ <<0, 0>> \in Point
<1>1. p \in Point /\ Margin = 1 /\ Height \in Nat \ {0} /\ Width \in Nat \ {0}
  BY SettingIs, AreaAssumption DEF Central
<1>2. /\ p[1] \in 0..(Height - 1) /\ p[2] \in 0..(Width - 1) /\ p = <<p[1], p[2]>>
      /\ 1 <= p[1] /\ p[1] + 1 < Height /\ 1 <= p[2] /\ p[2] + 1 < Width
  BY <1>1 DEF Central, Point
<1>3. ASSUME NEW i \in -1..1, NEW j \in -1..1
      PROVE  <<p[1] + i, p[2] + j>> \in Point
  <2>1. p[1] + i \in 0..(Height - 1) /\ p[2] + j \in 0..(Width - 1)
    BY <1>1, <1>2
  <2>. QED BY <2>1 DEF Point
<1>. QED
  BY <1>1, <1>2, <1>3 DEF Point

(* The window around a central pixel.                                      *)
LEMMA WindowIs ==
  ASSUME MixedSetting, NEW im, NEW p \in Central
  PROVE  /\ Window(im, p[1], p[2]) = [o \in Cells(3) |-> im[<<p[1] - 1 + o[1], p[2] - 1 + o[2]>>]]
         /\ \A o \in Cells(3) : <<p[1] - 1 + o[1], p[2] - 1 + o[2]>> \in Point
<1>1. Window(im, p[1], p[2]) = [o \in Cells(3) |-> im[<<p[1] - 1 + o[1], p[2] - 1 + o[2]>>]]
  BY SettingIs DEF Window
<1>2. ASSUME NEW o \in Cells(3) PROVE <<p[1] - 1 + o[1], p[2] - 1 + o[2]>> \in Point
  <2>1. o[1] \in 0..2 /\ o[2] \in 0..2 /\ p[1] \in Int /\ p[2] \in Int
    <3>1. p[1] \in Int /\ p[2] \in Int
      BY CentralIs
    <3>. QED BY <3>1 DEF Cells
  <2>2. o[1] - 1 \in -1..1 /\ o[2] - 1 \in -1..1
    BY <2>1
  <2>3. p[1] + (o[1] - 1) = p[1] - 1 + o[1] /\ p[2] + (o[2] - 1) = p[2] - 1 + o[2]
    BY <2>1
  <2>4. <<p[1] + (o[1] - 1), p[2] + (o[2] - 1)>> \in Point
    BY <2>2, CentralIs
  <2>. QED BY <2>3, <2>4
<1>. QED
  BY <1>1, <1>2

LEMMA NeighbourIs ==
  ASSUME MixedSetting, NEW im, NEW p \in Central, NEW i \in -1..1, NEW j \in -1..1
  PROVE  /\ <<1 + i, 1 + j>> \in Cells(3)
         /\ Window(im, p[1], p[2])[<<1 + i, 1 + j>>] = im[<<p[1] + i, p[2] + j>>]
<1>1. <<1 + i, 1 + j>> \in Cells(3)
  BY DEF Cells
<1>2. p[1] - 1 + (1 + i) = p[1] + i /\ p[2] - 1 + (1 + j) = p[2] + j
  <2>1. p[1] \in Int /\ p[2] \in Int
    BY CentralIs
  <2>. QED BY <2>1
<1>3. Window(im, p[1], p[2])[<<1 + i, 1 + j>>] = im[<<p[1] - 1 + (1 + i), p[2] - 1 + (1 + j)>>]
  <2>1. Window(im, p[1], p[2]) = [o \in Cells(3) |-> im[<<p[1] - 1 + o[1], p[2] - 1 + o[2]>>]]
    BY WindowIs, Zenon
  <2>. QED BY <1>1, <2>1
<1>. QED
  BY <1>1, <1>2, <1>3

LEMMA CentreIs ==
  ASSUME MixedSetting, NEW im, NEW p \in Central
  PROVE  Window(im, p[1], p[2])[Centre(3)] = im[p]
<1>1. 0 \in -1..1 /\ Centre(3) = <<1 + 0, 1 + 0>> /\ p = <<p[1] + 0, p[2] + 0>>
  <2>1. p[1] \in Int /\ p[2] \in Int /\ p = <<p[1], p[2]>>
    BY CentralIs
  <2>. QED BY <2>1 DEF Centre
<1>2. Window(im, p[1], p[2])[<<1 + 0, 1 + 0>>] = im[<<p[1] + 0, p[2] + 0>>]
  BY <1>1, NeighbourIs
<1>. QED
  BY <1>1, <1>2

(* An image is one of levels or a drawing, at every point.                 *)
LEMMA KindOfImage ==
  ASSUME MixedSetting, TypeOK, NEW p \in Point
  PROVE  /\ Drawn(orig[p]) => orig \in [Point -> Full]
         /\ ~ Drawn(orig[p]) => orig \in [Point -> Samples]
<1>1. orig \in [Point -> Samples] \cup [Point -> Full]
  BY DEF MixedSetting, TypeOK
<1>2. orig \in [Point -> Samples] => ~ Drawn(orig[p])
  BY DEF Samples, Sample, Drawn, Channels
<1>3. orig \in [Point -> Full] => Drawn(orig[p])
  BY DEF Full, Drawn
<1>. QED
  BY <1>1, <1>2, <1>3

(* What a call that returned made of a central pixel.                      *)
LEMMA FilteredPixel ==
  ASSUME MixedSetting, TypeOK, Filtered, ret = 0, NEW p \in Central
  PROVE  /\ Drawn(orig[<<0, 0>>]) =>
              /\ orig \in [Point -> Full]
              /\ img[p] = DilateKernel(Window(orig, p[1], p[2]), Corner, 3)
         /\ ~ Drawn(orig[<<0, 0>>]) =>
              /\ orig \in [Point -> Samples]
              /\ img[p] = Sample(ConvKernel([o \in Cells(3) |-> Window(orig, p[1], p[2])[o]["level"]],
                                            Emboss1, 3, Div, Shift))
<1>. DEFINE w == Window(orig, p[1], p[2])
<1>1. p \in Point /\ <<0, 0>> \in Point
  BY CentralIs
<1>2. img[p] = MCKernel(w)
  BY <1>1 DEF Filtered, MixedSetting
<1>3. w[Centre(3)] = orig[p]
  BY CentreIs
<1>4. Drawn(orig[p]) <=> Drawn(orig[<<0, 0>>])
  <2>1. orig \in [Point -> Full] => Drawn(orig[<<0, 0>>]) /\ Drawn(orig[p])
    BY <1>1 DEF Full, Drawn
  <2>2. orig \in [Point -> Samples] => ~ Drawn(orig[<<0, 0>>]) /\ ~ Drawn(orig[p])
    BY <1>1 DEF Samples, Sample, Drawn, Channels
  <2>. QED BY <1>1, <2>1, <2>2, KindOfImage
<1>. QED
  BY <1>1, <1>2, <1>3, <1>4, KindOfImage DEF MCKernel
-----------------------------------------------------------------------------
(* algo_conv: the weighted sum of the neighbours, divided as C divides,    *)
(* shifted and clamped.                                                    *)
IsConvolved(new, sum) ==
  \E q \in Quotients :
    /\ IsQuotient(q, sum, Div)
    /\ \/ q + Shift \in Level /\ new = q + Shift
       \/ q + Shift < 0 /\ new = 0
       \/ q + Shift > 255 /\ new = 255

LEMMA DivideAndClamp ==
  ASSUME NEW sum \in Int, -1020 <= sum, sum <= 1275
  PROVE  IsConvolved(Clamp(Shift + CDiv(sum, Div)), sum)
<1>. DEFINE q == CDiv(sum, 2)
<1>1. /\ q \in Int /\ sum - q * 2 < 2 /\ 0 - (sum - q * 2) < 2
      /\ sum - q * 2 = 0 \/ (sum - q * 2 > 0) = (sum > 0)
  BY CDivQuotient
<1>. HIDE DEF q
<1>2. q \in Quotients
  BY <1>1 DEF Quotients
<1>3. IsQuotient(q, sum, 2)
  BY <1>1 DEF IsQuotient
<1>4. \/ q + 100 \in Level /\ Clamp(100 + q) = q + 100
      \/ q + 100 < 0 /\ Clamp(100 + q) = 0
      \/ q + 100 > 255 /\ Clamp(100 + q) = 255
  BY <1>1 DEF Clamp, Level
<1>. QED
  <2>1. IsConvolved(Clamp(100 + q), sum)
    <3>. DEFINE v == Clamp(100 + q)
    <3>1. \/ q + 100 \in Level /\ v = q + 100
          \/ q + 100 < 0 /\ v = 0
          \/ q + 100 > 255 /\ v = 255
      BY <1>4
    <3>. HIDE DEF v
    <3>2. \E r \in Quotients :
            /\ IsQuotient(r, sum, 2)
            /\ \/ r + 100 \in Level /\ v = r + 100
               \/ r + 100 < 0 /\ v = 0
               \/ r + 100 > 255 /\ v = 255
      BY <1>2, <1>3, <3>1, Zenon
    <3>. QED BY <3>2, Zenon DEF IsConvolved, Div, Shift, v
  <2>. QED BY <2>1 DEF q, Div, Shift

(* The levels under the window at p, as algo_conv gives them to the sum.   *)
LevelsAt(p) == [o \in Cells(3) |-> Window(orig, p[1], p[2])[o]["level"]]
LevelAt(p, i, j) == orig[<<p[1] + i, p[2] + j>>]["level"]
Embossed(p) ==
  (2 * LevelAt(p, 1, 1) + LevelAt(p, 1, 0) + LevelAt(p, 0, 1) + LevelAt(p, 0, 0))
    - (2 * LevelAt(p, -1, -1) + LevelAt(p, -1, 0) + LevelAt(p, 0, -1))

LEMMA LevelsOfWindow ==
  ASSUME MixedSetting, orig \in [Point -> Samples], NEW p \in Central
  PROVE  /\ LevelsAt(p) \in [Cells(3) -> Level]
         /\ \A i, j \in -1..1 : /\ LevelsAt(p)[<<1 + i, 1 + j>>] = LevelAt(p, i, j)
                                /\ LevelAt(p, i, j) \in Level
<1>1. \A n \in Point : orig[n]["level"] \in Level
  BY DEF Samples, Sample
<1>2. /\ \A o \in Cells(3) : <<p[1] - 1 + o[1], p[2] - 1 + o[2]>> \in Point
      /\ Window(orig, p[1], p[2]) = [o \in Cells(3) |-> orig[<<p[1] - 1 + o[1], p[2] - 1 + o[2]>>]]
  BY WindowIs, Zenon
<1>3. \A i, j \in -1..1 :
        /\ <<1 + i, 1 + j>> \in Cells(3)
        /\ Window(orig, p[1], p[2])[<<1 + i, 1 + j>>] = orig[<<p[1] + i, p[2] + j>>]
  BY NeighbourIs
<1>4. \A i, j \in -1..1 : <<p[1] + i, p[2] + j>> \in Point
  BY CentralIs, Zenon
<1>5. \A o \in Cells(3) : LevelsAt(p)[o] = Window(orig, p[1], p[2])[o]["level"]
  BY DEF LevelsAt
<1>6. LevelsAt(p) \in [Cells(3) -> Level]
  BY <1>1, <1>2 DEF LevelsAt
<1>7. ASSUME NEW i \in -1..1, NEW j \in -1..1
      PROVE  LevelsAt(p)[<<1 + i, 1 + j>>] = LevelAt(p, i, j) /\ LevelAt(p, i, j) \in Level
  BY <1>1, <1>3, <1>4, <1>5, Zenon DEF LevelAt
<1>. QED
  BY <1>6, <1>7

LEMMA EmbossedIs ==
  ASSUME MixedSetting, orig \in [Point -> Samples], NEW p \in Central
  PROVE  /\ WeightedSum(LevelsAt(p), Emboss1, 3) = Embossed(p)
         /\ Embossed(p) \in Int /\ -1020 <= Embossed(p) /\ Embossed(p) <= 1275
<1>. DEFINE s == LevelsAt(p)
<1>1. WeightedSum(s, Emboss1, 3) =
        (2 * s[<<2, 2>>] + s[<<2, 1>>] + s[<<1, 2>>] + s[<<1, 1>>])
          - (2 * s[<<0, 0>>] + s[<<0, 1>>] + s[<<1, 0>>])
  BY LevelsOfWindow, EmbossedSum
<1>2. 1 \in -1..1 /\ 0 \in -1..1 /\ -1 \in -1..1
  OBVIOUS
<1>3. ASSUME NEW i \in -1..1, NEW j \in -1..1
      PROVE  /\ s[<<1 + i, 1 + j>>] = LevelAt(p, i, j)
             /\ LevelAt(p, i, j) \in 0..255
  <2>1. s[<<1 + i, 1 + j>>] = LevelAt(p, i, j) /\ LevelAt(p, i, j) \in Level
    BY LevelsOfWindow, Zenon
  <2>. QED BY <2>1 DEF Level
<1>. HIDE DEF s
<1>4. /\ s[<<1 + 1, 1 + 1>>] = LevelAt(p, 1, 1) /\ s[<<1 + 1, 1 + 0>>] = LevelAt(p, 1, 0)
      /\ s[<<1 + 0, 1 + 1>>] = LevelAt(p, 0, 1) /\ s[<<1 + 0, 1 + 0>>] = LevelAt(p, 0, 0)
      /\ s[<<1 + (-1), 1 + (-1)>>] = LevelAt(p, -1, -1) /\ s[<<1 + (-1), 1 + 0>>] = LevelAt(p, -1, 0)
      /\ s[<<1 + 0, 1 + (-1)>>] = LevelAt(p, 0, -1)
  BY <1>2, <1>3, Zenon
<1>5. /\ s[<<2, 2>>] = LevelAt(p, 1, 1) /\ s[<<2, 1>>] = LevelAt(p, 1, 0)
      /\ s[<<1, 2>>] = LevelAt(p, 0, 1) /\ s[<<1, 1>>] = LevelAt(p, 0, 0)
      /\ s[<<0, 0>>] = LevelAt(p, -1, -1) /\ s[<<0, 1>>] = LevelAt(p, -1, 0)
      /\ s[<<1, 0>>] = LevelAt(p, 0, -1)
  BY <1>4
<1>6. /\ LevelAt(p, 1, 1) \in 0..255 /\ LevelAt(p, 1, 0) \in 0..255 /\ LevelAt(p, 0, 1) \in 0..255
      /\ LevelAt(p, 0, 0) \in 0..255 /\ LevelAt(p, -1, -1) \in 0..255
      /\ LevelAt(p, -1, 0) \in 0..255 /\ LevelAt(p, 0, -1) \in 0..255
  BY <1>2, <1>3, Zenon
<1>7. WeightedSum(s, Emboss1, 3) = Embossed(p)
  BY <1>1, <1>5 DEF Embossed
<1>8. Embossed(p) \in Int /\ -1020 <= Embossed(p) /\ Embossed(p) <= 1275
  <2>. DEFINE a == LevelAt(p, 1, 1)
              b == LevelAt(p, 1, 0)
              c == LevelAt(p, 0, 1)
              d == LevelAt(p, 0, 0)
              e == LevelAt(p, -1, -1)
              f == LevelAt(p, -1, 0)
              g == LevelAt(p, 0, -1)
              v == (2 * a + b + c + d) - (2 * e + f + g)
  <2>1. a \in 0..255 /\ b \in 0..255 /\ c \in 0..255 /\ d \in 0..255
        /\ e \in 0..255 /\ f \in 0..255 /\ g \in 0..255
    BY <1>6, Zenon
  <2>2. Embossed(p) = v
    BY DEF Embossed
  <2>. HIDE DEF a, b, c, d, e, f, g
  <2>3. v \in Int /\ -1020 <= v /\ v <= 1275
    BY <2>1
  <2>. QED BY <2>2, <2>3
<1>. QED
  BY <1>7, <1>8 DEF s

LEMMA ConvolvedIsNormalised ==
  ASSUME MixedSetting, TypeOK, Filtered
  PROVE  Normalised
<1>1. ASSUME NEW p \in Convolved
      PROVE  IsConvolved(img[p]["level"], Embossed(p))
  <2>1. ret = 0 /\ ~ Drawn(orig[<<0, 0>>]) /\ p \in Central
    BY DEF Convolved
  <2>2. /\ orig \in [Point -> Samples]
        /\ img[p] = Sample(ConvKernel(LevelsAt(p), Emboss1, 3, Div, Shift))
    BY <2>1, FilteredPixel DEF LevelsAt
  <2>3. img[p]["level"] = Clamp(Shift + CDiv(Embossed(p), Div))
    BY <2>1, <2>2, EmbossedIs DEF ConvKernel, Sample
  <2>. QED BY <2>1, <2>2, <2>3, EmbossedIs, DivideAndClamp
<1>. QED
  BY <1>1 DEF Normalised, IsConvolved, Embossed, LevelAt

(* Every pixel that algo_conv has replaced is the weighted sum of its      *)
(* neighbours, divided and shifted, at every size of image.                *)
THEOREM AlwaysNormalised ==
  ASSUME MixedSetting
  PROVE  Spec => []Normalised
<1>1. TypeOK /\ Filtered => Normalised
  BY ConvolvedIsNormalised
<1>. QED
  BY <1>1, TypeCorrect, FilterCorrect, PTL
-----------------------------------------------------------------------------
(* algo_bindilate and algo_binerode.                                       *)
LEMMA InkIs ==
  /\ Black \in Full
  /\ \A c \in Full : c # Black <=> \E k \in Channels : c[k] \in Level \ {0}
<1>1. Black = [k \in Channels |-> 0]
  BY DEF Black, Grey
<1>2. ASSUME NEW c \in Full PROVE c # Black <=> \E k \in Channels : c[k] \in Level \ {0}
  <2>1. c = [k \in Channels |-> c[k]] /\ \A k \in Channels : c[k] \in {0, 255}
    BY DEF Full
  <2>2. 255 \in Level \ {0} /\ 0 \notin Level \ {0}
    BY DEF Level
  <2>. QED BY <1>1, <2>1, <2>2
<1>. QED
  BY <1>1, <1>2 DEF Full

LEMMA DilationSpreads ==
  ASSUME MixedSetting, TypeOK, Filtered
  PROVE  Spread
<1>. SUFFICES ASSUME NEW p \in Dilated
              PROVE  LET near == {n \in Point : /\ n # p /\ n # <<p[1] - 1, p[2] - 1>>
                                                /\ n[1] - p[1] \in -1..1 /\ n[2] - p[2] \in -1..1}
                     IN  img[p] = IF \E n \in near : orig[n] # Black THEN White ELSE Black
  BY DEF Spread
<1>. DEFINE near == {n \in Point : /\ n # p /\ n # <<p[1] - 1, p[2] - 1>>
                                   /\ n[1] - p[1] \in -1..1 /\ n[2] - p[2] \in -1..1}
            w == Window(orig, p[1], p[2])
            cells == {o \in Cells(3) \ {Centre(3)} : Corner[o] # 0}
<1>1. ret = 0 /\ Drawn(orig[<<0, 0>>]) /\ p \in Central
  BY DEF Dilated
<1>2. orig \in [Point -> Full] /\ img[p] = DilateKernel(w, Corner, 3)
  BY <1>1, FilteredPixel
<1>3. /\ p \in Point /\ p[1] \in Int /\ p[2] \in Int /\ p = <<p[1], p[2]>>
      /\ \A i, j \in -1..1 : <<p[1] + i, p[2] + j>> \in Point
  BY <1>1, CentralIs
<1>4. cells = {o \in Cells(3) : o # <<1, 1>> /\ o # <<0, 0>>}
  BY DEF Corner, Centre
<1>5. ASSUME NEW n \in near
      PROVE  \E o \in cells : w[o] = orig[n]
  <2>. DEFINE i == n[1] - p[1]
              j == n[2] - p[2]
  <2>1. n = <<n[1], n[2]>> /\ n[1] \in Int /\ n[2] \in Int
    BY DEF Point
  <2>2. i \in -1..1 /\ j \in -1..1 /\ n # p /\ n # <<p[1] - 1, p[2] - 1>>
    OBVIOUS
  <2>3. n[1] = p[1] + i /\ n[2] = p[2] + j
    BY <1>3, <2>1
  <2>. HIDE DEF i, j
  <2>4. <<1 + i, 1 + j>> \in Cells(3) /\ w[<<1 + i, 1 + j>>] = orig[n]
    <3>1. <<1 + i, 1 + j>> \in Cells(3) /\ w[<<1 + i, 1 + j>>] = orig[<<p[1] + i, p[2] + j>>]
      BY <1>1, <2>2, NeighbourIs
    <3>2. n = <<p[1] + i, p[2] + j>>
      BY <2>1, <2>3
    <3>. QED BY <3>1, <3>2
  <2>5. ~ (i = 0 /\ j = 0)
    BY <1>3, <2>1, <2>2, <2>3
  <2>6. ~ (i = -1 /\ j = -1)
    <3>1. i = -1 /\ j = -1 => n = <<p[1] - 1, p[2] - 1>>
      BY <1>3, <2>1, <2>3
    <3>. QED BY <2>2, <3>1
  <2>7. <<1 + i, 1 + j>> # <<1, 1>> /\ <<1 + i, 1 + j>> # <<0, 0>>
    BY <2>2, <2>5, <2>6
  <2>. QED BY <1>4, <2>4, <2>7
<1>6. ASSUME NEW o \in cells
      PROVE  \E n \in near : w[o] = orig[n]
  <2>. DEFINE i == o[1] - 1
              j == o[2] - 1
              n == <<p[1] + i, p[2] + j>>
  <2>1. o = <<o[1], o[2]>> /\ o[1] \in 0..2 /\ o[2] \in 0..2 /\ o # <<1, 1>> /\ o # <<0, 0>>
    BY <1>4 DEF Cells
  <2>2. i \in -1..1 /\ j \in -1..1 /\ o[1] = 1 + i /\ o[2] = 1 + j
    BY <2>1
  <2>3. ~ (i = 0 /\ j = 0) /\ ~ (i = -1 /\ j = -1)
    BY <2>1
  <2>. HIDE DEF i, j
  <2>4. n \in Point /\ w[o] = orig[n]
    <3>1. w[<<1 + i, 1 + j>>] = orig[<<p[1] + i, p[2] + j>>]
      BY <1>1, <2>2, NeighbourIs
    <3>2. o = <<1 + i, 1 + j>>
      BY <2>1, <2>2
    <3>. QED BY <1>3, <2>2, <3>1, <3>2
  <2>5. n[1] = p[1] + i /\ n[2] = p[2] + j
    OBVIOUS
  <2>. HIDE DEF n
  <2>6. n[1] - p[1] = i /\ n[2] - p[2] = j
    BY <1>3, <2>2, <2>5
  <2>7. n # p
    BY <1>3, <2>2, <2>3, <2>6
  <2>8. n # <<p[1] - 1, p[2] - 1>>
    <3>1. n = <<p[1] - 1, p[2] - 1>> => n[1] = p[1] - 1 /\ n[2] = p[2] - 1
      OBVIOUS
    <3>. QED BY <1>3, <2>2, <2>3, <2>5, <3>1
  <2>. QED BY <2>2, <2>4, <2>6, <2>7, <2>8
<1>. HIDE DEF near, w
<1>7. (\E n \in near : orig[n] # Black) <=> \E o \in cells : w[o] # Black
  BY <1>5, <1>6
<1>8. \A o \in cells : w[o] \in Full
  <2>1. near \subseteq Point
    BY DEF near
  <2>. QED BY <1>2, <1>6, <2>1
<1>9. Detected(w, Corner, 3, Level \ {0}) <=> \E o \in cells : w[o] # Black
  BY <1>8, InkIs DEF Detected
<1>10. img[p] = IF \E n \in near : orig[n] # Black THEN White ELSE Black
  BY <1>2, <1>7, <1>9 DEF DilateKernel, White, Black
<1>. QED
  BY <1>10 DEF near

LEMMA ErosionIsDual ==
  ASSUME MixedSetting, TypeOK, Filtered
  PROVE  Dual
<1>. SUFFICES ASSUME NEW p \in Dilated
              PROVE  LET Negative(c) == [k \in Channels |-> 255 - c[k]]
                         w == Window(orig, p[1], p[2])
                     IN  ErodeKernel([o \in Cells(3) |-> Negative(w[o])], Corner, 3) = Negative(img[p])
  BY DEF Dual
<1>. DEFINE w == Window(orig, p[1], p[2])
<1>1. ret = 0 /\ Drawn(orig[<<0, 0>>]) /\ p \in Central
  BY DEF Dilated
<1>2. orig \in [Point -> Full] /\ img[p] = DilateKernel(w, Corner, 3)
  BY <1>1, FilteredPixel
<1>3. w \in [Cells(3) -> [Channels -> {0, 255}]]
  <2>1. /\ w = [o \in Cells(3) |-> orig[<<p[1] - 1 + o[1], p[2] - 1 + o[2]>>]]
        /\ \A o \in Cells(3) : <<p[1] - 1 + o[1], p[2] - 1 + o[2]>> \in Point
    BY <1>1, WindowIs, Zenon
  <2>. HIDE DEF w
  <2>. QED BY <1>2, <2>1 DEF Full
<1>. HIDE DEF w
<1>4. ErodeKernel([o \in Cells(3) |-> Opposite(w[o])], Corner, 3) = Opposite(DilateKernel(w, Corner, 3))
  BY <1>3, ErodeIsDualOfDilate
<1>. QED
  BY <1>2, <1>4 DEF w, Opposite

(* Dilation spreads what is not black along the matrix, and erosion is its *)
(* dual, at every size of image and on every drawing of full channels.     *)
THEOREM AlwaysMorphology ==
  ASSUME MixedSetting
  PROVE  Spec => []Morphology
<1>1. TypeOK /\ Filtered => Morphology
  BY DilationSpreads, ErosionIsDual DEF Morphology
<1>. QED
  BY <1>1, TypeCorrect, FilterCorrect, PTL
-----------------------------------------------------------------------------
(* The images of AreaMC are of the setting, in images three columns wide.  *)
LEMMA MixedImagesAreOfTheSetting ==
  ASSUME Width = 3
  PROVE  MixedImages \subseteq [Point -> Samples] \cup [Point -> Full]
<1>1. Spots \subseteq [Point -> Samples]
  <2>1. \A v \in {0, 37, 255} \cup {0, 101, 255} \cup {100} : Sample(v) \in Samples
    BY DEF Samples, Level
  <2>. HIDE DEF Sample
  <2>. QED BY <2>1 DEF Spots
<1>2. Drawings \subseteq [Point -> Full]
  <2>1. ASSUME NEW x \in Point PROVE <<x[1] % 3, x[2]>> \in Cells(3)
    <3>1. x[1] \in Int /\ x[2] \in 0..2
      BY AreaAssumption DEF Point
    <3>. QED BY <3>1 DEF Cells
  <2>2. Black \in Full /\ White \in Full /\ Blue \in Full
    BY DEF Black, White, Blue, Grey, Full
  <2>. SUFFICES ASSUME NEW f \in Drawings
                PROVE  f \in [Point -> Full]
    OBVIOUS
  <2>3. PICK c \in {White, Blue} : \E d \in [Cells(3) -> {Black, c}] :
                                       f = [x \in Point |-> d[<<x[1] % 3, x[2]>>]]
    BY Zenon DEF Drawings
  <2>4. PICK d \in [Cells(3) -> {Black, c}] : f = [x \in Point |-> d[<<x[1] % 3, x[2]>>]]
    BY <2>3, Zenon
  <2>5. \A o \in Cells(3) : d[o] \in Full
    BY <2>2
  <2>. QED BY <2>1, <2>4, <2>5
<1>. QED
  BY <1>1, <1>2 DEF MixedImages
=============================================================================
