--------------------------- MODULE ControlProofs ---------------------------
(***************************************************************************)
(* Proofs about errors, *catch and interrupts, for stacks of any depth.    *)
(*                                                                         *)
(* Inv is inductive and holds always.  Steady says that the list of catch  *)
(* frames and the frames on the stack agree, and where the collector is;   *)
(* Adrift, that the leval_catch a longjmp went to has still to take the    *)
(* frames above it off the list, or that an interrupt came before it did.  *)
(* NoHook is inductive relative to Inv and holds when *after-gc* holds no  *)
(* expression; it says what the flags mean in terms of the stack.          *)
(***************************************************************************)
EXTENDS Control, TLAPS

FrameRec == [kind : Kind, tag : Tag, next : Seq(Nat), flag : {0, 1}, target : Nat]

(* c lists the catch frames of s, innermost first, with the rest of the    *)
(* list in each frame.                                                     *)
Linked(c, s) ==
  /\ \A k \in 1..Len(c) :
       /\ c[k] \in 1..Len(s)
       /\ s[c[k]].kind \in Catching
       /\ s[c[k]].next = SubSeq(c, k + 1, Len(c))
       /\ \A j \in 1..Len(c) : j < k => c[j] > c[k]
  /\ \A i \in 1..Len(s) : s[i].kind \in Catching => \E k \in 1..Len(c) : c[k] = i

(* The frame err goes to lies below it and is a catch frame.               *)
Aimed(s) ==
  \A i \in 1..Len(s) :
    (s[i].kind = "err" /\ s[i].target # 0) \/ s[i].kind = "jump" =>
      s[i].target \in 1..(i - 1) /\ s[s[i].target].kind \in Catching

Shape(c, s) == c \in Seq(Nat) /\ s \in Seq(FrameRec) /\ Linked(c, s) /\ Aimed(s)

Clear(s) == \A i \in 1..Len(s) : s[i].kind # "gc"

(* The collector is always on top, with interrupts off, and only there is  *)
(* errjmp_ok clear.                                                        *)
Collecting ==
  /\ \A i \in 1..Len(stack) : stack[i].kind = "gc" => i = Len(stack) /\ nointerrupt = 1
  /\ errjmp_ok = 0 => stack # <<>> /\ Top.kind = "gc"

Steady == TypeOK /\ Shape(catch_framep, stack) /\ Collecting /\ status = "running"

(* After the first n frames of the list, which are gone, the list is good. *)
Stale(c, s, n) ==
  /\ Shape(SubSeq(c, n + 1, Len(c)), s)
  /\ \A k \in 1..n : c[k] > Len(s)

Adrift ==
  /\ TypeOK
  /\ stack # <<>> /\ Top.kind = "landed"
  /\ Clear(stack) /\ errjmp_ok = 1
  /\ status # "fatal" /\ (status = "astray" => ~Win32)
  /\ \E n \in 1..Len(catch_framep) : Stale(catch_framep, stack, n)

Inv == Steady \/ Adrift
-----------------------------------------------------------------------------
(* The frames made here are frames.                                        *)
LEMMA FrameType ==
  ASSUME NEW k \in Kind, NEW t \in Tag, NEW n \in Seq(Nat), NEW f \in {0, 1}, NEW g \in Nat
  PROVE  Frame(k, t, n, f, g) \in FrameRec
BY DEF Frame, FrameRec

(* Places in a list and in its rest.                                       *)
LEMMA Shift ==
  ASSUME NEW n \in Nat, NEW j \in 1..(n + 1), j # 1
  PROVE  \E m \in 1..n : j = m + 1
<1>1. j - 1 \in 1..n /\ j = (j - 1) + 1
  OBVIOUS
<1> QED BY <1>1

LEMMA Offset ==
  ASSUME NEW n \in Nat, NEW k \in 1..n, NEW m \in 1..(n - k)
  PROVE  k + m \in 1..n
OBVIOUS

(* What the links say of one place in the list, and of one catch frame.    *)
LEMMA LinkedAt ==
  ASSUME NEW s \in Seq(FrameRec), NEW c \in Seq(Nat), Linked(c, s), NEW k \in 1..Len(c)
  PROVE  /\ c[k] \in 1..Len(s)
         /\ s[c[k]].kind \in Catching
         /\ s[c[k]].next = SubSeq(c, k + 1, Len(c))
BY DEF Linked

LEMMA LinkedOrder ==
  ASSUME NEW s \in Seq(FrameRec), NEW c \in Seq(Nat), Linked(c, s),
         NEW k \in 1..Len(c), NEW j \in 1..Len(c), j < k
  PROVE  c[j] > c[k]
BY DEF Linked

LEMMA LinkedHas ==
  ASSUME NEW s \in Seq(FrameRec), NEW c \in Seq(Nat), Linked(c, s),
         NEW i \in 1..Len(s), s[i].kind \in Catching
  PROVE  \E k \in 1..Len(c) : c[k] = i
BY DEF Linked

(* Appending a frame that is no catch frame.                               *)
LEMMA AppendLinked ==
  ASSUME NEW s \in Seq(FrameRec), NEW c \in Seq(Nat), Linked(c, s),
         NEW f \in FrameRec, f.kind \notin Catching
  PROVE  Linked(c, Append(s, f))
<1> DEFINE t == Append(s, f)
<1>1. /\ Len(t) = Len(s) + 1 /\ t[Len(s) + 1] = f
      /\ \A i \in 1..Len(s) : t[i] = s[i]
  OBVIOUS
<1>2. ASSUME NEW k \in 1..Len(c)
      PROVE  /\ c[k] \in 1..Len(t)
             /\ t[c[k]].kind \in Catching
             /\ t[c[k]].next = SubSeq(c, k + 1, Len(c))
             /\ \A j \in 1..Len(c) : j < k => c[j] > c[k]
  BY <1>1, LinkedAt, LinkedOrder
<1>3. ASSUME NEW i \in 1..Len(t), t[i].kind \in Catching
      PROVE  \E k \in 1..Len(c) : c[k] = i
  <2>1. i \in 1..Len(s) /\ s[i].kind \in Catching
    BY <1>1, <1>3
  <2> QED BY <2>1, LinkedHas
<1> QED BY <1>2, <1>3 DEF Linked

(* Appending a catch frame and linking it.                                 *)
LEMMA EnterLinked ==
  ASSUME NEW s \in Seq(FrameRec), NEW c \in Seq(Nat), Linked(c, s),
         NEW f \in FrameRec, f.kind \in Catching, f.next = c
  PROVE  Linked(<<Len(s) + 1>> \o c, Append(s, f))
<1> DEFINE d == <<Len(s) + 1>> \o c
<1> DEFINE t == Append(s, f)
<1>1. /\ d \in Seq(Nat) /\ Len(d) = Len(c) + 1 /\ d[1] = Len(s) + 1
      /\ \A k \in 1..Len(c) : d[k + 1] = c[k]
  OBVIOUS
<1>2. /\ Len(t) = Len(s) + 1 /\ t[Len(s) + 1] = f
      /\ \A i \in 1..Len(s) : t[i] = s[i]
  OBVIOUS
<1>3. \A k \in 0..Len(c) : SubSeq(d, k + 2, Len(d)) = SubSeq(c, k + 1, Len(c))
  BY <1>1
<1>4. SubSeq(c, 1, Len(c)) = c
  OBVIOUS
<1>5. ASSUME NEW k \in 1..Len(d)
      PROVE  /\ d[k] \in 1..Len(t)
             /\ t[d[k]].kind \in Catching
             /\ t[d[k]].next = SubSeq(d, k + 1, Len(d))
             /\ \A j \in 1..Len(d) : j < k => d[j] > d[k]
  <2>1. CASE k = 1
    <3>1. SubSeq(d, k + 1, Len(d)) = c
      BY <2>1, <1>3, <1>4
    <3> QED BY <2>1, <3>1, <1>1, <1>2
  <2>2. CASE k # 1
    <3>1. PICK m \in 1..Len(c) : k = m + 1
      BY <2>2, <1>1
    <3>2. d[k] = c[m] /\ c[m] \in 1..Len(s) /\ t[d[k]] = s[c[m]]
      BY <3>1, <1>1, <1>2, LinkedAt
    <3>3. t[d[k]].kind \in Catching /\ t[d[k]].next = SubSeq(c, m + 1, Len(c))
      BY <3>2, LinkedAt
    <3>4. SubSeq(c, m + 1, Len(c)) = SubSeq(d, k + 1, Len(d))
      BY <3>1, <1>3
    <3>5. ASSUME NEW j \in 1..Len(d), j < k PROVE d[j] > d[k]
      <4>1. CASE j = 1
        BY <4>1, <3>2, <1>1
      <4>2. CASE j # 1
        <5>1. Len(c) \in Nat /\ j \in 1..(Len(c) + 1)
          BY <1>1
        <5>2. PICK n \in 1..Len(c) : j = n + 1
          BY <4>2, <5>1, Shift
        <5>3. n < m
          BY <5>2, <3>1, <3>5
        <5> QED BY <5>2, <5>3, <3>2, <1>1, LinkedOrder
      <4> QED BY <4>1, <4>2
    <3>6. d[k] \in 1..Len(t)
      BY <3>2, <1>2
    <3> QED BY <3>3, <3>4, <3>5, <3>6
  <2> QED BY <2>1, <2>2
<1>6. ASSUME NEW i \in 1..Len(t), t[i].kind \in Catching
      PROVE  \E k \in 1..Len(d) : d[k] = i
  <2>1. CASE i = Len(s) + 1
    BY <2>1, <1>1
  <2>2. CASE i # Len(s) + 1
    <3>1. i \in 1..Len(s) /\ s[i].kind \in Catching
      BY <2>2, <1>2, <1>6
    <3>2. PICK k \in 1..Len(c) : c[k] = i
      BY <3>1, LinkedHas
    <3>3. k + 1 \in 1..Len(d) /\ d[k + 1] = i
      BY <3>2, <1>1
    <3> QED BY <3>3
  <2> QED BY <2>1, <2>2
<1> HIDE DEF d, t
<1>7. Linked(d, t)
  BY <1>5, <1>6 DEF Linked
<1> QED BY <1>7 DEF d, t

(* Cutting the stack at a catch frame and taking the list from that frame. *)
LEMMA CutLinked ==
  ASSUME NEW s \in Seq(FrameRec), NEW c \in Seq(Nat), Linked(c, s),
         NEW i \in 1..Len(s), s[i].kind \in Catching
  PROVE  Linked(s[i].next, SubSeq(s, 1, i - 1))
<1>1. PICK k \in 1..Len(c) : c[k] = i
  BY LinkedHas
<1> DEFINE d == SubSeq(c, k + 1, Len(c))
<1> DEFINE t == SubSeq(s, 1, i - 1)
<1>2. s[i].next = d
  BY <1>1, LinkedAt
<1>3. /\ d \in Seq(Nat) /\ Len(d) = Len(c) - k
      /\ \A m \in 1..Len(d) : d[m] = c[k + m]
  BY <1>1
<1>4. Len(t) = i - 1 /\ \A m \in 1..Len(t) : t[m] = s[m]
  OBVIOUS
<1>5. \A m \in 1..Len(d) : SubSeq(d, m + 1, Len(d)) = SubSeq(c, k + m + 1, Len(c))
  BY <1>1, <1>3
<1>6. ASSUME NEW m \in 1..Len(d)
      PROVE  /\ d[m] \in 1..Len(t)
             /\ t[d[m]].kind \in Catching
             /\ t[d[m]].next = SubSeq(d, m + 1, Len(d))
             /\ \A j \in 1..Len(d) : j < m => d[j] > d[m]
  <2>0. k + m \in 1..Len(c)
    BY <1>1, <1>3, Offset
  <2>1. PICK n \in 1..Len(c) : n = k + m /\ d[m] = c[n]
    BY <2>0, <1>3
  <2>2. c[n] \in 1..Len(s) /\ s[c[n]].kind \in Catching /\ s[c[n]].next = SubSeq(c, n + 1, Len(c))
    BY LinkedAt
  <2>3. k < n
    BY <2>1, <1>3
  <2>4. i > c[n]
    BY <2>3, <1>1, LinkedOrder
  <2>5. d[m] \in 1..Len(t)
    <3>1. c[n] \in 1..(i - 1)
      BY <2>2, <2>4
    <3> QED BY <3>1, <2>1, <1>4
  <2>6. t[d[m]] = s[c[n]]
    BY <2>1, <2>5, <1>4
  <2>7. SubSeq(c, n + 1, Len(c)) = SubSeq(d, m + 1, Len(d))
    BY <2>1, <1>5
  <2>8. ASSUME NEW j \in 1..Len(d), j < m PROVE d[j] > d[m]
    <3>0. k + j \in 1..Len(c)
      BY <1>1, <1>3, Offset
    <3>1. PICK q \in 1..Len(c) : q = k + j /\ d[j] = c[q]
      BY <3>0, <1>3
    <3>2. q < n
      BY <3>1, <2>1, <2>8, <1>3
    <3> QED BY <3>1, <3>2, <2>1, LinkedOrder
  <2> QED BY <2>2, <2>5, <2>6, <2>7, <2>8
<1>7. ASSUME NEW j \in 1..Len(t), t[j].kind \in Catching
      PROVE  \E m \in 1..Len(d) : d[m] = j
  <2>1. j \in 1..Len(s) /\ s[j].kind \in Catching /\ j < i
    BY <1>7, <1>4
  <2>2. PICK n \in 1..Len(c) : c[n] = j
    BY <2>1, LinkedHas
  <2>3. n # k
    BY <2>1, <2>2, <1>1
  <2>4. ~(n < k)
    <3> SUFFICES ASSUME n < k PROVE FALSE
      OBVIOUS
    <3>1. c[n] > c[k]
      BY LinkedOrder
    <3> QED BY <3>1, <2>1, <2>2, <1>1
  <2>5. PICK m \in 1..Len(d) : n = k + m
    BY <2>3, <2>4, <1>1, <1>3
  <2>6. d[m] = j
    BY <2>5, <2>2, <1>3
  <2> QED BY <2>6
<1> HIDE DEF d, t
<1>8. Linked(d, t)
  BY <1>6, <1>7 DEF Linked
<1> QED BY <1>8, <1>2 DEF d, t
-----------------------------------------------------------------------------
(* A frame that is no catch frame is pushed; an err frame has a target in  *)
(* the list.                                                               *)
LEMMA PushShape ==
  ASSUME NEW c, NEW s, Shape(c, s), NEW f \in FrameRec,
         f.kind \notin Catching \union {"jump"},
         f.kind = "err" /\ f.target # 0 => \E k \in 1..Len(c) : f.target = c[k]
  PROVE  Shape(c, Append(s, f))
<1> DEFINE t == Append(s, f)
<1>1. c \in Seq(Nat) /\ s \in Seq(FrameRec) /\ Linked(c, s) /\ Aimed(s)
  BY DEF Shape
<1>2. /\ t \in Seq(FrameRec) /\ Len(t) = Len(s) + 1 /\ t[Len(s) + 1] = f
      /\ \A i \in 1..Len(s) : t[i] = s[i]
  BY <1>1
<1>3. Linked(c, t)
  BY <1>1, AppendLinked
<1>4. ASSUME NEW i \in 1..Len(t),
             (t[i].kind = "err" /\ t[i].target # 0) \/ t[i].kind = "jump"
      PROVE  t[i].target \in 1..(i - 1) /\ t[t[i].target].kind \in Catching
  <2>1. CASE i = Len(s) + 1
    <3>1. PICK k \in 1..Len(c) : f.target = c[k]
      BY <2>1, <1>2, <1>4
    <3>2. c[k] \in 1..Len(s) /\ s[c[k]].kind \in Catching
      BY <1>1, LinkedAt
    <3> QED BY <3>1, <3>2, <2>1, <1>2
  <2>2. CASE i # Len(s) + 1
    <3>1. i \in 1..Len(s) /\ t[i] = s[i]
      BY <2>2, <1>2
    <3>2. s[i].target \in 1..(i - 1) /\ s[s[i].target].kind \in Catching
      BY <3>1, <1>1, <1>4 DEF Aimed
    <3>3. s[i].target \in 1..Len(s)
      BY <3>1, <3>2
    <3> QED BY <3>1, <3>2, <3>3, <1>2
  <2> QED BY <2>1, <2>2
<1> HIDE DEF t
<1>5. Shape(c, t)
  BY <1>1, <1>2, <1>3, <1>4 DEF Shape, Aimed
<1> QED BY <1>5 DEF t

(* Appending a frame that aims nowhere.                                    *)
LEMMA AppendAimed ==
  ASSUME NEW s \in Seq(FrameRec), Aimed(s), NEW f \in FrameRec, f.kind \notin {"err", "jump"}
  PROVE  Aimed(Append(s, f))
<1> DEFINE t == Append(s, f)
<1>1. /\ Len(t) = Len(s) + 1 /\ t[Len(s) + 1] = f
      /\ \A i \in 1..Len(s) : t[i] = s[i]
  OBVIOUS
<1>2. ASSUME NEW i \in 1..Len(t),
             (t[i].kind = "err" /\ t[i].target # 0) \/ t[i].kind = "jump"
      PROVE  t[i].target \in 1..(i - 1) /\ t[t[i].target].kind \in Catching
  <2>1. i \in 1..Len(s) /\ t[i] = s[i]
    BY <1>1, <1>2
  <2>2. s[i].target \in 1..(i - 1) /\ s[s[i].target].kind \in Catching
    BY <2>1, <1>2 DEF Aimed
  <2>3. s[i].target \in 1..Len(s)
    BY <2>1, <2>2
  <2> QED BY <2>1, <2>2, <2>3, <1>1
<1> HIDE DEF t
<1>3. Aimed(t)
  BY <1>2 DEF Aimed
<1> QED BY <1>3 DEF t

LEMMA PushClear ==
  ASSUME NEW s \in Seq(FrameRec), Clear(s), NEW f \in FrameRec, f.kind # "gc"
  PROVE  Clear(Append(s, f))
BY DEF Clear

(* Cutting the stack anywhere keeps the aims of the frames that are left.  *)
LEMMA CutAimed ==
  ASSUME NEW s \in Seq(FrameRec), Aimed(s), NEW n \in 0..Len(s)
  PROVE  Aimed(SubSeq(s, 1, n)) /\ SubSeq(s, 1, n) \in Seq(FrameRec)
<1> DEFINE t == SubSeq(s, 1, n)
<1>1. t \in Seq(FrameRec) /\ Len(t) = n /\ \A i \in 1..n : t[i] = s[i]
  OBVIOUS
<1>2. ASSUME NEW i \in 1..Len(t),
             (t[i].kind = "err" /\ t[i].target # 0) \/ t[i].kind = "jump"
      PROVE  t[i].target \in 1..(i - 1) /\ t[t[i].target].kind \in Catching
  <2>1. i \in 1..n /\ i \in 1..Len(s) /\ t[i] = s[i]
    BY <1>1
  <2>2. s[i].target \in 1..(i - 1) /\ s[s[i].target].kind \in Catching
    BY <2>1, <1>2 DEF Aimed
  <2>3. s[i].target \in 1..n
    BY <2>1, <2>2
  <2> QED BY <2>1, <2>2, <2>3, <1>1
<1> HIDE DEF t
<1>3. Aimed(t) /\ t \in Seq(FrameRec)
  BY <1>1, <1>2 DEF Aimed
<1> QED BY <1>3 DEF t

LEMMA CutShape ==
  ASSUME NEW c, NEW s, Shape(c, s), NEW i \in 1..Len(s), s[i].kind \in Catching
  PROVE  Shape(s[i].next, SubSeq(s, 1, i - 1))
<1>1. c \in Seq(Nat) /\ s \in Seq(FrameRec) /\ Linked(c, s) /\ Aimed(s)
  BY DEF Shape
<1>2. Linked(s[i].next, SubSeq(s, 1, i - 1))
  BY <1>1, CutLinked
<1>3. i - 1 \in 0..Len(s)
  BY <1>1
<1>4. Aimed(SubSeq(s, 1, i - 1)) /\ SubSeq(s, 1, i - 1) \in Seq(FrameRec)
  BY <1>1, <1>3, CutAimed
<1>5. s[i].next \in Seq(Nat)
  <2>1. s[i] \in FrameRec
    BY <1>1
  <2> QED BY <2>1 DEF FrameRec
<1> QED BY <1>2, <1>4, <1>5 DEF Shape

LEMMA Popped ==
  ASSUME NEW s \in Seq(FrameRec), s # <<>>
  PROVE  /\ SubSeq(s, 1, Len(s) - 1) \in Seq(FrameRec)
         /\ Len(SubSeq(s, 1, Len(s) - 1)) = Len(s) - 1
         /\ \A i \in 1..(Len(s) - 1) : SubSeq(s, 1, Len(s) - 1)[i] = s[i]
<1>1. Len(s) \in Nat /\ Len(s) # 0
  OBVIOUS
<1>2. Len(s) - 1 \in Nat /\ Len(s) = (Len(s) - 1) + 1
  BY <1>1
<1>3. PICK n \in Nat : n = Len(s) - 1
  BY <1>2
<1>4. n \in 0..Len(s)
  BY <1>2, <1>3
<1>5. /\ SubSeq(s, 1, n) \in Seq(FrameRec) /\ Len(SubSeq(s, 1, n)) = n
      /\ \A i \in 1..n : SubSeq(s, 1, n)[i] = s[i]
  BY <1>4
<1> QED BY <1>3, <1>5

(* Popping a frame that is no catch frame.                                 *)
LEMMA PopShape ==
  ASSUME NEW c, NEW s, Shape(c, s), s # <<>>, s[Len(s)].kind \notin Catching
  PROVE  Shape(c, SubSeq(s, 1, Len(s) - 1))
<1> DEFINE t == SubSeq(s, 1, Len(s) - 1)
<1>1. c \in Seq(Nat) /\ s \in Seq(FrameRec) /\ Linked(c, s) /\ Aimed(s)
  BY DEF Shape
<1>2. Len(s) \in Nat /\ Len(s) > 0
  BY <1>1
<1>3. Len(s) - 1 \in 0..Len(s)
  BY <1>2
<1>4. Aimed(t) /\ t \in Seq(FrameRec)
  BY <1>1, <1>3, CutAimed
<1>5. Len(t) = Len(s) - 1 /\ \A i \in 1..Len(t) : t[i] = s[i]
  BY <1>1, Popped
<1>6. ASSUME NEW k \in 1..Len(c)
      PROVE  /\ c[k] \in 1..Len(t)
             /\ t[c[k]].kind \in Catching
             /\ t[c[k]].next = SubSeq(c, k + 1, Len(c))
             /\ \A j \in 1..Len(c) : j < k => c[j] > c[k]
  <2>1. /\ c[k] \in 1..Len(s) /\ s[c[k]].kind \in Catching
        /\ s[c[k]].next = SubSeq(c, k + 1, Len(c))
    BY <1>1, LinkedAt
  <2>2. c[k] # Len(s)
    BY <2>1
  <2>3. c[k] \in 1..Len(t)
    BY <2>1, <2>2, <1>2, <1>5
  <2>4. \A j \in 1..Len(c) : j < k => c[j] > c[k]
    BY <1>1, LinkedOrder
  <2> QED BY <2>1, <2>3, <2>4, <1>5
<1>7. ASSUME NEW i \in 1..Len(t), t[i].kind \in Catching
      PROVE  \E k \in 1..Len(c) : c[k] = i
  <2>1. i \in 1..Len(s) /\ s[i].kind \in Catching
    BY <1>5, <1>7, <1>2
  <2> QED BY <2>1, <1>1, LinkedHas
<1> HIDE DEF t
<1>8. Shape(c, t)
  BY <1>1, <1>4, <1>6, <1>7 DEF Shape, Linked
<1> QED BY <1>8 DEF t

(* A catch frame on top is the first of the list.                          *)
LEMMA HeadIsTop ==
  ASSUME NEW c, NEW s, Shape(c, s), s # <<>>, s[Len(s)].kind \in Catching
  PROVE  c # <<>> /\ Head(c) = Len(s)
<1>1. c \in Seq(Nat) /\ s \in Seq(FrameRec) /\ Linked(c, s)
  BY DEF Shape
<1>2. Len(s) \in 1..Len(s)
  BY <1>1
<1>3. PICK k \in 1..Len(c) : c[k] = Len(s)
  BY <1>1, <1>2, LinkedHas
<1>4. 1 \in 1..Len(c) /\ Head(c) = c[1] /\ c # <<>>
  BY <1>1, <1>3
<1>5. c[1] \in 1..Len(s)
  BY <1>1, <1>4, LinkedAt
<1>6. CASE k = 1
  BY <1>6, <1>3, <1>4
<1>7. CASE k # 1
  <2>1. c[1] > c[k]
    BY <1>1, <1>4, <1>7, LinkedOrder
  <2> QED BY <2>1, <1>3, <1>5
<1> QED BY <1>6, <1>7

(* A catch frame changes its state and what is above it is cut off: the    *)
(* list from that frame on is good.                                        *)
LEMMA Relabel ==
  ASSUME NEW c, NEW s, Shape(c, s), NEW i \in 1..Len(s), s[i].kind \in Catching,
         NEW f \in FrameRec, f.kind \in Catching, f.next = s[i].next
  PROVE  Shape(<<i>> \o s[i].next, Append(SubSeq(s, 1, i - 1), f))
<1> DEFINE d == s[i].next
<1> DEFINE r == SubSeq(s, 1, i - 1)
<1> DEFINE t == Append(r, f)
<1>1. s \in Seq(FrameRec) /\ Aimed(s)
  BY DEF Shape
<1>2. d \in Seq(Nat) /\ r \in Seq(FrameRec) /\ Linked(d, r) /\ Aimed(r)
  BY CutShape DEF Shape
<1>3. Len(r) = i - 1
  BY <1>1
<1> HIDE DEF d, r
<1>4. Linked(<<Len(r) + 1>> \o d, Append(r, f))
  BY <1>2, EnterLinked DEF d
<1>5. Len(r) + 1 = i
  BY <1>3
<1>6. <<i>> \o d \in Seq(Nat) /\ t \in Seq(FrameRec)
  BY <1>2
<1>7. Aimed(t)
  BY <1>2, AppendAimed DEF Catching
<1> QED BY <1>4, <1>5, <1>6, <1>7 DEF Shape, d, r

(* When the list is good no frame of it is gone.                           *)
LEMMA NoneGone ==
  ASSUME Shape(catch_framep, stack)
  PROVE  ~Dangling
BY LinkedAt DEF Shape, Dangling
-----------------------------------------------------------------------------
LEMMA InitInv == Init => Steady
<1> SUFFICES ASSUME Init PROVE Steady
  OBVIOUS
<1> DEFINE r == Frame("restart", "all", <<>>, 0, 0)
<1>1. r \in FrameRec /\ r.kind = "restart"
  <2>1. <<>> \in Seq(Nat) /\ 0 \in Nat /\ 0 \in {0, 1}
    OBVIOUS
  <2>2. "restart" \in Kind /\ "all" \in Tag
    BY DEF Kind, Tag
  <2>3. r \in FrameRec
    BY <2>1, <2>2, FrameType
  <2> QED BY <2>3 DEF Frame
<1>2. stack = <<r>> /\ catch_framep = <<>>
  BY DEF Init
<1> HIDE DEF r
<1>3. /\ stack \in Seq(FrameRec) /\ Len(stack) = 1 /\ stack[1] = r
      /\ catch_framep \in Seq(Nat) /\ Len(catch_framep) = 0
  BY <1>1, <1>2
<1>4. Linked(catch_framep, stack) /\ Aimed(stack)
  BY <1>1, <1>3 DEF Linked, Aimed, Catching
<1>5. Collecting
  BY <1>1, <1>3 DEF Init, Collecting, Top
<1>6. TypeOK
  BY <1>3 DEF Init, TypeOK, FrameRec
<1> QED BY <1>3, <1>4, <1>5, <1>6 DEF Steady, Shape, Init

(* Outside the collector no frame is the collector's.                      *)
LEMMA Quiet ==
  ASSUME Steady, stack # <<>> => Top.kind # "gc"
  PROVE  Clear(stack) /\ errjmp_ok = 1
<1>1. stack \in Seq(FrameRec) /\ errjmp_ok \in {0, 1}
  BY DEF Steady, Shape, TypeOK
<1> QED BY <1>1 DEF Steady, Collecting, Clear, Top

(* Under the collector's frame there is none.                              *)
LEMMA PopClear ==
  ASSUME Steady, stack # <<>>
  PROVE  Pop \in Seq(FrameRec) /\ Clear(Pop)
<1>1. stack \in Seq(FrameRec)
  BY DEF Steady, Shape
<1>2. /\ Pop \in Seq(FrameRec) /\ Len(Pop) = Len(stack) - 1
      /\ \A i \in 1..Len(Pop) : Pop[i] = stack[i]
  BY <1>1, Popped DEF Pop
<1> QED BY <1>1, <1>2 DEF Steady, Collecting, Clear

(* What is left to show of a step that ends outside the collector.         *)
LEMMA EndsQuiet ==
  ASSUME Shape(catch_framep', stack'), Clear(stack'), errjmp_ok' = 1,
         nointerrupt' \in {0, 1}, interrupt_differed' \in {0, 1},
         inside_err' \in {0, 1}, status' = "running"
  PROVE  Steady'
<1>1. TypeOK'
  BY DEF TypeOK, Shape, FrameRec
<1>2. Collecting'
  BY DEF Collecting, Clear
<1> QED BY <1>1, <1>2 DEF Steady

(* err, called outside the collector.                                      *)
LEMMA RaiseKeeps ==
  ASSUME Steady, NEW s, Shape(catch_framep, s), Clear(s), Raise(s, 1),
         catch_framep' = catch_framep, status = "running"
  PROVE  /\ Shape(catch_framep', stack') /\ Clear(stack')
         /\ nointerrupt' = 1 /\ inside_err' \in {0, 1} /\ status' = "running"
<1>1. PICK i \in 0..Len(stack) :
        /\ IsTarget(i, {"errobj", "all"})
        /\ stack' = Append(s, Frame("err", "all", <<>>, inside_err, i))
        /\ inside_err' = IF i = 0 THEN 0 ELSE 1
  BY NoneGone DEF Raise, Steady
<1>2. nointerrupt' = 1 /\ status' = "running"
  BY NoneGone DEF Raise, Steady
<1> DEFINE f == Frame("err", "all", <<>>, inside_err, i)
<1>3. i \in Nat /\ inside_err \in {0, 1} /\ <<>> \in Seq(Nat)
  BY DEF Steady, TypeOK
<1>4. f \in FrameRec
  BY <1>3, FrameType DEF Kind, Tag
<1>5. f.kind = "err" /\ f.target = i
  BY DEF Frame
<1>6. i # 0 => \E k \in 1..Len(catch_framep) : i = catch_framep[k]
  BY <1>1 DEF IsTarget, Matches
<1> HIDE DEF f
<1>7. Shape(catch_framep, Append(s, f))
  BY <1>4, <1>5, <1>6, PushShape DEF Catching
<1>8. Clear(Append(s, f))
  BY <1>4, <1>5, PushClear DEF Shape
<1>9. stack' = Append(s, f)
  BY <1>1 DEF f
<1> QED BY <1>1, <1>2, <1>7, <1>8, <1>9

(* The facts of the invariant the steps below start from.                  *)
LEMMA Facts ==
  ASSUME Steady
  PROVE  /\ Shape(catch_framep, stack)
         /\ catch_framep \in Seq(Nat) /\ stack \in Seq(FrameRec)
         /\ nointerrupt \in {0, 1} /\ interrupt_differed \in {0, 1}
         /\ errjmp_ok \in {0, 1} /\ inside_err \in {0, 1} /\ status = "running"
         /\ stack # <<>> =>
              Top = stack[Len(stack)] /\ Top \in FrameRec /\ Len(stack) \in 1..Len(stack)
BY DEF Steady, Shape, TypeOK, Top

(* Pushing a frame without links.                                          *)
LEMMA PushKeeps ==
  ASSUME Steady, Clear(stack), NEW f \in FrameRec, f.kind \in {"crit", "hook"},
         stack' = Append(stack, f), catch_framep' = catch_framep
  PROVE  Shape(catch_framep', stack') /\ Clear(stack')
BY Facts, PushShape, PushClear DEF Catching

LEMMA CatchEnterKeeps ==
  ASSUME Steady, NEW tag \in Tag, CatchEnter(tag)
  PROVE  Steady'
<1> DEFINE f == Frame("catch", tag, catch_framep, 0, 0)
<1>1. Clear(stack) /\ errjmp_ok = 1
  BY Quiet DEF CatchEnter, Lisp
<1>2. f \in FrameRec
  <2>1. 0 \in Nat /\ 0 \in {0, 1} /\ "catch" \in Kind
    BY DEF Kind, Catching
  <2> QED BY <2>1, FrameType, Facts
<1>3. f.kind = "catch" /\ f.kind \in Catching /\ f.next = catch_framep
  BY DEF Frame, Catching
<1>4. stack' = Append(stack, f) /\ catch_framep' = <<Len(stack) + 1>> \o catch_framep
  BY DEF CatchEnter, Push
<1> HIDE DEF f
<1>5. Linked(catch_framep', stack')
  BY <1>2, <1>3, <1>4, EnterLinked, Facts DEF Shape
<1>6. catch_framep' \in Seq(Nat) /\ stack' \in Seq(FrameRec)
  BY <1>2, <1>4, Facts
<1>7. Aimed(stack')
  BY <1>2, <1>3, <1>4, Facts, AppendAimed DEF Shape
<1>8. Clear(stack')
  BY <1>1, <1>2, <1>3, <1>4, Facts, PushClear
<1> QED BY <1>1, <1>5, <1>6, <1>7, <1>8, Facts, EndsQuiet DEF CatchEnter, flags, Shape

(* leval_catch takes its frame, on top, off the list and returns.          *)
LEMMA ReturnKeeps ==
  ASSUME Steady, CatchReturn \/ CatchUnlink
  PROVE  Steady'
<1>1. stack # <<>> /\ Top.kind \in Catching /\ Top.kind # "gc"
  BY DEF CatchReturn, CatchUnlink, On, Catching
<1>2. Clear(stack) /\ errjmp_ok = 1
  BY <1>1, Quiet
<1>3. Len(stack) \in 1..Len(stack) /\ stack[Len(stack)] = Top
  BY <1>1, Facts
<1>4. Head(catch_framep) = Len(stack)
  BY <1>1, <1>3, Facts, HeadIsTop
<1>5. stack' = SubSeq(stack, 1, Len(stack) - 1) /\ catch_framep' = stack[Len(stack)].next
  BY <1>3, <1>4 DEF CatchReturn, CatchUnlink, Pop
<1>6. Shape(catch_framep', stack')
  BY <1>1, <1>3, <1>5, Facts, CutShape
<1>7. Clear(stack')
  BY <1>1, <1>5, PopClear DEF Pop
<1>8. UNCHANGED <<flags, status>>
  BY DEF CatchReturn, CatchUnlink
<1> QED BY <1>2, <1>6, <1>7, <1>8, Facts, EndsQuiet DEF flags, Steady

(* The stack after a longjmp to i, or after leval_catch has linked its     *)
(* frame, at i, again.                                                     *)
LEMMA Relabelled ==
  ASSUME NEW s \in Seq(FrameRec), Clear(s), NEW i \in 1..Len(s), NEW f \in FrameRec, f.kind # "gc"
  PROVE  LET t == Append(SubSeq(s, 1, i - 1), f)
         IN  t \in Seq(FrameRec) /\ Len(t) = i /\ t[i] = f /\ Clear(t)
<1> DEFINE r == SubSeq(s, 1, i - 1)
<1>1. /\ r \in Seq(FrameRec) /\ Len(r) = i - 1
      /\ \A m \in 1..(i - 1) : m \in 1..Len(s) /\ r[m] = s[m]
  OBVIOUS
<1>2. Clear(r)
  BY <1>1 DEF Clear
<1> HIDE DEF r
<1>3. Append(r, f) \in Seq(FrameRec) /\ Len(Append(r, f)) = i /\ Append(r, f)[i] = f
  BY <1>1
<1>4. Clear(Append(r, f))
  BY <1>1, <1>2, PushClear
<1> QED BY <1>3, <1>4 DEF r

(* longjmp to a frame of the list leaves those before it on the list.      *)
LEMMA LongjmpDrifts ==
  ASSUME Steady, Clear(stack), errjmp_ok = 1,
         NEW k \in 1..Len(catch_framep), Longjmp(catch_framep[k]), UNCHANGED <<flags, status>>
  PROVE  Inv'
<1> DEFINE c == catch_framep
<1> DEFINE i == catch_framep[k]
<1> DEFINE f == [stack[i] EXCEPT !.kind = "landed"]
<1>1. /\ Shape(c, stack) /\ Linked(c, stack)
      /\ c \in Seq(Nat) /\ stack \in Seq(FrameRec)
  BY Facts DEF Shape
<1>2. i \in 1..Len(stack) /\ stack[i].kind \in Catching /\ stack[i].next = SubSeq(c, k + 1, Len(c))
  BY <1>1, LinkedAt
<1>3. stack[i] \in FrameRec
  BY <1>1, <1>2
<1>4. f \in FrameRec /\ f.kind = "landed" /\ f.next = stack[i].next
  BY <1>3 DEF FrameRec, Kind, Catching
<1>5. stack' = Append(SubSeq(stack, 1, i - 1), f) /\ catch_framep' = catch_framep
  BY DEF Longjmp
<1>6. \A j \in 1..(k - 1) : c[j] > i
  BY <1>1, LinkedOrder
<1>7. <<i>> \o SubSeq(c, k + 1, Len(c)) = SubSeq(c, k, Len(c))
  BY <1>1
<1> HIDE DEF i, f
<1>8. stack' \in Seq(FrameRec) /\ Len(stack') = i /\ stack'[i] = f /\ Clear(stack')
  BY <1>1, <1>2, <1>4, <1>5, Relabelled
<1>9. Shape(SubSeq(c, k, Len(c)), stack')
  BY <1>1, <1>2, <1>4, <1>5, <1>7, Relabel DEF Catching
<1>10. CASE k = 1
  <2>1. SubSeq(c, k, Len(c)) = c
    BY <1>1, <1>10
  <2> QED BY <1>5, <1>8, <1>9, <2>1, Facts, EndsQuiet DEF flags, Steady, Inv
<1>11. CASE k # 1
  <2>1. k - 1 \in 1..Len(c) /\ (k - 1) + 1 = k
    BY <1>1, <1>11
  <2>2. Stale(c, stack', k - 1)
    BY <1>6, <1>8, <1>9, <2>1 DEF Stale
  <2>3. stack' # <<>> /\ Top' = f
    BY <1>2, <1>8 DEF Top
  <2>4. TypeOK'
    BY <1>5, <1>8, Facts DEF TypeOK, Steady, FrameRec, flags
  <2>5. Adrift'
    BY <1>4, <1>5, <1>8, <2>1, <2>2, <2>3, <2>4 DEF Adrift, Steady, flags
  <2> QED BY <2>5 DEF Inv
<1> QED BY <1>10, <1>11

LEMMA ThrowKeeps ==
  ASSUME Steady, NEW tag \in Tag, Throw(tag)
  PROVE  Inv'
<1>1. Clear(stack) /\ errjmp_ok = 1
  BY Quiet DEF Throw, Lisp
<1>2. PICK i \in 1..Len(stack) : IsTarget(i, {tag, "all"}) /\ Longjmp(i)
  BY DEF Throw
<1>3. PICK k \in 1..Len(catch_framep) : i = catch_framep[k]
  BY <1>2, Facts DEF IsTarget, Matches
<1> QED BY <1>1, <1>2, <1>3, LongjmpDrifts DEF Throw

(* leval_catch links its frame again.                                      *)
LEMMA RelinkKeeps ==
  ASSUME Inv, CatchRelink
  PROVE  Steady'
<1>1. stack # <<>> /\ Top.kind = "landed" /\ status = "running"
  BY DEF CatchRelink, On
<1>2. TypeOK /\ Clear(stack) /\ errjmp_ok = 1
  BY <1>1, Quiet DEF Inv, Adrift, Steady
<1>3. PICK c : Shape(c, stack)
  BY DEF Inv, Steady, Adrift, Stale
<1> DEFINE i == Len(stack)
<1> DEFINE f == [Top EXCEPT !.kind = "linked"]
<1>4. stack \in Seq(FrameRec) /\ i \in 1..Len(stack) /\ Top = stack[i] /\ Top \in FrameRec
  BY <1>1, <1>3 DEF Shape, Top
<1>5. f \in FrameRec /\ f.kind = "linked" /\ f.next = Top.next
  BY <1>4 DEF FrameRec, Kind, Catching
<1>6. stack' = Append(SubSeq(stack, 1, i - 1), f) /\ catch_framep' = <<i>> \o stack[i].next
  BY <1>4 DEF CatchRelink, Pop
<1>7. UNCHANGED <<flags, status>>
  BY DEF CatchRelink
<1> HIDE DEF f
<1>8. Shape(catch_framep', stack')
  BY <1>1, <1>3, <1>4, <1>5, <1>6, Relabel DEF Catching
<1>9. Clear(stack')
  BY <1>2, <1>4, <1>5, <1>6, Relabelled
<1> QED BY <1>1, <1>2, <1>7, <1>8, <1>9, EndsQuiet DEF flags, TypeOK

LEMMA ErrorKeeps ==
  ASSUME Steady, NEW tag \in Tag, Error \/ ThrowUncaught(tag)
  PROVE  Steady'
<1>1. Clear(stack) /\ errjmp_ok = 1
  BY Quiet DEF Error, ThrowUncaught, Lisp, On, Consing
<1>2. Raise(stack, 1)
  BY <1>1 DEF Error, ThrowUncaught
<1>3. UNCHANGED <<catch_framep, interrupt_differed, errjmp_ok>>
  BY DEF Error, ThrowUncaught
<1>4. /\ Shape(catch_framep', stack') /\ Clear(stack')
      /\ nointerrupt' = 1 /\ inside_err' \in {0, 1} /\ status' = "running"
  BY <1>1, <1>2, <1>3, Facts, RaiseKeeps
<1> QED BY <1>1, <1>3, <1>4, Facts, EndsQuiet

LEMMA ErrOpenKeeps ==
  ASSUME Steady, ErrOpen
  PROVE  Steady'
<1>1. stack # <<>> /\ Top.kind = "err" /\ Top.target # 0
  BY DEF ErrOpen, On
<1>2. Clear(stack) /\ errjmp_ok = 1
  BY <1>1, Quiet
<1> DEFINE n == Len(stack)
<1> DEFINE f == [stack[n] EXCEPT !.kind = "jump"]
<1>3. n \in 1..Len(stack) /\ stack[n] \in FrameRec /\ Top = stack[n]
  BY <1>1, Facts
<1>4. f \in FrameRec /\ f.kind = "jump" /\ f.target = Top.target
  BY <1>3 DEF FrameRec, Kind
<1>5. stack' = [stack EXCEPT ![n] = f]
  BY DEF ErrOpen
<1> HIDE DEF f
<1>6. /\ stack' \in Seq(FrameRec) /\ Len(stack') = n /\ stack'[n] = f
      /\ \A i \in 1..n : i # n => stack'[i] = stack[i]
  BY <1>3, <1>4, <1>5, Facts
<1>7. Linked(catch_framep, stack) /\ Aimed(stack)
  BY Facts DEF Shape
<1>8. Linked(catch_framep, stack')
  <2>1. ASSUME NEW k \in 1..Len(catch_framep)
        PROVE  /\ catch_framep[k] \in 1..Len(stack')
               /\ stack'[catch_framep[k]].kind \in Catching
               /\ stack'[catch_framep[k]].next = SubSeq(catch_framep, k + 1, Len(catch_framep))
               /\ \A j \in 1..Len(catch_framep) : j < k => catch_framep[j] > catch_framep[k]
    <3>1. /\ catch_framep[k] \in 1..n /\ stack[catch_framep[k]].kind \in Catching
          /\ stack[catch_framep[k]].next = SubSeq(catch_framep, k + 1, Len(catch_framep))
      BY <1>7, Facts, LinkedAt
    <3>2. catch_framep[k] # n
      BY <3>1, <1>1, <1>3 DEF Catching
    <3>3. \A j \in 1..Len(catch_framep) : j < k => catch_framep[j] > catch_framep[k]
      BY <1>7, Facts, LinkedOrder
    <3> QED BY <3>1, <3>2, <3>3, <1>6
  <2>2. ASSUME NEW i \in 1..Len(stack'), stack'[i].kind \in Catching
        PROVE  \E k \in 1..Len(catch_framep) : catch_framep[k] = i
    <3>1. i \in 1..Len(stack) /\ stack[i].kind \in Catching
      BY <2>2, <1>4, <1>6 DEF Catching
    <3> QED BY <3>1, <1>7, Facts, LinkedHas
  <2> QED BY <2>1, <2>2 DEF Linked
<1>9. Aimed(stack')
  <2>1. ASSUME NEW i \in 1..Len(stack'),
               (stack'[i].kind = "err" /\ stack'[i].target # 0) \/ stack'[i].kind = "jump"
        PROVE  stack'[i].target \in 1..(i - 1) /\ stack'[stack'[i].target].kind \in Catching
    <3>1. i \in 1..n /\ stack'[i].target = stack[i].target
      BY <1>3, <1>4, <1>6
    <3>2. (stack[i].kind = "err" /\ stack[i].target # 0) \/ stack[i].kind = "jump"
      BY <2>1, <1>1, <1>3, <1>6
    <3>3. stack[i].target \in 1..(i - 1) /\ stack[stack[i].target].kind \in Catching
      BY <3>1, <3>2, <1>7 DEF Aimed
    <3>4. stack[i].target \in 1..n /\ stack[i].target # n
      BY <3>1, <3>3, <1>3
    <3> QED BY <3>1, <3>3, <3>4, <1>6
  <2> QED BY <2>1 DEF Aimed
<1>10. Clear(stack')
  BY <1>2, <1>4, <1>6 DEF Clear
<1>11. UNCHANGED <<catch_framep, interrupt_differed, errjmp_ok, inside_err, status>> /\ nointerrupt' = 0
  BY DEF ErrOpen
<1> QED BY <1>2, <1>6, <1>8, <1>9, <1>10, <1>11, Facts, EndsQuiet DEF Shape

LEMMA ErrClearKeeps ==
  ASSUME Steady, ErrClear
  PROVE  Steady'
<1>1. Clear(stack) /\ errjmp_ok = 1
  BY Quiet DEF ErrClear, On
<1> QED BY <1>1, Facts, EndsQuiet DEF ErrClear, Clear, Steady

LEMMA ErrJumpKeeps ==
  ASSUME Steady, ErrJump
  PROVE  Inv'
<1>1. stack # <<>> /\ Top.kind = "jump"
  BY DEF ErrJump, On
<1>2. Clear(stack) /\ errjmp_ok = 1
  BY <1>1, Quiet
<1>3. Top.target \in 1..Len(stack) /\ stack[Top.target].kind \in Catching
  <2>1. Len(stack) \in 1..Len(stack) /\ Top = stack[Len(stack)]
    BY <1>1, Facts
  <2>2. Top.target \in 1..(Len(stack) - 1) /\ stack[Top.target].kind \in Catching
    BY <2>1, <1>1, Facts DEF Shape, Aimed
  <2> QED BY <2>1, <2>2
<1>4. PICK k \in 1..Len(catch_framep) : catch_framep[k] = Top.target
  BY <1>3, Facts, LinkedHas DEF Shape
<1> QED BY <1>2, <1>4, LongjmpDrifts DEF ErrJump

(* Both ways into a stretch of C code with interrupts off.                 *)
LEMMA EnterKeeps ==
  ASSUME Steady, CritEnter \/ GcEnter
  PROVE  Steady'
<1>1. Clear(stack) /\ errjmp_ok = 1
  BY Quiet DEF CritEnter, GcEnter, Allocating, Lisp, On, Consing
<1>2. 0 \in Nat /\ "all" \in Tag /\ <<>> \in Seq(Nat)
  BY DEF Tag
<1>3. CASE CritEnter
  <2> DEFINE f == Frame("crit", "all", <<>>, nointerrupt, 0)
  <2>1. f \in FrameRec
    BY <1>2, Facts, FrameType DEF Kind
  <2>2. f.kind = "crit"
    BY DEF Frame
  <2>3. stack' = Append(stack, f)
    BY <1>3 DEF CritEnter, Push
  <2> HIDE DEF f
  <2>4. catch_framep' = catch_framep
    BY <1>3 DEF CritEnter
  <2>5. Shape(catch_framep', stack') /\ Clear(stack')
    BY <1>1, <2>1, <2>2, <2>3, <2>4, PushKeeps
  <2> QED BY <1>1, <1>3, <2>5, Facts, EndsQuiet DEF CritEnter
<1>4. CASE GcEnter
  <2> DEFINE f == Frame("gc", "all", <<>>, nointerrupt, 0)
  <2>1. f \in FrameRec
    BY <1>2, Facts, FrameType DEF Kind
  <2>2. f.kind = "gc"
    BY DEF Frame
  <2>3. stack' = Append(stack, f)
    BY <1>4 DEF GcEnter, Push
  <2> HIDE DEF f
  <2>4. UNCHANGED <<catch_framep, interrupt_differed, inside_err, status>> /\ nointerrupt' = 1 /\ errjmp_ok' = 0
    BY <1>4 DEF GcEnter
  <2>5. Shape(catch_framep', stack')
    BY <2>1, <2>2, <2>3, <2>4, Facts, PushShape DEF Catching
  <2>6. /\ Len(stack') = Len(stack) + 1 /\ stack'[Len(stack) + 1] = f
        /\ \A i \in 1..Len(stack) : stack'[i] = stack[i]
    BY <2>1, <2>3, Facts
  <2>7. stack' # <<>> /\ Top' = f
    BY <2>6, Facts DEF Top
  <2>8. \A i \in 1..Len(stack') : stack'[i].kind = "gc" => i = Len(stack')
    BY <1>1, <2>6, Facts DEF Clear
  <2>9. Collecting'
    BY <2>2, <2>4, <2>7, <2>8 DEF Collecting
  <2>10. TypeOK'
    BY <2>4, <2>5, Facts DEF TypeOK, Shape, FrameRec
  <2> QED BY <2>4, <2>5, <2>9, <2>10 DEF Steady
<1> QED BY <1>3, <1>4

(* The end of such a stretch, when no interrupt was put off.               *)
LEMMA ExitKeeps ==
  ASSUME Steady, CritExit \/ GcExit
  PROVE  Steady'
<1>1. stack # <<>> /\ Top.kind \in {"crit", "gc"}
  BY DEF CritExit, GcExit, On
<1>2. stack[Len(stack)].kind \notin Catching /\ Top.flag \in {0, 1}
  BY <1>1, Facts DEF FrameRec, Catching
<1>3. Shape(catch_framep, Pop) /\ Clear(Pop)
  BY <1>1, <1>2, Facts, PopShape, PopClear DEF Pop
<1>4. UNCHANGED <<catch_framep, interrupt_differed, inside_err, status>> /\ nointerrupt' = Top.flag
  BY DEF CritExit, GcExit
<1>5. errjmp_ok' = 1
  <2>1. CASE CritExit
    BY <2>1, Quiet DEF CritExit, On
  <2>2. CASE GcExit
    BY <2>2 DEF GcExit
  <2> QED BY <2>1, <2>2
<1>6. Shape(catch_framep', stack') /\ Clear(stack')
  <2> DEFINE f == Frame("hook", "all", <<>>, 0, 0)
  <2>1. stack' = Pop \/ stack' = Append(Pop, f)
    BY DEF CritExit, GcExit
  <2>2. CASE stack' = Pop
    BY <2>2, <1>3, <1>4
  <2>3. CASE stack' = Append(Pop, f)
    <3>1. 0 \in Nat /\ 0 \in {0, 1} /\ "all" \in Tag /\ "hook" \in Kind /\ <<>> \in Seq(Nat)
      BY DEF Tag, Kind
    <3>2. f \in FrameRec
      BY <3>1, FrameType
    <3>3. f.kind = "hook"
      BY DEF Frame
    <3> HIDE DEF f
    <3>4. Shape(catch_framep, Append(Pop, f))
      BY <1>3, <3>2, <3>3, PushShape DEF Catching
    <3>5. Clear(Append(Pop, f))
      BY <1>3, <3>2, <3>3, PushClear DEF Shape
    <3> QED BY <2>3, <3>4, <3>5, <1>4
  <2> QED BY <2>1, <2>2, <2>3
<1> QED BY <1>2, <1>4, <1>5, <1>6, Facts, EndsQuiet

LEMMA InterruptedKeeps ==
  ASSUME Steady, CritExitInterrupted \/ GcExitInterrupted
  PROVE  Steady'
<1>1. stack # <<>> /\ Top.kind \in {"crit", "gc"}
  BY DEF CritExitInterrupted, GcExitInterrupted, On
<1>2. stack[Len(stack)].kind \notin Catching
  BY <1>1, Facts DEF Catching
<1>3. Shape(catch_framep, Pop) /\ Clear(Pop)
  BY <1>1, <1>2, Facts, PopShape, PopClear DEF Pop
<1>4. catch_framep' = catch_framep /\ interrupt_differed' \in {0, 1}
  BY Facts DEF CritExitInterrupted, GcExitInterrupted, RaisedOrLeft
<1>5. Raise(Pop, 1) /\ errjmp_ok' = 1
  <2>1. CASE CritExitInterrupted
    <3>1. errjmp_ok = 1
      BY <2>1, Quiet DEF CritExitInterrupted, On
    <3> QED BY <2>1, <3>1 DEF CritExitInterrupted
  <2>2. CASE GcExitInterrupted
    BY <2>2 DEF GcExitInterrupted
  <2> QED BY <2>1, <2>2
<1>6. /\ Shape(catch_framep', stack') /\ Clear(stack')
      /\ nointerrupt' = 1 /\ inside_err' \in {0, 1} /\ status' = "running"
  BY <1>3, <1>4, <1>5, Facts, RaiseKeeps
<1> QED BY <1>4, <1>5, <1>6, EndsQuiet

LEMMA HookReturnKeeps ==
  ASSUME Steady, HookReturn
  PROVE  Steady'
<1>1. stack # <<>> /\ Top.kind = "hook"
  BY DEF HookReturn, On
<1>2. errjmp_ok = 1
  BY <1>1, Quiet
<1>3. Shape(catch_framep, Pop) /\ Clear(Pop)
  BY <1>1, Facts, PopShape, PopClear DEF Pop, Catching
<1> QED BY <1>2, <1>3, Facts, EndsQuiet DEF HookReturn, flags

(* repl_driver.                                                            *)
LEMMA RestartKeeps ==
  ASSUME Steady, Restart \/ RestartOpen
  PROVE  Steady'
<1>1. stack # <<>> /\ Top.kind \in {"err", "restart"}
  BY DEF Restart, RestartOpen, On
<1>2. errjmp_ok = 1
  BY <1>1, Quiet
<1>3. CASE Restart
  <2> DEFINE r == Frame("restart", "all", <<>>, 0, 0)
  <2>1. r \in FrameRec
    <3>1. 0 \in Nat /\ 0 \in {0, 1} /\ "all" \in Tag /\ "restart" \in Kind /\ <<>> \in Seq(Nat)
      BY DEF Tag, Kind
    <3> QED BY <3>1, FrameType
  <2>2. r.kind = "restart"
    BY DEF Frame
  <2>3. stack' = <<r>> /\ catch_framep' = <<>>
    BY <1>3 DEF Restart
  <2> HIDE DEF r
  <2>4. /\ stack' \in Seq(FrameRec) /\ Len(stack') = 1 /\ stack'[1] = r
        /\ catch_framep' \in Seq(Nat) /\ Len(catch_framep') = 0
    BY <2>1, <2>3
  <2>5. Shape(catch_framep', stack') /\ Clear(stack')
    BY <2>2, <2>4 DEF Catching, Shape, Linked, Aimed, Clear
  <2> QED BY <1>3, <2>5, Facts, EndsQuiet DEF Restart
<1>4. CASE RestartOpen
  <2>1. Shape(catch_framep, Pop) /\ Clear(Pop)
    BY <1>4, <1>1, Facts, PopShape, PopClear DEF Catching, RestartOpen, On, Pop
  <2> QED BY <1>2, <1>4, <2>1, Facts, EndsQuiet DEF RestartOpen
<1> QED BY <1>3, <1>4

LEMMA SigintKeeps ==
  ASSUME Steady, SigintDeferred \/ SigintRaised \/ InterruptCheck
  PROVE  Steady'
<1>1. CASE SigintDeferred
  <2>1. UNCHANGED <<stack, catch_framep, nointerrupt, errjmp_ok, inside_err, status>> /\ interrupt_differed' = 1
    BY <1>1 DEF SigintDeferred
  <2>2. Collecting'
    BY <2>1 DEF Steady, Collecting, Top
  <2>3. TypeOK'
    BY <2>1 DEF Steady, TypeOK
  <2> QED BY <2>1, <2>2, <2>3 DEF Steady
<1>2. CASE SigintRaised \/ InterruptCheck
  <2>1. stack # <<>> => Top.kind # "gc"
    <3>1. CASE SigintRaised
      <4>1. nointerrupt = 0
        BY <3>1 DEF SigintRaised
      <4> QED BY <4>1, Facts DEF Steady, Collecting
    <3>2. CASE InterruptCheck
      BY <3>2 DEF InterruptCheck, Lisp
    <3> QED BY <1>2, <3>1, <3>2
  <2>2. Clear(stack) /\ errjmp_ok = 1
    BY <2>1, Quiet
  <2>3. Raise(stack, 1) /\ UNCHANGED <<catch_framep, errjmp_ok>>
    BY <1>2, <2>2 DEF SigintRaised, InterruptCheck
  <2>4. interrupt_differed' \in {0, 1}
    BY <1>2, Facts DEF SigintRaised, InterruptCheck
  <2>5. /\ Shape(catch_framep', stack') /\ Clear(stack')
        /\ nointerrupt' = 1 /\ inside_err' \in {0, 1} /\ status' = "running"
    BY <2>2, <2>3, Facts, RaiseKeeps
  <2> QED BY <2>2, <2>3, <2>4, <2>5, EndsQuiet
<1> QED BY <1>1, <1>2

(* Between a longjmp and the link there is only SIGINT, and it finds       *)
(* frames that are gone.                                                   *)
LEMMA AdriftSteps ==
  ASSUME Adrift, [Next]_vars
  PROVE  \/ CatchRelink
         \/ /\ UNCHANGED <<stack, catch_framep, nointerrupt, errjmp_ok, inside_err>>
            /\ interrupt_differed' \in {0, 1}
            /\ status' = status \/ (status' = "astray" /\ ~Win32)
<1>1. Top.kind = "landed" /\ stack # <<>> /\ errjmp_ok = 1 /\ interrupt_differed \in {0, 1}
  BY DEF Adrift, TypeOK
<1>2. CASE SigintDeferred \/ Astray \/ UNCHANGED vars
  BY <1>1, <1>2 DEF SigintDeferred, Astray, vars, flags
<1>3. CASE SigintRaised
  <2>1. Dangling
    <3>1. PICK n \in 1..Len(catch_framep) : Stale(catch_framep, stack, n)
      BY DEF Adrift
    <3>2. 1 \in 1..n /\ 1 \in 1..Len(catch_framep) /\ Len(stack) \in Nat
      BY <3>1 DEF Adrift, TypeOK
    <3>3. catch_framep[1] > Len(stack) /\ catch_framep[1] \in Nat
      BY <3>1, <3>2 DEF Stale, Adrift, TypeOK
    <3> QED BY <3>2, <3>3 DEF Dangling
  <2> QED BY <1>1, <1>3, <2>1 DEF SigintRaised, Raise
<1>4. CASE \/ \E tag \in Tag : CatchEnter(tag) \/ Throw(tag) \/ ThrowUncaught(tag)
           \/ CatchReturn \/ CatchUnlink \/ CritEnter \/ GcEnter \/ Error \/ InterruptCheck
           \/ ErrOpen \/ ErrClear \/ ErrJump \/ Restart \/ RestartOpen
           \/ CritExit \/ CritExitInterrupted \/ GcExit \/ GcExitInterrupted \/ HookReturn
  BY <1>1, <1>4 DEF On, Lisp, Consing, Allocating, CatchEnter, Throw, ThrowUncaught, CatchReturn,
     CatchUnlink, CritEnter, GcEnter, Error, InterruptCheck, ErrOpen, ErrClear, ErrJump, Restart,
     RestartOpen, CritExit, CritExitInterrupted, GcExit, GcExitInterrupted, HookReturn
<1> QED BY <1>2, <1>3, <1>4 DEF Next

LEMMA AdriftKeeps ==
  ASSUME Adrift, [Next]_vars
  PROVE  Inv'
<1>1. CASE CatchRelink
  BY <1>1, RelinkKeeps DEF Inv
<1>2. CASE ~CatchRelink
  <2>1. /\ UNCHANGED <<stack, catch_framep, nointerrupt, errjmp_ok, inside_err>>
        /\ interrupt_differed' \in {0, 1}
        /\ status' = status \/ (status' = "astray" /\ ~Win32)
    BY <1>2, AdriftSteps
  <2>2. TypeOK' /\ Top' = Top
    BY <2>1 DEF Adrift, TypeOK, Top
  <2>3. Adrift'
    BY <2>1, <2>2 DEF Adrift
  <2> QED BY <2>3 DEF Inv
<1> QED BY <1>1, <1>2

LEMMA SteadyKeeps ==
  ASSUME Steady, [Next]_vars
  PROVE  Inv'
<1>1. Steady' => Inv'
  BY DEF Inv
<1>2. ASSUME NEW tag \in Tag, CatchEnter(tag) \/ Throw(tag) \/ ThrowUncaught(tag)
      PROVE  Inv'
  BY <1>1, <1>2, CatchEnterKeeps, ThrowKeeps, ErrorKeeps
<1>3. CASE CatchReturn \/ CatchRelink \/ CatchUnlink
  BY <1>1, <1>3, ReturnKeeps, RelinkKeeps DEF Inv
<1>4. CASE Error
  BY <1>1, <1>4, ErrorKeeps DEF Tag
<1>5. CASE ErrOpen \/ ErrClear \/ ErrJump
  BY <1>1, <1>5, ErrOpenKeeps, ErrClearKeeps, ErrJumpKeeps
<1>6. CASE Restart \/ RestartOpen
  BY <1>1, <1>6, RestartKeeps
<1>7. CASE CritEnter \/ GcEnter
  BY <1>1, <1>7, EnterKeeps
<1>8. CASE CritExit \/ GcExit
  BY <1>1, <1>8, ExitKeeps
<1>9. CASE CritExitInterrupted \/ GcExitInterrupted
  BY <1>1, <1>9, InterruptedKeeps
<1>10. CASE HookReturn
  BY <1>1, <1>10, HookReturnKeeps
<1>11. CASE SigintDeferred \/ SigintRaised \/ InterruptCheck
  BY <1>1, <1>11, SigintKeeps
<1>12. CASE Astray \/ UNCHANGED vars
  BY <1>1, <1>12 DEF Astray, vars, flags, Steady, TypeOK, Collecting, Top
<1> QED
  BY <1>2, <1>3, <1>4, <1>5, <1>6, <1>7, <1>8, <1>9, <1>10, <1>11, <1>12 DEF Next

LEMMA StepInv == Inv /\ [Next]_vars => Inv'
BY SteadyKeeps, AdriftKeeps DEF Inv
-----------------------------------------------------------------------------
(* The strengthened invariant holds in every behaviour.                    *)
THEOREM Invariance == Spec => []Inv
<1>1. Init => Inv
  BY InitInv DEF Inv
<1> QED BY <1>1, StepInv, PTL DEF Spec

(* Every variable always has its type, at any depth of the C stack.        *)
THEOREM TypeCorrect == Spec => []TypeOK
<1>1. Inv => TypeOK
  BY DEF Inv, Steady, Adrift
<1> QED BY <1>1, Invariance, PTL

(* catch_framep lists the live calls of leval_catch, after those, if any,  *)
(* that a longjmp not yet repaired has cut off.                            *)
THEOREM CatchFramesCorrect == Spec => []CatchFramesLive
<1>1. Steady => CatchFramesLive
  <2> SUFFICES ASSUME Steady PROVE CatchFramesLive
    OBVIOUS
  <2>1. 0 \in 0..Len(catch_framep) /\ SubSeq(catch_framep, 1, Len(catch_framep)) = catch_framep
    BY Facts
  <2>2. ListsLive(catch_framep)
    BY Facts DEF Shape, Linked, ListsLive
  <2>0. 0 + 1 = 1
    OBVIOUS
  <2>3. ListsLive(SubSeq(catch_framep, 0 + 1, Len(catch_framep)))
    BY <2>0, <2>1, <2>2
  <2> QED BY <2>1, <2>3 DEF CatchFramesLive
<1>2. Adrift => CatchFramesLive
  <2> SUFFICES ASSUME Adrift PROVE CatchFramesLive
    OBVIOUS
  <2>1. PICK n \in 1..Len(catch_framep) : Stale(catch_framep, stack, n)
    BY DEF Adrift
  <2> DEFINE d == SubSeq(catch_framep, n + 1, Len(catch_framep))
  <2>2. Linked(d, stack)
    BY <2>1 DEF Stale, Shape
  <2> HIDE DEF d
  <2>3. ListsLive(d)
    BY <2>2 DEF Linked, ListsLive
  <2>4. n \in 0..Len(catch_framep)
    BY <2>1
  <2> QED BY <2>1, <2>3, <2>4 DEF d, CatchFramesLive, Adrift, Stale
<1> QED BY <1>1, <1>2, Invariance, PTL DEF Inv

(* err is never called while the collector runs.                           *)
THEOREM ErrNeverFatal == Spec => []NeverFatal
<1>1. Inv => NeverFatal
  BY DEF Inv, Steady, Adrift, NeverFatal
<1> QED BY <1>1, Invariance, PTL

(* Only SIGINT under Unix, between a longjmp and the link of the frame it  *)
(* lands in, makes err read a frame that is gone.                          *)
THEOREM StraysOnlyLanding == Spec => []OnlyLandingStrays
<1>1. Inv => OnlyLandingStrays
  BY DEF Inv, Steady, Adrift, OnlyLandingStrays
<1> QED BY <1>1, Invariance, PTL
-----------------------------------------------------------------------------
(* With no *after-gc* expression the stack has a simple shape: catch       *)
(* frames at the bottom, above them the C code that one primitive runs; an *)
(* err that goes to repl_driver calls nothing any more.  A section's flag  *)
(* tells whether interrupts are off below it.                              *)
Masking == {"crit", "gc", "err", "restart"}
Masked(s, n) == n \in 1..Len(s) /\ s[n].kind \in Masking

Calm(s) ==
  /\ \A i \in 1..Len(s) : s[i].kind # "hook"
  /\ \A i, j \in 1..Len(s) : j < i /\ s[i].kind \in Catching => s[j].kind \in Catching
  /\ \A i \in 1..Len(s) : s[i].kind = "restart" => i = 1
  /\ \A i \in 1..Len(s) : s[i].kind = "err" /\ s[i].target = 0 => i = Len(s)
  /\ \A i \in 1..Len(s) :
       s[i].kind \in {"crit", "gc"} => (s[i].flag = 1 <=> Masked(s, i - 1))

(* inside_err is set only with err on the stack, and not by the err that   *)
(* goes to repl_driver.                                                    *)
Erring(s) == \E i \in 1..Len(s) : s[i].kind \in {"err", "jump"}
Leaving(s) == s # <<>> /\ s[Len(s)].kind = "err" /\ s[Len(s)].target = 0

Quieter(s, masked, inside) ==
  /\ Calm(s)
  /\ masked = 1 <=> Masked(s, Len(s))
  /\ inside = 1 => Erring(s)
  /\ Leaving(s) => inside = 0

NoHook == ~AfterGC => Quieter(stack, nointerrupt, inside_err)
-----------------------------------------------------------------------------
LEMMA CalmCut ==
  ASSUME NEW s \in Seq(FrameRec), Calm(s), NEW n \in 0..Len(s)
  PROVE  Calm(SubSeq(s, 1, n))
<1> DEFINE t == SubSeq(s, 1, n)
<1>1. t \in Seq(FrameRec) /\ Len(t) = n /\ \A i \in 1..n : i \in 1..Len(s) /\ t[i] = s[i]
  OBVIOUS
<1>2. \A i \in 1..n : Masked(t, i - 1) <=> Masked(s, i - 1)
  BY <1>1 DEF Masked
<1> HIDE DEF t
<1>3. ASSUME NEW i \in 1..Len(t)
      PROVE  /\ t[i].kind # "hook"
             /\ t[i].kind = "restart" => i = 1
             /\ \A j \in 1..Len(t) : j < i /\ t[i].kind \in Catching => t[j].kind \in Catching
             /\ t[i].kind = "err" /\ t[i].target = 0 => i = Len(t)
             /\ t[i].kind \in {"crit", "gc"} => (t[i].flag = 1 <=> Masked(t, i - 1))
  <2>1. i \in 1..n /\ i \in 1..Len(s) /\ t[i] = s[i]
    BY <1>1
  <2>2. t[i].kind # "hook" /\ (t[i].kind = "restart" => i = 1)
    BY <2>1 DEF Calm
  <2>3. \A j \in 1..Len(t) : j < i /\ t[i].kind \in Catching => t[j].kind \in Catching
    BY <1>1, <2>1 DEF Calm
  <2>4. t[i].kind = "err" /\ t[i].target = 0 => i = Len(t)
    <3> SUFFICES ASSUME t[i].kind = "err", t[i].target = 0 PROVE i = Len(t)
      OBVIOUS
    <3>1. i = Len(s)
      BY <2>1 DEF Calm
    <3> QED BY <3>1, <2>1, <1>1
  <2>5. t[i].kind \in {"crit", "gc"} => (t[i].flag = 1 <=> Masked(t, i - 1))
    BY <1>2, <2>1 DEF Calm
  <2> QED BY <2>2, <2>3, <2>4, <2>5
<1>4. Calm(t)
  BY <1>3 DEF Calm
<1> QED BY <1>4 DEF t

LEMMA CalmPush ==
  ASSUME NEW s \in Seq(FrameRec), Calm(s), NEW f \in FrameRec,
         f.kind \notin {"hook", "restart"},
         ~Leaving(s),
         f.kind \in Catching => \A i \in 1..Len(s) : s[i].kind \in Catching,
         f.kind \in {"crit", "gc"} => (f.flag = 1 <=> Masked(s, Len(s)))
  PROVE  Calm(Append(s, f))
<1> DEFINE t == Append(s, f)
<1>1. /\ t \in Seq(FrameRec) /\ Len(t) = Len(s) + 1 /\ t[Len(s) + 1] = f
      /\ \A i \in 1..Len(s) : t[i] = s[i]
  OBVIOUS
<1>2. \A i \in 1..Len(s) : Masked(t, i - 1) <=> Masked(s, i - 1)
  BY <1>1 DEF Masked
<1>3. Masked(t, Len(s)) <=> Masked(s, Len(s))
  BY <1>1 DEF Masked
<1> HIDE DEF t
<1>4. ASSUME NEW i \in 1..Len(t)
      PROVE  /\ t[i].kind # "hook"
             /\ t[i].kind = "err" /\ t[i].target = 0 => i = Len(t)
             /\ t[i].kind = "restart" => i = 1
             /\ \A j \in 1..Len(t) : j < i /\ t[i].kind \in Catching => t[j].kind \in Catching
             /\ t[i].kind \in {"crit", "gc"} => (t[i].flag = 1 <=> Masked(t, i - 1))
  <2>1. CASE i \in 1..Len(s)
    <3>1. ~(s[i].kind = "err" /\ s[i].target = 0)
      BY <2>1 DEF Calm, Leaving
    <3> QED BY <2>1, <3>1, <1>1, <1>2 DEF Calm
  <2>2. CASE i = Len(s) + 1
    <3>1. i - 1 = Len(s)
      BY <2>2
    <3> QED BY <2>2, <3>1, <1>1, <1>3
  <2> QED BY <2>1, <2>2, <1>1
<1>5. Calm(t)
  BY <1>4 DEF Calm
<1> QED BY <1>5 DEF t

(* Where Lisp runs, and in leval_catch, every frame is a catch frame and   *)
(* nothing is set.                                                         *)
LEMMA LispCalm ==
  ASSUME Inv, ~AfterGC, NoHook,
         stack # <<>> => Top.kind \in Catching \union {"hook"}
  PROVE  /\ \A i \in 1..Len(stack) : stack[i].kind \in Catching
         /\ nointerrupt = 0 /\ inside_err = 0
<1>0. stack \in Seq(FrameRec) /\ nointerrupt \in {0, 1} /\ inside_err \in {0, 1}
  BY DEF Inv, Steady, Adrift, TypeOK, FrameRec
<1>1. stack # <<>> => Len(stack) \in 1..Len(stack) /\ stack[Len(stack)].kind \in Catching
  BY <1>0 DEF NoHook, Quieter, Calm, Top
<1>2. \A i \in 1..Len(stack) : stack[i].kind \in Catching
  BY <1>0, <1>1 DEF NoHook, Quieter, Calm
<1>3. nointerrupt = 0 /\ inside_err = 0
  BY <1>0, <1>2 DEF NoHook, Quieter, Masked, Masking, Erring, Catching
<1> QED BY <1>2, <1>3

(* Cutting the stack below a catch frame leaves catch frames only.         *)
LEMMA CutQuieter ==
  ASSUME NEW s \in Seq(FrameRec), Calm(s), NEW i \in 1..Len(s), s[i].kind \in Catching
  PROVE  /\ Quieter(SubSeq(s, 1, i - 1), 0, 0) /\ ~Leaving(SubSeq(s, 1, i - 1))
         /\ \A j \in 1..Len(SubSeq(s, 1, i - 1)) : SubSeq(s, 1, i - 1)[j].kind \in Catching
<1> DEFINE t == SubSeq(s, 1, i - 1)
<1>1. i - 1 \in 0..Len(s)
  OBVIOUS
<1>2. Calm(t)
  BY <1>1, CalmCut
<1>3. Len(t) = i - 1 /\ \A j \in 1..Len(t) : j \in 1..Len(s) /\ j < i /\ t[j] = s[j]
  OBVIOUS
<1>4. \A j \in 1..Len(t) : t[j].kind \in Catching
  BY <1>3 DEF Calm
<1> HIDE DEF t
<1>5. ~Masked(t, Len(t))
  BY <1>4 DEF Masked, Masking, Catching
<1>6. Quieter(t, 0, 0) /\ ~Leaving(t)
  BY <1>2, <1>3, <1>4, <1>5 DEF Quieter, Leaving, Catching
<1>7. \A j \in 1..Len(t) : t[j].kind \in Catching
  BY <1>4
<1> QED BY <1>6, <1>7 DEF t

(* With a frame of leval_catch in place of what was cut off.               *)
LEMMA LandQuieter ==
  ASSUME NEW s \in Seq(FrameRec), Calm(s), NEW i \in 1..Len(s), s[i].kind \in Catching,
         NEW f \in FrameRec, f.kind \in Catching
  PROVE  Quieter(Append(SubSeq(s, 1, i - 1), f), 0, 0)
<1> DEFINE r == SubSeq(s, 1, i - 1)
<1> DEFINE t == Append(r, f)
<1>1. /\ r \in Seq(FrameRec) /\ Calm(r) /\ ~Leaving(r)
      /\ \A j \in 1..Len(r) : r[j].kind \in Catching
  BY CutQuieter DEF Quieter
<1> HIDE DEF r
<1>2. Calm(t)
  BY <1>1, CalmPush DEF Catching
<1>3. t # <<>> /\ Len(t) \in 1..Len(t) /\ t[Len(t)] = f
  BY <1>1
<1> HIDE DEF t
<1>4. Quieter(t, 0, 0)
  BY <1>2, <1>3 DEF Quieter, Masked, Masking, Catching, Leaving
<1> QED BY <1>4 DEF t, r

(* err, whatever is below it.                                              *)
LEMMA RaiseQuieter ==
  ASSUME Steady, NEW s \in Seq(FrameRec), Calm(s), ~Leaving(s), Raise(s, 1)
  PROVE  Quieter(stack', nointerrupt', inside_err')
<1>1. PICK i \in 0..Len(stack) :
        /\ stack' = Append(s, Frame("err", "all", <<>>, inside_err, i))
        /\ inside_err' = IF i = 0 THEN 0 ELSE 1
  BY Facts, NoneGone DEF Raise
<1>2. nointerrupt' = 1
  BY Facts, NoneGone DEF Raise
<1> DEFINE f == Frame("err", "all", <<>>, inside_err, i)
<1>3. i \in Nat /\ inside_err \in {0, 1} /\ <<>> \in Seq(Nat)
  BY DEF Steady, TypeOK
<1>4. f \in FrameRec
  BY <1>3, FrameType DEF Kind, Tag
<1>5. f.kind = "err" /\ f.target = i
  BY DEF Frame
<1>6. stack' = Append(s, f)
  BY <1>1
<1> HIDE DEF f
<1>7. Calm(stack')
  BY <1>4, <1>5, <1>6, CalmPush DEF Catching
<1>8. stack' # <<>> /\ Len(stack') \in 1..Len(stack') /\ stack'[Len(stack')] = f
  BY <1>4, <1>6
<1>9. Masked(stack', Len(stack')) /\ Erring(stack')
  BY <1>5, <1>8 DEF Masked, Masking, Erring
<1>10. Leaving(stack') => inside_err' = 0
  BY <1>1, <1>5, <1>8 DEF Leaving
<1> QED BY <1>2, <1>7, <1>9, <1>10 DEF Quieter

(* The steps, one lemma for each group.                                    *)
LEMMA LispQuieter ==
  ASSUME Steady, ~AfterGC, NoHook, NEW tag \in Tag,
         CatchEnter(tag) \/ Throw(tag) \/ CatchReturn \/ CatchUnlink
  PROVE  Quieter(stack', nointerrupt', inside_err')
<1>1. Calm(stack)
  BY DEF NoHook, Quieter
<1>2. stack # <<>> => Top.kind \in Catching \union {"hook"}
  BY DEF CatchEnter, Throw, CatchReturn, CatchUnlink, On, Lisp, Catching
<1>3. /\ \A i \in 1..Len(stack) : stack[i].kind \in Catching
      /\ nointerrupt = 0 /\ inside_err = 0
  BY <1>2, LispCalm DEF Inv
<1>4. nointerrupt' = 0 /\ inside_err' = 0
  BY <1>3 DEF CatchEnter, Throw, CatchReturn, CatchUnlink, flags
<1>5. CASE CatchEnter(tag)
  <2> DEFINE f == Frame("catch", tag, catch_framep, 0, 0)
  <2>1. f \in FrameRec
    <3>1. 0 \in Nat /\ 0 \in {0, 1} /\ "catch" \in Kind
      BY DEF Kind, Catching
    <3> QED BY <3>1, FrameType, Facts
  <2>2. f.kind \in Catching
    BY DEF Frame, Catching
  <2>3. stack' = Append(stack, f)
    BY <1>5 DEF CatchEnter, Push
  <2> HIDE DEF f
  <2>4. ~Leaving(stack)
    BY <1>3, Facts DEF Leaving, Catching
  <2>5. Calm(stack')
    BY <1>1, <1>3, <2>1, <2>2, <2>3, <2>4, Facts, CalmPush DEF Catching
  <2>6. stack' # <<>> /\ stack'[Len(stack')] = f
    BY <2>1, <2>3, Facts
  <2> QED BY <1>4, <2>2, <2>5, <2>6 DEF Catching, Quieter, Masked, Masking, Leaving
<1>6. CASE Throw(tag)
  <2>1. PICK i \in 1..Len(stack) : Longjmp(i)
    BY <1>6 DEF Throw
  <2>2. [stack[i] EXCEPT !.kind = "landed"] \in FrameRec
    <3>1. stack[i] \in FrameRec
      BY Facts
    <3> QED BY <3>1 DEF FrameRec, Kind, Catching
  <2> DEFINE f == [stack[i] EXCEPT !.kind = "landed"]
  <2>3. f \in FrameRec /\ f.kind \in Catching
    BY <2>2, Facts DEF FrameRec, Catching
  <2>4. stack' = Append(SubSeq(stack, 1, i - 1), f)
    BY <2>1 DEF Longjmp
  <2> HIDE DEF f
  <2>5. Quieter(Append(SubSeq(stack, 1, i - 1), f), 0, 0)
    BY <1>1, <1>3, <2>3, Facts, LandQuieter
  <2> QED BY <1>4, <2>4, <2>5
<1>7. CASE CatchReturn \/ CatchUnlink
  <2>1. Len(stack) \in 1..Len(stack) /\ stack' = SubSeq(stack, 1, Len(stack) - 1)
    BY <1>7, Facts DEF CatchReturn, CatchUnlink, On, Pop
  <2>2. Quieter(SubSeq(stack, 1, Len(stack) - 1), 0, 0)
    BY <1>1, <1>3, <2>1, Facts, CutQuieter
  <2> QED BY <1>4, <2>1, <2>2
<1> QED BY <1>5, <1>6, <1>7

(* leval_catch links its frame again, whatever the list still holds.       *)
LEMMA RelinkQuieter ==
  ASSUME Inv, ~AfterGC, NoHook, CatchRelink
  PROVE  Quieter(stack', nointerrupt', inside_err')
<1>1. stack # <<>> /\ Top.kind = "landed" /\ Calm(stack)
  BY DEF CatchRelink, On, NoHook, Quieter
<1>2. stack \in Seq(FrameRec)
  BY DEF Inv, Steady, Adrift, TypeOK, FrameRec
<1> DEFINE i == Len(stack)
<1> DEFINE f == [Top EXCEPT !.kind = "linked"]
<1>3. i \in 1..Len(stack) /\ Top = stack[i] /\ Top \in FrameRec
  BY <1>1, <1>2 DEF Top
<1>4. f \in FrameRec /\ f.kind \in Catching
  BY <1>3 DEF FrameRec, Kind, Catching
<1>5. stack' = Append(SubSeq(stack, 1, i - 1), f)
  BY DEF CatchRelink, Pop
<1> HIDE DEF f
<1>6. nointerrupt = 0 /\ inside_err = 0
  BY <1>1, LispCalm DEF Catching
<1>7. Quieter(stack', 0, 0)
  BY <1>1, <1>2, <1>3, <1>4, <1>5, LandQuieter DEF Catching
<1> QED BY <1>6, <1>7 DEF CatchRelink, flags

LEMMA ErrQuieter ==
  ASSUME Steady, ~AfterGC, NoHook, NEW tag \in Tag,
         Error \/ ThrowUncaught(tag) \/ SigintRaised \/ InterruptCheck
  PROVE  Quieter(stack', nointerrupt', inside_err')
<1>1. stack # <<>> => Top.kind # "gc" /\ ~Leaving(stack)
  <2>1. CASE SigintRaised
    <3>1. ~Masked(stack, Len(stack))
      BY <2>1 DEF SigintRaised, NoHook, Quieter
    <3> QED BY <3>1, Facts DEF Masked, Masking, Leaving
  <2>2. CASE ~SigintRaised
    BY <2>2, Facts DEF Error, ThrowUncaught, InterruptCheck, Lisp, On, Consing, Leaving
  <2> QED BY <2>1, <2>2
<1>2. errjmp_ok = 1
  BY <1>1, Quiet
<1>3. Raise(stack, 1)
  BY <1>2 DEF Error, ThrowUncaught, SigintRaised, InterruptCheck
<1>4. ~Leaving(stack) /\ Calm(stack)
  BY <1>1 DEF NoHook, Quieter, Leaving
<1> QED BY <1>3, <1>4, Facts, RaiseQuieter

LEMMA ErrOpenQuieter ==
  ASSUME Steady, ~AfterGC, NoHook, ErrOpen
  PROVE  Quieter(stack', nointerrupt', inside_err')
<1>1. stack # <<>> /\ Top.kind = "err" /\ Calm(stack)
  BY DEF ErrOpen, On, NoHook, Quieter
<1> DEFINE n == Len(stack)
<1>2. n \in 1..Len(stack) /\ Top = stack[n] /\ stack[n] \in FrameRec
  BY <1>1, Facts
<1>3. /\ stack' \in Seq(FrameRec) /\ Len(stack') = n /\ stack'[n].kind = "jump"
      /\ \A i \in 1..n : i # n => stack'[i] = stack[i]
  <2> DEFINE f == [stack[n] EXCEPT !.kind = "jump"]
  <2>1. f \in FrameRec /\ f.kind = "jump"
    BY <1>2 DEF FrameRec, Kind
  <2>2. stack' = [stack EXCEPT ![n] = f]
    BY DEF ErrOpen
  <2> HIDE DEF f
  <2> QED BY <1>2, <2>1, <2>2, Facts
<1>4. \A i \in 1..n : Masked(stack', i - 1) <=> Masked(stack, i - 1)
  BY <1>2, <1>3 DEF Masked
<1>5. Calm(stack')
  BY <1>1, <1>2, <1>3, <1>4 DEF Calm, Catching
<1>6. ~Masked(stack', Len(stack')) /\ Erring(stack') /\ ~Leaving(stack')
  BY <1>2, <1>3 DEF Masked, Masking, Erring, Leaving
<1> QED BY <1>5, <1>6 DEF Quieter, ErrOpen

LEMMA LeaveQuieter ==
  ASSUME Steady, ~AfterGC, NoHook, ErrJump \/ Restart \/ RestartOpen
  PROVE  Quieter(stack', nointerrupt', inside_err')
<1>1. stack # <<>> /\ Calm(stack)
  BY DEF ErrJump, Restart, RestartOpen, On, NoHook, Quieter
<1>2. Len(stack) \in 1..Len(stack) /\ Top = stack[Len(stack)]
  BY <1>1, Facts
<1>3. CASE ErrJump
  <2>1. Top.kind = "jump"
    BY <1>3 DEF ErrJump, On
  <2>2. Top.target \in 1..(Len(stack) - 1) /\ stack[Top.target].kind \in Catching
    BY <1>2, <2>1, Facts DEF Shape, Aimed
  <2>3. nointerrupt = 0
    BY <1>2, <2>1, Facts DEF NoHook, Quieter, Masked, Masking
  <2> DEFINE i == Top.target
  <2> DEFINE f == [stack[i] EXCEPT !.kind = "landed"]
  <2>4. nointerrupt' = 0 /\ inside_err' = 0 /\ stack' = Append(SubSeq(stack, 1, i - 1), f)
    BY <1>3, <2>3 DEF ErrJump, Longjmp, flags
  <2>5. i \in 1..Len(stack) /\ stack[i] \in FrameRec
    BY <1>2, <2>2, Facts
  <2>6. f \in FrameRec /\ f.kind \in Catching
    BY <2>5 DEF FrameRec, Kind, Catching
  <2> HIDE DEF f
  <2>7. Quieter(Append(SubSeq(stack, 1, i - 1), f), 0, 0)
    BY <1>1, <2>2, <2>5, <2>6, Facts, LandQuieter
  <2> QED BY <2>4, <2>7
<1>4. CASE Restart
  <2> DEFINE r == Frame("restart", "all", <<>>, 0, 0)
  <2>1. r.kind = "restart"
    BY DEF Frame
  <2>2. stack' = <<r>>
    BY <1>4 DEF Restart
  <2> HIDE DEF r
  <2>3. Len(stack') = 1 /\ stack'[1] = r
    BY <2>2
  <2>4. Calm(stack') /\ Masked(stack', Len(stack')) /\ ~Leaving(stack')
    BY <2>1, <2>3 DEF Calm, Masked, Masking, Leaving
  <2>5. Top.kind = "err" /\ Top.target = 0
    BY <1>4 DEF Restart, On
  <2>6. nointerrupt = 1 /\ inside_err = 0
    BY <1>1, <1>2, <2>5 DEF NoHook, Quieter, Masked, Masking, Leaving
  <2> QED BY <1>4, <2>4, <2>6 DEF Quieter, Restart
<1>5. CASE RestartOpen
  <2>1. Top.kind = "restart"
    BY <1>5 DEF RestartOpen, On
  <2>2. Len(stack) = 1
    BY <1>1, <1>2, <2>1 DEF Calm
  <2>3. ~Erring(stack)
    BY <1>2, <2>1, <2>2 DEF Erring
  <2>4. inside_err = 0
    BY <2>3, Facts DEF NoHook, Quieter
  <2>5. Len(stack') = 0 /\ stack' = <<>>
    BY <1>5, <2>2, Facts DEF RestartOpen, Pop
  <2> QED BY <1>5, <2>4, <2>5 DEF RestartOpen, Quieter, Calm, Masked, Leaving
<1> QED BY <1>3, <1>4, <1>5

LEMMA EnterQuieter ==
  ASSUME Steady, ~AfterGC, NoHook, CritEnter \/ GcEnter
  PROVE  Quieter(stack', nointerrupt', inside_err')
<1>1. Calm(stack) /\ (nointerrupt = 1 <=> Masked(stack, Len(stack))) /\ (inside_err = 1 => Erring(stack))
  BY DEF NoHook, Quieter
<1>2. ~Leaving(stack)
  BY DEF CritEnter, GcEnter, Allocating, Lisp, On, Consing, Leaving, Top
<1>3. PICK k \in {"crit", "gc"} : stack' = Append(stack, Frame(k, "all", <<>>, nointerrupt, 0))
  BY DEF CritEnter, GcEnter, Push
<1> DEFINE f == Frame(k, "all", <<>>, nointerrupt, 0)
<1>4. f \in FrameRec
  <2>1. 0 \in Nat /\ "all" \in Tag /\ k \in Kind /\ <<>> \in Seq(Nat)
    BY DEF Tag, Kind
  <2> QED BY <2>1, Facts, FrameType
<1>5. f.kind = k /\ f.flag = nointerrupt
  BY DEF Frame
<1>6. stack' = Append(stack, f)
  BY <1>3
<1> HIDE DEF f
<1>7. Calm(stack')
  BY <1>1, <1>2, <1>4, <1>5, <1>6, Facts, CalmPush DEF Catching
<1>8. /\ Len(stack') = Len(stack) + 1 /\ stack'[Len(stack) + 1] = f
      /\ \A i \in 1..Len(stack) : stack'[i] = stack[i]
  BY <1>4, <1>6, Facts
<1>9. Masked(stack', Len(stack')) /\ ~Leaving(stack') /\ (Erring(stack) => Erring(stack'))
  BY <1>5, <1>8, Facts DEF Masked, Masking, Leaving, Erring
<1>10. nointerrupt' = 1 /\ inside_err' = inside_err
  BY DEF CritEnter, GcEnter
<1> QED BY <1>1, <1>7, <1>9, <1>10 DEF Quieter

(* Both ends of a section: what lies below it.                             *)
LEMMA BelowSection ==
  ASSUME Steady, ~AfterGC, NoHook, stack # <<>>, Top.kind \in {"crit", "gc"}
  PROVE  /\ Pop \in Seq(FrameRec) /\ Calm(Pop) /\ ~Leaving(Pop)
         /\ Top.flag = 1 <=> Masked(Pop, Len(Pop))
         /\ Erring(stack) => Erring(Pop)
<1>1. Calm(stack)
  BY DEF NoHook, Quieter
<1>2. Len(stack) \in 1..Len(stack) /\ Top = stack[Len(stack)] /\ Len(stack) - 1 \in 0..Len(stack)
  BY Facts
<1>3. /\ Pop \in Seq(FrameRec) /\ Len(Pop) = Len(stack) - 1
      /\ \A i \in 1..(Len(stack) - 1) : Pop[i] = stack[i]
  BY Facts, Popped DEF Pop
<1>4. Calm(Pop)
  BY <1>1, <1>2, Facts, CalmCut DEF Pop
<1>5. Masked(Pop, Len(Pop)) <=> Masked(stack, Len(stack) - 1)
  BY <1>2, <1>3 DEF Masked
<1>6. Top.flag = 1 <=> Masked(stack, Len(stack) - 1)
  BY <1>1, <1>2 DEF Calm
<1>7. Erring(stack) => Erring(Pop)
  <2> SUFFICES ASSUME NEW i \in 1..Len(stack), stack[i].kind \in {"err", "jump"}
               PROVE  Erring(Pop)
    BY DEF Erring
  <2>1. i # Len(stack)
    BY <1>2
  <2>2. i \in 1..Len(Pop) /\ Pop[i] = stack[i]
    BY <2>1, <1>2, <1>3
  <2> QED BY <2>2 DEF Erring
<1>8. ~Leaving(Pop)
  <2> SUFFICES ASSUME Leaving(Pop) PROVE FALSE
    OBVIOUS
  <2>1. Pop # <<>> /\ Len(Pop) \in 1..Len(Pop)
    BY <1>3 DEF Leaving
  <2>2. Len(Pop) \in 1..Len(stack) /\ Len(Pop) # Len(stack) /\ Pop[Len(Pop)] = stack[Len(Pop)]
    BY <2>1, <1>2, <1>3
  <2> QED BY <2>1, <2>2, <1>1 DEF Leaving, Calm
<1> QED BY <1>3, <1>4, <1>5, <1>6, <1>7, <1>8

LEMMA ExitQuieter ==
  ASSUME Steady, ~AfterGC, NoHook,
         CritExit \/ GcExit \/ CritExitInterrupted \/ GcExitInterrupted
  PROVE  Quieter(stack', nointerrupt', inside_err')
<1>1. stack # <<>> /\ Top.kind \in {"crit", "gc"}
  BY DEF CritExit, GcExit, CritExitInterrupted, GcExitInterrupted, On
<1>2. /\ Pop \in Seq(FrameRec) /\ Calm(Pop) /\ ~Leaving(Pop)
      /\ Top.flag = 1 <=> Masked(Pop, Len(Pop))
      /\ Erring(stack) => Erring(Pop)
  BY <1>1, BelowSection
<1>3. CASE CritExit \/ GcExit
  <2>1. stack' = Pop /\ nointerrupt' = Top.flag /\ inside_err' = inside_err
    BY <1>3 DEF CritExit, GcExit
  <2> QED BY <1>2, <2>1 DEF Quieter, NoHook
<1>4. CASE CritExitInterrupted \/ GcExitInterrupted
  <2>1. Raise(Pop, 1)
    <3>1. CASE CritExitInterrupted
      <4>1. errjmp_ok = 1
        BY <3>1, Quiet DEF CritExitInterrupted, On
      <4> QED BY <3>1, <4>1 DEF CritExitInterrupted
    <3>2. CASE GcExitInterrupted
      BY <3>2 DEF GcExitInterrupted
    <3> QED BY <1>4, <3>1, <3>2
  <2> QED BY <1>2, <2>1, RaiseQuieter
<1> QED BY <1>3, <1>4

LEMMA InitNoHook == Init => NoHook
<1> SUFFICES ASSUME Init PROVE NoHook
  OBVIOUS
<1>1. Len(stack) = 1 /\ stack[1].kind = "restart"
  BY DEF Init, Frame
<1>2. Calm(stack) /\ Masked(stack, Len(stack)) /\ ~Leaving(stack)
  BY <1>1 DEF Calm, Masked, Masking, Leaving
<1> QED BY <1>2 DEF NoHook, Quieter, Init

LEMMA SteadyNoHook ==
  ASSUME Steady, NoHook, [Next]_vars, ~AfterGC
  PROVE  Quieter(stack', nointerrupt', inside_err')
<1>1. ASSUME NEW tag \in Tag, CatchEnter(tag) \/ Throw(tag) \/ ThrowUncaught(tag)
      PROVE  Quieter(stack', nointerrupt', inside_err')
  BY <1>1, LispQuieter, ErrQuieter
<1>2. CASE CatchReturn \/ CatchUnlink
  BY <1>2, LispQuieter DEF Tag
<1>3. CASE CatchRelink
  BY <1>3, RelinkQuieter DEF Inv
<1>4. CASE Error \/ SigintRaised \/ InterruptCheck
  BY <1>4, ErrQuieter DEF Tag
<1>5. CASE ErrOpen
  BY <1>5, ErrOpenQuieter
<1>6. CASE ErrJump \/ Restart \/ RestartOpen
  BY <1>6, LeaveQuieter
<1>7. CASE CritEnter \/ GcEnter
  BY <1>7, EnterQuieter
<1>8. CASE CritExit \/ GcExit \/ CritExitInterrupted \/ GcExitInterrupted
  BY <1>8, ExitQuieter
<1>9. CASE HookReturn
  <2>1. stack # <<>> /\ Top.kind = "hook" /\ Calm(stack)
    BY <1>9 DEF HookReturn, On, NoHook, Quieter
  <2> QED BY <2>1, Facts DEF Calm
<1>10. CASE ErrClear
  <2>1. stack' = stack /\ nointerrupt' = nointerrupt /\ inside_err' = 0
    BY <1>10 DEF ErrClear
  <2> QED BY <2>1 DEF NoHook, Quieter
<1>11. CASE SigintDeferred \/ Astray \/ UNCHANGED vars
  BY <1>11 DEF SigintDeferred, Astray, vars, flags, NoHook
<1> QED
  BY <1>1, <1>2, <1>3, <1>4, <1>5, <1>6, <1>7, <1>8, <1>9, <1>10, <1>11 DEF Next

LEMMA StepNoHook == Inv /\ NoHook /\ [Next]_vars => NoHook'
<1> SUFFICES ASSUME Inv, NoHook, [Next]_vars, ~AfterGC
             PROVE  Quieter(stack', nointerrupt', inside_err')
  BY DEF NoHook
<1>1. CASE Steady
  BY <1>1, SteadyNoHook
<1>2. CASE Adrift
  <2>1. CatchRelink \/ UNCHANGED <<stack, nointerrupt, inside_err>>
    BY <1>2, AdriftSteps
  <2> QED BY <2>1, RelinkQuieter DEF NoHook
<1> QED BY <1>1, <1>2 DEF Inv

(* With no *after-gc* expression the stack keeps the shape, and the flags  *)
(* say of it what NoHook states.                                           *)
THEOREM NoHookInvariance == Spec => []NoHook
<1>1. Init /\ [][Next]_vars => []Inv
  BY Invariance DEF Spec
<1> QED BY <1>1, InitNoHook, StepNoHook, PTL DEF Spec

(* With no *after-gc* expression interrupts stay off in critical sections. *)
THEOREM SectionsProtected == Spec => []CriticalProtected
<1>1. Inv /\ NoHook => CriticalProtected
  <2> SUFFICES ASSUME Inv, NoHook, ~AfterGC, On({"crit", "gc"}) PROVE nointerrupt = 1
    BY DEF CriticalProtected
  <2>1. stack \in Seq(FrameRec)
    BY DEF Inv, Steady, Adrift, TypeOK, FrameRec
  <2>2. Masked(stack, Len(stack))
    BY <2>1 DEF On, Masked, Masking, Top
  <2> QED BY <2>2 DEF NoHook, Quieter
<1> QED BY <1>1, Invariance, NoHookInvariance, PTL

(* With no *after-gc* expression interrupts are off only where some code   *)
(* on the stack will enable them again.                                    *)
THEOREM NeverStuck == Spec => []NotStuck
<1>1. NoHook => NotStuck
  BY DEF NoHook, Quieter, Masked, Masking, NotStuck, Has
<1> QED BY <1>1, NoHookInvariance, PTL

(* With no *after-gc* expression inside_err is set only while err runs.    *)
THEOREM InsideErrCorrect == Spec => []InsideErrOnlyInErr
<1>1. NoHook => InsideErrOnlyInErr
  BY DEF NoHook, Quieter, Erring, InsideErrOnlyInErr, Has
<1> QED BY <1>1, NoHookInvariance, PTL

(* Every error, throw and interrupt finds a live frame of leval_catch and  *)
(* none is raised in the collector, but for SIGINT under Unix between a    *)
(* longjmp and the link of the frame it lands in.                          *)
THEOREM JumpsLandCorrect == Spec => []JumpsLand
  BY CatchFramesCorrect, ErrNeverFatal, StraysOnlyLanding, PTL DEF JumpsLand

(* nointerrupt and inside_err mean what the C stack says.                  *)
THEOREM FlagsMeanCorrect == Spec => []FlagsMean
  BY SectionsProtected, NeverStuck, InsideErrCorrect, PTL DEF FlagsMean
=============================================================================
