---------------------------- MODULE ObjectStore ----------------------------
(***************************************************************************)
(* What a garbage-collected store promises the Lisp program that uses it,  *)
(* with no free list, marks or heaps: an object keeps its address and its  *)
(* contents for as long as the program can reach it, a new object gets an  *)
(* address no live object has, and the bitmap of an image is unloaded      *)
(* exactly when the image is reclaimed.  Storage implements this.          *)
(***************************************************************************)
CONSTANTS Addr, NIL, Bitmap

VARIABLES
  obj,     \* contents of every live object: a function on live addresses
  held,    \* objects the program holds in variables and running calls
  bitmap   \* "none", "loaded" or "unloaded"

vars == <<obj, held, bitmap>>

Live == DOMAIN obj
Links(c) == IF c.type = "cons" THEN {c.car, c.cdr} \cap Addr ELSE {}
Images(S) == {obj[a].cdr : a \in {s \in S : obj[s].type = "img"}}

Init ==
  /\ obj = [a \in {} |-> NIL]
  /\ held = {}
  /\ bitmap = [b \in Bitmap |-> "none"]

(* The program drops references and follows the links of what it holds.    *)
Move ==
  /\ held' \subseteq held \cup UNION {Links(obj[a]) : a \in held}
  /\ UNCHANGED <<obj, bitmap>>

Load(b) ==
  /\ bitmap[b] = "none"
  /\ bitmap' = [bitmap EXCEPT ![b] = "loaded"]
  /\ UNCHANGED <<obj, held>>

New(a, c) ==
  /\ a \notin Live
  /\ c.type = "cons" => Links(c) \subseteq held
  /\ c.type = "img" => bitmap[c.cdr] = "loaded" /\ c.cdr \notin Images(Live)
  /\ obj' = [x \in Live \cup {a} |-> IF x = a THEN c ELSE obj[x]]
  /\ a \in held'
  /\ held' \subseteq held \cup {a}
  /\ UNCHANGED bitmap

(* setcar and setcdr.                                                      *)
Write(a, x) ==
  /\ obj[a].type = "cons"
  /\ obj' = [obj EXCEPT ![a].car = x] \/ obj' = [obj EXCEPT ![a].cdr = x]
  /\ UNCHANGED <<held, bitmap>>

(* A collection: nothing in S is held or linked from what remains.         *)
Reclaim(S) ==
  /\ held \cap S = {}
  /\ \A a \in Live \ S : Links(obj[a]) \cap S = {}
  /\ obj' = [a \in Live \ S |-> obj[a]]
  /\ bitmap' = [b \in Bitmap |-> IF b \in Images(S) THEN "unloaded" ELSE bitmap[b]]
  /\ UNCHANGED held

Cell == [type : {"cons"}, car : Addr \cup {NIL}, cdr : Addr \cup {NIL}]
          \cup [type : {"img"}, car : {NIL}, cdr : Bitmap]

Next ==
  \/ Move
  \/ \E b \in Bitmap : Load(b)
  \/ \E a \in Addr, c \in Cell : New(a, c)
  \/ \E a \in held, x \in held \cup {NIL} : Write(a, x)
  \/ \E S \in SUBSET Live : Reclaim(S)

Spec == Init /\ [][Next]_vars
=============================================================================
