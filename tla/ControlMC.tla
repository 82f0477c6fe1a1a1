----------------------------- MODULE ControlMC -----------------------------
EXTENDS Control

(* What siod.html:545-553 says of an error: the *catch it goes to returns  *)
(* the cons of the message and the object.  err returns NIL instead when   *)
(* it is called inside err.                                                *)
ErrorsCarryAPair ==
  \A i \in 1..Len(stack) : stack[i].kind = "jump" => stack[i].flag = 0
=============================================================================
