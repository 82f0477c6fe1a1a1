------------------------------ MODULE Session ------------------------------
(***************************************************************************)
(* A session with the interpreter: repl_driver and repl (src/siod/slib.c)  *)
(* read a form after the other from stdin and evaluate it; a longjmp to    *)
(* errjmp comes back to repl_driver, which drops the frames of *catch and  *)
(* goes on with the rest of the input.  Or a run of a script, a command    *)
(* with arguments, or a program that gives texts to repl_c_string, which   *)
(* end the process.  The collector may run between two forms.              *)
(***************************************************************************)
EXTENDS Command
LOCAL SX == INSTANCE SequencesExt

CONSTANTS Offered(_, _), \* what the user may give to the machine after what was given: records with a field text
          Seeds,        \* seeds of rand()
          Orders,       \* whether the build evaluates the later arguments of a primitive from the right
          Copying       \* whether the collector copies

VARIABLES m,      \* the machine
          past    \* all that the user gave
vars == <<m, past>>

Init == /\ m \in {Fresh(seed, fromRight, copying) : seed \in Seeds, fromRight \in Orders, copying \in Copying}
        /\ past = <<>>

input == m.streams[Stdin]
Waits == At(input.text, FlushWs(input.text, input.pos, FALSE)) = EOF
Interactive(job) == job.kind \notin {"script", "command", "embedded", "gc"}
Give(job) == /\ Waits
             /\ Interactive(job)
             /\ m' = Given(m, Bytes(job.text))
             /\ past' = Append(past, job)
Evaluate == /\ ~Waits
            /\ m' = Turn(m)
            /\ past' = past
(* A process that does not wait for the user. *)
ProcessFor(job) ==
    CASE job.kind = "script" -> Main([m EXCEPT !.files = [name \in {"script"} |-> Bytes(job.text)]], "script")
      [] job.kind = "command" -> Siod(Given([m EXCEPT !.files = job.files], Bytes(job.stdin)), job.argv)
      [] job.kind = "embedded" -> Embedding(m, job.texts, job.size)
Run(job) == /\ past = <<>>
            /\ job.kind \in {"script", "command", "embedded"}
            /\ m' = Served(ProcessFor(job))
            /\ past' = <<job>>

(* The collector marks and sweeps: (gc), or the cells have run out. *)
Collect(job, oldestFirst) == /\ Waits
                             /\ job.kind = "gc"
                             /\ ~m.copying
                             /\ m' = GcMarkAndSweep(m, oldestFirst)
                             /\ past' = Append(past, job)

Next == /\ ~m.quit /\ m.beyond = {} /\ m.status = -1
        /\ \/ Evaluate
           \/ \E job \in Offered(m, past) :
                  Give(job) \/ Run(job) \/ \E oldestFirst \in BOOLEAN : Collect(job, oldestFirst)
Spec == Init /\ [][Next]_vars

-----------------------------------------------------------------------------
(* What the user sees of the last form when the interpreter waits again *)

Answered == Waits /\ past # <<>>
Job == past[Len(past)]
Failed == m.esc = TopLevel
Result == IF Failed THEN Vcell(m, "errobj") ELSE m.v

RECURSIVE Seen(_)
Seen(x) == CASE Consp(m, x) -> "(" \o Seen(CAR(m, x)) \o " . " \o Seen(CDR(m, x)) \o ")"
             [] IsType(m, x, {"tc_closure", "tc_closure_traced"}) -> "a function"
             [] OTHER -> Name(Printed(m, x))
=============================================================================
