------------------------------- MODULE Script -------------------------------
(***************************************************************************)
(* A script: main of src/imsh.c puts the text of the file into one form    *)
(* and gives it to repl_c_string (src/siod/slib.c), whose reader gives     *)
(* repl that form and then the end of the input.                           *)
(***************************************************************************)
EXTENDS Collectors
LOCAL FS == INSTANCE FiniteSetsExt
LOCAL SX == INSTANCE SequencesExt

(* The lines as they are. *)
Wrapped_Verbatim(text) == Bytes("(*catch 'errobj (begin ") \o text \o Bytes("))")
(* The wrapper catches every error; the lines of the script become one. *)
Wrapped(text) == Bytes("(*catch 'errobj (begin ")
                 \o [j \in DOMAIN text |-> IF text[j] \in {10, 13} THEN 32 ELSE text[j]] \o Bytes("))")

(* repl_c_string_print: as much as the buffer holds, and its final zero.   *)
(* The buffer one byte longer than it is.                                  *)
ReplCStringPrint_OffByOne(m, x, size) ==
    LET text == Printed(m, x)
        told == [m EXCEPT !.reply = SubSeq(text, 1, FS!Min({Len(text), size}))]
    IN  IF Len(text) > size THEN Err(told, "repl_c_string_print overflow", NIL) ELSE told
ReplCStringPrint(m, x, size) ==
    LET text == Printed(m, x)
        told == [m EXCEPT !.reply = SubSeq(text, 1, FS!Min({Len(text), size - 1}))]
    IN  IF Len(text) > size - 1 THEN Err(told, "repl_c_string_print overflow", NIL) ELSE told

(* repl_c_string: 2 after a longjmp to errjmp, since nothing was printed   *)
(* then, or after quit, or when there is no form; 0 when its value was     *)
(* printed, to stdout, or over the text itself when that has a size.       *)
Replied(n, wantPrint) ==
    CASE wantPrint = 0 -> [n EXCEPT !.status = 0]
      [] wantPrint = 1 -> [PutTo(n, Stdout, Append(Printed(n, n.v), 10)) EXCEPT !.status = 0, !.v = n.v]
      [] OTHER -> Then(ReplCStringPrint(n, n.v, wantPrint), LAMBDA p : [p EXCEPT !.status = 0])
AfterText(n, wantPrint) == IF n.v = NoForm \/ n.esc # Running THEN n ELSE Replied(n, wantPrint)

(* A call of repl_driver: what is read first and what is printed at last.  *)
(* A text is one form, and its status is there before it is read.  stdin   *)
(* has another turn after each form, and after a failure, of the init file *)
(* too; its status is 0 when the input ends and 2 after quit.              *)
Stdin1 == [from |-> "stdin", text |-> <<>>, wantPrint |-> 0]
InitFile(name) == [Stdin1 EXCEPT !.from = "init", !.text = name]
ReplCString(bytes, wantPrint) == [from |-> "text", text |-> Until0(bytes), wantPrint |-> wantPrint]

NewText(m, wantPrint) == [m EXCEPT !.status = 2, !.reply = IF wantPrint > 1 THEN <<>> ELSE @]
RECURSIVE ReplDriver(_, _)
AfterTurn(k, call) ==
    CASE call.from = "text" -> AfterText(k, call.wantPrint)
      [] k.v = NoForm -> [k EXCEPT !.status = 0]
      [] k.quit -> [k EXCEPT !.status = 2]
      [] k.beyond # {} -> k
      [] OTHER -> ReplDriver(k, Stdin1)
ReplDriver(m, call) ==
    AfterTurn(Repl(IF call.from = "text" THEN NewText(Restarted(m), call.wantPrint) ELSE Restarted(m), call.from, call.text), call)

(* A process: a machine and the calls of repl_driver that it makes.  One   *)
(* that is not always made is left out after a status other than 0.        *)
Always(calls) == [j \in DOMAIN calls |-> [call |-> calls[j], always |-> TRUE]]
Served(process) ==
    SX!FoldLeft(LAMBDA k, c : CASE k.beyond # {} \/ (k.status # 0 /\ ~c.always) -> k
                                [] c.call.from = "beyond" -> Beyond(k, c.call.text)
                                [] OTHER -> ReplDriver(k, c.call), process.m, process.calls)

(* main with an argument.  When there is no such file it says so, and then *)
(* closes the file.                                                        *)
Main(m, name) ==
    IF ~Exists(m, name) THEN [m |-> Beyond([m EXCEPT !.status = 255], "fclose of NULL"), calls |-> <<>>]
    ELSE [m |-> m, calls |-> Always(<<ReplCString(Wrapped(m.files[name]), 1)>>)]

(* A program that gives texts to repl_c_string, in a buffer of that size.  *)
Embedding(m, texts, size) == [m |-> m, calls |-> Always([j \in DOMAIN texts |-> ReplCString(Bytes(texts[j]), size)])]
=============================================================================
