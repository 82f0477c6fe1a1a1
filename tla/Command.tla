------------------------------ MODULE Command ------------------------------
(***************************************************************************)
(* The interpreter as a command: siod_main and htqs_arg of                 *)
(* src/siod/slibu.c, process_cla of src/siod/slib.c, and the arguments of  *)
(* a script that is its own program.  Each argument that is no option is a *)
(* form, a file to require or the word repl.                               *)
(***************************************************************************)
EXTENDS Script
LOCAL SX == INSTANCE SequencesExt

(* siod_argv of src/siod/siod.c: ten heaps, no copying, no init file.      *)
Dash == 45
DefaultFlags == [main |-> 0, plain |-> FALSE, init |-> <<>>, copying |-> FALSE, nheaps |-> 10]
Number1(digits) == Value(SubSeq(digits, 1, Spn(digits, IsDigit)), 10)

(* process_cla, for an option of at least two bytes: those that only give  *)
(* a size or say how much to print change nothing here.                    *)
ProcessCla(flags, option) ==
    LET what == option[2]
        arg == SubSeq(option, 3, Len(option))
        colon == Strstr(arg, Bytes(":"), 1)
    IN  CASE what = CodeOf["i"] -> [flags EXCEPT !.init = arg]
          [] what = CodeOf["g"] -> [flags EXCEPT !.copying = (Number1(arg) = 1)]
          [] what = CodeOf["h"] /\ colon # 0 -> [flags EXCEPT !.nheaps = Number1(SubSeq(arg, colon + 1, Len(arg)))]
          [] OTHER -> flags
(* -m is for siod_main, and so is -v when its number does not begin with 0. *)
Option(flags, option) ==
    CASE Len(option) < 2 -> flags
      [] option[2] = CodeOf["m"] -> [flags EXCEPT !.main = Number1(SubSeq(option, 3, Len(option)))]
      [] option[2] = CodeOf["v"] -> [flags EXCEPT !.plain = @ \/ At(option, 3) \in 49..57]
      [] OTHER -> ProcessCla(flags, option)
RECURSIVE Options(_)
Options(arg) ==
    LET comma == Strstr(arg, Bytes(",-"), 1) IN
    IF comma = 0 THEN <<arg>> ELSE <<SubSeq(arg, 1, comma - 1)>> \o Options(SubSeq(arg, comma + 1, Len(arg)))
IsOption(arg) == At(arg, 1) = Dash
FlagsOf(args) ==
    SX!FoldLeft(Option, DefaultFlags, SX!FlattenSeq([j \in DOMAIN args |-> IF IsOption(args[j]) THEN Options(args[j]) ELSE <<>>]))

(* The name as it is. *)
HtqsRequire_Unescaped(value) == Bytes("(require \"") \o value \o Bytes("\")")
HtqsRequire(value) ==
    LET Escape1(b) == IF b \in {CodeOf["\\"], CodeOf["\""]} THEN <<CodeOf["\\"], b>> ELSE <<b>>
    IN  Bytes("(require \"") \o SX!FlattenSeq([j \in DOMAIN value |-> Escape1(value[j])]) \o Bytes("\")")
(* htqs_arg; tmpbuff has 1024 bytes. *)
HtqsArg(value, flags) ==
    CASE value \in {Bytes("(repl)"), Bytes("repl")} -> IF flags.init = <<>> THEN Stdin1 ELSE InitFile(flags.init)
      [] CodeOf["("] \in SX!ToSet(value) -> ReplCString(value, 0)
      [] Len(HtqsRequire(value)) >= 1024 -> [Stdin1 EXCEPT !.from = "beyond", !.text = "write past the end of tmpbuff"]
      [] OTHER -> ReplCString(HtqsRequire(value), 0)

(* siod_main: the arguments in turn until one fails; with -m2 and more     *)
(* than two arguments of any kind only the first two.  Then -m calls main, *)
(* even after a failure, and the status is what that gives.                *)
CallOfMain(flags) ==
    IF flags.main > 2 /\ ~flags.plain THEN "(__cgi-main " \o ToString(flags.main) \o " (*catch 'errobj (main))))" ELSE "(main)"
Calls(argv, flags) ==
    LET last == IF flags.main >= 2 /\ Len(argv) > 3 THEN 3 ELSE Len(argv)
        args == SelectSeq(SubSeq(argv, 2, last), LAMBDA arg : ~IsOption(arg))
        main == IF flags.main = 0 THEN <<>> ELSE Always(<<HtqsArg(Bytes(CallOfMain(flags)), flags)>>)
    IN  IF \A j \in 2..Len(argv) : IsOption(argv[j]) THEN Always(<<HtqsArg(Bytes("repl"), flags)>>)
        ELSE [j \in DOMAIN args |-> [call |-> HtqsArg(args[j], flags), always |-> FALSE]] \o main
Args(m, argv) ==
    LET all == SX!FoldLeft(LAMBDA s, arg : LET k == Strcons(s.m, arg) IN [m |-> k, list |-> Append(s.list, k.v)],
                           [m |-> m, list |-> <<>>], argv)
    IN  Then(List(all.m, all.list), LAMBDA k : [SetVcell(k, "*args*", k.v) EXCEPT !.status = 0])
ProcessOf(m, argv, flags) ==
    CASE (flags.copying /\ flags.nheaps # 2) \/ flags.nheaps < 1 -> [m |-> [m EXCEPT !.status = 10], calls |-> <<>>]
      [] OTHER -> [m |-> Args([m EXCEPT !.copying = flags.copying], argv), calls |-> Calls(argv, flags)]
SiodMain(m, argv) == ProcessOf(m, argv, FlagsOf(Tail(argv)))

(* siod_shuffle_args: when a file with the name of the command holds a     *)
(* script, the script is the first argument, after the flags of its line.  *)
ShuffleArgs(m, argv) ==
    LET found == PositionScript(m.files[Name(argv[1])])
        flags == IF found.flags = <<>> THEN <<>> ELSE <<found.flags>>
    IN  IF ~Exists(m, Name(argv[1])) \/ found.pos < 0 THEN argv
        ELSE <<Bytes("siod.exe")>> \o flags \o <<Bytes(ToString(found.pos)) \o <<Bar>> \o argv[1]>> \o Tail(argv)
Siod(m, argv) == SiodMain(m, ShuffleArgs(m, argv))
=============================================================================
