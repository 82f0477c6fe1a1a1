------------------------------ MODULE Obarray ------------------------------
(***************************************************************************)
(* The table of the symbols of SIOD: gen_intern of src/siod/slib.c, which  *)
(* reader and C code call for the symbol of a name.                        *)
(*                                                                         *)
(* gen_intern reads the list of its bucket, makes the symbol and writes    *)
(* the list back with the symbol before it; then it does the same with     *)
(* oblistvar.  Each of its three NEWCELLs may collect and evaluate the     *)
(* expression in *after-gc*, and no_interrupt does not keep that from      *)
(* calling gen_intern: `calls' is the stack of the calls under way, all    *)
(* waiting in a NEWCELL.  The module is about obarray_dim > 1 (it is 100   *)
(* unless -o changes it).                                                  *)
(***************************************************************************)
EXTENDS Integers, Sequences

CONSTANTS Names,      \* print names
          Dim,        \* obarray_dim
          Hash,       \* for each name, what the loop of gen_intern computes
          AfterGC,    \* whether *after-gc* holds an expression
          MaxSymbols, \* bound: symbols made
          MaxCalls    \* bound: calls under way at a time

ASSUME ObarrayAssumption ==
    /\ Dim \in Nat \ {0, 1}
    /\ Hash \in [Names -> Int]
    /\ AfterGC \in BOOLEAN
    /\ MaxSymbols \in Nat /\ MaxCalls \in Nat

VARIABLES pname,    \* the print name of each symbol made, oldest first
          obarray,  \* the buckets, lists of symbols
          oblist,   \* oblistvar
          calls,    \* the calls under way, innermost last
          answer,   \* for each name, the symbol last returned for it, or None
          disturbed,\* history: the buckets written while an outer call held their list
          outside   \* the names for which obarray was read outside its bounds
vars == <<pname, obarray, oblist, calls, answer, disturbed, outside>>

None == 0
Buckets == 0..(Dim - 1)
Elements(list) == {list[j] : j \in DOMAIN list}
Stages == {"symcons", "bucket", "oblist"}
Call == [name : Names, at : Stages, sl : Seq(Nat), sym : Nat, ol : Seq(Nat)]
Top == calls[Len(calls)]
Pop == SubSeq(calls, 1, Len(calls) - 1)

Init ==
    /\ pname = <<>>
    /\ obarray = [h \in Buckets |-> <<>>]
    /\ oblist = <<>>
    /\ calls = <<>>
    /\ answer = [n \in Names |-> None]
    /\ disturbed = {}
    /\ outside = {}

-----------------------------------------------------------------------------
(* A new call: from the program, or from *after-gc* in a NEWCELL of Top. *)

MayCall == outside = {} /\ (calls = <<>> \/ AfterGC)
(* The list searched no further than its first symbol. *)
Matches_First(name) == {j \in DOMAIN obarray[Hash[name]] : j = 1 /\ pname[obarray[Hash[name]][j]] = name}
Matches(name) == {j \in DOMAIN obarray[Hash[name]] : pname[obarray[Hash[name]][j]] = name}

Found(name) ==
    /\ MayCall
    /\ Hash[name] \in Buckets
    /\ \E j \in Matches(name) :
          /\ \A k \in Matches(name) : j <= k
          /\ answer' = [answer EXCEPT ![name] = obarray[Hash[name]][j]]
    /\ UNCHANGED <<pname, obarray, oblist, calls, disturbed, outside>>

(* The call to symcons left out: NIL is filed. *)
Missing_NoSymcons(name) ==
    /\ MayCall
    /\ Hash[name] \in Buckets
    /\ Matches(name) = {}
    /\ Len(calls) < MaxCalls /\ Len(pname) + Len(calls) < MaxSymbols
    /\ calls' = Append(calls, [name |-> name, at |-> "bucket", sl |-> obarray[Hash[name]], sym |-> None, ol |-> <<>>])
    /\ UNCHANGED <<pname, obarray, oblist, answer, disturbed, outside>>
Missing(name) ==
    /\ MayCall
    /\ Hash[name] \in Buckets
    /\ Matches(name) = {}
    /\ Len(calls) < MaxCalls /\ Len(pname) + Len(calls) < MaxSymbols
    /\ calls' = Append(calls, [name |-> name, at |-> "symcons", sl |-> obarray[Hash[name]], sym |-> None, ol |-> <<>>])
    /\ UNCHANGED <<pname, obarray, oblist, answer, disturbed, outside>>

(* The hash of a name with a byte above 127 may be negative, since char is *)
(* signed: obarray[hash] lies before the table.                            *)
ReadsOutside(name) ==
    /\ MayCall
    /\ Hash[name] \notin Buckets
    /\ outside' = {name}
    /\ UNCHANGED <<pname, obarray, oblist, calls, answer, disturbed>>

(* NEWCELL returns to the innermost call. *)
At(stage) == outside = {} /\ calls # <<>> /\ Top.at = stage

Symcons ==
    /\ At("symcons")
    /\ pname' = Append(pname, Top.name)
    /\ calls' = [calls EXCEPT ![Len(calls)].at = "bucket", ![Len(calls)].sym = Len(pname) + 1]
    /\ UNCHANGED <<obarray, oblist, answer, disturbed, outside>>

(* Whether a call has read the list of its bucket and not written it. *)
Holds(call, h) == Hash[call.name] = h /\ call.at # "oblist"
(* The symbol alone in its bucket. *)
ConsBucket_Alone ==
    /\ At("bucket")
    /\ obarray' = [obarray EXCEPT ![Hash[Top.name]] = <<Top.sym>>]
    /\ calls' = [calls EXCEPT ![Len(calls)].at = "oblist", ![Len(calls)].ol = oblist]
    /\ disturbed' = IF \E j \in 1..(Len(calls) - 1) : Holds(calls[j], Hash[Top.name])
                    THEN disturbed \union {Hash[Top.name]} ELSE disturbed
    /\ UNCHANGED <<pname, oblist, answer, outside>>
(* The symbol in the bucket after its own. *)
ConsBucket_Next ==
    /\ At("bucket")
    /\ obarray' = [obarray EXCEPT ![(Hash[Top.name] + 1) % Dim] = <<Top.sym>> \o @]
    /\ calls' = [calls EXCEPT ![Len(calls)].at = "oblist", ![Len(calls)].ol = oblist]
    /\ disturbed' = IF \E j \in 1..(Len(calls) - 1) : Holds(calls[j], Hash[Top.name])
                    THEN disturbed \union {Hash[Top.name]} ELSE disturbed
    /\ UNCHANGED <<pname, oblist, answer, outside>>
ConsBucket ==
    /\ At("bucket")
    /\ obarray' = [obarray EXCEPT ![Hash[Top.name]] = <<Top.sym>> \o Top.sl]
    /\ calls' = [calls EXCEPT ![Len(calls)].at = "oblist", ![Len(calls)].ol = oblist]
    /\ disturbed' = IF \E j \in 1..(Len(calls) - 1) : Holds(calls[j], Hash[Top.name])
                    THEN disturbed \union {Hash[Top.name]} ELSE disturbed
    /\ UNCHANGED <<pname, oblist, answer, outside>>

ConsOblist ==
    /\ At("oblist")
    /\ oblist' = <<Top.sym>> \o Top.ol
    /\ calls' = Pop
    /\ answer' = [answer EXCEPT ![Top.name] = Top.sym]
    /\ UNCHANGED <<pname, obarray, disturbed, outside>>

(* An error in NEWCELL (no storage is left), in must_malloc or in          *)
(* *after-gc*, or a *throw in *after-gc*, leaves the calls that wait, down *)
(* to the frame of *catch it reaches.                                      *)
Unwind(k) ==
    /\ outside = {}
    /\ k \in 0..(Len(calls) - 1)
    /\ calls' = SubSeq(calls, 1, k)
    /\ UNCHANGED <<pname, obarray, oblist, answer, disturbed, outside>>

Next ==
    \/ \E name \in Names : Found(name) \/ Missing(name) \/ ReadsOutside(name)
    \/ Symcons \/ ConsBucket \/ ConsOblist
    \/ \E k \in 0..(MaxCalls - 1) : Unwind(k)
Spec == Init /\ [][Next]_vars

-----------------------------------------------------------------------------
TypeOK ==
    /\ pname \in Seq(Names)
    /\ obarray \in [Buckets -> Seq(1..Len(pname))]
    /\ oblist \in Seq(1..Len(pname))
    /\ calls \in Seq(Call)
    /\ answer \in [Names -> 0..Len(pname)]
    /\ disturbed \subseteq Buckets
    /\ outside \subseteq Names

(* A symbol is only ever in the bucket of its name, where the next         *)
(* gen_intern of the name looks for it, and there only once.               *)
RightBucket ==
    \A h \in Buckets :
        /\ \A j \in DOMAIN obarray[h] : Hash[pname[obarray[h][j]]] = h
        /\ \A j, k \in DOMAIN obarray[h] : obarray[h][j] = obarray[h][k] => j = k

(* Two symbols with the same name are found, or have been returned, only   *)
(* when *after-gc* has made a symbol in the bucket while gen_intern held   *)
(* the bucket's list.                                                      *)
OneSymbolPerName ==
    \A h \in Buckets \ disturbed :
        \A j, k \in DOMAIN obarray[h] : pname[obarray[h][j]] = pname[obarray[h][k]] => j = k

(* But for that, a symbol that was returned stays in the table.            *)
StaysFiled ==
    \A n \in Names : answer[n] # None /\ Hash[n] \notin disturbed => answer[n] \in Elements(obarray[Hash[n]])

(* The table finds each symbol by its name, and only that one.             *)
TableSound == RightBucket /\ OneSymbolPerName /\ StaysFiled

(* But for that, gen_intern returns the same symbol for a name each time:  *)
(* names can be compared by eq.                                            *)
SameAnswer ==
    [][\A n \in Names : answer[n] # None /\ Hash[n] \notin disturbed' => answer'[n] = answer[n]]_vars

(* Without an expression in *after-gc* no call is ever under way when      *)
(* another begins, and no bucket is disturbed.                             *)
QuietWithoutHook == ~AfterGC => disturbed = {}
=============================================================================
