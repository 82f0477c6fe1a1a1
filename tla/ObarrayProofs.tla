--------------------------- MODULE ObarrayProofs ---------------------------
(***************************************************************************)
(* Obarray, for every set of names, hash and size of the table.  Inv says  *)
(* what each call under way may rely on: Held, that the list it has read   *)
(* is still the one of its bucket unless that is disturbed; and Made, that *)
(* the symbol it has made is in no list before ConsBucket and in its       *)
(* bucket after it.  The last part is about the hash that ObarrayMC gives  *)
(* the names.                                                              *)
(***************************************************************************)
EXTENDS ObarrayMC, Recursion, SequenceTheorems

Listing(list, h, names) ==
    /\ list \in Seq(1..Len(names))
    /\ \A j \in DOMAIN list : Hash[names[list[j]]] = h
    /\ \A j, k \in DOMAIN list : list[j] = list[k] => j = k
Distinct(list, names) == \A j, k \in DOMAIN list : names[list[j]] = names[list[k]] => j = k

Held(c, names, table, broken) ==
    c.at # "oblist" =>
        /\ Listing(c.sl, Hash[c.name], names)
        /\ Hash[c.name] \notin broken => /\ c.sl = table[Hash[c.name]]
                                         /\ \A j \in DOMAIN c.sl : names[c.sl[j]] # c.name
Made(c, names, table, broken) ==
    /\ c.at # "symcons" => c.sym \in 1..Len(names) /\ names[c.sym] = c.name
    /\ c.at = "bucket" => c.sym \notin Elements(c.sl)
    /\ c.at = "oblist" /\ Hash[c.name] \notin broken => c.sym \in Elements(table[Hash[c.name]])
CallOK(c, names, table, broken) ==
    /\ c \in Call
    /\ Hash[c.name] \in Buckets
    /\ c.ol \in Seq(1..Len(names))
    /\ Held(c, names, table, broken)
    /\ Made(c, names, table, broken)
AnswerOK(n, a, names, table, broken) ==
    a # None =>
        /\ a \in 1..Len(names)
        /\ names[a] = n
        /\ Hash[n] \in Buckets
        /\ Hash[n] \notin broken => a \in Elements(table[Hash[n]])

Inv ==
    /\ TypeOK
    /\ \A h \in Buckets : Listing(obarray[h], h, pname)
    /\ \A h \in Buckets \ disturbed : Distinct(obarray[h], pname)
    /\ \A j \in DOMAIN calls : CallOK(calls[j], pname, obarray, disturbed)
    /\ \A n \in Names : AnswerOK(n, answer[n], pname, obarray, disturbed)

-----------------------------------------------------------------------------
(* A new symbol, with a number of its own, changes no list. *)
LEMMA NewName ==
    ASSUME NEW names \in Seq(Names), NEW name \in Names
    PROVE  /\ Append(names, name) \in Seq(Names)
           /\ Len(Append(names, name)) = Len(names) + 1
           /\ \A k \in 1..Len(names) : Append(names, name)[k] = names[k]
           /\ Append(names, name)[Len(names) + 1] = name
  OBVIOUS

LEMMA ListingGrows ==
    ASSUME NEW names \in Seq(Names), NEW name \in Names, NEW list, NEW h, Listing(list, h, names)
    PROVE  Listing(list, h, Append(names, name)) /\ \A j \in DOMAIN list : list[j] \in 1..Len(names)
<1>1. list \in Seq(1..Len(names)) /\ Len(names) \in Nat
  BY DEF Listing
<1>2. \A j \in DOMAIN list : list[j] \in 1..Len(names)
  BY <1>1
<1>3. list \in Seq(1..(Len(names) + 1))
  BY <1>1
<1> QED
  BY <1>2, <1>3, NewName DEF Listing

(* A list with a further symbol of its bucket before it. *)
LEMMA ListingCons ==
    ASSUME NEW names \in Seq(Names), NEW list, NEW h, Listing(list, h, names),
           NEW s \in 1..Len(names), Hash[names[s]] = h, s \notin Elements(list)
    PROVE  /\ Listing(<<s>> \o list, h, names)
           /\ Elements(<<s>> \o list) = Elements(list) \union {s}
<1> DEFINE new == <<s>> \o list
<1>1. list \in Seq(1..Len(names)) /\ Len(list) \in Nat /\ DOMAIN list = 1..Len(list)
  BY DEF Listing
<1>2. /\ new \in Seq(1..Len(names)) /\ Len(new) = Len(list) + 1 /\ DOMAIN new = 1..(Len(list) + 1)
      /\ new[1] = s /\ \A j \in DOMAIN list : new[j + 1] = list[j]
  BY <1>1
<1>3. \A j \in DOMAIN new : j = 1 \/ (j - 1 \in DOMAIN list /\ new[j] = list[j - 1])
  BY <1>1, <1>2
<1>4. \A j \in DOMAIN new : Hash[names[new[j]]] = h
  BY <1>2, <1>3 DEF Listing
<1>5. \A j, k \in DOMAIN new : new[j] = new[k] => j = k
  <2> SUFFICES ASSUME NEW j \in DOMAIN new, NEW k \in DOMAIN new, new[j] = new[k] PROVE j = k
    OBVIOUS
  <2>1. j \in Int /\ k \in Int
    BY <1>1, <1>2
  <2>2. CASE j = 1 \/ k = 1
    BY <1>2, <1>3, <2>2 DEF Elements
  <2>3. CASE j # 1 /\ k # 1
    <3>1. j - 1 \in DOMAIN list /\ k - 1 \in DOMAIN list /\ list[j - 1] = list[k - 1]
      BY <1>3, <2>3
    <3> QED BY <2>1, <3>1 DEF Listing
  <2> QED BY <2>2, <2>3
<1>6. Elements(new) = Elements(list) \union {s}
  <2>1. Elements(new) \subseteq Elements(list) \union {s}
    BY <1>2, <1>3 DEF Elements
  <2>2. 1 \in DOMAIN new /\ \A j \in DOMAIN list : j + 1 \in DOMAIN new
    BY <1>1, <1>2
  <2>3. Elements(list) \union {s} \subseteq Elements(new)
    BY <1>2, <2>2 DEF Elements
  <2> QED BY <2>1, <2>3
<1> HIDE DEF new
<1> QED
  BY <1>2, <1>4, <1>5, <1>6 DEF Listing, new

LEMMA DistinctCons ==
    ASSUME NEW names, NEW n \in Nat, NEW list \in Seq(1..n), NEW s \in 1..n, Distinct(list, names),
           \A j \in DOMAIN list : names[list[j]] # names[s]
    PROVE  Distinct(<<s>> \o list, names)
<1> DEFINE new == <<s>> \o list
<1>1. /\ Len(list) \in Nat /\ DOMAIN list = 1..Len(list) /\ DOMAIN new = 1..(Len(list) + 1)
      /\ new[1] = s /\ \A j \in DOMAIN list : new[j + 1] = list[j]
  OBVIOUS
<1>2. \A j \in DOMAIN new : j \in Int /\ (j = 1 \/ (j - 1 \in DOMAIN list /\ new[j] = list[j - 1]))
  BY <1>1
<1> HIDE DEF new
<1>3. ASSUME NEW j \in DOMAIN new, NEW k \in DOMAIN new, names[new[j]] = names[new[k]] PROVE j = k
  <2>1. CASE j = 1 \/ k = 1
    BY <1>1, <1>2, <1>3, <2>1
  <2>2. CASE j # 1 /\ k # 1
    <3>1. j - 1 \in DOMAIN list /\ k - 1 \in DOMAIN list /\ names[list[j - 1]] = names[list[k - 1]]
      BY <1>2, <1>3, <2>2
    <3> QED BY <1>2, <3>1 DEF Distinct
  <2> QED BY <2>1, <2>2
<1> QED
  BY <1>3 DEF Distinct, new

-----------------------------------------------------------------------------
LEMMA InvInit == Init => Inv
<1> SUFFICES ASSUME Init PROVE Inv
  OBVIOUS
<1>1. TypeOK
  BY DEF Init, TypeOK, None
<1>2. \A h \in Buckets : Listing(obarray[h], h, pname) /\ Distinct(obarray[h], pname)
  BY DEF Init, Listing, Distinct
<1>3. (\A j \in DOMAIN calls : CallOK(calls[j], pname, obarray, disturbed))
      /\ \A n \in Names : AnswerOK(n, answer[n], pname, obarray, disturbed)
  BY DEF Init, AnswerOK
<1> QED
  BY <1>1, <1>2, <1>3 DEF Inv

(* The stack of calls, as the actions change it. *)
LEMMA CallsPush ==
    ASSUME calls \in Seq(Call), NEW c \in Call
    PROVE  /\ Append(calls, c) \in Seq(Call)
           /\ \A j \in DOMAIN Append(calls, c) : Append(calls, c)[j] = c \/ (j \in DOMAIN calls /\ Append(calls, c)[j] = calls[j])
  OBVIOUS

LEMMA CallsPrefix ==
    ASSUME calls \in Seq(Call), NEW k \in 0..Len(calls)
    PROVE  /\ SubSeq(calls, 1, k) \in Seq(Call)
           /\ \A j \in DOMAIN SubSeq(calls, 1, k) : j \in DOMAIN calls /\ SubSeq(calls, 1, k)[j] = calls[j]
  OBVIOUS

LEMMA TopIsLast ==
    ASSUME calls \in Seq(Call), calls # <<>>
    PROVE  /\ Len(calls) \in Nat \ {0} /\ DOMAIN calls = 1..Len(calls)
           /\ Len(calls) \in DOMAIN calls /\ Top = calls[Len(calls)] /\ Top \in Call
  BY DEF Top

LEMMA CallAdvanced ==
    ASSUME NEW c \in Call, NEW s \in Nat
    PROVE  LET d == [c EXCEPT !.at = "bucket", !.sym = s]
           IN  d \in Call /\ d.name = c.name /\ d.at = "bucket" /\ d.sym = s /\ d.sl = c.sl /\ d.ol = c.ol
  BY DEF Call, Stages

LEMMA CallFiled ==
    ASSUME NEW c \in Call, NEW l \in Seq(Nat)
    PROVE  LET d == [c EXCEPT !.at = "oblist", !.ol = l]
           IN  d \in Call /\ d.name = c.name /\ d.at = "oblist" /\ d.sym = c.sym /\ d.ol = l
  BY DEF Call, Stages

LEMMA SeqMonotone ==
    ASSUME NEW S, NEW T, S \subseteq T, NEW list \in Seq(S)
    PROVE  list \in Seq(T)
  OBVIOUS

LEMMA FoundKeeps ==
    ASSUME Inv, NEW name \in Names, Found(name)
    PROVE  Inv'
<1>1. PICK j \in Matches(name) : answer' = [answer EXCEPT ![name] = obarray[Hash[name]][j]]
  BY DEF Found
<1> DEFINE a == obarray[Hash[name]][j]
<1>2. Hash[name] \in Buckets /\ Listing(obarray[Hash[name]], Hash[name], pname)
  BY DEF Found, Inv
<1>3. j \in DOMAIN obarray[Hash[name]] /\ pname[a] = name /\ a \in 1..Len(pname)
  BY <1>2 DEF Matches, Listing
<1>4. a \in Elements(obarray[Hash[name]])
  BY <1>3 DEF Elements
<1>5. AnswerOK(name, a, pname, obarray, disturbed)
  BY <1>2, <1>3, <1>4 DEF AnswerOK
<1>6. answer' \in [Names -> 0..Len(pname)] /\ \A n \in Names : answer'[n] = IF n = name THEN a ELSE answer[n]
  BY <1>1, <1>3 DEF Inv, TypeOK
<1>7. UNCHANGED <<pname, obarray, oblist, calls, disturbed, outside>>
  BY DEF Found
<1> HIDE DEF a
<1> QED
  BY <1>5, <1>6, <1>7 DEF Inv, TypeOK

LEMMA MissingKeeps ==
    ASSUME Inv, NEW name \in Names, Missing(name)
    PROVE  Inv'
<1> DEFINE h == Hash[name]
           c == [name |-> name, at |-> "symcons", sl |-> obarray[h], sym |-> None, ol |-> <<>>]
<1>1. /\ h \in Buckets /\ Listing(obarray[h], h, pname) /\ calls' = Append(calls, c)
      /\ UNCHANGED <<pname, obarray, oblist, answer, disturbed, outside>>
  BY DEF Missing, Inv
<1>2. \A j \in DOMAIN obarray[h] : pname[obarray[h][j]] # name
  BY DEF Missing, Matches
<1>3. obarray[h] \in Seq(Nat)
  BY <1>1 DEF Listing
<1>4. c \in Call
  BY <1>3 DEF Call, Stages, None
<1>5. c.name = name /\ c.at = "symcons" /\ c.sl = obarray[h] /\ c.ol = <<>>
  OBVIOUS
<1> HIDE DEF c
<1>6. CallOK(c, pname, obarray, disturbed)
  BY <1>1, <1>2, <1>4, <1>5 DEF CallOK, Held, Made
<1>7. calls' \in Seq(Call) /\ \A j \in DOMAIN calls' : CallOK(calls'[j], pname, obarray, disturbed)
  BY <1>1, <1>4, <1>6, CallsPush DEF Inv, TypeOK
<1> QED
  BY <1>1, <1>7 DEF Inv, TypeOK

LEMMA SymconsKeeps ==
    ASSUME Inv, Symcons
    PROVE  Inv'
<1> DEFINE new == Len(pname) + 1
           c == [Top EXCEPT !.at = "bucket", !.sym = new]
<1>1. /\ calls \in Seq(Call) /\ calls # <<>> /\ Top.at = "symcons"
      /\ pname \in Seq(Names) /\ Len(pname) \in Nat
      /\ UNCHANGED <<obarray, oblist, answer, disturbed, outside>>
  BY DEF Symcons, At, Inv, TypeOK
<1>2. Top \in Call /\ Len(calls) \in DOMAIN calls /\ Top = calls[Len(calls)]
  BY <1>1, TopIsLast
<1>3. CallOK(Top, pname, obarray, disturbed)
  BY <1>2 DEF Inv
<1>4. c \in Call /\ c.name = Top.name /\ c.at = "bucket" /\ c.sym = new /\ c.sl = Top.sl /\ c.ol = Top.ol
  <2>1. new \in Nat
    BY <1>1
  <2> HIDE DEF new
  <2>2. Top \in Call
    BY <1>2
  <2> QED BY <2>1, <2>2, CallAdvanced, Zenon
<1>5. Top.name \in Names /\ pname' = Append(pname, Top.name)
  BY <1>2 DEF Call, Symcons
<1>6. /\ pname' \in Seq(Names) /\ Len(pname') = new /\ pname'[new] = Top.name
      /\ \A k \in 1..Len(pname) : pname'[k] = pname[k]
  BY <1>1, <1>5, NewName
<1>7. calls' \in Seq(Call) /\ \A j \in DOMAIN calls' : calls'[j] = c \/ (j \in DOMAIN calls /\ calls'[j] = calls[j])
  <2>1. calls' = [calls EXCEPT ![Len(calls)] = c]
    BY <1>1, <1>2 DEF Symcons
  <2> HIDE DEF c
  <2> QED BY <1>1, <1>2, <1>4, <2>1
<1> HIDE DEF c
<1>8. \A list, h : Listing(list, h, pname) => Listing(list, h, pname') /\ \A j \in DOMAIN list : list[j] \in 1..Len(pname)
  BY <1>1, <1>5, ListingGrows
<1>9. ASSUME NEW d, CallOK(d, pname, obarray, disturbed) PROVE Held(d, pname', obarray, disturbed) /\ d.ol \in Seq(1..Len(pname'))
  <2>1. Held(d, pname', obarray, disturbed)
    BY <1>6, <1>8, <1>9 DEF CallOK, Held
  <2>2. d.ol \in Seq(1..Len(pname'))
    <3>1. 1..Len(pname) \subseteq 1..Len(pname')
      BY <1>1, <1>6
    <3> QED BY <3>1, <1>9 DEF CallOK
  <2> QED BY <2>1, <2>2
<1>10. ASSUME NEW d, CallOK(d, pname, obarray, disturbed) PROVE CallOK(d, pname', obarray, disturbed)
  <2>1. d.at # "symcons" => d.sym \in 1..Len(pname') /\ pname'[d.sym] = d.name
    BY <1>1, <1>6, <1>10 DEF CallOK, Made
  <2> QED BY <2>1, <1>9, <1>10 DEF CallOK, Made
<1>11. CallOK(c, pname', obarray, disturbed)
  <2>1. c.sym \notin Elements(c.sl)
    <3>1. \A j \in DOMAIN Top.sl : Top.sl[j] \in 1..Len(pname)
      BY <1>1, <1>3, <1>8 DEF CallOK, Held
    <3> QED BY <3>1, <1>1, <1>4 DEF Elements
  <2>2. Held(c, pname', obarray, disturbed) /\ c.ol \in Seq(1..Len(pname'))
    BY <1>1, <1>3, <1>4, <1>9 DEF Held
  <2>3. Made(c, pname', obarray, disturbed)
    BY <2>1, <1>1, <1>4, <1>6 DEF Made
  <2> QED BY <2>2, <2>3, <1>3, <1>4 DEF CallOK
<1>12. \A j \in DOMAIN calls' : CallOK(calls'[j], pname', obarray, disturbed)
  BY <1>7, <1>10, <1>11 DEF Inv
<1>13. \A h \in Buckets : Listing(obarray[h], h, pname')
  BY <1>8 DEF Inv
<1>14. \A h \in Buckets \ disturbed : Distinct(obarray[h], pname')
  BY <1>6, <1>8 DEF Inv, Distinct
<1>15. \A n \in Names : AnswerOK(n, answer[n], pname', obarray, disturbed)
  BY <1>1, <1>6 DEF Inv, AnswerOK
<1>16. TypeOK'
  <2>1. 1..Len(pname) \subseteq 1..Len(pname') /\ 0..Len(pname) \subseteq 0..Len(pname')
    BY <1>1, <1>6
  <2>2. oblist' \in Seq(1..Len(pname')) /\ obarray' \in [Buckets -> Seq(1..Len(pname'))]
    <3>1. oblist \in Seq(1..Len(pname)) /\ obarray \in [Buckets -> Seq(1..Len(pname))]
      BY DEF Inv, TypeOK
    <3>2. \A h \in Buckets : obarray[h] \in Seq(1..Len(pname'))
      BY <1>13 DEF Listing
    <3>3. oblist \in Seq(1..Len(pname'))
      BY <2>1, <3>1, SeqMonotone
    <3> QED BY <1>1, <3>1, <3>2, <3>3
  <2>3. answer' \in [Names -> 0..Len(pname')]
    BY <2>1, <1>1 DEF Inv, TypeOK
  <2> QED BY <2>2, <2>3, <1>1, <1>6, <1>7 DEF Inv, TypeOK
<1> QED
  BY <1>1, <1>12, <1>13, <1>14, <1>15, <1>16 DEF Inv

(* A call is undisturbed by a symbol filed in bucket h, unless it holds h. *)
LEMMA CallBeside ==
    ASSUME NEW d, NEW h, NEW table, NEW broken, CallOK(d, pname, obarray, disturbed),
           disturbed \subseteq broken, broken \subseteq disturbed \union {h},
           \A g \in Buckets \ {h} : table[g] = obarray[g],
           Holds(d, h) => h \in broken,
           h \notin disturbed => Elements(obarray[h]) \subseteq Elements(table[h])
    PROVE  CallOK(d, pname, table, broken)
<1>1. CASE Hash[d.name] # h
  BY <1>1 DEF CallOK, Held, Made
<1>2. CASE Hash[d.name] = h /\ d.at # "oblist"
  BY <1>2 DEF CallOK, Held, Made, Holds
<1>3. CASE Hash[d.name] = h /\ d.at = "oblist"
  BY <1>3 DEF CallOK, Held, Made
<1> QED
  BY <1>1, <1>2, <1>3

LEMMA ConsBucketKeeps ==
    ASSUME Inv, ConsBucket
    PROVE  Inv'
<1> DEFINE h == Hash[Top.name]
           c == [Top EXCEPT !.at = "oblist", !.ol = oblist]
<1>1. /\ calls \in Seq(Call) /\ calls # <<>> /\ Top.at = "bucket"
      /\ pname \in Seq(Names) /\ Len(pname) \in Nat
      /\ UNCHANGED <<pname, oblist, answer, outside>>
  BY DEF ConsBucket, At, Inv, TypeOK
<1>2. /\ Top \in Call /\ Len(calls) \in Nat \ {0} /\ DOMAIN calls = 1..Len(calls)
      /\ Len(calls) \in DOMAIN calls /\ Top = calls[Len(calls)]
  BY <1>1, TopIsLast
<1>3. CallOK(Top, pname, obarray, disturbed)
  BY <1>2 DEF Inv
<1>4. /\ h \in Buckets /\ Listing(Top.sl, h, pname) /\ Top.sym \in 1..Len(pname) /\ pname[Top.sym] = Top.name
      /\ Top.sym \notin Elements(Top.sl) /\ Top.name \in Names
  BY <1>1, <1>2, <1>3 DEF CallOK, Held, Made, Call
<1>5. h \notin disturbed => Top.sl = obarray[h] /\ \A j \in DOMAIN Top.sl : pname[Top.sl[j]] # Top.name
  BY <1>1, <1>3 DEF CallOK, Held
<1>6. /\ Listing(<<Top.sym>> \o Top.sl, h, pname)
      /\ Elements(<<Top.sym>> \o Top.sl) = Elements(Top.sl) \union {Top.sym}
  <2>1. Hash[pname[Top.sym]] = h
    BY <1>4
  <2> HIDE DEF h
  <2> QED BY <1>1, <1>4, <2>1, ListingCons
<1>7. /\ obarray' = [obarray EXCEPT ![h] = <<Top.sym>> \o Top.sl]
      /\ obarray \in [Buckets -> Seq(1..Len(pname))]
  BY DEF ConsBucket, Inv, TypeOK
<1>8. /\ obarray' \in [Buckets -> Seq(1..Len(pname))] /\ obarray'[h] = <<Top.sym>> \o Top.sl
      /\ \A g \in Buckets \ {h} : obarray'[g] = obarray[g]
  BY <1>4, <1>6, <1>7 DEF Listing
<1>9. /\ disturbed \subseteq disturbed' /\ disturbed' \subseteq disturbed \union {h}
      /\ \A j \in 1..(Len(calls) - 1) : Holds(calls[j], h) => h \in disturbed'
  BY DEF ConsBucket
<1>10. c \in Call /\ c.name = Top.name /\ c.at = "oblist" /\ c.sym = Top.sym /\ c.ol = oblist
  <2>1. 1..Len(pname) \subseteq Nat /\ oblist \in Seq(1..Len(pname))
    BY <1>1 DEF Inv, TypeOK
  <2>2. oblist \in Seq(Nat)
    BY <2>1, SeqMonotone
  <2>3. Top \in Call
    BY <1>2
  <2> QED BY <2>2, <2>3, CallFiled, Zenon
<1>11. /\ calls' \in Seq(Call)
       /\ \A j \in DOMAIN calls' : (j = Len(calls) /\ calls'[j] = c) \/ (j \in 1..(Len(calls) - 1) /\ calls'[j] = calls[j])
  <2>1. calls' = [calls EXCEPT ![Len(calls)] = c]
    BY <1>1, <1>2 DEF ConsBucket
  <2> HIDE DEF c
  <2> QED BY <1>1, <1>2, <1>10, <2>1
<1> HIDE DEF c, h
<1>12. CallOK(c, pname', obarray', disturbed')
  <2>1. c.ol \in Seq(1..Len(pname))
    BY <1>10 DEF Inv, TypeOK
  <2>2. Made(c, pname', obarray', disturbed')
    BY <1>1, <1>4, <1>6, <1>8, <1>10 DEF Made, h
  <2> QED BY <1>1, <1>4, <1>10, <2>1, <2>2 DEF CallOK, Held, h
<1>13. ASSUME NEW j \in 1..(Len(calls) - 1) PROVE CallOK(calls[j], pname', obarray', disturbed')
  <2>1. CallOK(calls[j], pname, obarray, disturbed) /\ (Holds(calls[j], h) => h \in disturbed')
    BY <1>2, <1>9 DEF Inv
  <2>2. h \notin disturbed => Elements(obarray[h]) \subseteq Elements(obarray'[h])
    BY <1>5, <1>6, <1>8 DEF h
  <2>3. CallOK(calls[j], pname, obarray', disturbed')
    BY <1>8, <1>9, <2>1, <2>2, CallBeside
  <2> QED BY <1>1, <2>3
<1>14. \A j \in DOMAIN calls' : CallOK(calls'[j], pname', obarray', disturbed')
  BY <1>11, <1>12, <1>13
<1>15. \A g \in Buckets : Listing(obarray'[g], g, pname')
  BY <1>1, <1>6, <1>8 DEF Inv
<1>16. \A g \in Buckets \ disturbed' : Distinct(obarray'[g], pname')
  <2>1. ASSUME h \notin disturbed PROVE Distinct(<<Top.sym>> \o Top.sl, pname)
    <3>1. Distinct(Top.sl, pname) /\ \A j \in DOMAIN Top.sl : pname[Top.sl[j]] # pname[Top.sym]
      BY <1>4, <1>5, <2>1 DEF Inv
    <3>2. Top.sl \in Seq(1..Len(pname))
      BY <1>4 DEF Listing
    <3> QED BY <1>1, <1>4, <3>1, <3>2, DistinctCons
  <2> QED BY <2>1, <1>1, <1>4, <1>8, <1>9 DEF Inv
<1>17. \A n \in Names : AnswerOK(n, answer'[n], pname', obarray', disturbed')
  <2> SUFFICES ASSUME NEW n \in Names PROVE AnswerOK(n, answer[n], pname, obarray', disturbed')
    BY <1>1
  <2>1. AnswerOK(n, answer[n], pname, obarray, disturbed)
    BY DEF Inv
  <2>2. CASE Hash[n] # h
    BY <1>8, <1>9, <2>1, <2>2 DEF AnswerOK
  <2>3. CASE Hash[n] = h
    BY <1>5, <1>6, <1>8, <1>9, <2>1, <2>3 DEF AnswerOK
  <2> QED BY <2>2, <2>3
<1>18. TypeOK'
  BY <1>1, <1>4, <1>8, <1>9, <1>11 DEF Inv, TypeOK
<1> QED
  BY <1>14, <1>15, <1>16, <1>17, <1>18 DEF Inv

(* The name of the symbol that ConsOblist returns, and its place.          *)
LEMMA ConsOblistKeeps ==
    ASSUME Inv, ConsOblist
    PROVE  Inv'
<1>1. /\ calls \in Seq(Call) /\ calls # <<>> /\ Top.at = "oblist" /\ pname \in Seq(Names)
      /\ UNCHANGED <<pname, obarray, disturbed, outside>>
  BY DEF ConsOblist, At, Inv, TypeOK
<1>2. /\ Top \in Call /\ Len(calls) \in Nat \ {0} /\ Len(calls) \in DOMAIN calls /\ Top = calls[Len(calls)]
  BY <1>1, TopIsLast
<1>3. CallOK(Top, pname, obarray, disturbed) /\ Top.name \in Names
  BY <1>2 DEF Inv, Call
<1>4. /\ Top.sym \in 1..Len(pname) /\ pname[Top.sym] = Top.name /\ Hash[Top.name] \in Buckets
      /\ Hash[Top.name] \notin disturbed => Top.sym \in Elements(obarray[Hash[Top.name]])
  BY <1>1, <1>3 DEF CallOK, Made
<1>5. calls' \in Seq(Call) /\ \A j \in DOMAIN calls' : j \in DOMAIN calls /\ calls'[j] = calls[j]
  <2>1. calls' = SubSeq(calls, 1, Len(calls) - 1) /\ Len(calls) - 1 \in 0..Len(calls)
    BY <1>2 DEF ConsOblist, Pop
  <2> QED BY <1>1, <2>1, CallsPrefix
<1>6. \A n \in Names : answer'[n] = IF n = Top.name THEN Top.sym ELSE answer[n]
  BY DEF ConsOblist, Inv, TypeOK
<1>7. \A n \in Names : AnswerOK(n, answer'[n], pname, obarray, disturbed)
  BY <1>4, <1>6 DEF Inv, AnswerOK
<1>8. answer' \in [Names -> 0..Len(pname)]
  <2>1. answer \in [Names -> 0..Len(pname)] /\ answer' = [answer EXCEPT ![Top.name] = Top.sym] /\ Top.sym \in 0..Len(pname)
    BY <1>4 DEF ConsOblist, Inv, TypeOK
  <2> QED BY <2>1
<1>9. oblist' \in Seq(1..Len(pname))
  <2>1. Top.ol \in Seq(1..Len(pname)) /\ oblist' = <<Top.sym>> \o Top.ol
    BY <1>3 DEF ConsOblist, CallOK
  <2> QED BY <1>4, <2>1
<1>10. TypeOK'
  BY <1>1, <1>5, <1>8, <1>9 DEF Inv, TypeOK
<1> QED
  BY <1>1, <1>5, <1>7, <1>10 DEF Inv

LEMMA InvStep == Inv /\ [Next]_vars => Inv'
<1> SUFFICES ASSUME Inv, [Next]_vars PROVE Inv'
  OBVIOUS
<1>1. CASE \E name \in Names : Found(name)
  BY <1>1, FoundKeeps
<1>2. CASE \E name \in Names : Missing(name)
  BY <1>2, MissingKeeps
<1>3. CASE \E name \in Names : ReadsOutside(name)
  BY <1>3 DEF ReadsOutside, Inv, TypeOK
<1>4. CASE Symcons
  BY <1>4, SymconsKeeps
<1>5. CASE ConsBucket
  BY <1>5, ConsBucketKeeps
<1>6. CASE ConsOblist
  BY <1>6, ConsOblistKeeps
<1>7. CASE \E k \in 0..(MaxCalls - 1) : Unwind(k)
  <2>1. PICK k \in 0..(Len(calls) - 1) : calls' = SubSeq(calls, 1, k)
                                         /\ UNCHANGED <<pname, obarray, oblist, answer, disturbed, outside>>
    BY <1>7 DEF Unwind
  <2>2. calls \in Seq(Call) /\ k \in 0..Len(calls)
    BY <2>1 DEF Inv, TypeOK
  <2>3. calls' \in Seq(Call) /\ \A j \in DOMAIN calls' : j \in DOMAIN calls /\ calls'[j] = calls[j]
    BY <2>1, <2>2, CallsPrefix
  <2> QED BY <2>1, <2>3 DEF Inv, TypeOK
<1>8. CASE UNCHANGED vars
  BY <1>8 DEF vars, Inv, TypeOK
<1> QED
  BY <1>1, <1>2, <1>3, <1>4, <1>5, <1>6, <1>7, <1>8 DEF Next

LEMMA Invariance == Spec => []Inv
  BY InvInit, InvStep, PTL DEF Spec

-----------------------------------------------------------------------------
(* Type correctness. *)
THEOREM TypeCorrect == Spec => []TypeOK
<1>1. Inv => TypeOK
  BY DEF Inv
<1> QED
  BY <1>1, Invariance, PTL

(* gen_intern looks for a symbol where it is, whatever *after-gc* does.    *)
THEOREM FiledByHash == Spec => []RightBucket
<1>1. Inv => RightBucket
  BY DEF Inv, Listing, RightBucket
<1> QED
  BY <1>1, Invariance, PTL

(* No two symbols of an undisturbed bucket have the same name.             *)
THEOREM Unique == Spec => []OneSymbolPerName
<1>1. Inv => OneSymbolPerName
  BY DEF Inv, Distinct, OneSymbolPerName
<1> QED
  BY <1>1, Invariance, PTL

(* A symbol that gen_intern has returned stays in an undisturbed bucket.   *)
THEOREM Filed == Spec => []StaysFiled
<1>1. Inv => StaysFiled
  BY DEF Inv, AnswerOK, StaysFiled
<1> QED
  BY <1>1, Invariance, PTL

(* The table is sound but for the buckets that a nested call has written.  *)
THEOREM TableAlwaysSound == Spec => []TableSound
  BY FiledByHash, Unique, Filed, PTL DEF TableSound

(* gen_intern answers a name as it did before, in an undisturbed bucket.   *)
THEOREM AnswersAgree == Spec => SameAnswer
<1> DEFINE Same(n) == answer[n] # None /\ Hash[n] \notin disturbed' => answer'[n] = answer[n]
<1>1. ASSUME Inv, [Next]_vars PROVE \A n \in Names : Same(n)
  <2> SUFFICES ASSUME NEW n \in Names, answer[n] # None, Hash[n] \notin disturbed'
               PROVE  answer'[n] = answer[n]
    OBVIOUS
  <2>1. /\ answer[n] \in 1..Len(pname) /\ pname[answer[n]] = n /\ Hash[n] \in Buckets
        /\ Hash[n] \notin disturbed => answer[n] \in Elements(obarray[Hash[n]])
    BY <1>1 DEF Inv, AnswerOK
  <2>2. \A a, b : Hash[n] \notin disturbed /\ a \in Elements(obarray[Hash[n]]) /\ b \in Elements(obarray[Hash[n]])
                 /\ pname[a] = pname[b] => a = b
    BY <1>1, <2>1 DEF Inv, Distinct, Elements
  <2>3. CASE UNCHANGED answer
    BY <2>3
  <2>4. CASE \E name \in Names : Found(name)
    <3>1. PICK name \in Names : Found(name)
      BY <2>4
    <3>2. PICK j \in Matches(name) : answer' = [answer EXCEPT ![name] = obarray[Hash[name]][j]]
      BY <3>1 DEF Found
    <3>3. disturbed' = disturbed /\ answer \in [Names -> 0..Len(pname)]
      BY <1>1, <3>1 DEF Found, Inv, TypeOK
    <3>4. pname[obarray[Hash[name]][j]] = name /\ obarray[Hash[name]][j] \in Elements(obarray[Hash[name]])
      BY DEF Matches, Elements
    <3> QED BY <2>1, <2>2, <3>2, <3>3, <3>4
  <2>5. CASE ConsOblist
    <3>1. /\ calls \in Seq(Call) /\ calls # <<>> /\ Top.at = "oblist" /\ disturbed' = disturbed
          /\ answer' = [answer EXCEPT ![Top.name] = Top.sym] /\ answer \in [Names -> 0..Len(pname)]
      BY <1>1, <2>5 DEF ConsOblist, At, Inv, TypeOK
    <3>2. CallOK(Top, pname, obarray, disturbed)
      BY <1>1, <3>1, TopIsLast DEF Inv
    <3>3. Hash[Top.name] \notin disturbed =>
              Top.sym \in Elements(obarray[Hash[Top.name]]) /\ pname[Top.sym] = Top.name
      BY <3>1, <3>2 DEF CallOK, Made
    <3> QED BY <2>1, <2>2, <3>1, <3>3
  <2> QED
    BY <1>1, <2>3, <2>4, <2>5 DEF Next, vars, Missing, ReadsOutside, Symcons, ConsBucket, Unwind
<1>2. Inv /\ [Next]_vars => [\A n \in Names : Same(n)]_vars
  BY <1>1
<1> QED
  BY <1>2, Invariance, PTL DEF Spec, SameAnswer

(* Without an expression in *after-gc* no call of gen_intern begins while  *)
(* another is under way: no bucket is ever disturbed, and the theorems     *)
(* above hold of all of them.                                              *)
THEOREM Undisturbed == Spec => []QuietWithoutHook
<1> DEFINE Alone == ~AfterGC => Len(calls) \in {0, 1} /\ disturbed = {}
<1>1. Init => Alone
  BY DEF Init
<1>2. Inv /\ Alone /\ [Next]_vars => Alone'
  <2> SUFFICES ASSUME Inv, Alone, [Next]_vars, ~AfterGC PROVE Len(calls') \in {0, 1} /\ disturbed' = {}
    OBVIOUS
  <2>1. calls \in Seq(Call) /\ Len(calls) \in {0, 1} /\ disturbed = {}
    BY DEF Inv, TypeOK
  <2>2. CASE \E name \in Names : Missing(name)
    BY <2>1, <2>2 DEF Missing, MayCall
  <2>3. CASE Symcons
    BY <2>1, <2>3 DEF Symcons
  <2>4. CASE ConsBucket
    BY <2>1, <2>4 DEF ConsBucket
  <2>5. CASE ConsOblist
    BY <2>1, <2>5 DEF ConsOblist, At, Pop
  <2> QED BY <2>1, <2>2, <2>3, <2>4, <2>5 DEF Next, vars, Found, ReadsOutside, Unwind
<1>3. Alone => QuietWithoutHook
  BY DEF QuietWithoutHook
<1> QED
  BY <1>1, <1>2, <1>3, Invariance, PTL DEF Spec
-----------------------------------------------------------------------------
(* The hash of a name of 7-bit bytes is in the table, for every size of    *)
(* the table that leaves room in a long for 17 times the hash.             *)
Power[k \in 0..LongBits] == IF k = 0 THEN 1 ELSE 2 * Power[k - 1]

LEMMA PowerIs ==
  /\ Power[0] = 1
  /\ \A k \in 1..LongBits : Power[k - 1] \in Nat \ {0} /\ Power[k] = 2 * Power[k - 1]
<1>. DEFINE N == LongBits
            G == [x \in (1..N) \X (Nat \ {0}) |-> 2 * x[2]]
<1>1. N \in Nat /\ 1 \in Nat \ {0}
  BY LongAssumption
<1>2. \A k \in 1..N, s \in Nat \ {0} : G[<<k, s>>] = 2 * s /\ 2 * s \in Nat \ {0}
  OBVIOUS
<1>. HIDE DEF G
<1>3. PICK f : Repeats(f, N, Nat \ {0}, 1, G)
  <2>. HIDE DEF N
  <2>. QED BY <1>1, <1>2, BoundedIteration
<1>4. f \in [0..N -> Nat \ {0}] /\ f = [k \in 0..N |-> IF k = 0 THEN 1 ELSE G[<<k, f[k - 1]>>]]
  BY <1>3 DEF Repeats
<1>5. f = [k \in 0..N |-> IF k = 0 THEN 1 ELSE 2 * f[k - 1]]
  <2>1. ASSUME NEW k \in 0..N PROVE f[k] = IF k = 0 THEN 1 ELSE 2 * f[k - 1]
    <3>1. CASE k = 0
      BY <1>4, <3>1
    <3>2. CASE k # 0
      <4>1. k \in 1..N /\ k - 1 \in 0..N
        BY <1>1, <3>2
      <4>. QED BY <1>2, <1>4, <3>2, <4>1
    <3>. QED BY <3>1, <3>2
  <2>. QED BY <1>4, <2>1
<1>6. Power = [k \in 0..N |-> IF k = 0 THEN 1 ELSE 2 * Power[k - 1]]
  BY <1>5 DEF Power
<1>7. 0..N \subseteq {k \in 0..N : Power[k] \in Nat \ {0}}
  <2>. DEFINE T == {k \in 0..N : Power[k] \in Nat \ {0}}
  <2>1. 0 \in T
    BY <1>1, <1>6
  <2>2. ASSUME NEW k \in 0..(N - 1), k \in T PROVE k + 1 \in T
    <3>1. k + 1 \in 0..N /\ (k + 1) - 1 = k /\ k + 1 # 0 /\ Power[k] \in Nat \ {0}
      BY <1>1, <2>2
    <3>2. Power[k + 1] = 2 * Power[k]
      BY <1>6, <3>1
    <3>. QED BY <3>1, <3>2
  <2>. HIDE DEF T, N
  <2>3. 0..N \subseteq T
    BY <1>1, <2>1, <2>2, Induction
  <2>. QED BY <2>3 DEF T
<1>8. ASSUME NEW k \in 1..N PROVE Power[k - 1] \in Nat \ {0} /\ Power[k] = 2 * Power[k - 1]
  <2>1. k \in 0..N /\ k # 0 /\ k - 1 \in 0..N
    BY <1>1
  <2>. QED BY <1>6, <1>7, <2>1
<1>9. Power[0] = 1
  BY <1>1, <1>6
<1>. QED
  BY <1>8, <1>9

(* The bits found so far.                                                  *)
Low == [bits : Nat, weight : Nat \ {0}]
XorSteps(low, a, b) ==
  /\ low \in [0..LongBits -> Low]
  /\ low[0] = [bits |-> 0, weight |-> 1]
  /\ \A k \in 1..LongBits : low[k] = NextBit(low[k - 1], a, b)
  /\ CXor(a, b) = LET x == low[LongBits]
                  IN  IF 2 * x.bits < x.weight THEN x.bits ELSE x.bits - x.weight

LEMMA XorHasSteps ==
  ASSUME NEW a \in Int, NEW b \in Int
  PROVE  \E low : XorSteps(low, a, b)
<1>. DEFINE N == LongBits
            start == [bits |-> 0, weight |-> 1]
            G == [x \in (1..N) \X Low |-> NextBit(x[2], a, b)]
            Run == CHOOSE low : low = [k \in 0..N |-> IF k = 0 THEN [bits |-> 0, weight |-> 1]
                                                      ELSE NextBit(low[k - 1], a, b)]
<1>1. N \in Nat /\ start \in Low
  BY LongAssumption DEF Low
<1>2. \A k \in 1..N, s \in Low :
        G[<<k, s>>] = NextBit(s, a, b) /\ NextBit(s, a, b) \in Low
  BY DEF NextBit, Low
<1>3. CXor(a, b) = LET x == Run[N] IN IF 2 * x.bits < x.weight THEN x.bits ELSE x.bits - x.weight
  BY DEF CXor
<1>. HIDE DEF G
<1>4. PICK f : Repeats(f, N, Low, start, G)
  <2>. HIDE DEF N, start
  <2>. QED BY <1>1, <1>2, BoundedIteration
<1>5. f \in [0..N -> Low] /\ f = [k \in 0..N |-> IF k = 0 THEN start ELSE G[<<k, f[k - 1]>>]]
  BY <1>4 DEF Repeats
<1>. HIDE DEF start
<1>6. f = [k \in 0..N |-> IF k = 0 THEN start ELSE NextBit(f[k - 1], a, b)]
  <2>1. ASSUME NEW k \in 0..N PROVE f[k] = IF k = 0 THEN start ELSE NextBit(f[k - 1], a, b)
    <3>1. CASE k = 0
      BY <1>5, <3>1
    <3>2. CASE k # 0
      <4>1. k \in 1..N /\ k - 1 \in 0..N
        BY <1>1, <3>2
      <4>2. f[k] = G[<<k, f[k - 1]>>] /\ f[k - 1] \in Low
        BY <1>5, <3>2, <4>1
      <4>. QED BY <1>2, <3>2, <4>1, <4>2
    <3>. QED BY <3>1, <3>2
  <2>. QED BY <1>5, <2>1
<1>7. Run = [k \in 0..N |-> IF k = 0 THEN start ELSE NextBit(Run[k - 1], a, b)]
  BY <1>6 DEF start
<1>. HIDE DEF Run
<1>8. 0..N \subseteq {k \in 0..N : Run[k] \in Low}
  <2>. DEFINE T == {k \in 0..N : Run[k] \in Low}
  <2>1. 0 \in T
    BY <1>1, <1>7
  <2>2. ASSUME NEW k \in 0..(N - 1), k \in T PROVE k + 1 \in T
    <3>1. k + 1 \in 1..N /\ k + 1 \in 0..N /\ (k + 1) - 1 = k /\ k + 1 # 0 /\ Run[k] \in Low
      BY <1>1, <2>2
    <3>2. Run[k + 1] = NextBit(Run[k], a, b)
      BY <1>7, <3>1
    <3>. QED BY <1>2, <3>1, <3>2
  <2>. HIDE DEF T, N
  <2>3. 0..N \subseteq T
    BY <1>1, <2>1, <2>2, Induction
  <2>. QED BY <2>3 DEF T
<1>9. Run \in [0..N -> Low] /\ Run[0] = start
  BY <1>1, <1>7, <1>8
<1>10. ASSUME NEW k \in 1..N PROVE Run[k] = NextBit(Run[k - 1], a, b)
  <2>1. k \in 0..N /\ k # 0
    BY <1>1
  <2>. QED BY <1>7, <2>1
<1>11. XorSteps(Run, a, b)
  BY <1>3, <1>9, <1>10 DEF XorSteps, start
<1>. QED
  BY <1>11

LEMMA NextBitIs ==
  ASSUME NEW low \in Low, low.bits < low.weight, NEW a \in Nat, NEW b \in Nat
  PROVE  /\ NextBit(low, a, b).weight = 2 * low.weight
         /\ NextBit(low, a, b).bits < 2 * low.weight
         /\ a < low.weight /\ b < low.weight => NextBit(low, a, b).bits = low.bits
<1>. DEFINE w == low.weight
<1>1. low.bits \in Nat /\ w \in Nat \ {0}
  BY DEF Low
<1>2. a < w => a \div w = 0
  <2>. HIDE DEF w
  <2>. QED BY <1>1
<1>3. b < w => b \div w = 0
  <2>. HIDE DEF w
  <2>. QED BY <1>1
<1>. QED
  BY <1>1, <1>2, <1>3 DEF NextBit

(* ^ of two longs that are not negative is not negative.                   *)
LEMMA XorOfNaturals ==
  ASSUME NEW a \in Nat, NEW b \in Nat, 2 * a < Power[LongBits], 2 * b < Power[LongBits]
  PROVE  CXor(a, b) \in Nat
<1>. DEFINE N == LongBits
<1>1. N \in Nat /\ N - 1 \in 0..N /\ N \in 1..N /\ N \in 0..N
  BY LongAssumption
<1>2. PICK low : XorSteps(low, a, b)
  BY XorHasSteps
<1>. DEFINE T == {k \in 0..N : low[k].bits < low[k].weight /\ low[k].weight = Power[k]}
<1>3. 0 \in T
  BY <1>1, <1>2, PowerIs DEF XorSteps
<1>4. ASSUME NEW k \in 0..(N - 1), k \in T PROVE k + 1 \in T
  <2>1. k + 1 \in 1..N /\ k + 1 \in 0..N /\ (k + 1) - 1 = k /\ k \in 0..N
    BY <1>1
  <2>2. low[k] \in Low /\ low[k + 1] = NextBit(low[k], a, b) /\ Power[k + 1] = 2 * Power[k]
    BY <1>2, <2>1, PowerIs DEF XorSteps
  <2>3. low[k].bits < low[k].weight /\ low[k].weight = Power[k]
    BY <1>4
  <2>4. /\ NextBit(low[k], a, b).weight = 2 * low[k].weight
        /\ NextBit(low[k], a, b).bits < 2 * low[k].weight
    BY <2>2, <2>3, NextBitIs
  <2>. QED BY <2>1, <2>2, <2>3, <2>4
<1>5. 0..N \subseteq T
  <2>. HIDE DEF T, N
  <2>. QED BY <1>1, <1>3, <1>4, Induction
<1>6. /\ low[N - 1] \in Low /\ low[N - 1].bits < low[N - 1].weight
      /\ low[N - 1].weight = Power[N - 1] /\ Power[N] = 2 * Power[N - 1] /\ Power[N - 1] \in Nat
      /\ low[N] = NextBit(low[N - 1], a, b)
  BY <1>1, <1>2, <1>5, PowerIs DEF XorSteps
<1>7. low[N].bits = low[N - 1].bits /\ low[N].weight = 2 * low[N - 1].weight
  <2>1. a < low[N - 1].weight /\ b < low[N - 1].weight
    BY <1>6
  <2>. HIDE DEF N
  <2>2. /\ NextBit(low[N - 1], a, b).weight = 2 * low[N - 1].weight
        /\ NextBit(low[N - 1], a, b).bits = low[N - 1].bits
    BY <1>6, <2>1, NextBitIs
  <2>. QED BY <1>6, <2>2
<1>8. low[N - 1].bits \in Nat /\ low[N - 1].weight \in Nat
  BY <1>6 DEF Low
<1>9. CXor(a, b) = low[N].bits
  BY <1>2, <1>6, <1>7, <1>8 DEF XorSteps
<1>. QED
  BY <1>7, <1>8, <1>9

(* A table of n buckets leaves room in a long.                             *)
Fits(n) == n \in Nat \ {0} /\ 34 * n <= Power[LongBits] /\ 256 <= Power[LongBits]

LEMMA HashedInside ==
  ASSUME NEW n, Fits(n), NEW hash \in 0..(n - 1), NEW byte \in 1..127
  PROVE  Hashed(hash, byte, n) \in 0..(n - 1)
<1>1. Signed(byte) = byte /\ hash * 17 \in Nat
  BY DEF Signed, Fits
<1>2. Power[LongBits] \in Nat
  <2>1. LongBits \in 1..LongBits
    BY LongAssumption
  <2>. QED BY <2>1, PowerIs
<1>3. 2 * (hash * 17) < Power[LongBits] /\ 2 * byte < Power[LongBits]
  BY <1>2 DEF Fits
<1>4. CXor(hash * 17, byte) \in Nat
  BY <1>1, <1>3, XorOfNaturals
<1>. QED
  BY <1>1, <1>4 DEF Hashed, Rem, Fits

LEMMA HashOfAscii ==
  ASSUME NEW n, Fits(n), NEW name \in Seq(1..127)
  PROVE  HashOf(name, n) \in 0..(n - 1)
<1>. DEFINE N == Len(name)
            S == 0..(n - 1)
            G == [x \in (1..N) \X S |-> Hashed(x[2], name[x[1]], n)]
            Run == CHOOSE hash : hash = [i \in 0..N |-> IF i = 0 THEN 0
                                                        ELSE Hashed(hash[i - 1], name[i], n)]
<1>1. N \in Nat /\ 0 \in S /\ N \in 0..N
  BY DEF Fits
<1>2. \A i \in 1..N, s \in S : G[<<i, s>>] = Hashed(s, name[i], n) /\ Hashed(s, name[i], n) \in S
  <2>1. ASSUME NEW i \in 1..N, NEW s \in S PROVE Hashed(s, name[i], n) \in S
    <3>1. name[i] \in 1..127
      BY ElementOfSeq
    <3>. QED BY <3>1, HashedInside
  <2>. HIDE DEF S
  <2>. QED BY <2>1
<1>3. HashOf(name, n) = Run[N]
  BY DEF HashOf
<1>. HIDE DEF G, S, N
<1>4. PICK f : Repeats(f, N, S, 0, G)
  BY <1>1, <1>2, BoundedIteration
<1>5. f \in [0..N -> S] /\ f = [i \in 0..N |-> IF i = 0 THEN 0 ELSE G[<<i, f[i - 1]>>]]
  BY <1>4 DEF Repeats
<1>6. f = [i \in 0..N |-> IF i = 0 THEN 0 ELSE Hashed(f[i - 1], name[i], n)]
  <2>1. ASSUME NEW i \in 0..N PROVE f[i] = IF i = 0 THEN 0 ELSE Hashed(f[i - 1], name[i], n)
    <3>1. CASE i = 0
      BY <1>5, <3>1
    <3>2. CASE i # 0
      <4>1. i \in 1..N /\ i - 1 \in 0..N
        BY <1>1, <3>2
      <4>2. f[i] = G[<<i, f[i - 1]>>] /\ f[i - 1] \in S
        BY <1>5, <3>2, <4>1
      <4>. QED BY <1>2, <3>2, <4>1, <4>2
    <3>. QED BY <3>1, <3>2
  <2>. QED BY <1>5, <2>1
<1>7. Run = [i \in 0..N |-> IF i = 0 THEN 0 ELSE Hashed(Run[i - 1], name[i], n)]
  BY <1>6
<1>. HIDE DEF Run
<1>8. 0..N \subseteq {i \in 0..N : Run[i] \in S}
  <2>. DEFINE T == {i \in 0..N : Run[i] \in S}
  <2>1. 0 \in T
    BY <1>1, <1>7
  <2>2. ASSUME NEW i \in 0..(N - 1), i \in T PROVE i + 1 \in T
    <3>1. i + 1 \in 1..N /\ i + 1 \in 0..N /\ (i + 1) - 1 = i /\ i + 1 # 0 /\ Run[i] \in S
      BY <1>1, <2>2
    <3>2. Run[i + 1] = Hashed(Run[i], name[i + 1], n)
      BY <1>7, <3>1
    <3>. QED BY <1>2, <3>1, <3>2
  <2>. HIDE DEF T
  <2>3. 0..N \subseteq T
    BY <1>1, <2>1, <2>2, Induction
  <2>. QED BY <2>3 DEF T
<1>. QED
  BY <1>1, <1>3, <1>8 DEF S

(* The names are strings of C, and their hash is what gen_intern computes. *)
HashSetting ==
  /\ Names \subseteq Seq(1..255)
  /\ Hash = [name \in Names |-> HashOf(name, Dim)]
  /\ Fits(Dim) /\ Fits(100)

(* Only a name with a byte above 127 takes gen_intern outside its table.   *)
THEOREM AlwaysInsideForAscii ==
  ASSUME HashSetting
  PROVE  Spec => []InsideForAscii
<1>. DEFINE Strays == outside \subseteq {name \in Names : Hash[name] \notin Buckets}
<1>1. Init => Strays
  BY DEF Init
<1>2. Strays /\ [Next]_vars => Strays'
  <2>. SUFFICES ASSUME Strays, [Next]_vars PROVE Strays'
    OBVIOUS
  <2>1. CASE \E name \in Names : ReadsOutside(name)
    BY <2>1 DEF ReadsOutside
  <2>2. CASE UNCHANGED outside
    BY <2>2
  <2>. QED
    BY <2>1, <2>2 DEF Next, vars, Found, Missing, Symcons, ConsBucket, ConsOblist, Unwind
<1>3. Strays => InsideForAscii
  <2>. SUFFICES ASSUME Strays PROVE InsideForAscii
    OBVIOUS
  <2>1. ASSUME NEW name \in outside PROVE \E j \in DOMAIN name : name[j] > 127
    <3>. SUFFICES ASSUME \A j \in DOMAIN name : ~ (name[j] > 127) PROVE FALSE
      OBVIOUS
    <3>1. name \in Names /\ name \in Seq(1..255) /\ HashOf(name, Dim) \notin Buckets
      BY DEF HashSetting
    <3>2. ASSUME NEW j \in 1..Len(name) PROVE name[j] \in 1..127
      <4>1. name[j] \in 1..255
        BY <3>1, ElementOfSeq
      <4>2. ~ (name[j] > 127)
        BY <3>1, LenProperties
      <4>3. PICK byte : byte = name[j]
        OBVIOUS
      <4>4. byte \in 1..255 /\ ~ (byte > 127)
        BY <4>1, <4>2, <4>3
      <4>5. byte \in 1..127
        BY <4>4
      <4>. QED BY <4>3, <4>5
    <3>3. name \in [1..Len(name) -> 1..127] /\ Len(name) \in Nat
      <4>1. name \in [1..Len(name) -> 1..255] /\ Len(name) \in Nat
        BY <3>1, LenProperties, Zenon
      <4>. DEFINE l == Len(name)
      <4>2. \A j \in 1..l : name[j] \in 1..127
        BY <3>2
      <4>3. name \in [1..l -> 1..255] /\ l \in Nat
        BY <4>1
      <4>. HIDE DEF l
      <4>4. name \in [1..l -> 1..127] /\ l \in Nat
        BY <4>2, <4>3
      <4>. QED BY <4>4 DEF l
    <3>4. name \in Seq(1..127)
      BY <3>3, SeqDef
    <3>. QED BY <3>1, <3>4, HashOfAscii DEF HashSetting, Buckets
  <2>2. ASSUME NEW name \in Ascii PROVE HashOf(name, 100) \in 0..99
    <3>1. PICK k \in 1..3 : name \in [1..k -> {33, 65, 97, 122, 126}]
      BY DEF Ascii
    <3>2. name \in [1..k -> 1..127]
      BY <3>1
    <3>3. name \in Seq(1..127)
      BY <3>2, SeqDef
    <3>4. HashOf(name, 100) \in 0..(100 - 1)
      BY <3>3, HashOfAscii DEF HashSetting
    <3>. QED BY <3>4
  <2>. QED BY <2>1, <2>2 DEF InsideForAscii
<1>. QED
  BY <1>1, <1>2, <1>3, PTL DEF Spec
=============================================================================
