-------------------------- MODULE DataLibraryProofs --------------------------
(***************************************************************************)
(* Proofs about DataLibrary for every bound on the generated names: the    *)
(* types, LibraryMatches and ColumnsAreOwn.                                *)
(***************************************************************************)
EXTENDS DataLibrary, SetInduction

DbType == [tables : SUBSET TableNames, views : SUBSET Names,
           cols : [Names -> SUBSET Columns]]

(* The names given out when the id counter is at i, and those there from   *)
(* the start.                                                              *)
UsedNames(i) ==
    {Default, Blank} \cup {TableName(k) : k \in 0..i - 1}
                     \cup {ViewName(k) : k \in 0..i - 1}

(* A name that was not given out is not in the library and has no column   *)
(* there.                                                                  *)
Fresh(lib, i) ==
    /\ Range(lib.names) \subseteq UsedNames(i)
    /\ \A n \in Names \ UsedNames(i) : lib.cols[n] = {}

(* No view is called v0: a table takes that name first. *)
ViewsAreNamed(d, i) ==
    /\ Raw \notin d.views
    /\ i = 0 => d.views = {}

(* LibraryMatches and ColumnsAreOwn of a library and a database. *)
NamesMatch(lib, d, s) ==
    /\ \A n \in Range(lib.names) \cap TableNames :
           n # Raw \/ ~s => n \in d.tables \cup d.views
    /\ \A n \in d.tables : n # Raw \/ ~s => n \in Range(lib.names)
    /\ d.views \cap ViewNames \subseteq Range(lib.views)

ColumnsMatch(lib, d, m) ==
    \A n \in (d.tables \cup d.views) \ m : lib.cols[n] \subseteq d.cols[n]

Good(lib, d, s, m, i) ==
    /\ lib \in LibraryType
    /\ d \in DbType
    /\ Fresh(lib, i)
    /\ ViewsAreNamed(d, i)
    /\ NamesMatch(lib, d, s)
    /\ ColumnsMatch(lib, d, m)

(* While a statement runs, the saved library fits the database as it is,   *)
(* and the library fits it as it will be if the statement succeeds.        *)
AfterStmt == Good(library, NewDb, strayed \/ stmt.raw, Muddled, idCounter)
StateInv ==
    /\ pc = "fix" => Good(library, db, strayed, muddled, idCounter)
    /\ pc = "run" => /\ Good(backup, db, strayed, muddled, idCounter)
                     /\ CanSucceed => AfterStmt

IInv == TypeOK /\ StateInv

-----------------------------------------------------------------------------
(* Sequences of names.                                                     *)

(* Appending adds the new element to the range. *)
LEMMA AppendRange ==
    ASSUME NEW S, NEW s \in Seq(S), NEW e \in S
    PROVE  /\ Append(s, e) \in Seq(S)
           /\ Len(Append(s, e)) = Len(s) + 1
           /\ Range(Append(s, e)) = Range(s) \cup {e}
<1>1. /\ Append(s, e) \in Seq(S)
      /\ Len(Append(s, e)) = Len(s) + 1
      /\ \A i \in 1 .. Len(s) : Append(s, e)[i] = s[i]
      /\ Append(s, e)[Len(s) + 1] = e
  OBVIOUS
<1>2. /\ DOMAIN Append(s, e) = 1 .. Len(s) + 1 
      /\ DOMAIN s = 1 .. Len(s) /\ Len(s) \in Nat
  OBVIOUS
<1>3. Range(Append(s, e)) \subseteq Range(s) \cup {e}
  BY <1>1, <1>2 DEF Range
<1>4. Range(s) \subseteq Range(Append(s, e))
  BY <1>1, <1>2 DEF Range
<1>5. e \in Range(Append(s, e))
  BY <1>1, <1>2 DEF Range
<1> QED
  BY <1>1, <1>3, <1>4, <1>5

(* Without drops all occurrences of x and nothing else. *)
LEMMA WithoutRange ==
    ASSUME NEW S, NEW s \in Seq(S), NEW x
    PROVE  /\ Without(s, x) \in Seq(S)
           /\ Len(Without(s, x)) =< Len(s)
           /\ Range(Without(s, x)) = Range(s) \ {x}
<1> DEFINE m == Len(s)
           V == Seq(S)
           kept[i \in 0 .. Len(s)] ==
               IF i = 0 THEN <<>>
               ELSE IF s[i] = x THEN kept[i - 1] ELSE Append(kept[i - 1], s[i])
           step == [p \in (1 .. m) \X V |->
                       IF s[p[1]] = x THEN p[2] ELSE Append(p[2], s[p[1]])]
<1>1. m \in Nat /\ <<>> \in V
  OBVIOUS
<1>2. step \in [(1 .. m) \X V -> V]
  OBVIOUS
<1>3. \E f \in [0 .. m -> V] : Iterates(f, m, <<>>, step)
  <2> HIDE DEF m, V, step
  <2> QED
    BY <1>1, <1>2, IteratesExist
<1>4. PICK f \in [0 .. m -> V] : Iterates(f, m, <<>>, step)
  BY <1>3
<1>5. ASSUME NEW i \in 1 .. m
      PROVE  f[i] = IF s[i] = x THEN f[i - 1] ELSE Append(f[i - 1], s[i])
  <2> HIDE DEF V, kept
  <2>1. f[i] = step[<<i, f[i - 1]>>]
    BY <1>4 DEF Iterates
  <2>2. i - 1 \in 0 .. m
    BY <1>1
  <2>3. f[i - 1] \in V
    BY <2>2
  <2> QED
    BY <2>1, <2>3
<1>6. f = [i \in 0 .. m |-> IF i = 0 THEN <<>>
               ELSE IF s[i] = x THEN f[i - 1] ELSE Append(f[i - 1], s[i])]
  <2> HIDE DEF V, kept, m, step
  <2>1. f[0] = <<>>
    BY <1>4 DEF Iterates
  <2>2. \A i \in 0 .. m : f[i] = IF i = 0 THEN <<>>
               ELSE IF s[i] = x THEN f[i - 1] ELSE Append(f[i - 1], s[i])
    <3> TAKE i \in 0 .. m
    <3>1. CASE i = 0
      BY <2>1, <3>1
    <3>2. CASE i # 0
      <4>1. i \in 1 .. m
        BY <1>1, <3>2
      <4> QED
        BY <1>5, <4>1, <3>2
    <3> QED
      BY <3>1, <3>2
  <2> QED
    BY <2>2
<1>7. kept = [i \in 0 .. m |-> IF i = 0 THEN <<>>
               ELSE IF s[i] = x THEN kept[i - 1] ELSE Append(kept[i - 1], s[i])]
  BY <1>6
<1>8. Without(s, x) = kept[m]
  BY DEF Without
<1> HIDE DEF kept, step
<1> DEFINE T == {i \in Nat : i =< m => /\ kept[i] \in Seq(S)
                                       /\ Len(kept[i]) =< i
                                       /\ Range(kept[i]) = {s[j] : j \in 1 .. i} \ {x}}
<1>9. 0 \in T
  <2>1. kept[0] = <<>>
    <3> HIDE DEF m
    <3> QED
      BY <1>1, <1>7
  <2>2. <<>> \in Seq(S) /\ Len(<<>>) =< 0 /\ Range(<<>>) = {}
    BY DEF Range
  <2>3. {s[j] : j \in 1 .. 0} = {}
    OBVIOUS
  <2> QED
    BY <2>1, <2>2, <2>3
<1>10. ASSUME NEW i \in Nat, i \in T PROVE i + 1 \in T
  <2>1. SUFFICES ASSUME i + 1 =< m
                 PROVE  /\ kept[i + 1] \in Seq(S)
                        /\ Len(kept[i + 1]) =< i + 1
                        /\ Range(kept[i + 1]) = {s[j] : j \in 1 .. i + 1} \ {x}
    OBVIOUS
  <2>2. s[i + 1] \in S /\ i + 1 \in 0 .. m /\ i + 1 # 0 /\ i + 1 - 1 = i
    BY <2>1
  <2>3. kept[i + 1] = IF s[i + 1] = x THEN kept[i] ELSE Append(kept[i], s[i + 1])
    <3> HIDE DEF m, T
    <3> DEFINE j == i + 1
    <3>1. j \in 0 .. m /\ j # 0 /\ j - 1 = i
      BY <2>2
    <3> HIDE DEF j
    <3>2. kept[j] = IF j = 0 THEN <<>>
               ELSE IF s[j] = x THEN kept[j - 1] ELSE Append(kept[j - 1], s[j])
      BY <1>7, <3>1
    <3>3. kept[j] = IF s[j] = x THEN kept[i] ELSE Append(kept[i], s[j])
      BY <3>1, <3>2
    <3> QED
      BY <3>3 DEF j
  <2>4. kept[i] \in Seq(S) /\ Len(kept[i]) =< i /\ Range(kept[i]) = {s[j] : j \in 1 .. i} \ {x}
    BY <1>10, <2>1
  <2>5. {s[j] : j \in 1 .. i + 1} = {s[j] : j \in 1 .. i} \cup {s[i + 1]}
    OBVIOUS
  <2>6. CASE s[i + 1] = x
    BY <2>3, <2>4, <2>5, <2>6
  <2>7. CASE s[i + 1] # x
    BY <2>2, <2>3, <2>4, <2>5, <2>7, AppendRange
  <2> QED
    BY <2>6, <2>7
<1>11. m \in T
  <2> HIDE DEF T, m
  <2> QED
    BY <1>1, <1>9, <1>10, NatSetInduction
<1>12. {s[j] : j \in 1 .. m} = Range(s)
  BY DEF Range
<1> QED
  BY <1>1, <1>8, <1>11, <1>12

(* Removed leaves x or empty strings behind what it keeps. *)
LEMMA RemovedRange ==
    ASSUME NEW S, NEW s \in Seq(S), NEW x \in S, Blank \in S
    PROVE  /\ Removed(s, x) \in Seq(S)
           /\ Range(s) \ {x} \subseteq Range(Removed(s, x))
           /\ Range(Removed(s, x)) \subseteq Range(s) \cup {Blank}
<1> DEFINE kept == Without(s, x)
           r == [i \in 1..Len(s) |-> IF i <= Len(kept) THEN kept[i]
                                     ELSE IF s[i] = x THEN x ELSE Blank]
<1>1. /\ kept \in Seq(S) /\ Len(kept) =< Len(s)
      /\ Range(kept) = Range(s) \ {x}
  BY WithoutRange
<1>2. Removed(s, x) = r
  BY DEF Removed
<1> HIDE DEF kept
<1>3. Len(s) \in Nat /\ Len(kept) \in Nat /\ DOMAIN kept = 1..Len(kept)
      /\ DOMAIN s = 1..Len(s)
  BY <1>1
<1>4. ASSUME NEW i \in 1..Len(s) PROVE r[i] \in S /\ r[i] \in Range(s) \cup {Blank}
  <2>1. CASE i <= Len(kept)
    <3>1. i \in DOMAIN kept
      BY <1>3, <2>1
    <3>2. r[i] = kept[i] /\ kept[i] \in Range(kept) /\ kept[i] \in S
      BY <1>1, <1>3, <3>1, <2>1 DEF Range
    <3>3. QED
      BY <3>2, <1>1
  <2>2. CASE ~(i <= Len(kept)) /\ s[i] = x
    BY <1>3, <2>2 DEF Range
  <2>3. CASE ~(i <= Len(kept)) /\ s[i] # x
    BY <2>3
  <2>4. QED
    BY <2>1, <2>2, <2>3
<1>5. r \in Seq(S)
  BY <1>3, <1>4
<1>6. DOMAIN r = 1..Len(s)
  OBVIOUS
<1>7. Range(r) \subseteq Range(s) \cup {Blank}
  <2> HIDE DEF r
  <2>1. QED
    BY <1>4, <1>6 DEF Range
<1>8. Range(kept) \subseteq Range(r)
  <2>1. ASSUME NEW i \in DOMAIN kept PROVE kept[i] \in Range(r)
    <3>1. i \in 1..Len(s) /\ i <= Len(kept)
      BY <1>1, <1>3
    <3>2. r[i] = kept[i] /\ i \in DOMAIN r
      BY <3>1
    <3> HIDE DEF r
    <3>3. QED
      BY <3>2 DEF Range
  <2>2. QED
    BY <2>1 DEF Range
<1>9. QED
  BY <1>1, <1>2, <1>5, <1>7, <1>8

(* The range of two sequences in a row. *)
LEMMA ConcatRange ==
    ASSUME NEW S, NEW s \in Seq(S), NEW t \in Seq(S)
    PROVE  /\ s \o t \in Seq(S)
           /\ Range(s \o t) = Range(s) \cup Range(t)
<1>1. /\ s \o t \in Seq(S)
      /\ Len(s) \in Nat /\ Len(t) \in Nat
      /\ DOMAIN s = 1..Len(s) /\ DOMAIN t = 1..Len(t)
      /\ DOMAIN (s \o t) = 1..Len(s) + Len(t)
      /\ \A i \in 1..Len(s) : (s \o t)[i] = s[i]
      /\ \A i \in 1..Len(t) : (s \o t)[Len(s) + i] = t[i]
  OBVIOUS
<1>2. ASSUME NEW i \in DOMAIN (s \o t) PROVE (s \o t)[i] \in Range(s) \cup Range(t)
  <2>1. CASE i <= Len(s)
    BY <1>1, <2>1 DEF Range
  <2>2. CASE ~(i <= Len(s))
    <3>1. i - Len(s) \in 1..Len(t) /\ i = Len(s) + (i - Len(s))
      BY <1>1, <2>2
    <3>2. (s \o t)[i] = t[i - Len(s)]
      BY <1>1, <3>1
    <3>3. QED
      BY <1>1, <3>1, <3>2 DEF Range
  <2>3. QED
    BY <2>1, <2>2
<1>3. Range(s \o t) \subseteq Range(s) \cup Range(t)
  BY <1>2 DEF Range
<1>4. Range(s) \subseteq Range(s \o t)
  BY <1>1 DEF Range
<1>5. ASSUME NEW i \in DOMAIN t PROVE t[i] \in Range(s \o t)
  <2>1. Len(s) + i \in DOMAIN (s \o t) /\ (s \o t)[Len(s) + i] = t[i]
    BY <1>1
  <2>2. QED
    BY <2>1 DEF Range
<1>6. Range(t) \subseteq Range(s \o t)
  BY <1>5 DEF Range
<1>7. QED
  BY <1>1, <1>3, <1>4, <1>6

(* Lists of at most two names. *)
LEMMA ShortRange ==
    /\ Range(<<>>) = {}
    /\ \A x : Range(<<x>>) = {x} /\ Head(<<x>>) = x
    /\ \A x, y : Range(<<x, y>>) = {x, y} /\ Head(<<x, y>>) = x
<1>1. Range(<<>>) = {}
  BY DEF Range
<1>2. ASSUME NEW x PROVE Range(<<x>>) = {x} /\ Head(<<x>>) = x
  BY DEF Range
<1>3. ASSUME NEW x, NEW y PROVE Range(<<x, y>>) = {x, y} /\ Head(<<x, y>>) = x
  BY DEF Range
<1>4. QED
  BY <1>1, <1>2, <1>3

(* A list of one name and another name. *)
LEMMA AppendShort ==
    ASSUME NEW x, NEW y
    PROVE  Append(<<x>>, y) = <<x, y>>
<1> DEFINE s == Append(<<x>>, y)
           t == <<x, y>>
<1>1. s \in Seq({x, y}) /\ Len(s) = 2 /\ s[1] = x /\ s[2] = y
  <2>1. <<x>> \in Seq({x, y}) /\ Len(<<x>>) = 1 /\ <<x>>[1] = x
    OBVIOUS
  <2>2. QED
    BY <2>1
<1>2. t \in Seq({x, y}) /\ Len(t) = 2 /\ t[1] = x /\ t[2] = y
  OBVIOUS
<1> HIDE DEF s, t
<1>3. DOMAIN s = 1..2 /\ DOMAIN t = 1..2 /\ s = [i \in 1..2 |-> s[i]] /\ t = [i \in 1..2 |-> t[i]]
  BY <1>1, <1>2
<1>4. \A i \in 1..2 : s[i] = t[i]
  <2>1. \A i \in 1..2 : i = 1 \/ i = 2
    OBVIOUS
  <2>2. QED
    BY <1>1, <1>2, <2>1
<1>5. s = t
  BY <1>3, <1>4
<1>6. QED
  BY <1>5 DEF s, t

(* Members of a sequence of names. *)
LEMMA SeqRange ==
    ASSUME NEW S, NEW s \in Seq(S)
    PROVE  /\ Range(s) \subseteq S
           /\ s = <<>> <=> Range(s) = {}
<1>1. Range(s) \subseteq S
  BY DEF Range
<1>2. Range(s) = {} => s = <<>>
  <2>1. SUFFICES ASSUME s # <<>> PROVE s[1] \in Range(s)
    OBVIOUS
  <2>2. 1 \in DOMAIN s
    BY <2>1
  <2>3. QED
    BY <2>2 DEF Range
<1>3. QED
  BY <1>1, <1>2, ShortRange

-----------------------------------------------------------------------------
(* Names.                                                                  *)

(* The names are all different. *)
LEMMA NamesDiffer ==
    /\ Raw # Default /\ Raw # Blank /\ Default # Blank
    /\ \A a, b : /\ TableName(a) = TableName(b) => a = b
                 /\ ViewName(a) = ViewName(b) => a = b
                 /\ TableName(a) # ViewName(b)
                 /\ TableName(a) # Blank /\ ViewName(a) # Blank
BY DEF Raw, Default, Blank, TableName, ViewName

(* Which are names of tables, of views, and names that were given out. *)
LEMMA NameTypes ==
    /\ MaxId \in Nat /\ MaxId =< 1097
    /\ Raw \in TableNames /\ Default \in TableNames
    /\ TableNames \subseteq Names /\ ViewNames \subseteq Names
    /\ Blank \in Names
    /\ TableNames \cap ViewNames = {}
    /\ Blank \notin TableNames /\ Blank \notin ViewNames
    /\ \A n \in Ids : TableName(n) \in TableNames /\ ViewName(n) \in ViewNames
<1> USE MaxIdAssumption
<1>1. MaxId \in Nat /\ MaxId =< 1097 /\ 0 \in Ids
  BY DEF Ids
<1>2. QED
  BY <1>1, NamesDiffer DEF TableNames, ViewNames, Names, Raw, Default

(* New names are not in use, and stay in use. *)
LEMMA UsedGrow ==
    ASSUME NEW i \in Nat, NEW j \in Nat, i =< j
    PROVE  /\ UsedNames(i) \subseteq UsedNames(j)
           /\ i =< MaxId => TableName(i) \notin UsedNames(i) /\ ViewName(i) \notin UsedNames(i)
           /\ i < j => TableName(i) \in UsedNames(j) /\ ViewName(i) \in UsedNames(j)
           /\ 0 < i => Raw \in UsedNames(i)
           /\ Default \in UsedNames(i) /\ Blank \in UsedNames(i)
<1>1. UsedNames(i) \subseteq UsedNames(j)
  <2>1. 0..i - 1 \subseteq 0..j - 1
    OBVIOUS
  <2>2. QED
    BY <2>1 DEF UsedNames
<1>2. i =< MaxId => TableName(i) \notin UsedNames(i) /\ ViewName(i) \notin UsedNames(i)
  <2>1. i \notin 0..i - 1
    OBVIOUS
  <2>2. i =< MaxId => i # 1099
    BY NameTypes
  <2>3. i =< MaxId => TableName(i) # Default
    BY <2>2 DEF Default, TableName
  <2>4. ViewName(i) # Default
    BY DEF Default, TableName, ViewName
  <2>5. QED
    BY <2>1, <2>3, <2>4, NamesDiffer DEF UsedNames
<1>3. i < j => i \in 0..j - 1
  OBVIOUS
<1>4. i < j => TableName(i) \in UsedNames(j) /\ ViewName(i) \in UsedNames(j)
  BY <1>3 DEF UsedNames
<1>5. 0 < i => 0 \in 0..i - 1
  OBVIOUS
<1>6. QED
  BY <1>1, <1>2, <1>4, <1>5 DEF UsedNames, Raw

-----------------------------------------------------------------------------
(* Statements.                                                             *)

(* The library that is stored has what was there and what was defined. *)
LEMMA StoredType ==
    ASSUME NEW w, w.names \in Seq(Names), w.made \in Seq(Names),
           w.views \in Seq(ViewNames \cup {Blank}),
           w.cols \in [Names -> SUBSET Columns]
    PROVE  /\ Stored(w) \in LibraryType
           /\ Range(Stored(w).names) = Range(w.names) \cup Range(w.made)
           /\ Stored(w).views = w.views /\ Stored(w).cols = w.cols
<1>1. /\ w.names \o w.made \in Seq(Names)
      /\ Range(w.names \o w.made) = Range(w.names) \cup Range(w.made)
  BY ConcatRange
<1>2. QED
  BY <1>1 DEF Stored, LibraryType

(* A library that fits goes on to fit when the id counter advances. *)
LEMMA GoodLater ==
    ASSUME NEW lib, NEW d, NEW s, NEW m, NEW i \in Nat, NEW j \in Nat, i =< j,
           Good(lib, d, s, m, i)
    PROVE  Good(lib, d, s, m, j)
<1>1. UsedNames(i) \subseteq UsedNames(j)
  BY UsedGrow
<1>2. Fresh(lib, j)
  BY <1>1 DEF Good, Fresh
<1>3. ViewsAreNamed(d, j)
  BY DEF Good, ViewsAreNamed
<1>4. QED
  BY <1>2, <1>3 DEF Good

(* The names whose columns went wrong may be more. *)
LEMMA GoodMore ==
    ASSUME NEW lib, NEW d, NEW s, NEW m, NEW m2, NEW i, m \subseteq m2,
           Good(lib, d, s, m, i)
    PROVE  Good(lib, d, s, m2, i)
<1>1. ColumnsMatch(lib, d, m2)
  BY DEF Good, ColumnsMatch
<1>2. QED
  BY <1>1 DEF Good

(* What is left to prove of a statement that is sent. *)
LEMMA SendStep ==
    ASSUME TypeOK, StateInv, pc = "fix", NEW w, NEW text, Send(w, text),
           w.next \in Nat, idCounter =< w.next,
           text.new \in Seq(Names), text.old \in Seq(Names),
           text.cols \subseteq Columns,
           Stored(w) \in LibraryType,
           CanSucceed' => AfterStmt'
    PROVE  IInv'
<1>1. Good(library, db, strayed, muddled, idCounter)
  BY DEF StateInv
<1>2. /\ pc' = "run" /\ backup' = library /\ library' = Stored(w)
      /\ idCounter' = w.next /\ stmt' = text /\ w.next =< MaxId
      /\ db' = db /\ strayed' = strayed /\ muddled' = muddled
  BY DEF Send
<1>3. idCounter \in Nat
  BY NameTypes DEF TypeOK
<1>4. Good(library, db, strayed, muddled, w.next)
  BY <1>1, <1>3, GoodLater
<1>5. Good(backup, db, strayed, muddled, idCounter)'
  BY <1>2, <1>4
<1>6. StateInv'
  BY <1>2, <1>5 DEF StateInv
<1>7. TypeOK'
  BY <1>2, NameTypes DEF TypeOK
<1>8. QED
  BY <1>6, <1>7 DEF IInv

(* The fields of a library and a database that fit. *)
LEMMA GoodTypes ==
    ASSUME NEW lib, NEW d, NEW s, NEW m, NEW i, Good(lib, d, s, m, i)
    PROVE  /\ lib.names \in Seq(Names) /\ lib.cols \in [Names -> SUBSET Columns]
           /\ lib.views \in Seq(ViewNames \cup {Blank})
           /\ lib.views \in Seq(Names)
           /\ d.tables \subseteq TableNames /\ d.views \subseteq Names
           /\ d.cols \in [Names -> SUBSET Columns]
           /\ Range(lib.names) \subseteq Names
           /\ Range(lib.views) \subseteq ViewNames \cup {Blank}
<1>1. /\ lib.names \in Seq(Names) /\ lib.cols \in [Names -> SUBSET Columns]
      /\ lib.views \in Seq(ViewNames \cup {Blank})
  BY DEF Good, LibraryType
<1>2. /\ d.tables \subseteq TableNames /\ d.views \subseteq Names
      /\ d.cols \in [Names -> SUBSET Columns]
  BY DEF Good, DbType
<1>3. lib.views \in Seq(Names)
  BY <1>1, NameTypes
<1>4. QED
  BY <1>1, <1>2, <1>3, SeqRange

(* The library and the counter as a statement finds them. *)
LEMMA BeforeStmt ==
    ASSUME TypeOK, StateInv, pc = "fix"
    PROVE  /\ idCounter \in Nat
           /\ Good(library, db, strayed, muddled, idCounter)
           /\ strayed \in BOOLEAN /\ muddled \subseteq Names
BY NameTypes DEF TypeOK, StateInv

(* What a statement that creates the table or view new leaves.             *)
Adds(new, lib, d, m, lib2, d2, m2, j) ==
    /\ Range(lib2.names) = Range(lib.names) \cup {new}
    /\ Range(lib.views) \subseteq Range(lib2.views)
    /\ new \in ViewNames => new \in Range(lib2.views)
    /\ d2.tables = IF new \in TableNames THEN d.tables \cup {new} ELSE d.tables
    /\ d2.views = IF new \in TableNames THEN d.views ELSE d.views \cup {new}
    /\ \A n \in Names \ UsedNames(j) : lib2.cols[n] = lib.cols[n]
    /\ m \subseteq m2
    /\ \A n \in Names \ {new} : d2.cols[n] = d.cols[n]
    /\ \A n \in Names \ ({new} \cup m2) : lib2.cols[n] = lib.cols[n]
    /\ new \in m2 \/ lib2.cols[new] \subseteq d2.cols[new]

(* The library fits when the new name is the one of the counter. *)
LEMMA AfterCreate ==
    ASSUME NEW lib, NEW d, NEW s, NEW m, NEW i \in Nat, Good(lib, d, s, m, i),
           NEW lib2 \in LibraryType, NEW d2 \in DbType, NEW m2,
           NEW j \in Nat, i < j, i =< MaxId, NEW new \in Names,
           new \in {TableName(i), ViewName(i)},
           Adds(new, lib, d, m, lib2, d2, m2, j)
    PROVE  Good(lib2, d2, s, m2, j)
<1> USE DEF Adds
<1>1. Fresh(lib2, j)
  <2>1. new \in UsedNames(j) /\ UsedNames(i) \subseteq UsedNames(j)
    BY UsedGrow
  <2>2. QED
    BY <2>1 DEF Good, Fresh
<1>2. i \in Ids
  BY NameTypes DEF Ids
<1>3. ViewsAreNamed(d2, j)
  BY <1>2, NameTypes DEF Good, ViewsAreNamed, Raw
<1>4. NamesMatch(lib2, d2, s)
  <2>1. new \in TableNames \/ new \in ViewNames
    BY <1>2, NameTypes
  <2>2. QED
    BY <2>1, NameTypes DEF Good, NamesMatch
<1>5. ColumnsMatch(lib2, d2, m2)
  <2>1. SUFFICES ASSUME NEW n \in (d2.tables \cup d2.views) \ m2
                 PROVE  lib2.cols[n] \subseteq d2.cols[n]
    BY DEF ColumnsMatch
  <2>2. n # new => n \in (d.tables \cup d.views) \ m /\ n \in Names
    BY GoodTypes, NameTypes
  <2>3. QED
    BY <2>1, <2>2 DEF Good, ColumnsMatch
<1>6. QED
  BY <1>1, <1>3, <1>4, <1>5 DEF Good

(* Where a statement that is sent leads. *)
LEMMA Sent ==
    ASSUME NEW w, NEW text, Send(w, text)
    PROVE  /\ library' = Stored(w) /\ backup' = library /\ idCounter' = w.next
           /\ stmt' = text /\ w.next =< MaxId
           /\ db' = db /\ strayed' = strayed /\ muddled' = muddled
BY DEF Send

(* A statement that creates one table or view under the next name. *)
LEMMA CreateStep ==
    ASSUME TypeOK, StateInv, pc = "fix", NEW w, NEW text, Send(w, text),
           NEW new, new \in {TableName(idCounter), ViewName(idCounter)},
           w.names = library.names, w.made = <<new>>,
           w.views \in Seq(ViewNames \cup {Blank}),
           Range(library.views) \subseteq Range(w.views),
           new \in ViewNames => new \in Range(w.views),
           w.cols \in [Names -> SUBSET Columns],
           w.next \in Nat, idCounter < w.next,
           text.new = <<new>>, text.old \in Seq(Names), text.raw = FALSE,
           text.cols \subseteq Columns,
           text.kind \in IF new \in TableNames THEN {"create", "like", "as"}
                                               ELSE {"view", "listed_view"},
           CreatedColumns' \subseteq Columns,
           \A n \in Names \ UsedNames(w.next) : w.cols[n] = library.cols[n],
           CanSucceed' =>
               /\ \A n \in Names \ ({new} \cup Muddled') :
                      w.cols[n] = library.cols[n]
               /\ new \in Muddled' \/ w.cols[new] \subseteq CreatedColumns'
    PROVE  IInv'
<1> DEFINE i == idCounter
           lib == Stored(w)
<1>1. i \in Nat /\ Good(library, db, strayed, muddled, i)
  BY BeforeStmt
<1>2. /\ library' = Stored(w) /\ idCounter' = w.next /\ stmt' = text /\ w.next =< MaxId
      /\ db' = db /\ strayed' = strayed /\ muddled' = muddled
  BY Sent
<1>3. i \in Ids /\ i =< MaxId
  BY <1>1, <1>2, NameTypes DEF Ids
<1>4. new \in Names /\ new \in TableNames \cup ViewNames
  BY <1>3, NameTypes
<1>5. /\ lib \in LibraryType
      /\ Range(lib.names) = Range(library.names) \cup {new}
      /\ lib.views = w.views /\ lib.cols = w.cols
  <2>1. w.made \in Seq(Names) /\ Range(w.made) = {new}
    BY <1>4, ShortRange
  <2>2. w.names \in Seq(Names)
    BY <1>1, GoodTypes
  <2>3. QED
    BY <2>1, <2>2, StoredType
<1> HIDE DEF lib
<1>6. ASSUME CanSucceed' PROVE AfterStmt'
  <2> DEFINE d == [tables |-> IF new \in TableNames THEN db.tables \cup {new} ELSE db.tables,
                   views |-> IF new \in TableNames THEN db.views ELSE db.views \cup {new},
                   cols |-> [n \in Names |-> IF n = new THEN CreatedColumns'
                                                        ELSE db.cols[n]]]
             m2 == Muddled'
  <2>1. /\ News' = {new} /\ Creates'
        /\ stmt'.kind \in {"create", "like", "as"} <=> new \in TableNames
        /\ stmt'.kind \in {"view", "listed_view"} <=> new \notin TableNames
    BY <1>2, ShortRange DEF News, Creates
  <2>2. NewDb' = d
    <3>1. NewDb' = Created'
      BY <2>1 DEF NewDb
    <3>2. QED
      BY <1>2, <2>1, <3>1 DEF Created
  <2>3. d \in DbType
    BY <1>1, <1>4, GoodTypes DEF DbType
  <2>4. /\ d.tables = IF new \in TableNames THEN db.tables \cup {new} ELSE db.tables
        /\ d.views = IF new \in TableNames THEN db.views ELSE db.views \cup {new}
        /\ \A n \in Names \ {new} : d.cols[n] = db.cols[n]
        /\ d.cols[new] = CreatedColumns'
    BY <1>4
  <2> HIDE DEF d
  <2> HIDE DEF m2
  <2>5. /\ \A n \in Names \ ({new} \cup m2) : lib.cols[n] = library.cols[n]
        /\ new \in m2 \/ lib.cols[new] \subseteq d.cols[new]
    BY <1>5, <1>6, <2>4 DEF m2
  <2>6. muddled \subseteq m2
    BY <1>2 DEF Muddled, m2
  <2> DEFINE j == w.next
  <2>7. /\ \A n \in Names \ UsedNames(j) : lib.cols[n] = library.cols[n]
        /\ Range(library.views) \subseteq Range(lib.views)
        /\ new \in ViewNames => new \in Range(lib.views)
        /\ new \in {TableName(i), ViewName(i)} /\ j \in Nat /\ i < j
    BY <1>5
  <2> HIDE DEF i, j
  <2>8. Good(lib, d, strayed, m2, j)
    <3>1. Adds(new, library, db, muddled, lib, d, m2, j)
      BY <1>5, <2>4, <2>5, <2>6, <2>7 DEF Adds
    <3>2. QED
      BY <1>1, <1>3, <1>4, <1>5, <2>3, <2>7, <3>1, AfterCreate
  <2>9. (strayed \/ FALSE) = strayed
    BY BeforeStmt
  <2>10. QED
    BY <1>2, <2>2, <2>8, <2>9 DEF AfterStmt, m2, j, lib
<1>7. /\ idCounter =< w.next /\ text.new \in Seq(Names)
      /\ Stored(w) \in LibraryType
  BY <1>1, <1>4, <1>5 DEF lib
<1>8. QED
  BY <1>6, <1>7, SendStep

(* The names that the next definition may give. *)
LEMMA NextNames ==
    ASSUME TypeOK, StateInv, pc = "fix", idCounter =< MaxId
    PROVE  /\ idCounter \in Ids
           /\ TableName(idCounter) \in TableNames \ ViewNames
           /\ TableName(idCounter) \in Names
           /\ ViewName(idCounter) \in ViewNames \ TableNames
           /\ ViewName(idCounter) \in Names
           /\ library.cols[TableName(idCounter)] = {}
           /\ library.cols[ViewName(idCounter)] = {}
           /\ TableName(idCounter) \notin Range(library.names)
<1> DEFINE i == idCounter
<1>1. i \in Nat /\ Good(library, db, strayed, muddled, i)
  BY BeforeStmt
<1>2. i \in Ids
  BY <1>1, NameTypes DEF Ids
<1>3. /\ TableName(i) \in TableNames \ ViewNames /\ TableName(i) \in Names
      /\ ViewName(i) \in ViewNames \ TableNames /\ ViewName(i) \in Names
  BY <1>2, NameTypes
<1>4. TableName(i) \notin UsedNames(i) /\ ViewName(i) \notin UsedNames(i)
  <2>1. i =< i
    BY <1>1
  <2> HIDE DEF i
  <2>2. i =< MaxId
    BY DEF i
  <2>3. QED
    BY <1>1, <2>1, <2>2, UsedGrow
<1>5. QED
  BY <1>1, <1>2, <1>3, <1>4 DEF Good, Fresh

(* CREATE TABLE. *)
LEMMA CreateTableStep ==
    ASSUME TypeOK, StateInv, pc = "fix", FixCreateTable
    PROVE  IInv'
<1> DEFINE i == idCounter
           new == TableName(i)
           w == DefineColumn(DefineTable(Work))
           text == Text("create", w.made, <<>>, {i + 1})
           cols == [library.cols EXCEPT ![new] = @ \cup {i + 1}]
<1>1. i \in Nat /\ Good(library, db, strayed, muddled, i)
  BY BeforeStmt
<1>2. /\ w.names = library.names /\ w.views = library.views
      /\ w.made = <<new>> /\ w.next = i + 2 /\ w.cols = cols
  BY <1>1, ShortRange DEF DefineColumn, DefineTable, Work, Attach
<1>3. Send(w, text)
  BY DEF FixCreateTable
<1> HIDE DEF w, text
<1>4. stmt' = text /\ i + 2 =< MaxId
  BY <1>2, <1>3, Sent
<1>5. /\ text.kind = "create" /\ text.new = <<new>> /\ text.old = <<>>
      /\ text.cols = {i + 1} /\ text.raw = FALSE
  BY <1>2 DEF Text, text
<1>6. i \in Ids /\ i + 1 \in Columns /\ i =< MaxId
  BY <1>1, <1>4, NameTypes DEF Ids, Columns
<1>7. new \in TableNames /\ new \in Names /\ new \notin ViewNames
  BY <1>6, NextNames
<1>8. cols \in [Names -> SUBSET Columns]
  BY <1>1, <1>6, <1>7, GoodTypes
<1>9. i + 2 \in Nat /\ i < i + 2
  BY <1>1
<1>10. new \in UsedNames(i + 2)
  <2> HIDE DEF i
  <2>1. QED
    BY <1>1, <1>9, UsedGrow
<1>11. library.cols[new] = {}
  BY <1>6, NextNames
<1>12. CreatedColumns' = {i + 1}
  BY <1>4, <1>5 DEF CreatedColumns
<1>13. /\ \A n \in Names \ {new} : cols[n] = library.cols[n]
       /\ cols[new] = {i + 1}
  BY <1>1, <1>7, <1>11, GoodTypes
<1> HIDE DEF new, cols
<1>14. new \in {TableName(idCounter), ViewName(idCounter)}
  BY DEF new
<1>15. /\ \A n \in Names \ UsedNames(w.next) : w.cols[n] = library.cols[n]
       /\ CanSucceed' =>
              /\ \A n \in Names \ ({new} \cup Muddled') :
                     w.cols[n] = library.cols[n]
              /\ new \in Muddled' \/ w.cols[new] \subseteq CreatedColumns'
  BY <1>2, <1>10, <1>12, <1>13
<1>16. /\ w.views \in Seq(ViewNames \cup {Blank})
       /\ Range(library.views) \subseteq Range(w.views)
       /\ new \in ViewNames => new \in Range(w.views)
  BY <1>1, <1>2, <1>7, GoodTypes
<1>17. /\ text.kind \in IF new \in TableNames THEN {"create", "like", "as"}
                                              ELSE {"view", "listed_view"}
       /\ text.cols \subseteq Columns /\ CreatedColumns' \subseteq Columns
       /\ w.next \in Nat /\ idCounter < w.next
       /\ w.cols \in [Names -> SUBSET Columns]
       /\ text.old \in Seq(Names)
  BY <1>1, <1>2, <1>5, <1>6, <1>7, <1>8, <1>12
<1>18. QED
  BY <1>2, <1>3, <1>5, <1>14, <1>15, <1>16, <1>17, CreateStep

(* CREATE TABLE LIKE. *)
LEMMA CreateLikeStep ==
    ASSUME TypeOK, StateInv, pc = "fix", FixCreateLike
    PROVE  IInv'
<1> DEFINE i == idCounter
           new == TableName(i)
           w == DefineTable(Work)
<1>1. i \in Nat /\ Good(library, db, strayed, muddled, i)
  BY BeforeStmt
<1>2. /\ w.names = library.names /\ w.views = library.views
      /\ w.made = <<new>> /\ w.next = i + 1 /\ w.cols = library.cols
  BY <1>1, ShortRange DEF DefineTable, Work
<1>3. PICK t \in Usable(w) : Send(w, Text("like", w.made, <<t>>, {}))
  BY DEF FixCreateLike
<1> DEFINE text == Text("like", w.made, <<t>>, {})
<1>4. Send(w, text)
  BY <1>3
<1> HIDE DEF w, text
<1>5. stmt' = text /\ i + 1 =< MaxId /\ db' = db
  BY <1>2, <1>4, Sent
<1>6. /\ text.kind = "like" /\ text.new = <<new>> /\ text.old = <<t>>
      /\ text.cols = {} /\ text.raw = FALSE
      /\ text.shown = Columns /\ text.nested = FALSE
  BY <1>2 DEF Text, text
<1>7. idCounter =< MaxId /\ i + 1 \in Nat /\ i < i + 1
  BY <1>1, <1>5, NameTypes
<1>8. /\ new \in TableNames /\ new \in Names /\ new \notin ViewNames
      /\ library.cols[new] = {}
  BY <1>7, NextNames
<1> HIDE DEF new
<1>9. t \in Names
  BY <1>1, <1>2, <1>8, GoodTypes, ShortRange DEF Usable, Known
<1>10. CreatedColumns' \subseteq Columns
  BY <1>5, <1>6 DEF CreatedColumns
<1>11. new \in {TableName(idCounter), ViewName(idCounter)}
  BY DEF new
<1>12. /\ \A n \in Names \ UsedNames(w.next) : w.cols[n] = library.cols[n]
       /\ CanSucceed' =>
              /\ \A n \in Names \ ({new} \cup Muddled') :
                     w.cols[n] = library.cols[n]
              /\ new \in Muddled' \/ w.cols[new] \subseteq CreatedColumns'
  BY <1>2, <1>8
<1>13. /\ w.views \in Seq(ViewNames \cup {Blank})
       /\ Range(library.views) \subseteq Range(w.views)
       /\ new \in ViewNames => new \in Range(w.views)
  BY <1>1, <1>2, <1>8, GoodTypes
<1>14. /\ text.kind \in IF new \in TableNames THEN {"create", "like", "as"}
                                              ELSE {"view", "listed_view"}
       /\ text.cols \subseteq Columns /\ CreatedColumns' \subseteq Columns
       /\ w.next \in Nat /\ idCounter < w.next
       /\ w.cols \in [Names -> SUBSET Columns]
       /\ text.old \in Seq(Names)
  BY <1>1, <1>2, <1>6, <1>7, <1>8, <1>9, <1>10, GoodTypes
<1>15. QED
  BY <1>2, <1>4, <1>6, <1>11, <1>12, <1>13, <1>14, CreateStep

WorkType == [names : Seq(Names), views : Seq(ViewNames \cup {Blank}),
             cols : [Names -> SUBSET Columns], made : Seq(Names), next : Nat]

(* The work record at the start of the passes. *)
LEMMA WorkStart ==
    ASSUME TypeOK, StateInv, pc = "fix"
    PROVE  /\ Work \in WorkType
           /\ Work.names = library.names /\ Work.views = library.views
           /\ Work.cols = library.cols /\ Work.made = <<>>
           /\ Work.next = idCounter
<1>1. Good(library, db, strayed, muddled, idCounter) /\ idCounter \in Nat
  BY BeforeStmt
<1>2. QED
  BY <1>1, GoodTypes DEF Work, WorkType

(* Columns put down to one name. *)
LEMMA AttachFacts ==
    ASSUME NEW w \in WorkType, NEW x \in Names, NEW more \in SUBSET Columns
    PROVE  LET u == Attach(w, x, more)
           IN  /\ u \in WorkType
               /\ u.names = w.names /\ u.views = w.views
               /\ u.made = w.made /\ u.next = w.next
               /\ u.cols[x] = w.cols[x] \cup more
               /\ \A n \in Names \ {x} : u.cols[n] = w.cols[n]
<1> DEFINE u == Attach(w, x, more)
           cols == [w.cols EXCEPT ![x] = @ \cup more]
<1>1. w.cols \in [Names -> SUBSET Columns]
  BY DEF WorkType
<1>2. /\ cols \in [Names -> SUBSET Columns]
      /\ cols[x] = w.cols[x] \cup more
      /\ \A n \in Names \ {x} : cols[n] = w.cols[n]
  BY <1>1
<1>3. u = [w EXCEPT !.cols = cols]
  BY DEF Attach
<1> HIDE DEF u, cols
<1>4. /\ u \in WorkType /\ u.cols = cols
      /\ u.names = w.names /\ u.views = w.views
      /\ u.made = w.made /\ u.next = w.next
  BY <1>2, <1>3 DEF WorkType
<1>5. QED
  BY <1>2, <1>4 DEF u

(* The tables of a SELECT. *)
LEMMA FromFacts ==
    ASSUME NEW w \in WorkType, NEW U, Usable(w) \subseteq U, U \subseteq Names,
           NEW from \in From(w)
    PROVE  /\ from \in Seq(Names) /\ Range(from) \subseteq U
           /\ Head(from) \in Range(from) /\ Head(from) \in Names
           /\ Len(from) \in {1, 2}
           /\ Len(from) = 2 => from[2] \in Range(from) /\ from[2] \in Names
           /\ Len(from) # 2 => Range(from) = {Head(from)}
<1>1. CASE \E t \in Usable(w) : from = <<t>>
  <2>1. PICK t \in Usable(w) : from = <<t>>
    BY <1>1
  <2>2. t \in U /\ t \in Names
    BY <2>1
  <2>3. Range(<<t>>) = {t} /\ Head(<<t>>) = t
    BY ShortRange
  <2>4. Len(<<t>>) = 1 /\ <<t>> \in Seq(Names)
    BY <2>2
  <2>5. QED
    BY <2>1, <2>2, <2>3, <2>4
<1>2. CASE \E t, u \in Usable(w) : from = <<t, u>>
  <2>1. PICK t \in Usable(w), u \in Usable(w) : from = <<t, u>>
    BY <1>2
  <2>2. t \in U /\ t \in Names /\ u \in U /\ u \in Names
    BY <2>1
  <2>3. Range(<<t, u>>) = {t, u} /\ Head(<<t, u>>) = t
    BY ShortRange
  <2>4. Len(<<t, u>>) = 2 /\ <<t, u>>[2] = u /\ <<t, u>> \in Seq(Names)
    BY <2>2
  <2>5. QED
    BY <2>1, <2>2, <2>3, <2>4
<1>3. QED
  BY <1>1, <1>2 DEF From

(* What is put down for a SELECT goes to x and to the table of a subquery. *)
LEMMA PutDownFacts ==
    ASSUME NEW w \in WorkType, NEW x \in Names, NEW from \in Seq(Names),
           NEW nested \in BOOLEAN, nested => from[2] \in Names,
           NEW columns \in SUBSET Columns
    PROVE  LET u == PutDown(w, x, from, nested, columns)
           IN  /\ u \in WorkType
               /\ u.names = w.names /\ u.views = w.views
               /\ u.made = w.made /\ u.next = w.next
               /\ Mentioned(w, from, columns) \subseteq Columns
               /\ ~nested => u.cols[x] = w.cols[x] \cup Mentioned(w, from, columns)
               /\ \A n \in Names : n # x /\ (nested => n # from[2]) =>
                      u.cols[n] = w.cols[n]
<1> DEFINE more == Mentioned(w, from, columns)
           first == Attach(w, x, more)
           u == PutDown(w, x, from, nested, columns)
<1>1. more \subseteq Columns
  <2>1. Range(from) \subseteq Names
    BY SeqRange
  <2>2. \A t \in Names : w.cols[t] \subseteq Columns
    BY DEF WorkType
  <2>3. ColumnsOf(w, Range(from)) \subseteq Columns
    BY <2>1, <2>2 DEF ColumnsOf
  <2>4. QED
    BY <2>3 DEF Mentioned
<1>2. u = IF nested THEN Attach(first, from[2], more) ELSE first
  BY DEF PutDown
<1> HIDE DEF more, u
<1>3. /\ first \in WorkType
      /\ first.names = w.names /\ first.views = w.views
      /\ first.made = w.made /\ first.next = w.next
      /\ first.cols[x] = w.cols[x] \cup more
      /\ \A n \in Names \ {x} : first.cols[n] = w.cols[n]
  BY <1>1, AttachFacts
<1> HIDE DEF first
<1>4. CASE nested
  <2>1. u = Attach(first, from[2], more) /\ from[2] \in Names
    BY <1>2, <1>4
  <2>2. /\ u \in WorkType
        /\ u.names = first.names /\ u.views = first.views
        /\ u.made = first.made /\ u.next = first.next
        /\ \A n \in Names \ {from[2]} : u.cols[n] = first.cols[n]
    BY <1>1, <1>3, <2>1, AttachFacts
  <2>3. QED
    BY <1>1, <1>3, <1>4, <2>2 DEF more, u
<1>5. CASE ~nested
  <2>1. u = first
    BY <1>2, <1>5
  <2>2. QED
    BY <1>1, <1>3, <1>5, <2>1 DEF more, u
<1>6. QED
  BY <1>4, <1>5

(* The columns of known tables are columns. *)
LEMMA ColumnsOfTypes ==
    ASSUME NEW w, w.cols \in [Names -> SUBSET Columns], NEW T \in SUBSET Names
    PROVE  ColumnsOf(w, T) \subseteq Columns
BY DEF ColumnsOf

(* CREATE TABLE AS. *)
LEMMA CreateAsStep ==
    ASSUME TypeOK, StateInv, pc = "fix", FixCreateAs
    PROVE  IInv'
<1> DEFINE i == idCounter
           new == TableName(i)
           w0 == DefineTable(Work)
<1>1. i \in Nat /\ Good(library, db, strayed, muddled, i)
  BY BeforeStmt
<1>2. /\ w0.names = library.names /\ w0.views = library.views
      /\ w0.made = <<new>> /\ w0.next = i + 1 /\ w0.cols = library.cols
      /\ w0 = [names |-> library.names, views |-> library.views,
               cols |-> library.cols, made |-> <<new>>, next |-> i + 1]
  <2>1. Append(<<>>, new) = <<new>>
    OBVIOUS
  <2> HIDE DEF new
  <2>2. w0 = [Work EXCEPT !.made = <<new>>, !.next = i + 1]
    BY <2>1 DEF DefineTable, Work, new
  <2>3. QED
    BY <2>2 DEF Work
<1>3. PICK from \in From(w0), nested \in BOOLEAN :
        \E columns \in SUBSET ColumnsOf(w0, Range(from)) :
        \E shown \in Shown(w0, from, nested, columns) :
          /\ nested => Len(from) = 2
          /\ Send(PutDown(w0, Head(w0.made), from, nested, columns),
                  Selecting(Text("as", w0.made, from, columns), shown, nested))
  BY DEF FixCreateAs
<1>4a. PICK columns \in SUBSET ColumnsOf(w0, Range(from)) :
        \E shown \in Shown(w0, from, nested, columns) :
          /\ nested => Len(from) = 2
          /\ Send(PutDown(w0, Head(w0.made), from, nested, columns),
                  Selecting(Text("as", w0.made, from, columns), shown, nested))
  BY <1>3
<1>4. PICK shown \in Shown(w0, from, nested, columns) :
          /\ nested => Len(from) = 2
          /\ Send(PutDown(w0, Head(w0.made), from, nested, columns),
                  Selecting(Text("as", w0.made, from, columns), shown, nested))
  BY <1>4a
<1> DEFINE w == PutDown(w0, new, from, nested, columns)
           text == Selecting(Text("as", <<new>>, from, columns), shown, nested)
           more == Mentioned(w0, from, columns)
<1>5. Send(w, text)
  <2>1. Head(w0.made) = new
    BY <1>2, ShortRange
  <2> HIDE DEF new, w0
  <2>2. QED
    BY <1>2, <1>4, <2>1
<1>6. /\ text.kind = "as" /\ text.new = <<new>> /\ text.old = from
      /\ text.cols = columns /\ text.raw = FALSE
      /\ text.shown = shown /\ text.nested = nested
  BY DEF Selecting, Text
<1> HIDE DEF text
<1>7. i + 1 =< MaxId /\ i =< MaxId /\ i + 1 \in Nat /\ i < i + 1
  <2>1. w.next = i + 1
    <3>1. w.next = w0.next
      BY DEF PutDown, Attach
    <3>2. QED
      BY <1>2, <3>1
  <2>2. i + 1 =< MaxId
    BY <1>5, <2>1, Sent
  <2>3. QED
    BY <1>1, <2>2, NameTypes
<1> HIDE DEF w
<1>8. stmt' = text /\ db' = db /\ muddled' = muddled
  BY <1>5, Sent
<1>9. /\ new \in TableNames /\ new \in Names /\ new \notin ViewNames
      /\ library.cols[new] = {}
  BY <1>7, NextNames
<1>10. new \in UsedNames(i + 1)
  <2> HIDE DEF i
  <2>1. QED
    BY <1>1, <1>7, UsedGrow
<1>11. new \in {TableName(idCounter), ViewName(idCounter)}
  OBVIOUS
<1> HIDE DEF new
<1>12. /\ library.names \in Seq(Names) /\ Range(library.names) \subseteq Names
       /\ library.views \in Seq(ViewNames \cup {Blank})
       /\ library.cols \in [Names -> SUBSET Columns]
  BY <1>1, GoodTypes
<1>13. w0 \in WorkType
  <2>1. <<new>> \in Seq(Names)
    BY <1>9
  <2> HIDE DEF w0
  <2>2. QED
    BY <1>2, <1>7, <1>12, <2>1 DEF WorkType
<1> HIDE DEF w0
<1> DEFINE U == Range(library.names) \cup {new}
<1>14. Usable(w0) \subseteq U /\ U \subseteq Names
  <2>1. Range(<<new>>) = {new} /\ <<new>> # <<>>
    BY ShortRange
  <2>2. QED
    BY <1>2, <1>9, <1>12, <2>1 DEF Usable, Known
<1>15. U \subseteq UsedNames(i + 1)
  <2>1. UsedNames(i) \subseteq UsedNames(i + 1)
    <3>1. i =< i + 1
      BY <1>1, <1>7
    <3> HIDE DEF i
    <3>2. QED
      BY <1>1, <1>7, <3>1, UsedGrow
  <2>2. QED
    BY <1>1, <1>10, <2>1 DEF Good, Fresh
<1> HIDE DEF U
<1>16. /\ from \in Seq(Names) /\ Range(from) \subseteq U
       /\ Head(from) \in Range(from) /\ Head(from) \in Names
       /\ Len(from) \in {1, 2}
       /\ Len(from) = 2 => from[2] \in Range(from) /\ from[2] \in Names
  BY <1>13, <1>14, FromFacts
<1>17. columns \subseteq Columns
  <2>1. Range(from) \subseteq Names
    BY <1>14, <1>16
  <2>2. ColumnsOf(w0, Range(from)) \subseteq Columns
    BY <1>2, <1>12, <2>1, ColumnsOfTypes
  <2>3. QED
    BY <2>2
<1>18. /\ w \in WorkType
       /\ w.names = library.names /\ w.views = library.views
       /\ w.made = <<new>> /\ w.next = i + 1
       /\ ~nested => w.cols[new] = more
       /\ \A n \in Names : n # new /\ (nested => n # from[2]) =>
              w.cols[n] = library.cols[n]
  <2>1. nested => from[2] \in Names
    BY <1>4, <1>16
  <2>2. /\ w \in WorkType
        /\ w.names = w0.names /\ w.views = w0.views
        /\ w.made = w0.made /\ w.next = w0.next
        /\ ~nested => w.cols[new] = w0.cols[new] \cup more
        /\ \A n \in Names : n # new /\ (nested => n # from[2]) =>
               w.cols[n] = w0.cols[n]
    BY <1>9, <1>13, <1>16, <1>17, <2>1, PutDownFacts DEF w
  <2> HIDE DEF more
  <2>3. QED
    BY <1>2, <1>9, <2>2
<1>19. \A n \in Names \ ({new} \cup Muddled') : w.cols[n] = library.cols[n]
  <2>1. ASSUME NEW n \in Names, nested, n = from[2] PROVE n \in Muddled'
    BY <1>6, <1>8, <2>1 DEF Muddled, Muddles
  <2>2. QED
    BY <1>18, <2>1
<1>20. CreatedColumns' = shown \cap ColumnsOf(db, Outer(from, nested))
  BY <1>6, <1>8 DEF CreatedColumns
<1>21. ASSUME CanSucceed', new \notin Muddled'
       PROVE  w.cols[new] \subseteq CreatedColumns'
  <2>1. ~Hides'
    <3>1. new \in News'
      <4>1. News' = Range(<<new>>)
        BY <1>6, <1>8 DEF News
      <4>2. QED
        BY <4>1, ShortRange
    <3>2. QED
      BY <1>6, <1>8, <1>9, <1>21, <3>1 DEF Muddled, Muddles
  <2>2. /\ ~nested
        /\ columns \subseteq shown
        /\ columns = {} => shown = Columns /\ Range(from) \cap muddled = {}
    BY <1>6, <1>8, <2>1 DEF Hides, Olds
  <2>3. Outer(from, nested) = Range(from)
    BY <2>2 DEF Outer
  <2>4. /\ Range(from) \subseteq db.tables \cup db.views
        /\ columns \subseteq ColumnsOf(db, Range(from))
    BY <1>6, <1>8, <1>21 DEF CanSucceed, Olds, Objects
  <2>5. CASE columns = {}
    <3>1. more = ColumnsOf(library, Range(from))
      BY <1>2, <2>5 DEF Mentioned, ColumnsOf
    <3>2. \A t \in Range(from) : library.cols[t] \subseteq db.cols[t]
      BY <1>1, <2>2, <2>4, <2>5 DEF Good, ColumnsMatch
    <3>3. ColumnsOf(library, Range(from)) \subseteq ColumnsOf(db, Range(from))
      BY <3>2 DEF ColumnsOf
    <3>4. more \subseteq Columns
      <4>1. Range(from) \subseteq Names
        BY <1>14, <1>16
      <4>2. QED
        BY <1>12, <3>1, <4>1, ColumnsOfTypes
    <3>5. QED
      BY <1>18, <1>20, <2>2, <2>3, <2>5, <3>1, <3>3, <3>4
  <2>6. CASE columns # {}
    <3>1. more = columns
      BY <2>6 DEF Mentioned
    <3>2. QED
      BY <1>18, <1>20, <2>2, <2>3, <2>4, <3>1
  <2>7. QED
    BY <2>5, <2>6
<1>22. /\ \A n \in Names \ UsedNames(w.next) : w.cols[n] = library.cols[n]
       /\ CanSucceed' =>
              /\ \A n \in Names \ ({new} \cup Muddled') :
                     w.cols[n] = library.cols[n]
              /\ new \in Muddled' \/ w.cols[new] \subseteq CreatedColumns'
  <2>1. nested => from[2] \in UsedNames(i + 1)
    BY <1>4, <1>15, <1>16
  <2>2. QED
    BY <1>10, <1>18, <1>19, <1>21, <2>1
<1>23. CreatedColumns' \subseteq Columns
  <2>1. Outer(from, nested) \subseteq Names
    BY <1>14, <1>16 DEF Outer
  <2>2. ColumnsOf(db, Outer(from, nested)) \subseteq Columns
    BY <1>1, <2>1, GoodTypes, ColumnsOfTypes
  <2>3. QED
    BY <1>20, <2>2
<1>24. /\ text.kind \in IF new \in TableNames THEN {"create", "like", "as"}
                                              ELSE {"view", "listed_view"}
       /\ text.cols \subseteq Columns
       /\ text.old \in Seq(Names)
  BY <1>6, <1>9, <1>16, <1>17
<1>25. /\ w.views \in Seq(ViewNames \cup {Blank})
       /\ Range(library.views) \subseteq Range(w.views)
       /\ new \in ViewNames => new \in Range(w.views)
       /\ w.next \in Nat /\ idCounter < w.next
       /\ w.cols \in [Names -> SUBSET Columns]
       /\ w.names = library.names /\ w.made = <<new>>
  BY <1>7, <1>9, <1>12, <1>18 DEF WorkType
<1>26. QED
  BY <1>5, <1>6, <1>11, <1>22, <1>23, <1>24, <1>25, CreateStep

(* CREATE VIEW, with and without a list of columns, given what is put down *)
(* to other names than the view.                                           *)
LEMMA ViewStep ==
    ASSUME TypeOK, StateInv, pc = "fix", idCounter =< MaxId,
           NEW w \in WorkType, NEW text, Send(w, text),
           w.names = library.names, w.made = <<ViewName(idCounter)>>,
           w.views = Append(library.views, ViewName(idCounter)),
           idCounter < w.next,
           text.kind \in {"view", "listed_view"},
           text.new = <<ViewName(idCounter)>>, text.old \in Seq(Names),
           text.raw = FALSE, text.cols \subseteq Columns,
           Range(text.old) \subseteq Range(library.names) \cup {Raw},
           CreatedColumns' \subseteq Columns,
           \A n \in Names \ ({ViewName(idCounter)} \cup Range(text.old)) :
               w.cols[n] = library.cols[n],
           \A n \in Names \ ({ViewName(idCounter)} \cup Muddled') :
               w.cols[n] = library.cols[n],
           \/ ViewName(idCounter) \in Muddled'
           \/ w.cols[ViewName(idCounter)] \subseteq CreatedColumns'
    PROVE  IInv'
<1> DEFINE i == idCounter
           new == ViewName(i)
           views == Append(library.views, new)
<1>1. i \in Nat /\ Good(library, db, strayed, muddled, i)
  BY BeforeStmt
<1>2. /\ new \in ViewNames \ TableNames /\ new \in Names
      /\ views \in Seq(ViewNames \cup {Blank})
      /\ Range(views) = Range(library.views) \cup {new}
  <2>1. new \in ViewNames \ TableNames /\ new \in Names
    BY NextNames
  <2> DEFINE S == ViewNames \cup {Blank}
  <2>2. new \in S /\ library.views \in Seq(S)
    BY <1>1, <2>1, GoodTypes
  <2> HIDE DEF S, new
  <2>3. views \in Seq(S) /\ Range(views) = Range(library.views) \cup {new}
    BY <2>2, AppendRange
  <2>4. QED
    BY <2>1, <2>3 DEF S
<1>3. Range(text.old) \subseteq UsedNames(w.next) /\ new \in UsedNames(w.next)
  <2> DEFINE j == w.next
  <2>1. Range(library.names) \subseteq UsedNames(i)
    BY <1>1 DEF Good, Fresh
  <2>2. j \in Nat /\ i < j
    BY DEF WorkType
  <2>3. i =< j /\ 0 < j
    BY <1>1, <2>2
  <2> HIDE DEF i, j
  <2>4. QED
    BY <1>1, <2>1, <2>2, <2>3, UsedGrow DEF j
<1>4. /\ w.views \in Seq(ViewNames \cup {Blank})
      /\ Range(library.views) \subseteq Range(w.views)
      /\ new \in ViewNames => new \in Range(w.views)
      /\ w.cols \in [Names -> SUBSET Columns] /\ w.next \in Nat
  BY <1>2 DEF WorkType
<1>5. /\ \A n \in Names \ UsedNames(w.next) : w.cols[n] = library.cols[n]
      /\ CanSucceed' =>
             /\ \A n \in Names \ ({new} \cup Muddled') : w.cols[n] = library.cols[n]
             /\ new \in Muddled' \/ w.cols[new] \subseteq CreatedColumns'
  BY <1>3
<1>6. text.kind \in IF new \in TableNames THEN {"create", "like", "as"}
                                          ELSE {"view", "listed_view"}
  BY <1>2
<1>7. /\ new \in {TableName(idCounter), ViewName(idCounter)}
      /\ w.made = <<new>> /\ text.new = <<new>>
  OBVIOUS
<1> HIDE DEF new
<1>8. QED
  BY <1>4, <1>5, <1>6, <1>7, CreateStep

LEMMA CreateViewStep ==
    ASSUME TypeOK, StateInv, pc = "fix", FixCreateView
    PROVE  IInv'
<1> DEFINE i == idCounter
           new == ViewName(i)
           views == Append(library.views, new)
           v == DefineView(Work)
<1>1. i \in Nat /\ Good(library, db, strayed, muddled, i)
  BY BeforeStmt
<1>2. v = [names |-> library.names, views |-> views,
           cols |-> library.cols, made |-> <<new>>, next |-> i + 1]
  <2>1. Append(<<>>, new) = <<new>>
    OBVIOUS
  <2> HIDE DEF new
  <2>2. v = [Work EXCEPT !.made = <<new>>, !.next = i + 1, !.views = Append(@, new)]
    BY <2>1 DEF DefineView, NewView, Work, new
  <2>3. QED
    BY <2>2 DEF Work
<1>3a. PICK from \in From(Work), nested \in BOOLEAN :
        \E columns \in SUBSET ColumnsOf(v, Range(from)) :
          /\ nested => Len(from) = 2
          /\ \/ \E shown \in Shown(v, from, nested, columns) :
                  Send(PutDown(v, Head(from), from, nested, columns),
                       Selecting(Text("view", v.made, from, columns), shown, nested))
             \/ Send(PutDown(DefineColumn(v), Head(from), from, nested,
                             columns \cup {v.next}),
                     Selecting(Text("listed_view", v.made, from, {v.next}),
                               Columns, nested))
  BY DEF FixCreateView
<1>3. PICK columns \in SUBSET ColumnsOf(v, Range(from)) :
          /\ nested => Len(from) = 2
          /\ \/ \E shown \in Shown(v, from, nested, columns) :
                  Send(PutDown(v, Head(from), from, nested, columns),
                       Selecting(Text("view", v.made, from, columns), shown, nested))
             \/ Send(PutDown(DefineColumn(v), Head(from), from, nested,
                             columns \cup {v.next}),
                     Selecting(Text("listed_view", v.made, from, {v.next}),
                               Columns, nested))
  BY <1>3a
<1> HIDE DEF v
<1>4. /\ library.names \in Seq(Names) /\ Range(library.names) \subseteq Names
      /\ library.views \in Seq(ViewNames \cup {Blank})
      /\ library.cols \in [Names -> SUBSET Columns]
  BY <1>1, GoodTypes
<1> DEFINE U == Range(library.names) \cup {Raw}
<1>5. Usable(Work) \subseteq U /\ U \subseteq Names
  <2>1. Range(<<>>) = {}
    BY ShortRange
  <2>2. QED
    BY <1>4, <2>1, NameTypes DEF Usable, Known, Work
<1>6. Work \in WorkType
  BY WorkStart
<1> HIDE DEF U
<1>7. /\ from \in Seq(Names) /\ Range(from) \subseteq U /\ Range(from) \subseteq Names
      /\ Head(from) \in Range(from) /\ Head(from) \in Names
      /\ Len(from) \in {1, 2}
      /\ nested => from[2] \in Range(from) /\ from[2] \in Names
      /\ Len(from) # 2 => Range(from) = {Head(from)}
  BY <1>3, <1>5, <1>6, FromFacts
<1>8. columns \subseteq Columns /\ columns \subseteq ColumnsOf(library, Range(from))
  <2>1. ColumnsOf(v, Range(from)) = ColumnsOf(library, Range(from))
    BY <1>2 DEF ColumnsOf
  <2>2. ColumnsOf(library, Range(from)) \subseteq Columns
    BY <1>4, <1>7, ColumnsOfTypes
  <2>3. QED
    BY <2>1, <2>2
<1>9. ColumnsOf(db, Outer(from, nested)) \subseteq Columns
  <2>1. Outer(from, nested) \subseteq Names
    BY <1>7 DEF Outer
  <2>2. QED
    BY <1>1, <2>1, GoodTypes, ColumnsOfTypes
<1>10. ASSUME i =< MaxId, i + 1 =< MaxId
       PROVE  new \in Names /\ library.cols[new] = {} /\ v \in WorkType
  <2>1. new \in ViewNames /\ new \in Names /\ library.cols[new] = {}
    BY <1>10, NextNames
  <2>2. i + 1 \in Nat /\ <<new>> \in Seq(Names)
    BY <1>1, <2>1
  <2> DEFINE S == ViewNames \cup {Blank}
  <2>3. new \in S /\ library.views \in Seq(S)
    BY <1>4, <2>1
  <2> HIDE DEF S, new
  <2>4. views \in Seq(S)
    BY <2>3, AppendRange
  <2> HIDE DEF views
  <2>5. QED
    BY <1>2, <1>4, <2>1, <2>2, <2>4 DEF WorkType, S
<1> HIDE DEF new, views
<1>11. CASE \E shown \in Shown(v, from, nested, columns) :
              Send(PutDown(v, Head(from), from, nested, columns),
                   Selecting(Text("view", v.made, from, columns), shown, nested))
  <2>1. PICK shown \in Shown(v, from, nested, columns) :
              Send(PutDown(v, Head(from), from, nested, columns),
                   Selecting(Text("view", v.made, from, columns), shown, nested))
    BY <1>11
  <2> DEFINE w == PutDown(v, Head(from), from, nested, columns)
             text == Selecting(Text("view", v.made, from, columns), shown, nested)
             more == Mentioned(v, from, columns)
  <2>2. Send(w, text)
    BY <2>1
  <2>3. /\ text.kind = "view" /\ text.new = <<new>> /\ text.old = from
        /\ text.cols = columns /\ text.raw = FALSE
        /\ text.shown = shown /\ text.nested = nested
    BY <1>2 DEF Selecting, Text
  <2> HIDE DEF text
  <2>4. i + 1 =< MaxId /\ i =< MaxId /\ i < i + 1
    <3>1. w.next = v.next
      BY DEF PutDown, Attach
    <3>2. i + 1 =< MaxId
      BY <1>2, <2>2, <3>1, Sent
    <3>3. QED
      BY <1>1, <3>2, NameTypes
  <2> HIDE DEF w
  <2>5. new \in Names /\ library.cols[new] = {} /\ v \in WorkType
    BY <1>10, <2>4
  <2>6. stmt' = text /\ db' = db /\ muddled' = muddled
    BY <2>2, Sent
  <2>7. /\ w \in WorkType
        /\ w.names = library.names /\ w.views = views
        /\ w.made = <<new>> /\ w.next = i + 1
        /\ ~nested => w.cols[Head(from)] = library.cols[Head(from)] \cup more
        /\ \A n \in Names : n # Head(from) /\ (nested => n # from[2]) =>
               w.cols[n] = library.cols[n]
    <3>1. /\ w \in WorkType
          /\ w.names = v.names /\ w.views = v.views
          /\ w.made = v.made /\ w.next = v.next
          /\ ~nested => w.cols[Head(from)] = v.cols[Head(from)] \cup more
          /\ \A n \in Names : n # Head(from) /\ (nested => n # from[2]) =>
                 w.cols[n] = v.cols[n]
      BY <1>7, <1>8, <2>5, PutDownFacts DEF w
    <3> HIDE DEF more
    <3>2. QED
      BY <1>2, <3>1
  <2>8. \A n \in Names \ Muddled' : w.cols[n] = library.cols[n]
    <3>1. CASE Len(from) = 2
      <4>1. Head(from) \in Muddled' /\ (nested => from[2] \in Muddled')
        BY <1>7, <2>3, <2>6, <3>1 DEF Muddled, Muddles
      <4>2. QED
        BY <2>7, <4>1
    <3>2. CASE Len(from) # 2
      <4>1. ~nested /\ Range(from) = {Head(from)}
        BY <1>3, <1>7, <3>2
      <4>2. ColumnsOf(library, Range(from)) = library.cols[Head(from)]
        BY <4>1 DEF ColumnsOf
      <4>3. ColumnsOf(v, Range(from)) = ColumnsOf(library, Range(from))
        BY <1>2 DEF ColumnsOf
      <4>4. more \subseteq library.cols[Head(from)]
        BY <1>8, <4>2, <4>3 DEF Mentioned
      <4> HIDE DEF more
      <4>5. QED
        BY <2>7, <4>1, <4>4
    <3>3. QED
      BY <3>1, <3>2
  <2>9. \A n \in Names \ ({new} \cup Range(from)) : w.cols[n] = library.cols[n]
    BY <1>7, <2>7
  <2>10. new \in Muddled' \/ w.cols[new] \subseteq CreatedColumns'
    BY <2>5, <2>8
  <2>11. CreatedColumns' \subseteq Columns
    <3>1. CreatedColumns' = shown \cap ColumnsOf(db, Outer(from, nested))
      BY <2>3, <2>6 DEF CreatedColumns
    <3>2. QED
      BY <1>9, <3>1
  <2>12. idCounter < w.next /\ text.cols \subseteq Columns /\ text.old \in Seq(Names)
    BY <1>7, <1>8, <2>3, <2>4, <2>7
  <2>13. /\ text.kind \in {"view", "listed_view"} /\ text.raw = FALSE
         /\ Range(text.old) \subseteq Range(library.names) \cup {Raw}
    BY <1>7, <2>3 DEF U
  <2>14. QED
    BY <2>2, <2>3, <2>4, <2>7, <2>8, <2>9, <2>10, <2>11, <2>12, <2>13, ViewStep
       DEF new, views
<1>12. CASE Send(PutDown(DefineColumn(v), Head(from), from, nested,
                         columns \cup {v.next}),
                 Selecting(Text("listed_view", v.made, from, {v.next}),
                           Columns, nested))
  <2> DEFINE v2 == DefineColumn(v)
             w == PutDown(v2, Head(from), from, nested, columns \cup {v.next})
             text == Selecting(Text("listed_view", v.made, from, {v.next}),
                               Columns, nested)
  <2>1. Send(w, text)
    BY <1>12
  <2>2. /\ text.kind = "listed_view" /\ text.new = <<new>> /\ text.old = from
        /\ text.cols = {i + 1} /\ text.raw = FALSE /\ text.nested = nested
    BY <1>2 DEF Selecting, Text
  <2> HIDE DEF text
  <2>3. Head(v.made) = new /\ v.next = i + 1
    BY <1>2, ShortRange
  <2>4. i + 2 =< MaxId /\ i + 1 =< MaxId /\ i =< MaxId /\ i < i + 2 /\ i + 2 \in Nat
    <3>1. w.next = v2.next
      BY DEF PutDown, Attach
    <3>2. v2.next = i + 2
      BY <1>1, <1>2, <2>3 DEF DefineColumn, Attach
    <3>3. i + 2 =< MaxId
      BY <2>1, <3>1, <3>2, Sent
    <3>4. QED
      BY <1>1, <3>3, NameTypes
  <2> HIDE DEF w
  <2>5. new \in Names /\ library.cols[new] = {} /\ v \in WorkType
    BY <1>10, <2>4
  <2>6. i + 1 \in Columns
    BY <1>1, <2>4, NameTypes DEF Ids, Columns
  <2>7. /\ v2 \in WorkType
        /\ v2.names = library.names /\ v2.views = views
        /\ v2.made = <<new>> /\ v2.next = i + 2
        /\ v2.cols[new] = {i + 1}
        /\ \A n \in Names \ {new} : v2.cols[n] = library.cols[n]
    <3> DEFINE u == Attach(v, new, {i + 1})
    <3>1. /\ u \in WorkType
          /\ u.names = v.names /\ u.views = v.views
          /\ u.made = v.made /\ u.next = v.next
          /\ u.cols[new] = v.cols[new] \cup {i + 1}
          /\ \A n \in Names \ {new} : u.cols[n] = v.cols[n]
      BY <2>5, <2>6, AttachFacts
    <3>2. v2 = [u EXCEPT !.next = @ + 1]
      BY <2>3 DEF DefineColumn
    <3> HIDE DEF u, v2
    <3>3. u.next = i + 1 /\ (i + 1) + 1 = i + 2
      BY <1>1, <1>2, <3>1
    <3>4. v2 = [u EXCEPT !.next = i + 2]
      BY <3>2, <3>3
    <3>5. /\ v2 \in WorkType /\ v2.names = u.names /\ v2.views = u.views
          /\ v2.made = u.made /\ v2.next = i + 2 /\ v2.cols = u.cols
      BY <2>4, <3>1, <3>4 DEF WorkType
    <3>6. QED
      BY <1>2, <2>5, <3>1, <3>5
  <2> HIDE DEF v2
  <2>8. stmt' = text /\ db' = db /\ muddled' = muddled
    BY <2>1, Sent
  <2>9. /\ w \in WorkType
        /\ w.names = library.names /\ w.views = views
        /\ w.made = <<new>> /\ w.next = i + 2
        /\ \A n \in Names : n # Head(from) /\ (nested => n # from[2]) =>
               w.cols[n] = v2.cols[n]
    <3>1. columns \cup {v.next} \in SUBSET Columns
      BY <1>8, <2>3, <2>6
    <3>2. /\ w \in WorkType
          /\ w.names = v2.names /\ w.views = v2.views
          /\ w.made = v2.made /\ w.next = v2.next
          /\ \A n \in Names : n # Head(from) /\ (nested => n # from[2]) =>
                 w.cols[n] = v2.cols[n]
      BY <1>7, <2>7, <3>1, PutDownFacts DEF w
    <3>3. QED
      BY <2>7, <3>2
  <2>10. Head(from) \in Muddled' /\ (nested => from[2] \in Muddled')
    BY <1>7, <2>2, <2>8 DEF Muddled, Muddles
  <2>11. CreatedColumns' = {i + 1}
    BY <2>2, <2>8 DEF CreatedColumns
  <2>12. /\ \A n \in Names \ ({new} \cup Range(from)) : w.cols[n] = library.cols[n]
         /\ \A n \in Names \ ({new} \cup Muddled') : w.cols[n] = library.cols[n]
         /\ new \in Muddled' \/ w.cols[new] \subseteq CreatedColumns'
    BY <1>7, <2>5, <2>7, <2>9, <2>10, <2>11
  <2>13. /\ idCounter < w.next /\ text.cols \subseteq Columns
         /\ text.old \in Seq(Names) /\ CreatedColumns' \subseteq Columns
    BY <1>7, <2>2, <2>4, <2>6, <2>9, <2>11
  <2>14. /\ text.kind \in {"view", "listed_view"} /\ text.raw = FALSE
         /\ Range(text.old) \subseteq Range(library.names) \cup {Raw}
    BY <1>7, <2>2 DEF U
  <2>15. QED
    BY <2>1, <2>2, <2>4, <2>9, <2>12, <2>13, <2>14, ViewStep DEF new, views
<1>13. QED
  BY <1>3, <1>11, <1>12

-----------------------------------------------------------------------------
(* Statements that drop.                                                   *)

(* What a statement that drops the names of gone leaves.                   *)
Drops(gone, lib, d, s, lib2, d2, s2) ==
    /\ Range(lib2.names) \subseteq Range(lib.names) \cup {Blank}
    /\ lib2.cols = lib.cols
    /\ d2.tables = d.tables \ gone /\ d2.views = d.views \ gone
    /\ \A n \in Names \ gone : d2.cols[n] = d.cols[n]
    /\ s => s2
    /\ \A n \in (gone \cap TableNames) \ {Raw} : n \notin Range(lib2.names)
    /\ ~s2 => \A n \in gone \cap TableNames : n \notin Range(lib2.names)
    /\ \A n \in (d.tables \cap Range(lib.names)) \ gone : n \in Range(lib2.names)
    /\ \A n \in (d.views \cap ViewNames \cap Range(lib.views)) \ gone :
           n \in Range(lib2.views)

(* A library that lost names fits a database that lost tables and views. *)
LEMMA AfterDrop ==
    ASSUME NEW lib, NEW d, NEW s, NEW m, NEW i, Good(lib, d, s, m, i),
           NEW lib2 \in LibraryType, NEW d2 \in DbType, NEW s2, NEW gone,
           Drops(gone, lib, d, s, lib2, d2, s2)
    PROVE  Good(lib2, d2, s2, m, i)
<1> USE DEF Drops
<1>1. Fresh(lib2, i)
  BY DEF Good, Fresh, UsedNames
<1>2. ViewsAreNamed(d2, i)
  BY DEF Good, ViewsAreNamed
<1>3. NamesMatch(lib2, d2, s2)
  <2>1. ASSUME NEW n \in Range(lib2.names) \cap TableNames, n # Raw \/ ~s2
        PROVE  n \in d2.tables \cup d2.views
    <3>1. n \in Range(lib.names)
      BY NameTypes
    <3>2. n \in d.tables \cup d.views
      BY <2>1, <3>1 DEF Good, NamesMatch
    <3>3. QED
      BY <2>1, <3>2
  <2>2. ASSUME NEW n \in d2.tables, n # Raw \/ ~s2
        PROVE  n \in Range(lib2.names)
    BY <2>2 DEF Good, NamesMatch
  <2>3. d2.views \cap ViewNames \subseteq Range(lib2.views)
    BY DEF Good, NamesMatch
  <2>4. QED
    BY <2>1, <2>2, <2>3 DEF NamesMatch
<1>4. ColumnsMatch(lib2, d2, m)
  <2>1. ASSUME NEW n \in (d2.tables \cup d2.views) \ m
        PROVE  lib2.cols[n] \subseteq d2.cols[n]
    <3>1. n \in Names /\ n \notin gone /\ n \in (d.tables \cup d.views) \ m
      BY GoodTypes, NameTypes
    <3>2. QED
      BY <2>1, <3>1 DEF Good, ColumnsMatch
  <2>2. QED
    BY <2>1 DEF ColumnsMatch
<1>5. QED
  BY <1>1, <1>2, <1>3, <1>4 DEF Good

(* A pass that undefines a table before any was defined. *)
LEMMA UndefineTableFacts ==
    ASSUME NEW w \in WorkType, NEW x \in Names
    PROVE  LET u == UndefineTable(w, x)
           IN  /\ u \in WorkType /\ Range(u.names) = Range(w.names) \ {x}
               /\ u.views = w.views /\ u.made = w.made /\ u.next = w.next
               /\ w.made = <<>> \/ w.names = <<>> => u.cols = w.cols
               /\ w.made # <<>> /\ w.names # <<>> =>
                      u.cols = [w.cols EXCEPT ![Head(w.made)] = w.cols[x]]
<1> DEFINE u == UndefineTable(w, x)
<1>1. w.names \in Seq(Names)
  BY DEF WorkType
<1>2. CASE w.names = <<>>
  <2>1. u = w
    BY <1>2 DEF UndefineTable
  <2>2. QED
    BY <1>1, <1>2, <2>1, ShortRange
<1>3. CASE w.names # <<>>
  <2> DEFINE names == Without(w.names, x)
             cols == IF w.made = <<>> THEN w.cols
                     ELSE [w.cols EXCEPT ![Head(w.made)] = w.cols[x]]
  <2>1. names \in Seq(Names) /\ Range(names) = Range(w.names) \ {x}
    BY <1>1, WithoutRange
  <2>2. u = [w EXCEPT !.names = names, !.cols = cols]
    BY <1>3 DEF UndefineTable, Erased
  <2>3. cols \in [Names -> SUBSET Columns]
    BY DEF WorkType
  <2>4. /\ w.made = <<>> => cols = w.cols
        /\ w.made # <<>> => cols = [w.cols EXCEPT ![Head(w.made)] = w.cols[x]]
    OBVIOUS
  <2> HIDE DEF u, names, cols
  <2>5. /\ u \in WorkType
        /\ u.names = names /\ u.views = w.views /\ u.made = w.made
        /\ u.next = w.next /\ u.cols = cols
    BY <2>1, <2>2, <2>3 DEF WorkType
  <2>6. QED
    BY <1>3, <2>1, <2>4, <2>5 DEF u
<1>4. QED
  BY <1>2, <1>3

(* A pass that undefines a view. *)
LEMMA UndefineViewFacts ==
    ASSUME NEW w \in WorkType, NEW x \in Known(w.views)
    PROVE  LET u == UndefineView(w, x)
           IN  /\ u \in WorkType
               /\ Range(u.names) \subseteq Range(w.names) \cup {Blank}
               /\ Range(w.names) \cap TableNames \subseteq Range(u.names)
               /\ Range(w.views) \ {x} \subseteq Range(u.views)
               /\ u.cols = w.cols /\ u.made = w.made /\ u.next = w.next
               /\ x \in Names
               /\ x \in TableNames => x = Raw
<1> DEFINE u == UndefineView(w, x)
           S == ViewNames \cup {Blank}
<1>1. w.names \in Seq(Names) /\ w.views \in Seq(S)
  BY DEF WorkType
<1>2. CASE w.views = <<>>
  <2>1. u = w /\ x = Raw
    BY <1>2 DEF UndefineView, Known
  <2>2. QED
    BY <1>2, <2>1, NameTypes, ShortRange
<1>3. CASE w.views # <<>>
  <2>1. x \in S /\ Blank \in S /\ x \in Names /\ x \notin TableNames /\ Blank \in Names
    <3>1. x \in Range(w.views)
      BY <1>3 DEF Known
    <3>2. Range(w.views) \subseteq S
      BY <1>1, SeqRange
    <3>3. QED
      BY <3>1, <3>2, NameTypes
  <2> DEFINE names == Removed(w.names, x)
             views == Removed(w.views, x)
  <2> HIDE DEF S
  <2>2. /\ names \in Seq(Names)
        /\ Range(w.names) \ {x} \subseteq Range(names)
        /\ Range(names) \subseteq Range(w.names) \cup {Blank}
    BY <1>1, <2>1, RemovedRange
  <2>3. views \in Seq(S) /\ Range(w.views) \ {x} \subseteq Range(views)
    BY <1>1, <2>1, RemovedRange
  <2>4. u = [w EXCEPT !.views = views, !.names = names]
    BY <1>3 DEF UndefineView
  <2> HIDE DEF u, names, views
  <2>5. /\ u \in WorkType /\ u.names = names /\ u.views = views
        /\ u.cols = w.cols /\ u.made = w.made /\ u.next = w.next
    BY <2>2, <2>3, <2>4 DEF WorkType, S
  <2>6. QED
    BY <2>1, <2>2, <2>3, <2>5 DEF u
<1>4. QED
  BY <1>2, <1>3

(* A statement that drops, given what it leaves in the library. *)
LEMMA DropStep ==
    ASSUME TypeOK, StateInv, pc = "fix", NEW w \in WorkType, NEW text, Send(w, text),
           w.made = <<>>, w.next = idCounter, w.cols = library.cols,
           text.new = <<>>, text.old \in Seq(Names), text.cols = {},
           text.raw \in BOOLEAN,
           text.kind \in {"drop_table", "drop_table_if_exists", "drop_view"},
           Range(w.names) \subseteq Range(library.names) \cup {Blank},
           NEW gone,
           gone = Range(text.old) \cap (IF text.kind = "drop_view" THEN db.views
                                                                  ELSE db.tables),
           \A n \in (gone \cap TableNames) \ {Raw} : n \notin Range(w.names),
           ~text.raw => \A n \in gone \cap TableNames : n \notin Range(w.names),
           \A n \in (db.tables \cap Range(library.names)) \ gone : n \in Range(w.names),
           CanSucceed' =>
               \A n \in (db.views \cap ViewNames \cap Range(library.views)) \ gone :
                   n \in Range(w.views)
    PROVE  IInv'
<1> DEFINE i == idCounter
           lib == Stored(w)
<1>1. i \in Nat /\ Good(library, db, strayed, muddled, i)
  BY BeforeStmt
<1>2. /\ library' = Stored(w) /\ idCounter' = i /\ stmt' = text
      /\ db' = db /\ strayed' = strayed /\ muddled' = muddled
  BY Sent
<1>3. /\ lib \in LibraryType /\ Range(lib.names) = Range(w.names)
      /\ lib.views = w.views /\ lib.cols = w.cols
  <2>1. Range(w.made) = {}
    BY ShortRange
  <2>2. /\ w.names \in Seq(Names) /\ w.made \in Seq(Names)
        /\ w.views \in Seq(ViewNames \cup {Blank})
        /\ w.cols \in [Names -> SUBSET Columns]
    BY DEF WorkType
  <2>3. QED
    BY <2>1, <2>2, StoredType
<1> HIDE DEF lib
<1>4. ASSUME CanSucceed' PROVE AfterStmt'
  <2> DEFINE d == [tables |-> db.tables \ gone, views |-> db.views \ gone,
                   cols |-> [n \in Names |-> IF n \in gone THEN {} ELSE db.cols[n]]]
             s2 == strayed \/ text.raw
  <2>1. NewDb' = d
    <3>1. NewDb' = Dropped'
      BY <1>2 DEF NewDb, Creates
    <3>2. Olds' = Range(text.old)
      BY <1>2 DEF Olds
    <3>3. QED
      BY <1>2, <3>1, <3>2 DEF Dropped
  <2>2. d \in DbType
    BY <1>1, GoodTypes DEF DbType
  <2>3. /\ d.tables = db.tables \ gone /\ d.views = db.views \ gone
        /\ \A n \in Names \ gone : d.cols[n] = db.cols[n]
    OBVIOUS
  <2> HIDE DEF d
  <2>4. /\ \A n \in (gone \cap TableNames) \ {Raw} : n \notin Range(lib.names)
        /\ ~s2 => \A n \in gone \cap TableNames : n \notin Range(lib.names)
        /\ \A n \in (db.tables \cap Range(library.names)) \ gone : n \in Range(lib.names)
        /\ \A n \in (db.views \cap ViewNames \cap Range(library.views)) \ gone :
               n \in Range(lib.views)
        /\ Range(lib.names) \subseteq Range(library.names) \cup {Blank}
        /\ lib.cols = library.cols
    BY <1>3, <1>4
  <2>5. strayed => s2
    OBVIOUS
  <2> HIDE DEF s2, i
  <2>6. Good(lib, d, s2, muddled, i)
    <3>1. Drops(gone, library, db, strayed, lib, d, s2)
      BY <2>3, <2>4, <2>5 DEF Drops
    <3>2. QED
      BY <1>1, <1>3, <2>2, <3>1, AfterDrop
  <2>7. muddled \subseteq Muddled'
    BY <1>2 DEF Muddled
  <2>8. Good(lib, d, s2, Muddled', i)
    BY <2>6, <2>7, GoodMore
  <2>9. QED
    BY <1>2, <2>1, <2>8 DEF AfterStmt, lib, s2, i
<1>5. /\ w.next \in Nat /\ idCounter =< w.next /\ text.new \in Seq(Names)
      /\ text.cols \subseteq Columns /\ Stored(w) \in LibraryType
  BY <1>1, <1>3 DEF lib
<1>6. QED
  BY <1>4, <1>5, SendStep

(* DROP TABLE of one table, or of a second one that is not marked. *)
LEMMA DropTableStep ==
    ASSUME TypeOK, StateInv, pc = "fix", FixDropTable
    PROVE  IInv'
<1>1. PICK x \in Known(library.names), kind \in {"drop_table", "drop_table_if_exists"} :
        LET w == UndefineTable(Work, x) IN
        \/ Send(w, Text(kind, <<>>, <<x>>, {}))
        \/ Send(w, Unfixed(Text(kind, <<>>, <<x, Raw>>, {})))
  BY DEF FixDropTable
<1>2. PICK text : /\ Send(UndefineTable(Work, x), text)
                  /\ \/ text = Text(kind, <<>>, <<x>>, {})
                     \/ text = Unfixed(Text(kind, <<>>, <<x, Raw>>, {}))
  BY <1>1
<1> DEFINE w == UndefineTable(Work, x)
<1>3. /\ library.names \in Seq(Names) /\ Range(library.names) \subseteq Names
      /\ library.views \in Seq(ViewNames \cup {Blank})
      /\ library.cols \in [Names -> SUBSET Columns] /\ idCounter \in Nat
  BY BeforeStmt, GoodTypes
<1>4. x \in Names
  BY <1>3, NameTypes DEF Known
<1>5. /\ w \in WorkType /\ Range(w.names) = Range(library.names) \ {x}
      /\ w.views = library.views /\ w.made = <<>> /\ w.next = idCounter
      /\ w.cols = library.cols
  BY <1>4, WorkStart, UndefineTableFacts
<1>7. Send(w, text)
  BY <1>2
<1> HIDE DEF w
<1>8. /\ text.new = <<>> /\ text.cols = {} /\ text.kind = kind
      /\ \/ text.old = <<x>> /\ text.raw = FALSE
         \/ text.old = <<x, Raw>> /\ text.raw = TRUE
  BY <1>2 DEF Text, Unfixed
<1>9. /\ text.old \in Seq(Names) /\ text.raw \in BOOLEAN
      /\ x \in Range(text.old)
      /\ Range(text.old) \subseteq {x, Raw}
      /\ ~text.raw => Range(text.old) = {x}
  <2>1. <<x>> \in Seq(Names) /\ <<x, Raw>> \in Seq(Names)
    BY <1>4, NameTypes
  <2>2. Range(<<x>>) = {x} /\ Range(<<x, Raw>>) = {x, Raw}
    BY ShortRange
  <2>3. CASE text.old = <<x>> /\ text.raw = FALSE
    <3>1. text.old \in Seq(Names) /\ Range(text.old) = {x}
      BY <2>1, <2>2, <2>3, Zenon
    <3>2. text.raw \in BOOLEAN
      BY <2>3
    <3>3. QED
      BY <3>1, <3>2
  <2>4. CASE text.old = <<x, Raw>> /\ text.raw = TRUE
    <3>1. text.old \in Seq(Names) /\ Range(text.old) = {x, Raw}
      BY <2>1, <2>2, <2>4, Zenon
    <3>2. text.raw \in BOOLEAN /\ text.raw
      BY <2>4
    <3>3. QED
      BY <3>1, <3>2
  <2>5. QED
    BY <1>8, <2>3, <2>4
<1> DEFINE gone == Range(text.old) \cap db.tables
<1>10. gone = Range(text.old) \cap (IF text.kind = "drop_view" THEN db.views
                                                              ELSE db.tables)
  BY <1>8
<1>11. /\ \A n \in (gone \cap TableNames) \ {Raw} : n \notin Range(w.names)
       /\ ~text.raw => \A n \in gone \cap TableNames : n \notin Range(w.names)
  BY <1>5, <1>9
<1>12. \A n \in (db.tables \cap Range(library.names)) \ gone : n \in Range(w.names)
  BY <1>5, <1>9
<1>13. \A n \in (db.views \cap ViewNames \cap Range(library.views)) \ gone :
           n \in Range(w.views)
  BY <1>5
<1> HIDE DEF gone
<1>14. Range(w.names) \subseteq Range(library.names) \cup {Blank}
  BY <1>5
<1>15. text.kind \in {"drop_table", "drop_table_if_exists", "drop_view"}
  BY <1>8
<1>16. CanSucceed' =>
           \A n \in (db.views \cap ViewNames \cap Range(library.views)) \ gone :
               n \in Range(w.views)
  BY <1>13
<1>17. /\ text.old \in Seq(Names) /\ text.raw \in BOOLEAN /\ text.new = <<>>
       /\ text.cols = {}
  BY <1>8, <1>9
<1>18. /\ w \in WorkType /\ w.made = <<>> /\ w.next = idCounter
       /\ w.cols = library.cols
  BY <1>5
<1>19. QED
  BY <1>7, <1>10, <1>11, <1>12, <1>14, <1>15, <1>16, <1>17, <1>18, DropStep

(* DROP VIEW of one or two views. *)
LEMMA DropViewStep ==
    ASSUME TypeOK, StateInv, pc = "fix", FixDropView
    PROVE  IInv'
<1>1. Good(library, db, strayed, muddled, idCounter)
  BY BeforeStmt
<1>2. /\ Work \in WorkType
      /\ Work.names = library.names /\ Work.views = library.views
      /\ Work.cols = library.cols /\ Work.made = <<>> /\ Work.next = idCounter
  BY WorkStart
<1>3. PICK x \in Known(Work.views) :
        \/ Send(UndefineView(Work, x), Text("drop_view", <<>>, <<x>>, {}))
        \/ \E y \in Known(UndefineView(Work, x).views) :
               Send(UndefineView(UndefineView(Work, x), y),
                    Text("drop_view", <<>>, <<x, y>>, {}))
  BY <1>2 DEF FixDropView
<1> DEFINE u == UndefineView(Work, x)
<1>4. /\ u \in WorkType
      /\ Range(u.names) \subseteq Range(library.names) \cup {Blank}
      /\ Range(library.names) \cap TableNames \subseteq Range(u.names)
      /\ Range(library.views) \ {x} \subseteq Range(u.views)
      /\ u.cols = library.cols /\ u.made = <<>> /\ u.next = idCounter
      /\ x \in Names
      /\ x \in TableNames => x = Raw
  BY <1>2, UndefineViewFacts
<1>5. PICK w, text :
        /\ Send(w, text)
        /\ \/ w = u /\ text = Text("drop_view", <<>>, <<x>>, {})
           \/ \E y \in Known(u.views) :
                  /\ w = UndefineView(u, y)
                  /\ text = Text("drop_view", <<>>, <<x, y>>, {})
  BY <1>3
<1> HIDE DEF u
<1>6. /\ w \in WorkType /\ w.made = <<>> /\ w.next = idCounter /\ w.cols = library.cols
      /\ Range(w.names) \subseteq Range(library.names) \cup {Blank}
      /\ Range(library.names) \cap TableNames \subseteq Range(w.names)
      /\ Range(library.views) \ Range(text.old) \subseteq Range(w.views)
      /\ text.new = <<>> /\ text.cols = {} /\ text.kind = "drop_view"
      /\ text.raw = FALSE /\ text.old \in Seq(Names)
      /\ Range(text.old) \cap TableNames \subseteq {Raw}
  <2>1. CASE w = u /\ text = Text("drop_view", <<>>, <<x>>, {})
    <3>1. Range(<<x>>) = {x} /\ <<x>> \in Seq(Names)
      BY <1>4, ShortRange
    <3>2. text.old = <<x>> /\ text.raw = FALSE
      BY <2>1 DEF Text
    <3>3. Range(text.old) = {x} /\ text.old \in Seq(Names)
      BY <3>1, <3>2, Zenon
    <3>4. text.new = <<>> /\ text.cols = {} /\ text.kind = "drop_view"
      BY <2>1 DEF Text
    <3>5. QED
      BY <1>4, <2>1, <3>2, <3>3, <3>4
  <2>2. CASE \E y \in Known(u.views) : /\ w = UndefineView(u, y)
                                      /\ text = Text("drop_view", <<>>, <<x, y>>, {})
    <3>1. PICK y \in Known(u.views) : /\ w = UndefineView(u, y)
                                     /\ text = Text("drop_view", <<>>, <<x, y>>, {})
      BY <2>2
    <3>2. /\ w \in WorkType
          /\ Range(w.names) \subseteq Range(u.names) \cup {Blank}
          /\ Range(u.names) \cap TableNames \subseteq Range(w.names)
          /\ Range(u.views) \ {y} \subseteq Range(w.views)
          /\ w.cols = u.cols /\ w.made = u.made /\ w.next = u.next
          /\ y \in Names
          /\ y \in TableNames => y = Raw
      BY <1>4, <3>1, UndefineViewFacts
    <3>3. Range(<<x, y>>) = {x, y} /\ <<x, y>> \in Seq(Names)
      BY <1>4, <3>2, ShortRange
    <3>4. text.old = <<x, y>> /\ text.raw = FALSE
      BY <3>1 DEF Text
    <3>5. Range(text.old) = {x, y} /\ text.old \in Seq(Names)
      BY <3>3, <3>4, Zenon
    <3>6. text.new = <<>> /\ text.cols = {} /\ text.kind = "drop_view"
      BY <3>1 DEF Text
    <3>7. QED
      BY <1>4, <3>2, <3>4, <3>5, <3>6
  <2>3. QED
    BY <1>5, <2>1, <2>2
<1> DEFINE gone == Range(text.old) \cap db.views
<1>7. gone = Range(text.old) \cap (IF text.kind = "drop_view" THEN db.views
                                                             ELSE db.tables)
  BY <1>6
<1>8. gone \cap TableNames = {}
  BY <1>1, <1>6 DEF Good, ViewsAreNamed
<1>9. /\ \A n \in (gone \cap TableNames) \ {Raw} : n \notin Range(w.names)
      /\ ~text.raw => \A n \in gone \cap TableNames : n \notin Range(w.names)
  BY <1>8
<1>10. \A n \in (db.tables \cap Range(library.names)) \ gone : n \in Range(w.names)
  BY <1>1, <1>6, GoodTypes
<1>11. \A n \in (db.views \cap ViewNames \cap Range(library.views)) \ gone :
           n \in Range(w.views)
  BY <1>6
<1> HIDE DEF gone
<1>12. CanSucceed' =>
           \A n \in (db.views \cap ViewNames \cap Range(library.views)) \ gone :
               n \in Range(w.views)
  BY <1>11
<1>13. text.raw \in BOOLEAN
  BY <1>6
<1>14. text.kind \in {"drop_table", "drop_table_if_exists", "drop_view"}
  BY <1>6
<1>15. Send(w, text)
  BY <1>5
<1>16. /\ w \in WorkType /\ w.made = <<>> /\ w.next = idCounter /\ w.cols = library.cols
       /\ text.new = <<>> /\ text.cols = {} /\ text.old \in Seq(Names)
       /\ Range(w.names) \subseteq Range(library.names) \cup {Blank}
  BY <1>6
<1>17. QED
  BY <1>7, <1>9, <1>10, <1>12, <1>13, <1>14, <1>15, <1>16, DropStep

-----------------------------------------------------------------------------
(* Statements that rename.                                                 *)

(* What a statement that renames olds to news leaves; tables and views are *)
(* those of the new names that are.                                        *)
Renames(olds, news, tables, views, lib, d, s, m, lib2, d2, s2, m2) ==
    /\ d2.tables = (d.tables \ olds) \cup tables
    /\ d2.views = (d.views \ olds) \cup views
    /\ tables \cup views = news /\ Raw \notin views
    /\ \A n \in Names \ (olds \cup news) : d2.cols[n] = d.cols[n]
    /\ lib2.views = lib.views
    /\ Range(lib2.names) \subseteq Range(lib.names) \cup news
    /\ Range(lib.names) \ olds \subseteq Range(lib2.names)
    /\ news \subseteq Range(lib2.names)
    /\ s => s2
    /\ \A n \in olds : n # Raw \/ ~s2 => n \notin Range(lib2.names)
    /\ \A n \in Names \ news : lib2.cols[n] = lib.cols[n]
    /\ m \subseteq m2
    /\ \A n \in news \ m2 : lib2.cols[n] \subseteq d2.cols[n]

(* The library fits when the new names are new table names. *)
LEMMA AfterRename ==
    ASSUME NEW lib, NEW d, NEW s, NEW m, NEW i \in Nat, Good(lib, d, s, m, i),
           NEW lib2 \in LibraryType, NEW d2 \in DbType, NEW s2, NEW m2,
           NEW j \in Nat, i < j,
           NEW olds, NEW news, news \subseteq TableNames \cap UsedNames(j),
           NEW tables, NEW views,
           Renames(olds, news, tables, views, lib, d, s, m, lib2, d2, s2, m2)
    PROVE  Good(lib2, d2, s2, m2, j)
<1> USE DEF Renames
<1>1. Fresh(lib2, j)
  <2>1. UsedNames(i) \subseteq UsedNames(j)
    BY UsedGrow
  <2>2. QED
    BY <2>1 DEF Good, Fresh
<1>2. ViewsAreNamed(d2, j)
  BY DEF Good, ViewsAreNamed
<1>3. NamesMatch(lib2, d2, s2)
  <2>1. ASSUME NEW n \in Range(lib2.names) \cap TableNames, n # Raw \/ ~s2
        PROVE  n \in d2.tables \cup d2.views
    BY <2>1 DEF Good, NamesMatch
  <2>2. ASSUME NEW n \in d2.tables, n # Raw \/ ~s2
        PROVE  n \in Range(lib2.names)
    BY <2>2 DEF Good, NamesMatch
  <2>3. d2.views \cap ViewNames \subseteq Range(lib2.views)
    BY NameTypes DEF Good, NamesMatch
  <2>4. QED
    BY <2>1, <2>2, <2>3 DEF NamesMatch
<1>4. ColumnsMatch(lib2, d2, m2)
  <2>1. ASSUME NEW n \in (d2.tables \cup d2.views) \ m2
        PROVE  lib2.cols[n] \subseteq d2.cols[n]
    <3>1. CASE n \in news
      BY <2>1, <3>1
    <3>2. CASE n \notin news
      <4>1. n \in Names /\ n \notin olds /\ n \in (d.tables \cup d.views) \ m
        BY <3>2, GoodTypes, NameTypes
      <4>2. QED
        BY <2>1, <3>2, <4>1 DEF Good, ColumnsMatch
    <3>3. QED
      BY <3>1, <3>2
  <2>2. QED
    BY <2>1 DEF ColumnsMatch
<1>5. QED
  BY <1>1, <1>2, <1>3, <1>4 DEF Good

(* A statement that renames, given what it leaves in the library. *)
LEMMA RenameStep ==
    ASSUME TypeOK, StateInv, pc = "fix", NEW w \in WorkType, NEW text, Send(w, text),
           idCounter < w.next, text.kind = "rename", text.raw \in BOOLEAN,
           text.new \in Seq(Names), text.old \in Seq(Names), text.cols = {},
           Range(w.made) = Range(text.new),
           Range(text.new) \subseteq TableNames \cap UsedNames(w.next),
           Raw \in Range(text.new) => idCounter = 0,
           \A n \in Range(text.new) : OldNameOf(n)' \in Range(text.old),
           w.views = library.views,
           Range(w.names) \subseteq Range(library.names),
           Range(library.names) \ Range(text.old) \subseteq Range(w.names),
           \A n \in Range(text.old) : n # Raw \/ ~text.raw => n \notin Range(w.names),
           \A n \in Names \ Range(text.new) : w.cols[n] = library.cols[n],
           CanSucceed' =>
               \A n \in Range(text.new) \ Muddled' :
                   w.cols[n] \subseteq db.cols[OldNameOf(n)']
    PROVE  IInv'
<1> DEFINE i == idCounter
           j == w.next
           lib == Stored(w)
           news == Range(text.new)
           olds == Range(text.old)
<1>1. i \in Nat /\ Good(library, db, strayed, muddled, i) /\ j \in Nat
  BY BeforeStmt DEF WorkType
<1>2. /\ library' = Stored(w) /\ idCounter' = j /\ stmt' = text
      /\ db' = db /\ strayed' = strayed /\ muddled' = muddled
  BY Sent
<1>3. /\ lib \in LibraryType /\ Range(lib.names) = Range(w.names) \cup news
      /\ lib.views = library.views /\ lib.cols = w.cols
  <2>1. /\ w.names \in Seq(Names) /\ w.made \in Seq(Names)
        /\ w.views \in Seq(ViewNames \cup {Blank})
        /\ w.cols \in [Names -> SUBSET Columns]
    BY DEF WorkType
  <2>2. QED
    BY <2>1, StoredType
<1> HIDE DEF lib
<1>4. ASSUME CanSucceed' PROVE AfterStmt'
  <2> DEFINE Old(n) == OldNameOf(n)'
             tables == {n \in news : Old(n) \in db.tables}
             views == {n \in news : Old(n) \in db.views}
             d == [tables |-> (db.tables \ olds) \cup tables,
                   views |-> (db.views \ olds) \cup views,
                   cols |-> [n \in Names |-> IF n \in news THEN db.cols[Old(n)]
                                             ELSE IF n \in olds THEN {} ELSE db.cols[n]]]
             s2 == strayed \/ text.raw
             m2 == Muddled'
  <2>1. News' = news /\ Olds' = olds /\ Objects' = db.tables \cup db.views
    BY <1>2 DEF News, Olds, Objects
  <2>2. news \cap (db.tables \cup db.views) = {} /\ olds \subseteq db.tables \cup db.views
    BY <1>2, <1>4, <2>1 DEF CanSucceed
  <2>3. NewDb' = d
    <3>1. NewDb' = RenamedDb'
      BY <1>2 DEF NewDb, Creates
    <3> HIDE DEF news, olds
    <3>2. QED
      BY <1>2, <2>1, <3>1 DEF RenamedDb, Renamed
  <2>4. \A n \in news : Old(n) \in olds
    OBVIOUS
  <2> HIDE DEF Old
  <2>5. news \subseteq TableNames \cap UsedNames(j) /\ olds \subseteq Names
    BY SeqRange
  <2>6. tables \cup views = news
    BY <2>2, <2>4
  <2>7. Raw \notin views
    BY <1>1, <2>4 DEF Good, ViewsAreNamed
  <2>8. d \in DbType
    <3>1. db.tables \subseteq TableNames /\ db.views \subseteq Names
          /\ db.cols \in [Names -> SUBSET Columns]
      BY <1>1, GoodTypes
    <3> HIDE DEF news, olds
    <3>2. tables \subseteq TableNames /\ views \subseteq Names
      BY <2>5, NameTypes
    <3>3. [n \in Names |-> IF n \in news THEN db.cols[Old(n)]
                           ELSE IF n \in olds THEN {} ELSE db.cols[n]]
             \in [Names -> SUBSET Columns]
      BY <2>4, <2>5, <3>1
    <3> HIDE DEF tables, views
    <3>4. QED
      BY <3>1, <3>2, <3>3 DEF DbType
  <2>9. /\ d.tables = (db.tables \ olds) \cup tables
        /\ d.views = (db.views \ olds) \cup views
        /\ \A n \in Names \ (olds \cup news) : d.cols[n] = db.cols[n]
        /\ \A n \in news : d.cols[n] = db.cols[Old(n)]
    <3>1. news \subseteq Names
      BY <2>5, NameTypes
    <3> HIDE DEF news, olds, tables, views
    <3>2. QED
      BY <3>1
  <2> HIDE DEF tables, views, d
  <2>10. /\ Range(lib.names) \subseteq Range(library.names) \cup news
         /\ Range(library.names) \ olds \subseteq Range(lib.names)
         /\ news \subseteq Range(lib.names)
         /\ \A n \in Names \ news : lib.cols[n] = library.cols[n]
    BY <1>3
  <2>11. \A n \in olds : n # Raw \/ ~s2 => n \notin Range(lib.names)
    BY <1>3, <2>2
  <2>12. \A n \in news \ m2 : lib.cols[n] \subseteq d.cols[n]
    BY <1>3, <1>4, <2>9 DEF Old
  <2>13. (strayed => s2) /\ muddled \subseteq m2
    BY <1>2 DEF Muddled
  <2> HIDE DEF s2, m2, news, olds
  <2>14. Renames(olds, news, tables, views, library, db, strayed, muddled, lib, d, s2, m2)
    BY <1>3, <2>6, <2>7, <2>9, <2>10, <2>11, <2>12, <2>13 DEF Renames
  <2> HIDE DEF i, j
  <2>15. i < j
    BY DEF i, j
  <2>16. Good(lib, d, s2, m2, j)
    BY <1>1, <1>3, <2>5, <2>8, <2>14, <2>15, AfterRename
  <2>17. QED
    BY <1>2, <2>3, <2>16 DEF AfterStmt, lib, s2, m2, j
<1>5. /\ w.next \in Nat /\ idCounter =< w.next
      /\ text.cols \subseteq Columns /\ Stored(w) \in LibraryType
  BY <1>1, <1>3 DEF lib
<1>6. QED
  BY <1>4, <1>5, SendStep

(* The old name of the first new name, and of a second one. *)
LEMMA OldNames ==
    /\ \A a, x : stmt'.new = <<a>> /\ stmt'.old = <<x>> => OldNameOf(a)' = x
    /\ \A a, b, x, y : stmt'.new = <<a, b>> /\ stmt'.old = <<x, y>> /\ a # b =>
          OldNameOf(a)' = x /\ OldNameOf(b)' = y
<1>1. ASSUME NEW a, NEW x, stmt'.new = <<a>>, stmt'.old = <<x>>
      PROVE  OldNameOf(a)' = x
  <2>1. DOMAIN stmt'.new = {1} /\ stmt'.new[1] = a
    BY <1>1
  <2>2. (CHOOSE k \in DOMAIN stmt'.new : stmt'.new[k] = a) = 1
    BY <2>1
  <2>3. OldNameOf(a)' = stmt'.old[1]
    BY <2>2 DEF OldNameOf
  <2>4. QED
    BY <1>1, <2>3
<1>2. ASSUME NEW a, NEW b, NEW x, NEW y, a # b,
             stmt'.new = <<a, b>>, stmt'.old = <<x, y>>
      PROVE  OldNameOf(a)' = x /\ OldNameOf(b)' = y
  <2>1. DOMAIN stmt'.new = {1, 2} /\ stmt'.new[1] = a /\ stmt'.new[2] = b
    BY <1>2
  <2>2. /\ (CHOOSE k \in DOMAIN stmt'.new : stmt'.new[k] = a) = 1
        /\ (CHOOSE k \in DOMAIN stmt'.new : stmt'.new[k] = b) = 2
    BY <1>2, <2>1
  <2>3. OldNameOf(a)' = stmt'.old[1] /\ OldNameOf(b)' = stmt'.old[2]
    BY <2>2 DEF OldNameOf
  <2>4. QED
    BY <1>2, <2>3
<1>3. QED
  BY <1>1, <1>2

(* The first definition of a table in a statement. *)
LEMMA DefineFirst ==
    ASSUME TypeOK, StateInv, pc = "fix", idCounter =< MaxId
    PROVE  LET w == DefineTable(Work)
               new == TableName(idCounter)
           IN  /\ w \in WorkType
               /\ w.names = library.names /\ w.views = library.views
               /\ w.cols = library.cols /\ w.made = <<new>>
               /\ w.next = idCounter + 1
               /\ new \in TableNames \cap UsedNames(idCounter + 1)
               /\ new = Raw => idCounter = 0
<1> DEFINE i == idCounter
           new == TableName(i)
           w == DefineTable(Work)
<1>1. /\ Work \in WorkType /\ i \in Nat
      /\ Work.names = library.names /\ Work.views = library.views
      /\ Work.cols = library.cols /\ Work.made = <<>> /\ Work.next = i
  BY WorkStart, BeforeStmt
<1>2. new \in TableNames /\ new \in Names
  BY NextNames
<1>3. new \in UsedNames(i + 1)
  <2>1. i + 1 \in Nat /\ i < i + 1
    BY <1>1
  <2> HIDE DEF i
  <2>2. QED
    BY <1>1, <2>1, UsedGrow
<1>4. new = Raw => i = 0
  BY NamesDiffer DEF Raw
<1>5. Append(<<>>, new) = <<new>> /\ <<new>> \in Seq(Names) /\ i + 1 \in Nat
  BY <1>1, <1>2
<1> HIDE DEF new
<1>6. w = [Work EXCEPT !.made = <<new>>, !.next = i + 1]
  BY <1>1, <1>5 DEF DefineTable, new
<1> HIDE DEF w, i
<1>7. /\ w \in WorkType /\ w.names = Work.names /\ w.views = Work.views
      /\ w.cols = Work.cols /\ w.made = <<new>> /\ w.next = i + 1
  BY <1>1, <1>5, <1>6 DEF WorkType
<1>8. QED
  BY <1>1, <1>2, <1>3, <1>4, <1>7 DEF w, new, i

(* ALTER TABLE ... RENAME, whose old name is not marked. *)
LEMMA AlterRenameStep ==
    ASSUME TypeOK, StateInv, pc = "fix", FixAlterRename
    PROVE  IInv'
<1> DEFINE i == idCounter
           new == TableName(i)
           w == DefineTable(Work)
           text == Unfixed(Text("rename", w.made, <<Raw>>, {}))
<1>1. Send(w, text)
  BY DEF FixAlterRename
<1>2. i \in Nat /\ Good(library, db, strayed, muddled, i)
  BY BeforeStmt
<1>3. i =< MaxId
  <2>1. w.next = i + 1
    BY WorkStart DEF DefineTable
  <2>2. w.next =< MaxId
    BY <1>1, Sent
  <2>3. QED
    BY <1>2, <2>1, <2>2, NameTypes
<1>4. /\ w \in WorkType
      /\ w.names = library.names /\ w.views = library.views
      /\ w.cols = library.cols /\ w.made = <<new>> /\ w.next = i + 1
      /\ new \in TableNames \cap UsedNames(i + 1)
      /\ new = Raw => i = 0
  BY <1>3, DefineFirst
<1>5. /\ text.kind = "rename" /\ text.new = <<new>> /\ text.old = <<Raw>>
      /\ text.cols = {} /\ text.raw = TRUE
  BY <1>4 DEF Text, Unfixed
<1>6. stmt' = text
  BY <1>1, Sent
<1>7. library.cols[new] = {}
  BY <1>3, NextNames
<1> HIDE DEF w, text, new
<1>8. Range(text.new) = {new} /\ Range(text.old) = {Raw} /\ Range(w.made) = {new}
  BY <1>4, <1>5, ShortRange
<1>9. \A n \in {new} : OldNameOf(n)' = Raw
  <2>1. ASSUME NEW n, n = new PROVE OldNameOf(n)' = Raw
    <3>1. stmt'.new = <<n>> /\ stmt'.old = <<Raw>>
      BY <1>5, <1>6, <2>1
    <3>2. QED
      BY <3>1, OldNames
  <2>2. QED
    BY <2>1
<1>10. text.new \in Seq(Names) /\ text.old \in Seq(Names) /\ new \in Names
  BY <1>4, <1>5, NameTypes
<1>11. \A n \in Range(text.old) : n # Raw \/ ~text.raw => n \notin Range(w.names)
  <2>1. text.raw
    BY <1>5
  <2>2. QED
    BY <1>8, <2>1
<1>12. text.raw \in BOOLEAN
  BY <1>5
<1>13. /\ idCounter < w.next /\ text.kind = "rename" /\ text.cols = {}
       /\ Range(w.made) = Range(text.new) /\ w.views = library.views
  BY <1>2, <1>4, <1>5, <1>8
<1>14. /\ Range(text.new) \subseteq TableNames \cap UsedNames(w.next)
       /\ Raw \in Range(text.new) => idCounter = 0
       /\ \A n \in Range(text.new) : OldNameOf(n)' \in Range(text.old)
  BY <1>4, <1>8, <1>9
<1>15. /\ Range(w.names) \subseteq Range(library.names)
       /\ Range(library.names) \ Range(text.old) \subseteq Range(w.names)
       /\ \A n \in Names \ Range(text.new) : w.cols[n] = library.cols[n]
  BY <1>4
<1>16. CanSucceed' =>
           \A n \in Range(text.new) \ Muddled' :
               w.cols[n] \subseteq db.cols[OldNameOf(n)']
  BY <1>4, <1>7, <1>8
<1>17. QED
  BY <1>1, <1>4, <1>10, <1>11, <1>12, <1>13, <1>14, <1>15, <1>16, RenameStep

(* RENAME TABLE of one table, or of two. *)
LEMMA RenameTableStep ==
    ASSUME TypeOK, StateInv, pc = "fix", FixRename
    PROVE  IInv'
<1> DEFINE i == idCounter
           a == TableName(i)
           b == TableName(i + 1)
           one == DefineTable(Work)
           two == DefineTable(one)
<1>1. i \in Nat /\ Good(library, db, strayed, muddled, i)
  BY BeforeStmt
<1>2. PICK x \in Known(library.names) :
        \/ Send(UndefineTable(one, x), Text("rename", one.made, <<x>>, {}))
        \/ \E y \in Known(UndefineTable(two, x).names) :
               Send(UndefineTable(UndefineTable(two, x), y),
                    Text("rename", UndefineTable(two, x).made, <<x, y>>, {}))
  BY DEF FixRename
<1>3. x \in Names /\ (library.names = <<>> => x = Raw)
  BY <1>1, GoodTypes, NameTypes DEF Known
<1>4. ASSUME i =< MaxId
      PROVE  /\ one \in WorkType
             /\ one.names = library.names /\ one.views = library.views
             /\ one.cols = library.cols /\ one.made = <<a>> /\ one.next = i + 1
             /\ a \in TableNames \cap UsedNames(i + 1)
             /\ a = Raw => i = 0
  BY <1>4, DefineFirst
<1> HIDE DEF one
<1>5. CASE Send(UndefineTable(one, x), Text("rename", one.made, <<x>>, {}))
  <2> DEFINE w == UndefineTable(one, x)
             text == Text("rename", one.made, <<x>>, {})
  <2>1. Send(w, text)
    BY <1>5
  <2>2. i =< MaxId
    <3>1. w.next = one.next /\ one.next = i + 1
      BY WorkStart DEF DefineTable, UndefineTable, one
    <3>2. w.next =< MaxId
      BY <2>1, Sent
    <3>3. QED
      BY <1>1, <3>1, <3>2, NameTypes
  <2>3. /\ one \in WorkType
        /\ one.names = library.names /\ one.views = library.views
        /\ one.cols = library.cols /\ one.made = <<a>> /\ one.next = i + 1
        /\ a \in TableNames \cap UsedNames(i + 1)
        /\ a = Raw => i = 0
    BY <1>4, <2>2
  <2>4. library.cols[a] = {}
    BY <2>2, NextNames
  <2> HIDE DEF a
  <2>5. /\ w \in WorkType /\ Range(w.names) = Range(library.names) \ {x}
        /\ w.views = library.views /\ w.made = <<a>> /\ w.next = i + 1
        /\ \/ w.cols = library.cols
           \/ w.cols = [library.cols EXCEPT ![a] = library.cols[x]]
    <3>1. Head(<<a>>) = a /\ <<a>> # <<>>
      BY ShortRange
    <3>2. QED
      BY <1>3, <2>3, <3>1, UndefineTableFacts
  <2>6. /\ text.kind = "rename" /\ text.new = <<a>> /\ text.old = <<x>>
        /\ text.cols = {} /\ text.raw = FALSE
    BY <2>3 DEF Text
  <2>7. stmt' = text
    BY <2>1, Sent
  <2> HIDE DEF w, text
  <2>8. Range(text.new) = {a} /\ Range(text.old) = {x} /\ Range(w.made) = {a}
    BY <2>5, <2>6, ShortRange
  <2>9. \A n \in {a} : OldNameOf(n)' = x
    <3>1. ASSUME NEW n, n = a PROVE OldNameOf(n)' = x
      <4>1. stmt'.new = <<n>> /\ stmt'.old = <<x>>
        BY <2>6, <2>7, <3>1
      <4>2. QED
        BY <4>1, OldNames
    <3>2. QED
      BY <3>1
  <2>10. text.new \in Seq(Names) /\ text.old \in Seq(Names) /\ a \in Names
    BY <1>3, <2>3, <2>6, NameTypes
  <2>11. /\ \A n \in Range(text.old) : n # Raw \/ ~text.raw => n \notin Range(w.names)
         /\ Range(w.names) \subseteq Range(library.names)
         /\ Range(library.names) \ Range(text.old) \subseteq Range(w.names)
         /\ \A n \in Names \ Range(text.new) : w.cols[n] = library.cols[n]
    BY <1>1, <2>5, <2>8, GoodTypes
  <2>12. text.raw \in BOOLEAN
    BY <2>6
  <2>13. /\ idCounter < w.next /\ text.kind = "rename" /\ text.cols = {}
         /\ Range(w.made) = Range(text.new) /\ w.views = library.views
    BY <1>1, <2>5, <2>6, <2>8
  <2>14. /\ Range(text.new) \subseteq TableNames \cap UsedNames(w.next)
         /\ Raw \in Range(text.new) => idCounter = 0
         /\ \A n \in Range(text.new) : OldNameOf(n)' \in Range(text.old)
    BY <2>3, <2>5, <2>8, <2>9
  <2>15. CanSucceed' =>
             \A n \in Range(text.new) \ Muddled' :
                 w.cols[n] \subseteq db.cols[OldNameOf(n)']
    <3>1. SUFFICES ASSUME CanSucceed', a \notin Muddled'
                   PROVE  w.cols[a] \subseteq db.cols[x]
      BY <2>8, <2>9
    <3>2. Olds' = {x} /\ Objects' = db.tables \cup db.views /\ muddled' = muddled
      BY <2>1, <2>7, <2>8, Sent DEF Olds, Objects
    <3>3. x \in (db.tables \cup db.views) \ muddled
      <4>1. x \in db.tables \cup db.views
        BY <2>6, <2>7, <3>1, <3>2 DEF CanSucceed
      <4>2. Head(stmt'.new) = a
        BY <2>6, <2>7, ShortRange
      <4>3. ASSUME NEW n \in Names, Head(stmt'.new) = n, x \in muddled
            PROVE  n \in Muddled'
        <5>1. Muddles(n)'
          BY <2>6, <2>7, <3>2, <4>3 DEF Muddles
        <5>2. QED
          BY <5>1 DEF Muddled
      <4>4. QED
        BY <2>10, <3>1, <4>1, <4>2, <4>3
    <3>4. library.cols[x] \subseteq db.cols[x]
      BY <1>1, <3>1, <3>3 DEF Good, ColumnsMatch
    <3>5. library.cols \in [Names -> SUBSET Columns]
      BY <1>1, GoodTypes
    <3>6. w.cols[a] = {} \/ w.cols[a] = library.cols[x]
      BY <2>4, <2>5, <2>10, <3>5
    <3>7. QED
      BY <3>4, <3>6
  <2>16. QED
    BY <2>1, <2>5, <2>10, <2>11, <2>12, <2>13, <2>14, <2>15, RenameStep
<1>6. CASE \E y \in Known(UndefineTable(two, x).names) :
               Send(UndefineTable(UndefineTable(two, x), y),
                    Text("rename", UndefineTable(two, x).made, <<x, y>>, {}))
  <2> DEFINE u == UndefineTable(two, x)
  <2>1. PICK y \in Known(u.names) :
               Send(UndefineTable(u, y), Text("rename", u.made, <<x, y>>, {}))
    BY <1>6
  <2> DEFINE w == UndefineTable(u, y)
             text == Text("rename", u.made, <<x, y>>, {})
  <2>2. i + 1 =< MaxId /\ i =< MaxId
    <3>1. w.next = u.next /\ u.next = two.next /\ two.next = one.next + 1 /\ one.next = i + 1
      <4>1. one.next = i + 1
        BY WorkStart DEF DefineTable, one
      <4>2. two.next = one.next + 1
        BY <4>1 DEF DefineTable, one, Work
      <4> HIDE DEF two
      <4>3. u.next = two.next
        BY <4>2 DEF UndefineTable
      <4> HIDE DEF u
      <4>4. w.next = u.next
        BY DEF UndefineTable
      <4>5. QED
        BY <4>1, <4>2, <4>3, <4>4
    <3>2. w.next =< MaxId
      BY <2>1, Sent
    <3>3. QED
      BY <1>1, <3>1, <3>2, NameTypes
  <2>3. /\ one \in WorkType
        /\ one.names = library.names /\ one.views = library.views
        /\ one.cols = library.cols /\ one.made = <<a>> /\ one.next = i + 1
        /\ a \in TableNames \cap UsedNames(i + 1)
        /\ a = Raw => i = 0
    BY <1>4, <2>2
  <2>4. b \in TableNames /\ b # Raw /\ a # b /\ a \in Names /\ b \in Names
    <3>1. i + 1 \in Ids /\ i + 1 # 0 /\ i + 1 # i
      BY <1>1, <2>2, NameTypes DEF Ids
    <3>2. QED
      BY <2>3, <3>1, NameTypes, NamesDiffer DEF Raw
  <2>4a. library.cols[b] = {}
    <3> DEFINE k == i + 1
    <3>1. k \in Nat /\ i =< k /\ k =< k
      BY <1>1
    <3>2. k =< MaxId
      BY <2>2
    <3> HIDE DEF i, k
    <3>3. TableName(k) \notin UsedNames(i)
      BY <1>1, <3>1, <3>2, UsedGrow
    <3>4. library.cols[TableName(k)] = {}
      BY <1>1, <2>4, <3>3 DEF Good, Fresh, k
    <3>5. QED
      BY <3>4 DEF k
  <2>5. a \in UsedNames(i + 2) /\ b \in UsedNames(i + 2)
    <3>1. /\ i + 1 \in Nat /\ i + 2 \in Nat
          /\ i + 1 < i + 2 /\ i < i + 2 /\ i =< i + 2
      BY <1>1
    <3> DEFINE j == i + 2
               k == i + 1
    <3> HIDE DEF i, j, k
    <3>2. j \in Nat /\ k \in Nat /\ i \in Nat /\ k < j /\ i < j /\ k =< j /\ i =< j
      BY <1>1, <3>1 DEF j, k
    <3>3. TableName(i) \in UsedNames(j) /\ TableName(k) \in UsedNames(j)
      BY <3>2, UsedGrow
    <3>4. QED
      BY <3>3 DEF j, k
  <2>6. two \in WorkType /\ two.names = library.names /\ two.views = library.views
        /\ two.cols = library.cols /\ two.made = <<a, b>> /\ two.next = i + 2
    <3>1. Append(<<a>>, b) = <<a, b>> /\ <<a, b>> \in Seq(Names) /\ (i + 1) + 1 = i + 2
          /\ i + 2 \in Nat
      <4>1. (i + 1) + 1 = i + 2 /\ i + 2 \in Nat
        BY <1>1
      <4> HIDE DEF a, b
      <4>2. Append(<<a>>, b) = <<a, b>>
        BY AppendShort
      <4>3. <<a, b>> \in Seq(Names)
        BY <2>4
      <4>4. QED
        BY <4>1, <4>2, <4>3
    <3>2. TableName(one.next) = b
      BY <2>3
    <3> HIDE DEF a, b
    <3>3. two = [one EXCEPT !.made = <<a, b>>, !.next = i + 2]
      BY <2>3, <3>1, <3>2 DEF DefineTable
    <3> HIDE DEF two
    <3>4. QED
      BY <2>3, <3>1, <3>3 DEF WorkType
  <2> HIDE DEF a, b, two
  <2>7. Range(<<a, b>>) = {a, b} /\ Head(<<a, b>>) = a /\ <<a, b>> # <<>>
    BY ShortRange
  <2>8. /\ u \in WorkType /\ Range(u.names) = Range(library.names) \ {x}
        /\ u.views = library.views /\ u.made = <<a, b>> /\ u.next = i + 2
        /\ \A n \in Names \ {a} : u.cols[n] = library.cols[n]
    <3>1. /\ u \in WorkType /\ Range(u.names) = Range(library.names) \ {x}
          /\ u.views = library.views /\ u.made = <<a, b>> /\ u.next = i + 2
          /\ \/ u.cols = library.cols
             \/ u.cols = [library.cols EXCEPT ![a] = library.cols[x]]
      BY <1>3, <2>6, <2>7, UndefineTableFacts
    <3>2. QED
      BY <1>1, <3>1, GoodTypes
  <2> HIDE DEF u
  <2>9. y \in Names
    <3>1. Range(u.names) \subseteq Names
      BY <1>1, <2>8, GoodTypes
    <3>2. QED
      BY <2>1, <3>1, NameTypes DEF Known
  <2>10. /\ w \in WorkType /\ Range(w.names) = Range(library.names) \ {x, y}
         /\ w.views = library.views /\ w.made = <<a, b>> /\ w.next = i + 2
         /\ \A n \in Names \ {a} : w.cols[n] = library.cols[n]
    <3>1. /\ w \in WorkType /\ Range(w.names) = Range(u.names) \ {y}
          /\ w.views = u.views /\ w.made = u.made /\ w.next = u.next
          /\ \/ w.cols = u.cols
             \/ w.cols = [u.cols EXCEPT ![a] = u.cols[y]]
      BY <2>7, <2>8, <2>9, UndefineTableFacts
    <3>2. u.cols \in [Names -> SUBSET Columns]
      BY <2>8 DEF WorkType
    <3>3. \A n \in Names \ {a} : w.cols[n] = u.cols[n]
      BY <3>1, <3>2
    <3>4. QED
      BY <2>8, <3>1, <3>3
  <2>11. /\ text.kind = "rename" /\ text.new = <<a, b>> /\ text.old = <<x, y>>
         /\ text.cols = {} /\ text.raw = FALSE
    BY <2>8 DEF Text
  <2>12. Send(w, text)
    BY <2>1
  <2>13. stmt' = text
    BY <2>12, Sent
  <2> HIDE DEF w, text
  <2>14. /\ Range(text.new) = {a, b} /\ Range(text.old) = {x, y}
         /\ Range(w.made) = {a, b} /\ Len(text.new) = 2
    <3>1. Range(text.new) = {a, b} /\ Range(text.old) = {x, y} /\ Range(w.made) = {a, b}
      BY <2>10, <2>11, ShortRange
    <3>2. Len(<<a, b>>) = 2
      OBVIOUS
    <3>3. QED
      BY <2>11, <3>1, <3>2
  <2>15. \A n \in {a, b} : OldNameOf(n)' \in {x, y}
    <3>1. ASSUME NEW n, NEW o, n = a, o = b
          PROVE  OldNameOf(n)' = x /\ OldNameOf(o)' = y
      <4>1. stmt'.new = <<n, o>> /\ stmt'.old = <<x, y>> /\ n # o
        BY <2>4, <2>11, <2>13, <3>1
      <4>2. QED
        BY <4>1, OldNames
    <3>2. QED
      BY <3>1
  <2>16. text.new \in Seq(Names) /\ text.old \in Seq(Names)
    BY <1>3, <2>4, <2>9, <2>11
  <2>17. /\ \A n \in Range(text.old) : n # Raw \/ ~text.raw => n \notin Range(w.names)
         /\ Range(w.names) \subseteq Range(library.names)
         /\ Range(library.names) \ Range(text.old) \subseteq Range(w.names)
         /\ \A n \in Names \ Range(text.new) : w.cols[n] = library.cols[n]
    BY <2>10, <2>14
  <2>18. text.raw \in BOOLEAN
    BY <2>11
  <2>19. /\ idCounter < w.next /\ text.kind = "rename" /\ text.cols = {}
         /\ Range(w.made) = Range(text.new) /\ w.views = library.views
    BY <1>1, <2>10, <2>11, <2>14
  <2>20. /\ Range(text.new) \subseteq TableNames \cap UsedNames(w.next)
         /\ Raw \in Range(text.new) => idCounter = 0
         /\ \A n \in Range(text.new) : OldNameOf(n)' \in Range(text.old)
    BY <2>3, <2>4, <2>5, <2>10, <2>14, <2>15
  <2>21. CanSucceed' =>
             \A n \in Range(text.new) \ Muddled' :
                 w.cols[n] \subseteq db.cols[OldNameOf(n)']
    <3>1. ASSUME NEW n \in Names, n = a
          PROVE  n \in Muddled'
      <4>1. Head(stmt'.new) = n /\ Len(stmt'.new) = 2 /\ stmt'.kind = "rename"
        BY <2>7, <2>11, <2>13, <2>14, <3>1
      <4>2. Muddles(n)'
        BY <4>1 DEF Muddles
      <4>3. QED
        BY <4>2 DEF Muddled
    <3>2. w.cols[b] = {}
      BY <2>4, <2>4a, <2>10
    <3>3. QED
      BY <2>4, <2>14, <3>1, <3>2
  <2>22. QED
    BY <2>10, <2>12, <2>16, <2>17, <2>18, <2>19, <2>20, <2>21, RenameStep
<1>7. QED
  BY <1>2, <1>5, <1>6

-----------------------------------------------------------------------------
(* Statements that name v0 whatever the library says.                      *)

(* ALTER TABLE ... ADD COLUMN. *)
LEMMA AddColumnStep ==
    ASSUME TypeOK, StateInv, pc = "fix", FixAddColumn
    PROVE  IInv'
<1> DEFINE i == idCounter
           w0 == [Work EXCEPT !.next = @ + 1]
           text == Unfixed(Text("add_column", <<>>, <<Raw>>, {i}))
<1>1. i \in Nat /\ Good(library, db, strayed, muddled, i)
  BY BeforeStmt
<1>2. /\ w0 \in WorkType /\ w0.names = library.names /\ w0.views = library.views
      /\ w0.cols = library.cols /\ w0.made = <<>> /\ w0.next = i + 1
  BY <1>1, WorkStart DEF WorkType
<1>3. PICK w : /\ Send(w, text)
               /\ \/ w = w0
                  \/ \E t \in Range(library.names) : w = Attach(w0, t, {i})
  BY DEF FixAddColumn
<1> HIDE DEF w0
<1>4. /\ text.kind = "add_column" /\ text.new = <<>> /\ text.old = <<Raw>>
      /\ text.cols = {i} /\ text.raw = TRUE
  BY DEF Text, Unfixed
<1> HIDE DEF text
<1>5. w.next = i + 1 /\ w.made = <<>> /\ w.names = library.names /\ w.views = library.views
  <2>1. CASE w = w0
    BY <1>2, <2>1
  <2>2. CASE \E t \in Range(library.names) : w = Attach(w0, t, {i})
    BY <1>2, <2>2 DEF Attach, WorkType
  <2>3. QED
    BY <1>3, <2>1, <2>2
<1>6. /\ library' = Stored(w) /\ backup' = library /\ idCounter' = w.next
      /\ stmt' = text /\ w.next =< MaxId
      /\ db' = db /\ strayed' = strayed /\ muddled' = muddled
  BY <1>3, Sent
<1>7. i \in Columns /\ i + 1 \in Nat /\ i < i + 1
  BY <1>1, <1>5, <1>6, NameTypes DEF Columns, Ids
<1>8. /\ w.cols \in [Names -> SUBSET Columns]
      /\ \A n \in Names \ Range(library.names) : w.cols[n] = library.cols[n]
      /\ \A n \in Names : w.cols[n] \subseteq library.cols[n] \cup {i}
  <2>1. library.cols \in [Names -> SUBSET Columns] /\ Range(library.names) \subseteq Names
    BY <1>1, GoodTypes
  <2>2. CASE w = w0
    BY <1>2, <2>1, <2>2
  <2>3. CASE \E t \in Range(library.names) : w = Attach(w0, t, {i})
    <3>1. PICK t \in Range(library.names) : w = Attach(w0, t, {i})
      BY <2>3
    <3>2. w.cols = [library.cols EXCEPT ![t] = @ \cup {i}]
      BY <1>2, <3>1 DEF Attach
    <3>3. QED
      BY <1>7, <2>1, <3>2
  <2>4. QED
    BY <1>3, <2>2, <2>3
<1>9. /\ Stored(w) \in LibraryType /\ Range(Stored(w).names) = Range(library.names)
      /\ Stored(w).views = library.views /\ Stored(w).cols = w.cols
  <2>1. /\ library.names \in Seq(Names) /\ library.views \in Seq(ViewNames \cup {Blank})
        /\ <<>> \in Seq(Names)
    BY <1>1, GoodTypes
  <2>2. QED
    BY <1>5, <1>8, <2>1, ShortRange, StoredType
<1>10. ASSUME CanSucceed' PROVE AfterStmt'
  <2> DEFINE d == [db EXCEPT !.cols = [db.cols EXCEPT ![Raw] = @ \cup {i}]]
             m2 == Muddled'
             j == w.next
             lib == Stored(w)
  <2>1. NewDb' = d
    <3>1. NewDb' = AddedDb'
      BY <1>4, <1>6 DEF NewDb, Creates
    <3>2. QED
      BY <1>4, <1>6, <3>1 DEF AddedDb
  <2>2. db \in DbType /\ db.cols \in [Names -> SUBSET Columns] /\ Raw \in Names
    BY <1>1, GoodTypes, NameTypes DEF Good
  <2>3. /\ d \in DbType /\ d.tables = db.tables /\ d.views = db.views
        /\ \A n \in Names : db.cols[n] \subseteq d.cols[n]
        /\ i \in d.cols[Raw]
    <3> DEFINE cols == [db.cols EXCEPT ![Raw] = @ \cup {i}]
    <3>1. /\ cols \in [Names -> SUBSET Columns] /\ i \in cols[Raw]
          /\ \A n \in Names : db.cols[n] \subseteq cols[n]
      BY <1>7, <2>2
    <3>2. d = [db EXCEPT !.cols = cols]
      OBVIOUS
    <3> HIDE DEF cols, d
    <3>3. QED
      BY <2>2, <3>1, <3>2 DEF DbType
  <2> HIDE DEF d, lib
  <2>4. Fresh(lib, j)
    <3>1. Range(library.names) \subseteq UsedNames(i)
      BY <1>1 DEF Good, Fresh
    <3>2. UsedNames(i) \subseteq UsedNames(j)
      <4>1. j \in Nat /\ i =< j
        BY <1>1, <1>5, <1>7
      <4> HIDE DEF i, j
      <4>2. QED
        BY <1>1, <4>1, UsedGrow
    <3>3. QED
      BY <1>1, <1>8, <1>9, <3>1, <3>2 DEF Good, Fresh, lib
  <2>5. ViewsAreNamed(d, j)
    BY <1>1, <1>5, <2>3 DEF Good, ViewsAreNamed
  <2>6. NamesMatch(lib, d, TRUE)
    BY <1>1, <1>9, <2>3 DEF Good, NamesMatch, lib
  <2>7. ColumnsMatch(lib, d, m2)
    <3>1. SUFFICES ASSUME NEW n \in (db.tables \cup db.views) \ m2
                   PROVE  lib.cols[n] \subseteq d.cols[n]
      BY <2>3 DEF ColumnsMatch
    <3>2. n \in Names /\ n \notin muddled /\ ~Muddles(n)'
      BY <1>1, <1>6, GoodTypes, NameTypes DEF Muddled
    <3>3. library.cols[n] \subseteq db.cols[n]
      BY <1>1, <3>2 DEF Good, ColumnsMatch
    <3>4. CASE n = Raw
      BY <1>8, <1>9, <2>3, <3>2, <3>3, <3>4 DEF lib
    <3>5. CASE n # Raw
      <4>1. Olds' = {Raw}
        BY <1>4, <1>6, ShortRange DEF Olds
      <4>2. lib.cols[n] = library.cols[n]
        BY <1>4, <1>6, <3>2, <3>5, <4>1 DEF Muddles, lib
      <4>3. QED
        BY <2>3, <3>2, <3>3, <4>2
    <3>6. QED
      BY <3>4, <3>5
  <2>8. (strayed \/ stmt'.raw) = TRUE
    BY <1>4, <1>6
  <2> HIDE DEF m2, j
  <2>9. Good(lib, d, TRUE, m2, j)
    BY <1>9, <2>3, <2>4, <2>5, <2>6, <2>7 DEF Good, lib
  <2>10. QED
    BY <1>6, <2>1, <2>8, <2>9 DEF AfterStmt, lib, m2, j
<1>11. /\ text.new \in Seq(Names) /\ text.old \in Seq(Names) /\ text.cols \subseteq Columns
       /\ w.next \in Nat /\ idCounter =< w.next
  <2>1. w.next \in Nat /\ idCounter =< w.next
    BY <1>1, <1>5, <1>7
  <2>2. QED
    BY <1>4, <1>7, <2>1, NameTypes
<1>12. QED
  BY <1>3, <1>9, <1>10, <1>11, SendStep

(* A query with a listed column changes the library, not the database. *)
LEMMA ListedQueryStep ==
    ASSUME TypeOK, StateInv, pc = "fix", FixListedQuery
    PROVE  IInv'
<1> DEFINE i == idCounter
           w0 == [Work EXCEPT !.next = @ + 1]
           text == Text("query", <<>>, <<>>, {i})
<1>1. i \in Nat /\ Good(library, db, strayed, muddled, i)
  BY BeforeStmt
<1>2. /\ w0 \in WorkType /\ w0.names = library.names /\ w0.views = library.views
      /\ w0.cols = library.cols /\ w0.made = <<>> /\ w0.next = i + 1
  BY <1>1, WorkStart DEF WorkType
<1>3. PICK w : /\ Send(w, text)
               /\ \E t \in Range(library.names) : w = Attach(w0, t, {i})
  BY DEF FixListedQuery
<1> HIDE DEF w0
<1>4. /\ text.kind = "query" /\ text.new = <<>> /\ text.old = <<>>
      /\ text.cols = {i} /\ text.raw = FALSE
  BY DEF Text
<1> HIDE DEF text
<1>5. w.next = i + 1 /\ w.made = <<>> /\ w.names = library.names /\ w.views = library.views
  BY <1>2, <1>3 DEF Attach, WorkType
<1>6. /\ library' = Stored(w) /\ backup' = library /\ idCounter' = w.next
      /\ stmt' = text /\ w.next =< MaxId
      /\ db' = db /\ strayed' = strayed /\ muddled' = muddled
  BY <1>3, Sent
<1>7. i \in Columns /\ i + 1 \in Nat /\ i < i + 1
  BY <1>1, <1>5, <1>6, NameTypes DEF Columns, Ids
<1>8. /\ w.cols \in [Names -> SUBSET Columns]
      /\ \A n \in Names \ Range(library.names) : w.cols[n] = library.cols[n]
  <2>1. library.cols \in [Names -> SUBSET Columns] /\ Range(library.names) \subseteq Names
    BY <1>1, GoodTypes
  <2>2. PICK t \in Range(library.names) : w = Attach(w0, t, {i})
    BY <1>3
  <2>3. w.cols = [library.cols EXCEPT ![t] = @ \cup {i}]
    BY <1>2, <2>2 DEF Attach
  <2>4. QED
    BY <1>7, <2>1, <2>3
<1>9. /\ Stored(w) \in LibraryType /\ Range(Stored(w).names) = Range(library.names)
      /\ Stored(w).views = library.views /\ Stored(w).cols = w.cols
  <2>1. /\ library.names \in Seq(Names) /\ library.views \in Seq(ViewNames \cup {Blank})
        /\ <<>> \in Seq(Names)
    BY <1>1, GoodTypes
  <2>2. QED
    BY <1>5, <1>8, <2>1, ShortRange, StoredType
<1>10. ASSUME CanSucceed' PROVE AfterStmt'
  <2> DEFINE m2 == Muddled'
             j == w.next
             lib == Stored(w)
  <2>1. db \in DbType /\ db.cols \in [Names -> SUBSET Columns]
    BY <1>1, GoodTypes DEF Good
  <2>2. Olds' = {}
    BY <1>4, <1>6, ShortRange DEF Olds
  <2>3. NewDb' = db
    <3>1. NewDb' = Dropped'
      BY <1>4, <1>6 DEF NewDb, Creates
    <3>2. Dropped' = [tables |-> db.tables, views |-> db.views,
                      cols |-> [n \in Names |-> db.cols[n]]]
      BY <1>4, <1>6, <2>2 DEF Dropped
    <3>3. [n \in Names |-> db.cols[n]] = db.cols
      BY <2>1
    <3>4. QED
      BY <2>1, <3>1, <3>2, <3>3 DEF DbType
  <2> HIDE DEF lib
  <2>4. Fresh(lib, j)
    <3>1. Range(library.names) \subseteq UsedNames(i)
      BY <1>1 DEF Good, Fresh
    <3>2. UsedNames(i) \subseteq UsedNames(j)
      <4>1. j \in Nat /\ i =< j
        BY <1>1, <1>5, <1>7
      <4> HIDE DEF i, j
      <4>2. QED
        BY <1>1, <4>1, UsedGrow
    <3>3. QED
      BY <1>1, <1>8, <1>9, <3>1, <3>2 DEF Good, Fresh, lib
  <2>5. ViewsAreNamed(db, j)
    BY <1>1, <1>5 DEF Good, ViewsAreNamed
  <2>6. NamesMatch(lib, db, strayed)
    BY <1>1, <1>9 DEF Good, NamesMatch, lib
  <2>7. ColumnsMatch(lib, db, m2)
    <3>1. SUFFICES ASSUME NEW n \in (db.tables \cup db.views) \ m2
                   PROVE  lib.cols[n] \subseteq db.cols[n]
      BY DEF ColumnsMatch
    <3>2. n \in Names /\ n \notin muddled /\ ~Muddles(n)'
      BY <1>1, <1>6, GoodTypes, NameTypes DEF Muddled
    <3>3. library.cols[n] \subseteq db.cols[n]
      BY <1>1, <3>2 DEF Good, ColumnsMatch
    <3>4. lib.cols[n] = library.cols[n]
      BY <1>4, <1>6, <2>2, <3>2 DEF Muddles, lib
    <3>5. QED
      BY <3>3, <3>4
  <2>8. (strayed \/ stmt'.raw) = strayed
    <3>1. strayed \in BOOLEAN
      BY DEF TypeOK
    <3>2. QED
      BY <1>4, <1>6, <3>1
  <2> HIDE DEF m2, j
  <2>9. Good(lib, db, strayed, m2, j)
    BY <1>1, <1>9, <2>1, <2>4, <2>5, <2>6, <2>7 DEF Good, lib
  <2>10. QED
    BY <1>6, <2>3, <2>8, <2>9 DEF AfterStmt, lib, m2, j
<1>11. /\ text.new \in Seq(Names) /\ text.old \in Seq(Names) /\ text.cols \subseteq Columns
       /\ w.next \in Nat /\ idCounter =< w.next
  <2>1. w.next \in Nat /\ idCounter =< w.next
    BY <1>1, <1>5, <1>7
  <2>2. QED
    BY <1>4, <1>7, <2>1, NameTypes
<1>12. QED
  BY <1>3, <1>9, <1>10, <1>11, SendStep

(* CREATE TABLE that fix_one_stmt gives up on. *)
LEMMA GiveUpStep ==
    ASSUME TypeOK, StateInv, pc = "fix", GiveUp
    PROVE  IInv'
<1> DEFINE i == idCounter
           text == Unfixed(Text("create", <<Raw>>, <<>>, {}))
           lib == Stored(Work)
<1>1. i \in Nat /\ Good(library, db, strayed, muddled, i)
  BY BeforeStmt
<1>2. /\ Work \in WorkType /\ Work.names = library.names /\ Work.views = library.views
      /\ Work.cols = library.cols /\ Work.made = <<>> /\ Work.next = i
  BY WorkStart
<1>3. Send(Work, text)
  BY DEF GiveUp
<1>4. /\ text.kind = "create" /\ text.new = <<Raw>> /\ text.old = <<>>
      /\ text.cols = {} /\ text.raw = TRUE
  BY DEF Text, Unfixed
<1> HIDE DEF text
<1>5. /\ library' = lib /\ idCounter' = i /\ stmt' = text
      /\ db' = db /\ strayed' = strayed /\ muddled' = muddled
  BY <1>2, <1>3, Sent
<1>6. /\ lib \in LibraryType /\ Range(lib.names) = Range(library.names)
      /\ lib.views = library.views /\ lib.cols = library.cols
  <2>1. /\ Work.names \in Seq(Names) /\ Work.views \in Seq(ViewNames \cup {Blank})
        /\ Work.cols \in [Names -> SUBSET Columns] /\ Work.made \in Seq(Names)
    BY <1>2 DEF WorkType
  <2>2. Range(Work.made) = {}
    BY <1>2, ShortRange
  <2>3. QED
    BY <1>2, <2>1, <2>2, StoredType
<1> HIDE DEF lib
<1>7. AfterStmt'
  <2> DEFINE d == [tables |-> db.tables \cup {Raw}, views |-> db.views,
                   cols |-> [n \in Names |-> IF n = Raw THEN {} ELSE db.cols[n]]]
  <2>1. NewDb' = d
    <3>1. News' = {Raw}
      BY <1>4, <1>5, ShortRange DEF News
    <3>2. CreatedColumns' = {}
      BY <1>4, <1>5 DEF CreatedColumns
    <3>3. NewDb' = Created'
      BY <1>4, <1>5 DEF NewDb, Creates
    <3>4. QED
      BY <1>4, <1>5, <3>1, <3>2, <3>3 DEF Created
  <2>2. d \in DbType
    BY <1>1, GoodTypes, NameTypes DEF DbType
  <2>3. /\ d.tables = db.tables \cup {Raw} /\ d.views = db.views
        /\ \A n \in Names \ {Raw} : d.cols[n] = db.cols[n]
    OBVIOUS
  <2> HIDE DEF d
  <2>4. Fresh(lib, i)
    BY <1>1, <1>6 DEF Good, Fresh
  <2>5. ViewsAreNamed(d, i)
    BY <1>1, <2>3 DEF Good, ViewsAreNamed
  <2>6. NamesMatch(lib, d, TRUE)
    BY <1>1, <1>6, <2>3 DEF Good, NamesMatch
  <2> DEFINE m2 == Muddled'
  <2>7. ColumnsMatch(lib, d, m2)
    <3>1. Raw \in m2 /\ muddled \subseteq m2
      <4>1. News' = {Raw}
        BY <1>4, <1>5, ShortRange DEF News
      <4>2. Muddles(Raw)'
        BY <1>4, <1>5, <4>1 DEF Muddles
      <4>3. QED
        BY <1>5, <4>2, NameTypes DEF Muddled
    <3> HIDE DEF m2
    <3>2. \A n \in (d.tables \cup d.views) \ m2 :
              n \in (db.tables \cup db.views) \ muddled /\ n \in Names \ {Raw}
      BY <1>1, <2>3, <3>1, GoodTypes, NameTypes
    <3>3. QED
      BY <1>1, <1>6, <2>3, <3>2 DEF Good, ColumnsMatch
  <2>8. (strayed \/ stmt'.raw) = TRUE
    BY <1>4, <1>5
  <2> HIDE DEF i, m2
  <2>9. Good(lib, d, TRUE, m2, i)
    BY <1>6, <2>2, <2>4, <2>5, <2>6, <2>7 DEF Good
  <2>10. QED
    BY <1>5, <2>1, <2>8, <2>9 DEF AfterStmt, i, m2
<1>8. /\ text.new \in Seq(Names) /\ text.old \in Seq(Names) /\ text.cols \subseteq Columns
      /\ Work.next \in Nat /\ idCounter =< Work.next /\ Stored(Work) \in LibraryType
  BY <1>1, <1>2, <1>4, <1>6, NameTypes DEF lib
<1>9. QED
  BY <1>3, <1>7, <1>8, SendStep

-----------------------------------------------------------------------------
(* The invariant.                                                          *)

(* The library of a new input fits the database of a new input. *)
LEMMA StartGood == Good(StartLibrary, StartDb, FALSE, {}, 0)
<1>1. Default \in Names /\ Default \in TableNames /\ Default # Raw
  BY NameTypes, NamesDiffer
<1>2. DefaultColumns \in [Names -> SUBSET Columns]
  BY DEF DefaultColumns, Columns
<1>3. StartLibrary \in LibraryType
  BY <1>1, <1>2 DEF StartLibrary, LibraryType
<1>4. StartDb \in DbType
  BY <1>1, <1>2 DEF StartDb, DbType
<1>5. /\ Range(StartLibrary.names) = {Default} /\ StartLibrary.cols = DefaultColumns
      /\ StartDb.tables = {Default} /\ StartDb.views = {}
      /\ StartDb.cols = DefaultColumns
  BY ShortRange DEF StartLibrary, StartDb
<1>6. Fresh(StartLibrary, 0)
  BY <1>5 DEF Fresh, UsedNames, DefaultColumns
<1>7. ViewsAreNamed(StartDb, 0)
  BY <1>5 DEF ViewsAreNamed
<1>8. NamesMatch(StartLibrary, StartDb, FALSE)
  BY <1>5 DEF NamesMatch
<1>9. ColumnsMatch(StartLibrary, StartDb, {})
  BY <1>5 DEF ColumnsMatch
<1>10. QED
  BY <1>3, <1>4, <1>6, <1>7, <1>8, <1>9 DEF Good

(* The statement record between two statements. *)
LEMMA NoStmtType ==
    NoStmt.new \in Seq(Names) /\ NoStmt.old \in Seq(Names) /\ NoStmt.cols \subseteq Columns
BY DEF NoStmt, Text

(* The first state. *)
LEMMA InitIInv == Init => IInv
<1>1. SUFFICES ASSUME Init PROVE IInv
  OBVIOUS
<1>2. StateInv
  BY <1>1, StartGood DEF Init, StateInv
<1>3. StartLibrary \in LibraryType /\ StartDb \in DbType
  BY StartGood DEF Good
<1>4. TypeOK
  <2>1. strayed \in BOOLEAN /\ muddled \subseteq Names
    BY <1>1 DEF Init
  <2>2. 0 \in 0..MaxId
    BY NameTypes
  <2>3. /\ pc = "fix" /\ library = StartLibrary /\ backup = StartLibrary
        /\ idCounter = 0 /\ stmt = NoStmt /\ db = StartDb
    BY <1>1 DEF Init
  <2>4. QED
    BY <1>3, <2>1, <2>2, <2>3, NoStmtType DEF TypeOK, DbType
<1>5. QED
  BY <1>2, <1>4 DEF IInv

(* A statement is fixed and sent. *)
LEMMA ValidateStep ==
    ASSUME IInv, Validate
    PROVE  IInv'
<1>1. TypeOK /\ StateInv /\ pc = "fix"
  BY DEF IInv, Validate
<1>2. CASE FixCreateTable
  BY <1>1, <1>2, CreateTableStep
<1>3. CASE FixCreateLike
  BY <1>1, <1>3, CreateLikeStep
<1>4. CASE FixCreateAs
  BY <1>1, <1>4, CreateAsStep
<1>5. CASE FixCreateView
  BY <1>1, <1>5, CreateViewStep
<1>6. CASE FixDropTable
  BY <1>1, <1>6, DropTableStep
<1>7. CASE FixDropView
  BY <1>1, <1>7, DropViewStep
<1>8. CASE FixRename
  BY <1>1, <1>8, RenameTableStep
<1>9. CASE FixAddColumn
  BY <1>1, <1>9, AddColumnStep
<1>10. CASE FixAlterRename
  BY <1>1, <1>10, AlterRenameStep
<1>11. CASE GiveUp
  BY <1>1, <1>11, GiveUpStep
<1>12. CASE FixListedQuery
  BY <1>1, <1>12, ListedQueryStep
<1>13. QED
  BY <1>2, <1>3, <1>4, <1>5, <1>6, <1>7, <1>8, <1>9, <1>10, <1>11, <1>12
  DEF Validate

(* The statement takes effect: the library was changed for that. *)
LEMMA SucceedStep ==
    ASSUME IInv, Succeed
    PROVE  IInv'
<1>1. /\ pc = "run" /\ pc' = "fix" /\ db' = NewDb
      /\ strayed' = (strayed \/ stmt.raw) /\ muddled' = Muddled
      /\ library' = library /\ idCounter' = idCounter
      /\ backup' = StartLibrary /\ stmt' = NoStmt
  BY DEF Succeed
<1>2. AfterStmt
  BY <1>1 DEF IInv, StateInv, Succeed
<1>3. Good(library, NewDb, strayed \/ stmt.raw, Muddled, idCounter)
  BY <1>2 DEF AfterStmt
<1>4. Good(library, db, strayed, muddled, idCounter)'
  BY <1>1, <1>3
<1>5. StateInv'
  BY <1>1, <1>4 DEF StateInv
<1>6. NewDb \in DbType /\ StartLibrary \in LibraryType
  BY <1>3, StartGood DEF Good
<1>7. /\ strayed' \in BOOLEAN /\ muddled' \subseteq Names
  BY <1>1 DEF Succeed, IInv, TypeOK, Muddled
<1>8. TypeOK'
  BY <1>1, <1>6, <1>7, NoStmtType DEF IInv, TypeOK, DbType
<1>9. QED
  BY <1>5, <1>8 DEF IInv

(* The statement has an error: the library is rolled back. *)
LEMMA FailStep ==
    ASSUME IInv, Fail
    PROVE  IInv'
<1>1. /\ pc = "run" /\ pc' = "fix" /\ library' = backup /\ backup' = StartLibrary
      /\ stmt' = NoStmt /\ idCounter' = idCounter
      /\ db' = db /\ strayed' = strayed /\ muddled' = muddled
  BY DEF Fail, Rollback
<1>2. Good(backup, db, strayed, muddled, idCounter)
  BY <1>1 DEF IInv, StateInv
<1>3. StateInv'
  BY <1>1, <1>2 DEF StateInv
<1>4. StartLibrary \in LibraryType
  BY StartGood DEF Good
<1>5. TypeOK'
  BY <1>1, <1>4, NoStmtType DEF IInv, TypeOK
<1>6. QED
  BY <1>3, <1>5 DEF IInv

(* The next input starts afresh. *)
LEMMA PreValidateStep ==
    ASSUME IInv, PreValidate
    PROVE  IInv'
<1>1. /\ pc = "fix" /\ pc' = pc /\ library' = StartLibrary /\ idCounter' = 0
      /\ db' = StartDb /\ strayed' = FALSE /\ muddled' = {}
      /\ backup' = backup /\ stmt' = stmt
  BY DEF PreValidate
<1>2. StateInv'
  BY <1>1, StartGood DEF StateInv
<1>3. StartLibrary \in LibraryType /\ StartDb \in DbType
  BY StartGood DEF Good
<1>4. TypeOK'
  <2>1. strayed' \in BOOLEAN /\ muddled' \subseteq Names
    BY <1>1
  <2>2. 0 \in 0..MaxId
    BY NameTypes
  <2>3. TypeOK
    BY DEF IInv
  <2>4. /\ pc' = pc /\ library' = StartLibrary /\ backup' = backup
        /\ idCounter' = 0 /\ stmt' = stmt /\ db' = StartDb
    BY <1>1
  <2>5. QED
    BY <1>3, <2>1, <2>2, <2>3, <2>4 DEF TypeOK, DbType
<1>5. QED
  BY <1>2, <1>4 DEF IInv

(* Every step keeps the invariant. *)
LEMMA NextIInv == IInv /\ [Next]_vars => IInv'
<1>1. SUFFICES ASSUME IInv, [Next]_vars PROVE IInv'
  OBVIOUS
<1>2. CASE Validate
  BY <1>1, <1>2, ValidateStep
<1>3. CASE Succeed
  BY <1>1, <1>3, SucceedStep
<1>4. CASE Fail
  BY <1>1, <1>4, FailStep
<1>5. CASE PreValidate
  BY <1>1, <1>5, PreValidateStep
<1>6. CASE UNCHANGED vars
  <2>1. /\ pc' = pc /\ library' = library /\ backup' = backup
        /\ idCounter' = idCounter /\ stmt' = stmt /\ db' = db
        /\ strayed' = strayed /\ muddled' = muddled
    BY <1>6 DEF vars
  <2>2. TypeOK'
    BY <1>1, <2>1 DEF IInv, TypeOK
  <2>3. StateInv'
    <3>1. CanSucceed' = CanSucceed
      BY <2>1 DEF CanSucceed, News, Olds, Objects
    <3>2. NewDb' = NewDb /\ Muddled' = Muddled
      BY <2>1 DEF NewDb, Created, RenamedDb, AddedDb, Dropped, Renamed, OldNameOf,
                  CreatedColumns, Creates, News, Olds, Muddled, Muddles, Hides
    <3>3. AfterStmt' <=> AfterStmt
      BY <2>1, <3>2 DEF AfterStmt
    <3>4. QED
      BY <1>1, <2>1, <3>1, <3>3 DEF IInv, StateInv
  <2>4. QED
    BY <2>2, <2>3 DEF IInv
<1>7. QED
  BY <1>1, <1>2, <1>3, <1>4, <1>5, <1>6 DEF Next

(* In every reachable state the saved library fits the database as it is    *)
(* and the library fits it as it will be, whichever way the statement ends: *)
(* fuzz_one may keep the library or roll it back.                           *)
THEOREM Invariance == Spec => []IInv
<1>1. Init => IInv
  BY InitIInv
<1>2. IInv /\ [Next]_vars => IInv'
  BY NextIInv
<1>3. QED
  BY <1>1, <1>2, PTL DEF Spec

(* The variables keep their types: no pass leaves anything in the library   *)
(* but names that the mutator gave, and no statement anything else in the   *)
(* database.                                                                *)
THEOREM TypeCorrect == Spec => []TypeOK
<1>1. IInv => TypeOK
  BY DEF IInv
<1>2. QED
  BY <1>1, Invariance, PTL

(* Between two statements the library names the tables and views that the   *)
(* database has, but for names that a raw v0 hit.                           *)
THEOREM LibraryFits == Spec => []LibraryMatches
<1>1. IInv => LibraryMatches
  BY DEF IInv, StateInv, Good, NamesMatch, LibraryMatches, Chosen
<1>2. QED
  BY <1>1, Invariance, PTL

(* A table or view has the columns that the library puts down to it, but    *)
(* for the names to which a statement that took effect has put down others. *)
THEOREM ColumnsBelong == Spec => []ColumnsAreOwn
<1>1. IInv => ColumnsAreOwn
  BY DEF IInv, StateInv, Good, ColumnsMatch, ColumnsAreOwn
<1>2. QED
  BY <1>1, Invariance, PTL
=============================================================================
