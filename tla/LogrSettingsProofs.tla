-------------------------- MODULE LogrSettingsProofs --------------------------
(***************************************************************************)
(* Theorems about LogrSettings, for any keys, files, threads and calls,    *)
(* any size of the logger table, and with or without a queue.              *)
(*                                                                         *)
(* That the last call wins depends on the queue being in the order of the  *)
(* calls; that a file is applied as a whole on every setting of it being   *)
(* either there already or on its way, in the queue or in the hands of the *)
(* process that read the file; and that on a new file being read only when *)
(* nothing of the last one is on its way: IInv says so.                    *)
(***************************************************************************)
EXTENDS LogrSettings, FiniteSetTheorems, SequenceTheorems, WellFoundedInduction, TLAPS

Names == DOMAIN Default
Ids == 0 .. MaxLogrgers - 1

\* What a set function may be called with.
Fits(name, value) ==
  /\ name \in {"enable", "outfile"} => value \in BOOLEAN
  /\ name = "path" => value \in Paths
  /\ name \in {"level", "limitsize"} => value \in Nat

Calls == [id : Ids, name : Names, value : BOOLEAN \cup Paths \cup Nat]
Call(s) == s \in Calls /\ s.id <= lastId /\ Fits(s.name, s.value)

\* The parts of the state: the known keys and their numbers,
Numbers ==
  /\ lastId \in 0 .. MaxLogrgers - 1
  /\ ids \in [DOMAIN ids -> Ids] /\ DOMAIN ids \subseteq Keys
  /\ {ids[k] : k \in DOMAIN ids} = 0 .. lastId
  /\ Cardinality(DOMAIN ids) = lastId + 1
  /\ \A k, l \in DOMAIN ids : ids[k] = ids[l] => k = l

\* the settings and the queue,
Tables ==
  /\ info \in [Ids -> Settings] /\ wanted \in [Ids -> Settings]
  /\ logrs \in Seq(Calls) /\ \A i \in DOMAIN logrs : Call(logrs[i])

\* what is still to be done for a file,
Pending ==
  /\ todo \in [Processes -> Seq(Calls)]
  /\ \A p \in Processes : \A i \in DOMAIN todo[p] : Call(todo[p][i])

\* and the rest.
Rest ==
  /\ running \in BOOLEAN /\ configFile \in BOOLEAN
  /\ pc \in {"none", "drain", "sleep", "update", "ended"}
  /\ file \in Contents \cup {NoFile} /\ loaded \in Contents \cup {NoFile}
  /\ checksum \in Nat
  /\ calls \in [Processes -> Nat]

Shaped == Numbers /\ Tables /\ Pending /\ Rest

\* Who has something to do when, and when the queue is empty.
Phases ==
  /\ todo[Main] # <<>> => pc = "none"
  /\ todo[Logger] # <<>> => pc = "update"
  /\ \A t \in Threads : calls[t] = 0 => todo[t] = <<>>
  /\ pc = "none" => ~running /\ logrs = <<>> /\ wanted = info
  /\ Undisturbed /\ pc \in {"sleep", "ended"} => logrs = <<>>
  /\ Synchronous => logrs = <<>>

\* The last call for a setting has the value that was wanted last.
Follows(id, name) ==
  \/ /\ \A i \in DOMAIN logrs : ~(logrs[i].id = id /\ logrs[i].name = name)
     /\ info[id][name] = wanted[id][name]
  \/ \E m \in DOMAIN logrs :
       /\ logrs[m].id = id /\ logrs[m].name = name /\ logrs[m].value = wanted[id][name]
       /\ \A i \in DOMAIN logrs : logrs[i].id = id /\ logrs[i].name = name => i <= m

\* The calls that wait their turn, unless all are worked off at once.
Waits(id, name) == name \in {"path", "outfile", "limitsize"} \/ (name = "enable" /\ ~wanted[id][name])

\* Before start and after stop none waits.
Queued ==
  running => \A id \in 0 .. lastId, name \in Names : Waits(id, name) => Follows(id, name)

\* What the file that was read last says of a setting.
Said(k, name) == Setting(ids[k], name, Says[loaded][k][name])
Known == DOMAIN Says[loaded] \cap DOMAIN ids
About(s, k, name) == s.id = ids[k] /\ s.name = name

-----------------------------------------------------------------------------
(***************************************************************************)
(* Induction over the natural numbers, as a statement about sets, from the *)
(* library's theorem that a well-founded relation has minimal elements.    *)
(***************************************************************************)
\* A set of natural numbers has a least element.
LEMMA Least ==
  ASSUME NEW S \in SUBSET Nat, S # {}
  PROVE  \E n \in S : \A m \in S : n <= m
<1> DEFINE R == {ss \in Nat \X Nat : ss[1] < ss[2]}
<1>1. IsWellFoundedOn(R, Nat)
  BY NatLessThanWellFounded DEF OpToRel
<1>2. PICK n \in S : \A m \in S : ~ (<<m, n>> \in R)
  BY <1>1, WFMin
<1>3. \A m \in S : ~ (m < n)
  BY <1>2
<1> QED
  BY <1>3

\* A set with 0 that is closed under successor has all of them.
LEMMA InductionOnNat ==
  ASSUME NEW S, 0 \in S, \A n \in Nat : n \in S => n + 1 \in S
  PROVE  \A n \in Nat : n \in S
<1> SUFFICES ASSUME Nat \ S # {} PROVE FALSE
  OBVIOUS
<1>1. PICK n \in Nat \ S : \A m \in Nat \ S : n <= m
  BY Least
<1>2. n # 0 /\ n - 1 \in Nat /\ n - 1 \in S
  BY <1>1
<1> QED
  BY <1>1, <1>2

\* The definition of Along has the meaning it should.
LEMMA AlongSteps ==
  ASSUME NEW piece
  PROVE  \E f : /\ Along(piece) = f[Len(KeyOrder)] /\ f[0] = <<>>
                /\ \A n \in 1 .. Len(KeyOrder) : f[n] = f[n - 1] \o piece[n]
<1> DEFINE Upto(f, m) == f = [n \in 0 .. m |-> IF n = 0 THEN <<>> ELSE f[n - 1] \o piece[n]]
           S == {m \in Nat : \E f : Upto(f, m)}
<1>1. 0 \in S
  <2> DEFINE f == [n \in 0 .. 0 |-> <<>>]
  <2>1. \A n \in 0 .. 0 : n = 0
    OBVIOUS
  <2>2. f = [n \in 0 .. 0 |-> IF n = 0 THEN <<>> ELSE f[n - 1] \o piece[n]]
    BY <2>1
  <2> QED
    BY <2>2
<1>2. ASSUME NEW m \in Nat, m \in S PROVE m + 1 \in S
  <2>1. PICK f : Upto(f, m)
    BY <1>2
  <2> DEFINE g == [n \in 0 .. m + 1 |-> IF n <= m THEN f[n] ELSE f[m] \o piece[n]]
  <2>2. \A n \in 0 .. m + 1 : n <= m => n \in 0 .. m
    OBVIOUS
  <2>3. \A n \in 0 .. m : f[n] = IF n = 0 THEN <<>> ELSE f[n - 1] \o piece[n]
    BY <2>1
  <2> HIDE DEF Upto
  <2>4. \A n \in 0 .. m + 1 : g[n] = IF n = 0 THEN <<>> ELSE g[n - 1] \o piece[n]
    <3> SUFFICES ASSUME NEW n \in 0 .. m + 1 PROVE g[n] = IF n = 0 THEN <<>> ELSE g[n - 1] \o piece[n]
      OBVIOUS
    <3>1. CASE n <= m
      <4>1. n # 0 => n - 1 \in 0 .. m + 1 /\ n - 1 <= m
        BY <3>1
      <4> QED
        BY <2>2, <2>3, <3>1, <4>1
    <3>2. CASE n = m + 1
      <4>1. n # 0 /\ n - 1 = m /\ m \in 0 .. m + 1 /\ ~ (n <= m)
        BY <3>2
      <4> QED
        BY <4>1
    <3> QED
      BY <3>1, <3>2
  <2>5. Upto(g, m + 1)
    BY <2>4 DEF Upto
  <2> QED
    BY <2>5
<1> HIDE DEF Upto
<1>3. Len(KeyOrder) \in S
  <2> HIDE DEF S
  <2>1. Len(KeyOrder) \in Nat
    BY SettingsAssumption
  <2> QED
    BY <1>1, <1>2, <2>1, InductionOnNat
<1>4. PICK f : Upto(f, Len(KeyOrder))
  BY <1>3
<1> DEFINE h == CHOOSE f_ : f_ = [n \in 0 .. Len(KeyOrder) |-> IF n = 0 THEN <<>> ELSE f_[n - 1] \o piece[n]]
<1>5. h = [n \in 0 .. Len(KeyOrder) |-> IF n = 0 THEN <<>> ELSE h[n - 1] \o piece[n]]
  BY <1>4 DEF Upto
<1>6. Along(piece) = h[Len(KeyOrder)]
  BY DEF Along
<1>7. Len(KeyOrder) \in Nat
  BY SettingsAssumption
<1> HIDE DEF h
<1>8. h[0] = <<>> /\ \A n \in 1 .. Len(KeyOrder) : h[n] = h[n - 1] \o piece[n]
  <2>1. \A n \in 0 .. Len(KeyOrder) : h[n] = IF n = 0 THEN <<>> ELSE h[n - 1] \o piece[n]
    BY <1>5
  <2>2. 0 \in 0 .. Len(KeyOrder)
    BY <1>7
  <2>3. h[0] = <<>>
    BY <2>1, <2>2
  <2>4. ASSUME NEW n \in 1 .. Len(KeyOrder) PROVE h[n] = h[n - 1] \o piece[n]
    <3>1. n \in 0 .. Len(KeyOrder) /\ n # 0
      BY <1>7
    <3> QED
      BY <2>1, <3>1
  <2> QED
    BY <2>3, <2>4
<1> QED
  BY <1>6, <1>8

\* What the elements of a concatenation are.
LEMMA TwoParts ==
  ASSUME NEW T, NEW a \in Seq(T), NEW b \in Seq(T)
  PROVE  /\ a \o b \in Seq(T)
         /\ DOMAIN (a \o b) = 1 .. Len(a) + Len(b)
         /\ DOMAIN a = 1 .. Len(a) /\ DOMAIN b = 1 .. Len(b)
         /\ Len(a) \in Nat /\ Len(b) \in Nat
         /\ \A i \in DOMAIN a : (a \o b)[i] = a[i]
         /\ \A j \in DOMAIN b : (a \o b)[Len(a) + j] = b[j]
BY ConcatProperties

\* Along has the elements of all its pieces, and no others.
LEMMA AlongElements ==
  ASSUME NEW T, NEW piece \in [DOMAIN KeyOrder -> Seq(T)]
  PROVE  /\ Along(piece) \in Seq(T)
         /\ \A i \in DOMAIN Along(piece) :
              \E n \in DOMAIN KeyOrder : \E j \in DOMAIN piece[n] : Along(piece)[i] = piece[n][j]
         /\ \A n \in DOMAIN KeyOrder : \A j \in DOMAIN piece[n] :
              \E i \in DOMAIN Along(piece) : Along(piece)[i] = piece[n][j]
<1> DEFINE L == Len(KeyOrder)
<1>1. L \in Nat /\ DOMAIN KeyOrder = 1 .. L
  BY SettingsAssumption
<1>2. PICK f : /\ Along(piece) = f[L] /\ f[0] = <<>>
               /\ \A n \in 1 .. L : f[n] = f[n - 1] \o piece[n]
  BY AlongSteps
<1> DEFINE Only(m) == \A i \in DOMAIN f[m] : \E n \in 1 .. m : \E j \in DOMAIN piece[n] : f[m][i] = piece[n][j]
           All(m) == \A n \in 1 .. m : \A j \in DOMAIN piece[n] : \E i \in DOMAIN f[m] : f[m][i] = piece[n][j]
           Part(m) == f[m] \in Seq(T) /\ Only(m) /\ All(m)
           S == {m \in Nat : m <= L => Part(m)}
<1> HIDE DEF L
<1>3. 0 \in S
  <2>1. f[0] \in Seq(T) /\ DOMAIN f[0] = {}
    BY <1>2
  <2>2. 1 .. 0 = {}
    OBVIOUS
  <2>3. Only(0) /\ All(0)
    BY ONLY <2>1, <2>2
  <2> QED
    BY <2>1, <2>3
<1>4. ASSUME NEW m \in Nat, m \in S PROVE m + 1 \in S
  <2> HIDE DEF Part
  <2> SUFFICES ASSUME m + 1 <= L PROVE Part(m + 1)
    BY <1>4
  <2>1. Part(m)
    BY <1>1, <1>4
  <2> HIDE DEF S
  <2> HIDE DEF Only, All
  <2>2. m + 1 \in 1 .. L /\ (m + 1) - 1 = m
    BY <1>1
  <2>3. f[m + 1] = f[m] \o piece[m + 1] /\ piece[m + 1] \in Seq(T)
    BY <1>1, <1>2, <2>2
  <2>4. /\ f[m + 1] \in Seq(T)
        /\ DOMAIN f[m + 1] = 1 .. Len(f[m]) + Len(piece[m + 1])
        /\ DOMAIN f[m] = 1 .. Len(f[m]) /\ DOMAIN piece[m + 1] = 1 .. Len(piece[m + 1])
        /\ Len(f[m]) \in Nat /\ Len(piece[m + 1]) \in Nat
        /\ \A i \in DOMAIN f[m] : f[m + 1][i] = f[m][i]
        /\ \A j \in DOMAIN piece[m + 1] : f[m + 1][Len(f[m]) + j] = piece[m + 1][j]
    <3>1. f[m] \in Seq(T)
      BY <2>1 DEF Part
    <3> DEFINE a == f[m]
               b == piece[m + 1]
    <3>2. a \in Seq(T) /\ b \in Seq(T) /\ f[m + 1] = a \o b
      BY <2>3, <3>1
    <3> HIDE DEF a, b
    <3>3. /\ f[m + 1] \in Seq(T)
          /\ DOMAIN f[m + 1] = 1 .. Len(a) + Len(b)
          /\ DOMAIN a = 1 .. Len(a) /\ DOMAIN b = 1 .. Len(b)
          /\ Len(a) \in Nat /\ Len(b) \in Nat
          /\ \A i \in DOMAIN a : f[m + 1][i] = a[i]
          /\ \A j \in DOMAIN b : f[m + 1][Len(a) + j] = b[j]
      BY ONLY <3>2, TwoParts
    <3> QED
      BY ONLY <3>3 DEF a, b
  <2>5. Only(m + 1)
    <3> SUFFICES ASSUME NEW i \in DOMAIN f[m + 1]
                 PROVE  \E n \in 1 .. m + 1 : \E j \in DOMAIN piece[n] : f[m + 1][i] = piece[n][j]
      BY DEF Only
    <3>1. CASE i \in DOMAIN f[m]
      <4>1. PICK n \in 1 .. m : \E j \in DOMAIN piece[n] : f[m][i] = piece[n][j]
        BY <2>1, <3>1 DEF Only, Part
      <4> QED
        BY <2>4, <3>1, <4>1
    <3>2. CASE i \notin DOMAIN f[m]
      <4> DEFINE a == Len(f[m])
                 b == Len(piece[m + 1])
      <4>3. /\ a \in Nat /\ b \in Nat /\ i \in 1 .. a + b /\ i \notin 1 .. a
            /\ DOMAIN piece[m + 1] = 1 .. b
        BY <2>4, <3>2
      <4> HIDE DEF a, b
      <4>4. i - a \in 1 .. b /\ i = a + (i - a)
        BY ONLY <4>3
      <4>1. i - Len(f[m]) \in DOMAIN piece[m + 1] /\ i = Len(f[m]) + (i - Len(f[m]))
        BY <4>3, <4>4 DEF a, b
      <4>2. f[m + 1][i] = piece[m + 1][i - Len(f[m])]
        BY <2>4, <4>1
      <4> QED
        BY <4>1, <4>2
    <3> QED
      BY <3>1, <3>2
  <2>6. All(m + 1)
    <3> SUFFICES ASSUME NEW n \in 1 .. m + 1, NEW j \in DOMAIN piece[n]
                 PROVE  \E i \in DOMAIN f[m + 1] : f[m + 1][i] = piece[n][j]
      BY DEF All
    <3>1. CASE n \in 1 .. m
      <4>1. PICK i \in DOMAIN f[m] : f[m][i] = piece[n][j]
        BY <2>1, <3>1 DEF All, Part
      <4> DEFINE a == Len(f[m])
                 b == Len(piece[m + 1])
      <4>3. a \in Nat /\ b \in Nat /\ i \in 1 .. a /\ DOMAIN f[m + 1] = 1 .. a + b
        BY <2>4
      <4> HIDE DEF a, b
      <4>2. i \in DOMAIN f[m + 1]
        BY ONLY <4>3
      <4> QED
        BY <2>4, <4>1, <4>2
    <3>2. CASE n = m + 1
      <4> DEFINE a == Len(f[m])
                 b == Len(piece[m + 1])
      <4>3. a \in Nat /\ b \in Nat /\ j \in 1 .. b /\ DOMAIN f[m + 1] = 1 .. a + b
        BY <2>4, <3>2
      <4> HIDE DEF a, b
      <4>4. a + j \in DOMAIN f[m + 1]
        BY ONLY <4>3
      <4>1. Len(f[m]) + j \in DOMAIN f[m + 1]
        BY <4>4 DEF a
      <4> QED
        BY <2>4, <3>2, <4>1
    <3> QED
      BY <3>1, <3>2
  <2> QED
    BY <2>4, <2>5, <2>6 DEF Part
<1> HIDE DEF S, Part
<1>5. L \in S
  BY <1>1, <1>3, <1>4, InductionOnNat
<1>6. Part(L)
  BY <1>1, <1>5 DEF S
<1>7. /\ f[L] \in Seq(T)
      /\ \A i \in DOMAIN f[L] : \E n \in 1 .. L : \E j \in DOMAIN piece[n] : f[L][i] = piece[n][j]
      /\ \A n \in 1 .. L : \A j \in DOMAIN piece[n] : \E i \in DOMAIN f[L] : f[L][i] = piece[n][j]
  BY <1>6 DEF Part
<1> DEFINE r == Along(piece)
<1>8. r = f[L] /\ DOMAIN KeyOrder = 1 .. L
  BY <1>1, <1>2
<1> HIDE DEF Only, All, r
<1>9. /\ r \in Seq(T)
      /\ \A i \in DOMAIN r : \E n \in DOMAIN KeyOrder : \E j \in DOMAIN piece[n] : r[i] = piece[n][j]
      /\ \A n \in DOMAIN KeyOrder : \A j \in DOMAIN piece[n] : \E i \in DOMAIN r : r[i] = piece[n][j]
  BY ONLY <1>7, <1>8
<1> QED
  BY ONLY <1>9 DEF r

\* The new keys, each once.
LEMMA OrderedKeys ==
  ASSUME NEW ks
  PROVE  /\ Ordered(ks) \in Seq(Keys \cap ks)
         /\ \A k \in Keys \cap ks : \E i \in DOMAIN Ordered(ks) : Ordered(ks)[i] = k
         /\ \A i, j \in DOMAIN Ordered(ks) : Ordered(ks)[i] = Ordered(ks)[j] => i = j
<1> DEFINE L == Len(KeyOrder)
           T == Keys \cap ks
           piece == [n \in DOMAIN KeyOrder |-> IF KeyOrder[n] \in ks THEN <<KeyOrder[n]>> ELSE <<>>]
<1>1. L \in Nat /\ DOMAIN KeyOrder = 1 .. L
  BY SettingsAssumption
<1>2. piece \in [DOMAIN KeyOrder -> Seq(T)]
  <2> HIDE DEF T
  <2>1. <<>> \in Seq(T)
    OBVIOUS
  <2>2. ASSUME NEW n \in DOMAIN KeyOrder, KeyOrder[n] \in ks PROVE <<KeyOrder[n]>> \in Seq(T)
    <3>1. KeyOrder[n] \in T
      BY <2>2 DEF T, Keys
    <3> QED
      BY <3>1
  <2> QED
    BY <2>1, <2>2
<1>3. Ordered(ks) = Along(piece)
  BY DEF Ordered
<1>4. \A n \in DOMAIN KeyOrder : piece[n] = IF KeyOrder[n] \in ks THEN <<KeyOrder[n]>> ELSE <<>>
  OBVIOUS
<1> HIDE DEF piece
<1>5. \A k \in T : \E i \in DOMAIN Ordered(ks) : Ordered(ks)[i] = k
  <2> SUFFICES ASSUME NEW k \in T PROVE \E i \in DOMAIN Ordered(ks) : Ordered(ks)[i] = k
    OBVIOUS
  <2>1. PICK n \in DOMAIN KeyOrder : KeyOrder[n] = k
    BY DEF Keys
  <2>2. 1 \in DOMAIN piece[n] /\ piece[n][1] = k
    <3>1. piece[n] = <<k>>
      BY <1>4, <2>1
    <3> QED
      BY <3>1
  <2> QED
    BY <1>2, <1>3, <2>2, AlongElements
<1>6. PICK f : /\ Along(piece) = f[L] /\ f[0] = <<>>
               /\ \A n \in 1 .. L : f[n] = f[n - 1] \o piece[n]
  BY AlongSteps
<1> HIDE DEF L, T
<1> DEFINE Before(m) == \A i \in DOMAIN f[m] : \E n \in 1 .. m : f[m][i] = KeyOrder[n]
           Different(m) == \A i, j \in DOMAIN f[m] : f[m][i] = f[m][j] => i = j
           Part(m) == f[m] \in Seq(T) /\ Before(m) /\ Different(m)
           S == {m \in Nat : m <= L => Part(m)}
<1>7. 0 \in S
  <2>1. f[0] \in Seq(T) /\ DOMAIN f[0] = {}
    BY <1>6
  <2> QED
    BY <2>1
<1>8. ASSUME NEW m \in Nat, m \in S PROVE m + 1 \in S
  <2> HIDE DEF Part
  <2> SUFFICES ASSUME m + 1 <= L PROVE Part(m + 1)
    BY <1>8
  <2>1. Part(m)
    BY <1>1, <1>8
  <2> HIDE DEF S
  <2> USE DEF Part
  <2>2. m + 1 \in 1 .. L /\ (m + 1) - 1 = m
    BY <1>1
  <2>3. f[m + 1] = f[m] \o piece[m + 1] /\ piece[m + 1] \in Seq(T)
    BY <1>1, <1>2, <1>6, <2>2
  <2>4. CASE KeyOrder[m + 1] \in ks
    <3>1. piece[m + 1] = <<KeyOrder[m + 1]>>
      BY <1>1, <1>4, <2>2, <2>4
    <3>2. f[m + 1] = Append(f[m], KeyOrder[m + 1])
      BY <2>1, <2>3, <3>1
    <3>3. /\ DOMAIN f[m + 1] = 1 .. Len(f[m]) + 1 /\ DOMAIN f[m] = 1 .. Len(f[m]) /\ Len(f[m]) \in Nat
          /\ \A i \in DOMAIN f[m] : f[m + 1][i] = f[m][i]
          /\ f[m + 1][Len(f[m]) + 1] = KeyOrder[m + 1]
          /\ f[m + 1] \in Seq(T)
      BY <2>1, <2>3, <3>1, <3>2
    <3>4. \A i \in DOMAIN f[m] : f[m][i] # KeyOrder[m + 1]
      <4> SUFFICES ASSUME NEW i \in DOMAIN f[m] PROVE f[m][i] # KeyOrder[m + 1]
        OBVIOUS
      <4>1. PICK n \in 1 .. m : f[m][i] = KeyOrder[n]
        BY <2>1
      <4> QED
        BY <1>1, <2>2, <4>1, SettingsAssumption
    <3>5. Before(m + 1)
      <4> SUFFICES ASSUME NEW i \in DOMAIN f[m + 1] PROVE \E n \in 1 .. m + 1 : f[m + 1][i] = KeyOrder[n]
        OBVIOUS
      <4>1. CASE i \in DOMAIN f[m]
        BY <2>1, <3>3, <4>1
      <4>2. CASE i = Len(f[m]) + 1
        BY <3>3, <4>2
      <4> QED
        BY <3>3, <4>1, <4>2
    <3>6. Different(m + 1)
      <4> SUFFICES ASSUME NEW i \in DOMAIN f[m + 1], NEW j \in DOMAIN f[m + 1], f[m + 1][i] = f[m + 1][j] PROVE i = j
        OBVIOUS
      <4>1. CASE i \in DOMAIN f[m] /\ j \in DOMAIN f[m]
        BY <2>1, <3>3, <4>1
      <4>2. CASE i \notin DOMAIN f[m] /\ j \notin DOMAIN f[m]
        BY ONLY <3>3, <4>2, i \in DOMAIN f[m + 1], j \in DOMAIN f[m + 1]
      <4>3. CASE i \in DOMAIN f[m] /\ j \notin DOMAIN f[m]
        <5>1. j = Len(f[m]) + 1
          BY ONLY <3>3, <4>3, i \in DOMAIN f[m + 1], j \in DOMAIN f[m + 1]
        <5> QED
          BY <3>3, <3>4, <4>3, <5>1
      <4>4. CASE j \in DOMAIN f[m] /\ i \notin DOMAIN f[m]
        <5>1. i = Len(f[m]) + 1
          BY ONLY <3>3, <4>4, i \in DOMAIN f[m + 1], j \in DOMAIN f[m + 1]
        <5> QED
          BY <3>3, <3>4, <4>4, <5>1
      <4> QED
        BY <4>1, <4>2, <4>3, <4>4
    <3> QED
      BY <3>3, <3>5, <3>6
  <2>5. CASE KeyOrder[m + 1] \notin ks
    <3>1. piece[m + 1] = <<>>
      BY <1>1, <1>4, <2>2, <2>5
    <3>2. f[m + 1] = f[m]
      BY <2>1, <2>3, <3>1
    <3> QED
      BY <2>1, <3>2
  <2> QED
    BY <2>4, <2>5
<1> HIDE DEF S, Part
<1>9. L \in S
  BY <1>1, <1>7, <1>8, InductionOnNat
<1>10. Part(L)
  BY <1>1, <1>9 DEF S
<1> QED
  BY <1>3, <1>5, <1>6, <1>10 DEF Part, T


-----------------------------------------------------------------------------
LEMMA NamesAre == Names = {"enable", "path", "level", "outfile", "limitsize"}
BY DEF Names, Default

\* A call that fits leaves settings of the right type.
LEMMA SettingChanged ==
  ASSUME NEW r \in Settings, NEW name \in Names, NEW value, Fits(name, value)
  PROVE  [r EXCEPT ![name] = value] \in Settings
<1>1. name \in {"enable", "path", "level", "outfile", "limitsize"}
  BY NamesAre
<1>2. CASE name \in {"enable", "outfile"}
  BY <1>2 DEF Settings, Fits
<1>3. CASE name = "path"
  BY <1>3 DEF Settings, Fits
<1>4. CASE name \in {"level", "limitsize"}
  BY <1>4 DEF Settings, Fits
<1> QED
  BY <1>1, <1>2, <1>3, <1>4

\* The settings of a type are what the set functions take.
LEMMA SettingFits ==
  ASSUME NEW r \in Settings, NEW name \in Names
  PROVE  /\ Fits(name, r[name])
         /\ r[name] \in BOOLEAN \cup Paths \cup Nat
         /\ name \in DOMAIN r
<1>1. name \in {"enable", "path", "level", "outfile", "limitsize"}
  BY NamesAre
<1>2. DOMAIN r = {"enable", "path", "level", "outfile", "limitsize"}
  BY DEF Settings
<1>3. /\ r.enable \in BOOLEAN /\ r.path \in Paths /\ r.level \in Nat
      /\ r.outfile \in BOOLEAN /\ r.limitsize \in Nat
  BY DEF Settings
<1>4. CASE name = "enable"
  BY <1>2, <1>3, <1>4 DEF Fits
<1>5. CASE name = "path"
  BY <1>2, <1>3, <1>5 DEF Fits
<1>6. CASE name = "level"
  BY <1>2, <1>3, <1>6 DEF Fits
<1>7. CASE name = "outfile"
  BY <1>2, <1>3, <1>7 DEF Fits
<1>8. CASE name = "limitsize"
  BY <1>2, <1>3, <1>8 DEF Fits
<1> QED
  BY <1>1, <1>4, <1>5, <1>6, <1>7, <1>8

\* A limit of 0 becomes one that is a number as well.
LEMMA EffectiveCall ==
  ASSUME NEW s, Call(s)
  PROVE  /\ Call(Effective(s))
         /\ Effective(s).id = s.id /\ Effective(s).name = s.name
<1>1. s \in Calls
  BY DEF Call
<1>2. CASE s.name = "limitsize" /\ s.value = 0
  <2>1. Effective(s) = [s EXCEPT !.value = Unlimited]
    BY <1>2 DEF Effective
  <2>2. Unlimited \in Nat
    BY SettingsAssumption
  <2>3. Effective(s) \in Calls /\ Effective(s).value = Unlimited /\ Effective(s).id = s.id /\ Effective(s).name = s.name
    BY <1>1, <2>1, <2>2 DEF Calls
  <2> QED
    BY <1>2, <2>2, <2>3 DEF Call, Fits
<1>3. CASE ~ (s.name = "limitsize" /\ s.value = 0)
  BY <1>3 DEF Effective
<1> QED
  BY <1>2, <1>3

-----------------------------------------------------------------------------
(***************************************************************************)
(* Creating loggers: the keys that are known keep their numbers, the new   *)
(* ones get the next.                                                      *)
(***************************************************************************)
Grown(ks) ==
  /\ lastId' \in lastId .. MaxLogrgers - 1
  /\ ids' \in [DOMAIN ids' -> Ids]
  /\ DOMAIN ids \subseteq DOMAIN ids' /\ DOMAIN ids' \subseteq Keys
  /\ \A k \in DOMAIN ids : ids'[k] = ids[k]
  /\ {ids'[k] : k \in DOMAIN ids'} = 0 .. lastId'
  /\ Cardinality(DOMAIN ids') = lastId' + 1
  /\ \A k, l \in DOMAIN ids' : ids'[k] = ids'[l] => k = l
  /\ ks \subseteq DOMAIN ids' \/ lastId' = MaxLogrgers - 1

\* createLogrger, for one key or for all those of a file.
LEMMA NewIds ==
  ASSUME Numbers, NEW ks \in SUBSET Keys, createLogrgers(ks)
  PROVE  Grown(ks)
<1> DEFINE new == Ordered(ks \ DOMAIN ids)
           n == Len(new)
           room == IF lastId + n >= MaxLogrgers THEN MaxLogrgers - 1 - lastId ELSE n
           fresh == {new[i] : i \in 1 .. room}
           place(k) == CHOOSE i \in 1 .. room : new[i] = k
<1>1. ids' = [k \in DOMAIN ids \cup fresh |-> IF k \in DOMAIN ids THEN ids[k] ELSE lastId + place(k)]
  BY DEF createLogrgers, Created
<1>2. /\ lastId \in 0 .. MaxLogrgers - 1 /\ MaxLogrgers \in Nat \ {0}
      /\ DOMAIN ids \subseteq Keys /\ {ids[k] : k \in DOMAIN ids} = 0 .. lastId
      /\ Cardinality(DOMAIN ids) = lastId + 1
      /\ \A k, l \in DOMAIN ids : ids[k] = ids[l] => k = l
      /\ lastId' = Cardinality(DOMAIN ids') - 1
  BY SettingsAssumption DEF Numbers, createLogrgers
<1>3. /\ new \in Seq(Keys \cap (ks \ DOMAIN ids))
      /\ \A k \in Keys \cap (ks \ DOMAIN ids) : \E i \in DOMAIN new : new[i] = k
      /\ \A i, j \in DOMAIN new : new[i] = new[j] => i = j
  BY OrderedKeys
<1> HIDE DEF new
<1>4. n \in Nat /\ DOMAIN new = 1 .. n /\ \A i \in 1 .. n : new[i] \in Keys /\ new[i] \in ks /\ new[i] \notin DOMAIN ids
  BY <1>3
<1>5. room \in 0 .. n /\ lastId + room \in lastId .. MaxLogrgers - 1 /\ (room = n \/ lastId + room = MaxLogrgers - 1)
  <2> HIDE DEF n
  <2> QED
    BY <1>2, <1>4
<1> HIDE DEF n, room
<1>6. 1 .. room \subseteq 1 .. n /\ room \in Nat
  BY <1>4, <1>5
<1>7. \A k \in fresh : place(k) \in 1 .. room /\ new[place(k)] = k /\ k \notin DOMAIN ids /\ k \in Keys
  <2> SUFFICES ASSUME NEW k \in fresh
               PROVE  place(k) \in 1 .. room /\ new[place(k)] = k /\ k \notin DOMAIN ids /\ k \in Keys
    OBVIOUS
  <2>1. \E i \in 1 .. room : new[i] = k
    OBVIOUS
  <2>2. place(k) \in 1 .. room /\ new[place(k)] = k
    BY <2>1
  <2> QED
    BY <1>4, <1>6, <2>2
<1>8. \A i \in 1 .. room : new[i] \in fresh /\ place(new[i]) = i
  <2> SUFFICES ASSUME NEW i \in 1 .. room PROVE new[i] \in fresh /\ place(new[i]) = i
    OBVIOUS
  <2>1. new[i] \in fresh
    OBVIOUS
  <2>2. place(new[i]) \in 1 .. room /\ new[place(new[i])] = new[i]
    BY <1>7, <2>1
  <2> QED
    BY <1>3, <1>4, <1>6, <2>1, <2>2
<1>9. IsFiniteSet(fresh) /\ Cardinality(fresh) = room
  <2> DEFINE f == [i \in 1 .. room |-> new[i]]
  <2>1. f \in Bijection(1 .. room, fresh)
    <3>1. f \in [1 .. room -> fresh]
      OBVIOUS
    <3>2. \A i, j \in 1 .. room : f[i] = f[j] => i = j
      BY <1>3, <1>4, <1>6
    <3>3. \A k \in fresh : \E i \in 1 .. room : f[i] = k
      OBVIOUS
    <3> HIDE DEF f, fresh
    <3> QED
      BY <3>1, <3>2, <3>3 DEF Bijection, Injection, Surjection, IsInjective
  <2>2. IsFiniteSet(1 .. room) /\ Cardinality(1 .. room) = room
    BY <1>6, FS_Interval
  <2> HIDE DEF f, fresh
  <2>3. ExistsBijection(1 .. room, fresh)
    BY <2>1 DEF ExistsBijection
  <2> QED
    BY <2>2, <2>3, FS_Bijection
<1> HIDE DEF place, fresh
<1>10. IsFiniteSet(DOMAIN ids)
  <2>1. IsFiniteSet(0 .. lastId)
    BY <1>2, FS_Interval
  <2>2. ids \in Injection(DOMAIN ids, 0 .. lastId)
    <3>1. ids \in [DOMAIN ids -> 0 .. lastId]
      BY <1>2 DEF Numbers
    <3> QED
      BY <1>2, <3>1 DEF Injection, IsInjective
  <2> QED
    BY <2>1, <2>2, FS_Injection
<1>11. DOMAIN ids' = DOMAIN ids \cup fresh
  BY <1>1
<1>12. Cardinality(DOMAIN ids') = lastId + 1 + room
  <2>1. DOMAIN ids \cap fresh = {}
    BY <1>7
  <2>2. Cardinality(DOMAIN ids \cap fresh) = 0
    BY <2>1, FS_EmptySet
  <2>3. Cardinality(DOMAIN ids \cup fresh) = Cardinality(DOMAIN ids) + Cardinality(fresh) - Cardinality(DOMAIN ids \cap fresh)
    BY <1>9, <1>10, FS_Union
  <2> QED
    BY <1>2, <1>6, <1>9, <1>11, <2>2, <2>3
<1>13. lastId' = lastId + room
  BY <1>2, <1>6, <1>12
<1>14. \A k \in DOMAIN ids : ids'[k] = ids[k] /\ ids[k] \in 0 .. lastId
  BY <1>1, <1>2
<1>15. \A k \in fresh : ids'[k] = lastId + place(k) /\ ids'[k] \in lastId + 1 .. lastId + room
  <2> SUFFICES ASSUME NEW k \in fresh
               PROVE  ids'[k] = lastId + place(k) /\ ids'[k] \in lastId + 1 .. lastId + room
    OBVIOUS
  <2>1. ids'[k] = lastId + place(k)
    BY <1>1, <1>7
  <2> QED
    BY <1>2, <1>6, <1>7, <2>1
<1>16. ASSUME NEW k \in DOMAIN ids', NEW l \in DOMAIN ids', ids'[k] = ids'[l] PROVE k = l
  <2>1. CASE k \in DOMAIN ids /\ l \in DOMAIN ids
    BY <1>2, <1>14, <1>16, <2>1
  <2>2. CASE k \in fresh /\ l \in fresh
    <3>1. place(k) = place(l)
      BY <1>2, <1>6, <1>7, <1>15, <1>16, <2>2
    <3> QED
      BY <1>7, <2>2, <3>1
  <2>3. CASE k \in DOMAIN ids /\ l \in fresh
    BY <1>2, <1>6, <1>14, <1>15, <1>16, <2>3
  <2>4. CASE l \in DOMAIN ids /\ k \in fresh
    BY <1>2, <1>6, <1>14, <1>15, <1>16, <2>4
  <2> QED
    BY <1>11, <2>1, <2>2, <2>3, <2>4
<1>17. {ids'[k] : k \in DOMAIN ids'} = 0 .. lastId'
  <2>1. ASSUME NEW k \in DOMAIN ids' PROVE ids'[k] \in 0 .. lastId'
    BY <1>2, <1>6, <1>11, <1>13, <1>14, <1>15
  <2>2. ASSUME NEW d \in 0 .. lastId' PROVE \E k \in DOMAIN ids' : ids'[k] = d
    <3>1. CASE d \in 0 .. lastId
      <4>1. PICK k \in DOMAIN ids : ids[k] = d
        BY <1>2, <3>1
      <4> QED
        BY <1>11, <1>14, <4>1
    <3>2. CASE d \notin 0 .. lastId
      <4>1. d - lastId \in 1 .. room /\ lastId + (d - lastId) = d
        BY <1>2, <1>6, <1>13, <3>2
      <4>2. new[d - lastId] \in fresh /\ place(new[d - lastId]) = d - lastId
        BY <1>8, <4>1
      <4> QED
        BY <1>11, <1>15, <4>1, <4>2
    <3> QED
      BY <3>1, <3>2
  <2> QED
    BY <2>1, <2>2
<1>18. ks \subseteq DOMAIN ids' \/ lastId' = MaxLogrgers - 1
  <2> SUFFICES ASSUME room = n PROVE ks \subseteq DOMAIN ids'
    BY <1>5, <1>13
  <2> SUFFICES ASSUME NEW k \in ks, k \notin DOMAIN ids PROVE k \in fresh
    BY <1>11
  <2>1. PICK i \in 1 .. n : new[i] = k
    BY <1>3, <1>4
  <2> QED
    BY <1>8, <2>1
<1>19. ids' \in [DOMAIN ids' -> Ids]
  <2>1. \A k \in DOMAIN ids' : ids'[k] \in Ids
    BY <1>2, <1>5, <1>13, <1>17 DEF Ids
  <2> QED
    BY <1>1, <2>1
<1>20. lastId' \in lastId .. MaxLogrgers - 1 /\ Cardinality(DOMAIN ids') = lastId' + 1
  BY <1>2, <1>5, <1>6, <1>12, <1>13
<1>21. DOMAIN ids \subseteq DOMAIN ids' /\ DOMAIN ids' \subseteq Keys
  BY <1>2, <1>7, <1>11
<1> QED
  BY <1>14, <1>16, <1>17, <1>18, <1>19, <1>20, <1>21 DEF Grown

-----------------------------------------------------------------------------
(***************************************************************************)
(* What a file leads to: for each logger that is known a set function for  *)
(* each of its settings.                                                   *)
(***************************************************************************)
\* A section: one call for each of its settings.
LEMMA SetsOfSection ==
  ASSUME NEW id \in Ids, NEW s \in Settings
  PROVE  /\ SetsOf(id, s) \in Seq(Calls)
         /\ \A i \in DOMAIN SetsOf(id, s) : \E name \in Names : SetsOf(id, s)[i] = Setting(id, name, s[name])
         /\ \A name \in Names : \E i \in DOMAIN SetsOf(id, s) : SetsOf(id, s)[i] = Setting(id, name, s[name])
<1> DEFINE q == SetsOf(id, s)
<1>1. q = <<Setting(id, "enable", s.enable), Setting(id, "path", s.path), Setting(id, "level", s.level),
            Setting(id, "outfile", s.outfile), Setting(id, "limitsize", s.limitsize)>>
  BY DEF SetsOf
<1>2. \A name \in Names : Setting(id, name, s[name]) \in Calls
  BY SettingFits DEF Calls, Setting
<1>3. /\ Setting(id, "enable", s.enable) \in Calls /\ Setting(id, "path", s.path) \in Calls
      /\ Setting(id, "level", s.level) \in Calls /\ Setting(id, "outfile", s.outfile) \in Calls
      /\ Setting(id, "limitsize", s.limitsize) \in Calls
  BY <1>2, NamesAre
<1>4. /\ DOMAIN q = 1 .. 5 /\ q[1] = Setting(id, "enable", s.enable) /\ q[2] = Setting(id, "path", s.path)
      /\ q[3] = Setting(id, "level", s.level) /\ q[4] = Setting(id, "outfile", s.outfile)
      /\ q[5] = Setting(id, "limitsize", s.limitsize)
  BY <1>1
<1>5. q \in Seq(Calls)
  BY <1>1, <1>3
<1> HIDE DEF q
<1>6. \A i \in 1 .. 5 : i = 1 \/ i = 2 \/ i = 3 \/ i = 4 \/ i = 5
  OBVIOUS
<1>7. ASSUME NEW i \in DOMAIN q PROVE \E name \in Names : q[i] = Setting(id, name, s[name])
  BY <1>4, <1>6, NamesAre
<1>8. ASSUME NEW name \in Names PROVE \E i \in DOMAIN q : q[i] = Setting(id, name, s[name])
  <2>1. 1 \in DOMAIN q /\ 2 \in DOMAIN q /\ 3 \in DOMAIN q /\ 4 \in DOMAIN q /\ 5 \in DOMAIN q
    BY <1>4
  <2> QED
    BY <1>4, <2>1, NamesAre
<1> QED
  BY <1>5, <1>7, <1>8 DEF q

\* The calls in q are those says leads to, for the loggers that are known.
AllSaid(q, known, says) ==
  /\ \A i \in DOMAIN q : \E k \in DOMAIN says \cap DOMAIN known, name \in Names :
       q[i] = Setting(known[k], name, says[k][name])
  /\ \A k \in DOMAIN says \cap DOMAIN known, name \in Names : \E i \in DOMAIN q :
       q[i] = Setting(known[k], name, says[k][name])

\* A file: the calls of all its sections, and no others.
LEMMA SetsOfFile ==
  ASSUME NEW known, NEW says, known \in [DOMAIN known -> Ids],
         DOMAIN says \subseteq Keys, \A k \in DOMAIN says : says[k] \in Settings
  PROVE  SetsOfAll(known, says) \in Seq(Calls) /\ AllSaid(SetsOfAll(known, says), known, says)
<1> DEFINE piece == [n \in DOMAIN KeyOrder |->
                       IF KeyOrder[n] \in DOMAIN says \cap DOMAIN known
                       THEN SetsOf(known[KeyOrder[n]], says[KeyOrder[n]]) ELSE <<>>]
           q == SetsOfAll(known, says)
<1>1. q = Along(piece)
  BY DEF SetsOfAll
<1>2. \A n \in DOMAIN KeyOrder : piece[n] = IF KeyOrder[n] \in DOMAIN says \cap DOMAIN known
                                          THEN SetsOf(known[KeyOrder[n]], says[KeyOrder[n]]) ELSE <<>>
  OBVIOUS
<1>3. piece \in [DOMAIN KeyOrder -> Seq(Calls)]
  <2>1. <<>> \in Seq(Calls)
    OBVIOUS
  <2> QED
    BY <2>1, SetsOfSection
<1> HIDE DEF q, piece
<1>4. ASSUME NEW i \in DOMAIN q
      PROVE  \E k \in DOMAIN says \cap DOMAIN known, name \in Names : q[i] = Setting(known[k], name, says[k][name])
  <2>1. PICK n \in DOMAIN KeyOrder : \E j \in DOMAIN piece[n] : q[i] = piece[n][j]
    BY <1>1, <1>3, AlongElements
  <2>2. PICK j \in DOMAIN piece[n] : q[i] = piece[n][j]
    BY <2>1
  <2>3. DOMAIN <<>> = {}
    OBVIOUS
  <2>4. KeyOrder[n] \in DOMAIN says \cap DOMAIN known
    BY <1>2, <2>2, <2>3
  <2>5. piece[n] = SetsOf(known[KeyOrder[n]], says[KeyOrder[n]])
    BY <1>2, <2>4
  <2>6. known[KeyOrder[n]] \in Ids /\ says[KeyOrder[n]] \in Settings
    BY <2>4
  <2> DEFINE id == known[KeyOrder[n]]
             section == says[KeyOrder[n]]
             o == SetsOf(id, section)
  <2>7. id \in Ids /\ section \in Settings /\ j \in DOMAIN o /\ q[i] = o[j]
    BY <2>2, <2>5, <2>6
  <2> HIDE DEF id, section
  <2>8. \E name \in Names : o[j] = Setting(id, name, section[name])
    BY ONLY <2>7, SetsOfSection
  <2> QED
    BY <2>4, <2>7, <2>8 DEF id, section
<1>5. ASSUME NEW k \in DOMAIN says \cap DOMAIN known, NEW name \in Names
      PROVE  \E i \in DOMAIN q : q[i] = Setting(known[k], name, says[k][name])
  <2>1. PICK n \in DOMAIN KeyOrder : KeyOrder[n] = k
    BY DEF Keys
  <2>2. piece[n] = SetsOf(known[k], says[k]) /\ known[k] \in Ids /\ says[k] \in Settings
    BY <1>2, <2>1
  <2>3. PICK j \in DOMAIN piece[n] : piece[n][j] = Setting(known[k], name, says[k][name])
    BY <2>2, SetsOfSection
  <2> QED
    BY <1>1, <1>3, <2>3, AlongElements
<1>6. q \in Seq(Calls)
  BY <1>1, <1>3, AlongElements
<1> QED
  <2>1. AllSaid(q, known, says)
    BY <1>4, <1>5 DEF AllSaid
  <2> QED
    BY <1>6, <2>1 DEF q

-----------------------------------------------------------------------------
(***************************************************************************)
(* Types.                                                                  *)
(***************************************************************************)
LEMMA Applies ==
  ASSUME NEW t \in [Ids -> Settings], NEW s, Call(s)
  PROVE  [t EXCEPT ![s.id][s.name] = s.value] \in [Ids -> Settings]
<1>1. s.id \in Ids /\ s.name \in Names /\ Fits(s.name, s.value)
  BY DEF Call, Calls
<1>2. [t[s.id] EXCEPT ![s.name] = s.value] \in Settings
  BY <1>1, SettingChanged
<1> QED
  BY <1>1, <1>2

\* Taking the first of a queue moves the others forward.
LEMMA Queues ==
  ASSUME NEW T, NEW q \in Seq(T), q # <<>>
  PROVE  /\ Head(q) \in T /\ Head(q) = q[1] /\ 1 \in DOMAIN q /\ Tail(q) \in Seq(T)
         /\ \A i \in DOMAIN Tail(q) : i + 1 \in DOMAIN q /\ Tail(q)[i] = q[i + 1]
         /\ \A i \in DOMAIN q : i # 1 => i - 1 \in DOMAIN Tail(q) /\ Tail(q)[i - 1] = q[i]
         /\ DOMAIN q \subseteq Nat /\ DOMAIN Tail(q) \subseteq Nat
OBVIOUS

\* A new element is the last.
LEMMA Appended ==
  ASSUME NEW T, NEW q \in Seq(T), NEW e \in T
  PROVE  /\ Append(q, e) \in Seq(T)
         /\ \A i \in DOMAIN q : i \in DOMAIN Append(q, e) /\ Append(q, e)[i] = q[i]
         /\ \A i \in DOMAIN Append(q, e) : i \in DOMAIN q \/ Append(q, e)[i] = e
         /\ \E i \in DOMAIN Append(q, e) : Append(q, e)[i] = e /\ \A j \in DOMAIN Append(q, e) : j <= i
<1>1. /\ Len(q) \in Nat /\ DOMAIN q = 1 .. Len(q) /\ DOMAIN Append(q, e) = 1 .. Len(q) + 1
      /\ Append(q, e)[Len(q) + 1] = e
      /\ \A i \in 1 .. Len(q) : Append(q, e)[i] = q[i]
      /\ Append(q, e) \in Seq(T)
  OBVIOUS
<1>2. \A i \in 1 .. Len(q) + 1 : i = Len(q) + 1 \/ i \in 1 .. Len(q)
  BY <1>1
<1>3. Len(q) + 1 \in 1 .. Len(q) + 1 /\ \A j \in 1 .. Len(q) + 1 : j <= Len(q) + 1
  BY <1>1
<1>4. 1 .. Len(q) \subseteq 1 .. Len(q) + 1
  BY <1>1
<1> QED
  BY ONLY <1>1, <1>2, <1>3, <1>4

\* A set function, whether it takes effect at once or waits.
LEMMA SetTables ==
  ASSUME Tables, NEW call, Call(call), Set(call), UNCHANGED lastId
  PROVE  Tables'
<1> DEFINE s == Effective(call)
<1>1. Call(s)
  BY EffectiveCall
<1>2. s \in Calls
  BY <1>1 DEF Call
<1>3. wanted' \in [Ids -> Settings]
  BY <1>1, Applies DEF Set, Tables
<1>4. \A d : Call(d) => Call(d)'
  BY DEF Call
<1> HIDE DEF s
<1>5. CASE onHotChange(s) /\ UNCHANGED logrs
  BY <1>1, <1>3, <1>4, <1>5, Applies DEF Tables, onHotChange
<1>6. CASE logrs' = Append(logrs, s) /\ UNCHANGED info
  <2>1. logrs' \in Seq(Calls)
    BY <1>2, <1>6 DEF Tables
  <2>2. \A i \in DOMAIN logrs' : logrs'[i] = s \/ (i \in DOMAIN logrs /\ logrs'[i] = logrs[i])
    <3>1. logrs \in Seq(Calls)
      BY DEF Tables
    <3>2. /\ \A i \in DOMAIN logrs : Append(logrs, s)[i] = logrs[i]
          /\ \A i \in DOMAIN Append(logrs, s) : i \in DOMAIN logrs \/ Append(logrs, s)[i] = s
      BY ONLY <1>2, <3>1, Appended
    <3>3. /\ \A i \in DOMAIN logrs : logrs'[i] = logrs[i]
          /\ \A i \in DOMAIN logrs' : i \in DOMAIN logrs \/ logrs'[i] = s
      BY ONLY <1>6, <3>2, Zenon
    <3> QED
      BY ONLY <3>3, Zenon
  <2>3. ASSUME NEW i \in DOMAIN logrs' PROVE Call(logrs'[i])
    BY <1>1, <2>2 DEF Tables
  <2>4. ASSUME NEW i \in DOMAIN logrs' PROVE Call(logrs[i])'
    BY <2>3 DEF Call
  <2> QED
    BY <1>3, <1>6, <2>1, <2>4 DEF Tables
<1>7. CASE UNCHANGED <<info, logrs>>
  BY <1>3, <1>4, <1>7 DEF Tables
<1> QED
  BY <1>5, <1>6, <1>7 DEF Set, s

\* What the program's threads call a set function with.
LEMMA UserCallFits ==
  ASSUME Numbers, NEW u \in UserCalls, u.key \in DOMAIN ids
  PROVE  Call(Setting(ids[u.key], u.name, u.value))
<1> DEFINE t == [Default EXCEPT ![u.name] = u.value]
<1>1. u.name \in Names /\ t \in Settings
  BY SettingsAssumption DEF Names
<1>2. t[u.name] = u.value
  BY <1>1 DEF Names
<1> HIDE DEF t
<1>3. Fits(u.name, u.value) /\ u.value \in BOOLEAN \cup Paths \cup Nat
  BY <1>1, <1>2, SettingFits
<1>4. ids[u.key] \in Ids /\ ids[u.key] <= lastId
  BY DEF Numbers
<1> QED
  BY <1>1, <1>3, <1>4 DEF Call, Calls, Setting

\* The tables when loggers are created.
LEMMA NewLoggers ==
  ASSUME Shaped, NEW ks, Grown(ks), info' = SwitchedOn(info), wanted' = SwitchedOn(wanted), UNCHANGED logrs
  PROVE  Numbers' /\ Tables'
<1>1. lastId \in Nat /\ lastId' \in Nat /\ lastId <= lastId' /\ lastId' \in 0 .. MaxLogrgers - 1
  BY SettingsAssumption DEF Shaped, Numbers, Grown
<1>2. Numbers'
  BY <1>1 DEF Numbers, Grown
<1>3. ASSUME NEW t \in [Ids -> Settings] PROVE SwitchedOn(t) \in [Ids -> Settings]
  <2>1. \A id \in Ids : [t[id] EXCEPT !.enable = TRUE] \in Settings
    BY DEF Settings
  <2> QED
    BY <2>1 DEF SwitchedOn
<1>4. \A d : Call(d) => Call(d)'
  BY <1>1 DEF Call, Calls, Ids
<1>5. info' \in [Ids -> Settings] /\ wanted' \in [Ids -> Settings]
  BY <1>3 DEF Shaped, Tables
<1>6. Tables'
  BY <1>4, <1>5 DEF Shaped, Tables
<1> QED
  BY <1>2, <1>6

\* An update creates no loggers, any other file those it names.
LEMMA Loads ==
  ASSUME Shaped, NEW p, NEW c \in Contents, NEW isUpdate, configFromStringImpl(p, c, isUpdate)
  PROVE  Grown(IF isUpdate THEN {} ELSE DOMAIN Says[c])
<1>1. DOMAIN Says[c] \subseteq Keys
  BY SettingsAssumption
<1>2. CASE isUpdate
  <2>1. ids' = ids /\ lastId' = lastId
    BY <1>2 DEF configFromStringImpl
  <2>2. Grown({})
    BY <2>1, SettingsAssumption DEF Shaped, Numbers, Grown
  <2> QED
    BY <1>2, <2>2
<1>3. CASE ~ isUpdate
  <2>1. createLogrgers(DOMAIN Says[c])
    BY <1>3 DEF configFromStringImpl
  <2>2. Grown(DOMAIN Says[c])
    BY <1>1, <2>1, NewIds DEF Shaped
  <2> QED
    BY <1>3, <2>2
<1> QED
  BY <1>2, <1>3

\* The set functions for a file, for the loggers known by then.
LEMMA LoadedCalls ==
  ASSUME Numbers', NEW c \in Contents, NEW q, q = SetsOfAll(ids', Says[c])
  PROVE  /\ q \in Seq(Calls)
         /\ \A i \in DOMAIN q : q[i].id <= lastId' /\ Fits(q[i].name, q[i].value)
         /\ AllSaid(q, ids', Says[c])
<1> DEFINE known == ids'
           says == Says[c]
<1>1. DOMAIN says \subseteq Keys /\ \A k \in DOMAIN says : says[k] \in Settings
  BY SettingsAssumption
<1>2. known \in [DOMAIN known -> Ids]
  BY DEF Numbers
<1>3. \A k \in DOMAIN known : known[k] <= lastId'
  BY SettingsAssumption DEF Numbers
<1>4. q = SetsOfAll(known, says)
  OBVIOUS
<1> HIDE DEF known, says
<1>5. q \in Seq(Calls) /\ AllSaid(q, known, says)
  BY ONLY <1>1, <1>2, <1>4, SetsOfFile
<1>6. ASSUME NEW i \in DOMAIN q
      PROVE  q[i].id <= lastId' /\ Fits(q[i].name, q[i].value)
  <2>1. PICK k \in DOMAIN says \cap DOMAIN known, name \in Names : q[i] = Setting(known[k], name, says[k][name])
    BY <1>5 DEF AllSaid
  <2>2. q[i].id = known[k] /\ q[i].name = name /\ q[i].value = says[k][name]
    BY <2>1 DEF Setting
  <2> QED
    BY <1>1, <1>3, <2>2, SettingFits
<1> QED
  BY ONLY <1>5, <1>6 DEF known, says

LEMMA LoadShaped ==
  ASSUME Shaped, NEW p \in Processes, NEW c \in Contents, NEW isUpdate, configFromStringImpl(p, c, isUpdate), UNCHANGED logrs
  PROVE  Numbers' /\ Tables' /\ Pending' /\ checksum' \in Nat /\ loaded' \in Contents
<1>1. checksum' \in Nat /\ loaded' \in Contents
  BY SettingsAssumption DEF configFromStringImpl
<1>2. Grown(IF isUpdate THEN {} ELSE DOMAIN Says[c])
  BY Loads
<1>3. Numbers' /\ Tables'
  BY <1>2, NewLoggers DEF configFromStringImpl
<1> DEFINE q == SetsOfAll(ids', Says[c])
<1>4. todo' = [todo EXCEPT ![p] = q]
  BY DEF configFromStringImpl
<1> HIDE DEF q
<1>5. q \in Seq(Calls) /\ \A i \in DOMAIN q : q[i].id <= lastId' /\ Fits(q[i].name, q[i].value)
  BY <1>3, LoadedCalls DEF q
<1>6. \A d : Call(d) => Call(d)'
  BY <1>2, SettingsAssumption DEF Call, Calls, Ids, Grown, Shaped, Numbers
<1>7. todo' \in [Processes -> Seq(Calls)]
  BY <1>4, <1>5 DEF Shaped, Pending
<1>8. ASSUME NEW r \in Processes, NEW i \in DOMAIN todo'[r] PROVE Call(todo[r][i])'
  <2>1. CASE r = p
    <3>1. todo'[r] = q
      BY <1>4, <2>1 DEF Shaped, Pending
    <3>2. todo'[r][i] \in Calls /\ todo'[r][i].id <= lastId' /\ Fits(todo'[r][i].name, todo'[r][i].value)
      BY <1>5, <3>1
    <3> QED
      BY <3>2 DEF Call
  <2>2. CASE r # p
    <3>1. todo'[r] = todo[r]
      BY <1>4, <2>2 DEF Shaped, Pending
    <3>2. Call(todo[r][i])
      BY <3>1 DEF Shaped, Pending
    <3> DEFINE d == todo[r][i]
    <3>3. Call(d)'
      <4>1. ASSUME NEW e, e = todo[r][i] PROVE Call(e)'
        BY <1>6, <3>2, <4>1
      <4> QED
        BY <3>1, <4>1
    <3> QED
      BY <3>3
  <2> QED
    BY <2>1, <2>2
<1>9. Pending'
  BY <1>7, <1>8 DEF Pending
<1> QED
  BY <1>1, <1>3, <1>9

\* A set function that was waiting for a process, or is called by it.
LEMMA ApplyShaped ==
  ASSUME Shaped, NEW p \in Processes, apply(p)
  PROVE  Shaped'
<1>1. todo[p] \in Seq(Calls) /\ todo[p] # <<>> /\ todo' = [todo EXCEPT ![p] = Tail(todo[p])]
  BY DEF apply, Shaped, Pending
<1>2. /\ 1 \in DOMAIN todo[p] /\ Head(todo[p]) = todo[p][1] /\ Tail(todo[p]) \in Seq(Calls)
      /\ \A i \in DOMAIN Tail(todo[p]) : i + 1 \in DOMAIN todo[p] /\ Tail(todo[p])[i] = todo[p][i + 1]
  BY ONLY <1>1, Queues
<1>3. Call(Head(todo[p]))
  BY <1>2 DEF Shaped, Pending
<1>4. Tables'
  BY <1>3, SetTables DEF apply, Shaped
<1>5. Numbers' /\ Rest'
  BY DEF apply, Shaped, Numbers, Rest
<1>6. \A d : Call(d) => d \in Calls /\ d.id <= lastId' /\ Fits(d.name, d.value)
  BY DEF apply, Call
<1>7. todo' \in [Processes -> Seq(Calls)]
  BY <1>1, <1>2 DEF Shaped, Pending
<1>8. ASSUME NEW r \in Processes, NEW i \in DOMAIN todo'[r] PROVE Call(todo[r][i])'
  <2>1. \E j \in DOMAIN todo[r] : todo'[r][i] = todo[r][j]
    <3>1. CASE r = p
      <4>1. todo'[r] = Tail(todo[p])
        BY <1>1, <3>1 DEF Shaped, Pending
      <4> QED
        BY <1>2, <3>1, <4>1
    <3>2. CASE r # p
      <4>1. todo'[r] = todo[r]
        BY <1>1, <3>2 DEF Shaped, Pending
      <4> QED
        BY <4>1
    <3> QED
      BY <3>1, <3>2
  <2>2. Call(todo'[r][i])
    BY <2>1 DEF Shaped, Pending
  <2>3. todo'[r][i] \in Calls /\ todo'[r][i].id <= lastId' /\ Fits(todo'[r][i].name, todo'[r][i].value)
    BY <1>6, <2>2
  <2> QED
    BY <2>3 DEF Call
<1>9. Pending'
  BY <1>7, <1>8 DEF Pending
<1> QED
  BY <1>4, <1>5, <1>9 DEF Shaped

LEMMA SetLogrgerShaped ==
  ASSUME Shaped, NEW t \in Threads, setLogrger(t)
  PROVE  Shaped'
<1>1. PICK u \in UserCalls : u.key \in DOMAIN ids /\ Set(Setting(ids[u.key], u.name, u.value))
  BY DEF setLogrger
<1>2. Call(Setting(ids[u.key], u.name, u.value))
  BY <1>1, UserCallFits DEF Shaped
<1>3. Tables'
  BY <1>1, <1>2, SetTables DEF setLogrger, Shaped
<1>4. calls' \in [Processes -> Nat]
  <2>1. t \in Processes /\ calls \in [Processes -> Nat] /\ calls' = [calls EXCEPT ![t] = calls[t] + 1]
    BY DEF setLogrger, Counted, Shaped, Rest, Processes
  <2> QED
    BY ONLY <2>1
<1>5. Numbers' /\ Pending' /\ Rest'
  BY <1>4 DEF setLogrger, Shaped, Numbers, Pending, Call, Rest
<1> QED
  BY <1>3, <1>5 DEF Shaped

\* run() takes the first of the queue.
LEMMA PopLogrShaped ==
  ASSUME Shaped, popLogr
  PROVE  Shaped'
<1>1. logrs \in Seq(Calls) /\ logrs # <<>> /\ logrs' = Tail(logrs) /\ onHotChange(Head(logrs))
  BY DEF popLogr, Shaped, Tables
<1>2. /\ 1 \in DOMAIN logrs /\ Head(logrs) = logrs[1] /\ Tail(logrs) \in Seq(Calls)
      /\ \A i \in DOMAIN Tail(logrs) : i + 1 \in DOMAIN logrs /\ Tail(logrs)[i] = logrs[i + 1]
  BY ONLY <1>1, Queues
<1>3. Call(Head(logrs))
  BY <1>2 DEF Shaped, Tables
<1>4. info' \in [Ids -> Settings]
  BY <1>1, <1>3, Applies DEF onHotChange, Shaped, Tables
<1>5. Numbers' /\ Pending' /\ Rest' /\ wanted' = wanted /\ lastId' = lastId
  BY DEF popLogr, Shaped, Numbers, Pending, Call, Rest
<1>6. ASSUME NEW i \in DOMAIN logrs' PROVE Call(logrs[i])'
  <2>1. Call(logrs'[i])
    BY <1>1, <1>2 DEF Shaped, Tables
  <2> QED
    BY <1>5, <2>1 DEF Call
<1>7. Tables'
  BY <1>1, <1>2, <1>4, <1>5, <1>6 DEF Shaped, Tables
<1> QED
  BY <1>5, <1>7 DEF Shaped

LEMMA UpdateShaped ==
  ASSUME Shaped, NEW p \in Processes, updateConfig(p), UNCHANGED <<running, logrs, file>>
  PROVE  Numbers' /\ Tables' /\ Pending' /\ configFile' \in BOOLEAN /\ checksum' \in Nat /\ loaded' \in Contents \cup {NoFile}
<1>1. CASE file # NoFile /\ configFromStringImpl(p, file, TRUE)
  <2>1. file \in Contents
    BY <1>1 DEF Shaped, Rest
  <2> QED
    BY <1>1, <2>1, LoadShaped DEF updateConfig, Shaped, Rest
<1>2. CASE UNCHANGED <<checksum, loaded, ids, lastId, info, wanted, todo>>
  BY <1>2 DEF updateConfig, Shaped, Rest, Numbers, Tables, Pending, Call
<1> QED
  BY <1>1, <1>2 DEF updateConfig

LEMMA NextShaped ==
  ASSUME Shaped, [Next]_vars
  PROVE  Shaped'
<1>1. CASE createLogrger
  <2>1. PICK k \in Keys : createLogrgers({k})
    BY <1>1 DEF createLogrger
  <2>2. Grown({k})
    BY <2>1, NewIds DEF Shaped
  <2>3. Numbers' /\ Tables'
    BY <1>1, <2>2, NewLoggers DEF createLogrger
  <2>4. \A d : Call(d) => Call(d)'
    BY <2>2, SettingsAssumption DEF Call, Calls, Ids, Grown, Shaped, Numbers
  <2>5. Pending' /\ Rest'
    BY <1>1, <2>4 DEF createLogrger, Shaped, Pending, Rest
  <2> QED
    BY <2>3, <2>5 DEF Shaped
<1>2. CASE config
  <2>1. CASE file # NoFile /\ configFromStringImpl(Main, file, FALSE)
    <3>1. file \in Contents /\ Main \in Processes
      BY <2>1 DEF Shaped, Rest, Processes
    <3>2. Numbers' /\ Tables' /\ Pending' /\ checksum' \in Nat /\ loaded' \in Contents
      BY <1>2, <2>1, <3>1, LoadShaped DEF config
    <3> QED
      BY <1>2, <3>2 DEF config, Shaped, Rest
  <2>2. CASE UNCHANGED <<checksum, loaded, ids, lastId, info, wanted, todo>>
    BY <1>2, <2>2 DEF config, Shaped, Numbers, Tables, Pending, Call, Rest
  <2> QED
    BY <1>2, <2>1, <2>2 DEF config
<1>3. CASE configFromString
  <2>1. PICK c \in Contents : configFromStringImpl(Main, c, FALSE)
    BY <1>3 DEF configFromString
  <2>2. Numbers' /\ Tables' /\ Pending' /\ checksum' \in Nat /\ loaded' \in Contents
    BY <1>3, <2>1, LoadShaped DEF configFromString, Processes
  <2> QED
    BY <1>3, <2>2 DEF configFromString, Shaped, Rest
<1>4. CASE start \/ stop \/ drained \/ goRound \/ updated \/ edit \/ UNCHANGED vars
  <2>1. UNCHANGED <<ids, lastId, info, logrs, todo, calls, wanted, configFile, loaded, checksum>>
    BY <1>4 DEF start, stop, drained, goRound, updated, edit, vars
  <2>2. Numbers' /\ Tables' /\ Pending'
    BY <2>1 DEF Shaped, Numbers, Tables, Pending, Call
  <2>3. Rest'
    BY <1>4, <2>1 DEF start, stop, drained, goRound, updated, edit, vars, Shaped, Rest
  <2> QED
    BY <2>2, <2>3 DEF Shaped
<1>11. CASE quit
  <2>1. /\ UNCHANGED <<ids, lastId, logrs, todo, calls, wanted>>
        /\ info' = [id \in DOMAIN info |-> IF id <= lastId THEN [info[id] EXCEPT !.enable = FALSE] ELSE info[id]]
    BY <1>11 DEF quit
  <2>2. info' \in [Ids -> Settings]
    <3>1. info \in [Ids -> Settings] /\ \A d \in Ids : [info[d] EXCEPT !.enable = FALSE] \in Settings
      BY DEF Shaped, Tables, Settings
    <3> QED
      BY <2>1, <3>1
  <2>3. Numbers' /\ Tables' /\ Pending'
    BY <2>1, <2>2 DEF Shaped, Numbers, Tables, Pending, Call
  <2>4. Rest'
    BY <1>11 DEF quit, Shaped, Rest
  <2> QED
    BY <2>3, <2>4 DEF Shaped
<1>5. CASE popLogr
  BY <1>5, PopLogrShaped
<1>6. CASE autoUpdate
  <2>1. /\ Numbers' /\ Tables' /\ Pending'
        /\ configFile' \in BOOLEAN /\ checksum' \in Nat /\ loaded' \in Contents \cup {NoFile}
    BY <1>6, UpdateShaped DEF autoUpdate, Processes
  <2> QED
    BY <1>6, <2>1 DEF autoUpdate, Shaped, Rest
<1>7. ASSUME NEW p \in Processes, apply(p) PROVE Shaped'
  BY <1>7, ApplyShaped
<1>8. ASSUME NEW t \in Threads, setLogrger(t) PROVE Shaped'
  BY <1>8, SetLogrgerShaped
<1>9. ASSUME NEW t \in Threads, callUpdateConfig(t) PROVE Shaped'
  <2>1. t \in Processes
    BY DEF Processes
  <2>2. /\ Numbers' /\ Tables' /\ Pending'
        /\ configFile' \in BOOLEAN /\ checksum' \in Nat /\ loaded' \in Contents \cup {NoFile}
    BY <1>9, <2>1, UpdateShaped DEF callUpdateConfig
  <2>3. calls' \in [Processes -> Nat]
    <3>1. calls \in [Processes -> Nat] /\ calls' = [calls EXCEPT ![t] = calls[t] + 1]
      BY <1>9 DEF callUpdateConfig, Counted, Shaped, Rest
    <3> QED
      BY ONLY <2>1, <3>1
  <2> QED
    BY <1>9, <2>2, <2>3 DEF callUpdateConfig, Shaped, Rest
<1>10. Logger \in Processes
  BY DEF Processes
<1> QED
  BY <1>1, <1>2, <1>3, <1>4, <1>5, <1>6, <1>7, <1>8, <1>9, <1>10, <1>11 DEF Next, Runs, Over

LEMMA InitShaped == Init => Shaped
<1> SUFFICES ASSUME Init PROVE Shaped
  OBVIOUS
<1>1. MaxLogrgers \in Nat \ {0} /\ 0 \in Ids /\ 0 .. 0 = {0}
  BY SettingsAssumption DEF Ids
<1>2. Numbers
  <2>1. ids = [k \in {MainKey} |-> 0] /\ lastId = 0 /\ MainKey \in Keys
    BY SettingsAssumption DEF Init
  <2>2. DOMAIN ids = {MainKey} /\ ids[MainKey] = 0
    BY <2>1
  <2>3. Cardinality(DOMAIN ids) = 1
    BY <2>2, FS_Singleton
  <2>4. {ids[k] : k \in DOMAIN ids} = {0}
    BY <2>2
  <2>5. ids \in [DOMAIN ids -> Ids]
    BY <1>1, <2>1
  <2> QED
    BY <1>1, <2>1, <2>2, <2>3, <2>4, <2>5 DEF Numbers
<1>3. Tables
  <2>1. \A b \in BOOLEAN : [Default EXCEPT !.enable = b] \in Settings
    <3> DEFINE folder == "./logr/"
    <3>2. folder \in Paths
      BY SettingsAssumption DEF Default
    <3> HIDE DEF folder
    <3>3. Default = [enable |-> FALSE, path |-> folder, level |-> 1, outfile |-> TRUE, limitsize |-> 100]
      BY DEF Default, folder
    <3>1. Default \in Settings
      BY <3>2, <3>3 DEF Settings
    <3> QED
      BY <3>1 DEF Settings
  <2>2. info \in [Ids -> Settings]
    BY <2>1 DEF Init, Ids
  <2>3. logrs = <<>> /\ wanted = info
    BY DEF Init
  <2> QED
    BY <2>2, <2>3 DEF Tables
<1>4. Pending /\ Rest
  <2>1. <<>> \in Seq(Calls) /\ DOMAIN <<>> = {}
    OBVIOUS
  <2>2. todo = [p \in Processes |-> <<>>]
    BY DEF Init
  <2>3. \A p \in Processes : todo[p] = <<>>
    BY <2>2
  <2>4. todo \in [Processes -> Seq(Calls)]
    BY <2>1, <2>2
  <2>5. Pending
    BY <2>1, <2>3, <2>4 DEF Pending
  <2>6. Rest
    BY DEF Init, Rest
  <2> QED
    BY <2>5, <2>6
<1> QED
  BY <1>2, <1>3, <1>4 DEF Shaped

-----------------------------------------------------------------------------
(***************************************************************************)
(* Who does what when.                                                     *)
(***************************************************************************)
\* While run() is not there the settings are what was wanted.
LEMMA SetQueues ==
  ASSUME Shaped, NEW call, Set(call), Synchronous \/ ~running
  PROVE  logrs' = logrs /\ (wanted = info => wanted' = info')
<1> DEFINE s == Effective(call)
<1>1. Immediate(s)
  BY DEF Immediate
<1>2. CASE Accepted(s) /\ onHotChange(s) /\ UNCHANGED logrs
  BY <1>2 DEF onHotChange, Set
<1>3. CASE ~Accepted(s)
  BY <1>3 DEF Set
<1> QED
  BY <1>1, <1>2, <1>3 DEF Set

LEMMA NextPhases ==
  ASSUME Shaped, Phases, [Next]_vars
  PROVE  Phases'
<1> USE DEF Processes
<1>0. /\ Main \in Processes /\ Logger \in Processes /\ Main # Logger
      /\ \A t \in Threads : t # Main /\ t # Logger /\ t \in Processes
      /\ todo \in [Processes -> Seq(Calls)] /\ calls \in [Processes -> Nat]
      /\ Synchronous \in BOOLEAN /\ running \in BOOLEAN
  BY SettingsThreads, SettingsAssumption DEF Main, Logger, Shaped, Pending, Rest
<1> HIDE DEF Processes
<1> USE DEF Phases, Undisturbed
<1>1. CASE createLogrger
  <2>1. pc = "none" /\ pc' = "none" /\ UNCHANGED <<running, logrs, todo, calls>>
    BY <1>1 DEF createLogrger, Preparing
  <2>2. wanted' = info'
    <3>1. wanted = info
      BY <2>1
    <3> QED
      BY <1>1, <3>1 DEF createLogrger
  <2> QED
    BY <2>1, <2>2
<1>2. ASSUME Preparing, NEW c \in Contents, configFromStringImpl(Main, c, FALSE), UNCHANGED <<running, pc, logrs, calls>>
      PROVE  Phases'
  <2>1. pc = "none" /\ pc' = "none"
    BY <1>2 DEF Preparing
  <2>2. wanted' = info'
    <3>1. wanted = info
      BY <2>1
    <3> QED
      BY <1>2, <3>1 DEF configFromStringImpl
  <2>3. \A p \in Processes : p # Main => todo'[p] = todo[p]
    BY <1>0, <1>2 DEF configFromStringImpl
  <2> QED
    BY <1>0, <1>2, <2>1, <2>2, <2>3
<1>3. CASE config
  <2>1. CASE file # NoFile /\ configFromStringImpl(Main, file, FALSE)
    <3>1. file \in Contents
      BY <2>1 DEF Shaped, Rest
    <3> QED
      BY <1>2, <1>3, <2>1, <3>1 DEF config
  <2>2. CASE UNCHANGED <<checksum, loaded, ids, lastId, info, wanted, todo>>
    BY <1>3, <2>2 DEF config
  <2> QED
    BY <1>3, <2>1, <2>2 DEF config
<1>4. CASE configFromString
  BY <1>2, <1>4 DEF configFromString
<1>5. CASE start \/ stop \/ drained \/ quit \/ goRound \/ updated \/ edit \/ UNCHANGED vars
  <2>1. CASE start
    BY <1>0, <2>1 DEF start, Preparing
  <2>2. CASE stop
    BY <2>2 DEF stop
  <2>3. CASE drained
    BY <2>3 DEF drained
  <2>4. CASE quit
    BY <2>4 DEF quit
  <2>5. CASE goRound
    BY <2>5 DEF goRound
  <2>6. CASE updated
    BY <2>6 DEF updated
  <2>7. CASE edit \/ UNCHANGED vars
    BY <2>7 DEF edit, vars
  <2> QED
    BY <1>5, <2>1, <2>2, <2>3, <2>4, <2>5, <2>6, <2>7
<1>6. CASE popLogr
  <2>1. pc = "drain" /\ logrs # <<>> /\ UNCHANGED <<running, pc, todo, calls>>
    BY <1>6 DEF popLogr
  <2> QED
    BY <2>1
<1>7. CASE autoUpdate
  <2>1. pc = "sleep" /\ pc' = "update" /\ UNCHANGED <<running, logrs, calls>>
    BY <1>7 DEF autoUpdate
  <2>2. \A p \in Processes : p # Logger => todo'[p] = todo[p]
    BY <1>0, <1>7 DEF autoUpdate, updateConfig, configFromStringImpl
  <2> QED
    BY <1>0, <2>1, <2>2
<1>8. ASSUME NEW p \in Processes, apply(p) PROVE Phases'
  <2>1. UNCHANGED <<running, pc, calls>> /\ todo[p] # <<>> /\ todo' = [todo EXCEPT ![p] = Tail(todo[p])]
    BY <1>8 DEF apply
  <2>2. \A r \in Processes : todo'[r] # <<>> => todo[r] # <<>>
    BY <1>0, <2>1
  <2>3. Set(Head(todo[p]))
    BY <1>8 DEF apply
  <2>4. Synchronous \/ ~running => logrs' = logrs /\ (wanted = info => wanted' = info')
    BY <2>3, SetQueues
  <2>5. Undisturbed => pc \in {"none", "update"}
    <3>1. p \in Threads => calls[p] # 0
      BY <2>1
    <3>2. p = Main => pc = "none"
      BY <2>1
    <3>3. p = Logger => pc = "update"
      BY <2>1
    <3>4. p \in Threads \/ p = Main \/ p = Logger
      BY DEF Processes
    <3> QED
      BY <3>1, <3>2, <3>3, <3>4
  <2> QED
    BY <1>0, <2>1, <2>2, <2>4, <2>5
<1>9. ASSUME NEW t \in Threads, setLogrger(t) PROVE Phases'
  <2>1. pc # "none" /\ UNCHANGED <<running, pc, todo>> /\ calls' = [calls EXCEPT ![t] = calls[t] + 1]
    BY <1>9 DEF setLogrger, Idle, Counted
  <2>2. calls'[t] # 0 /\ \A r \in Threads : calls'[r] = 0 => calls[r] = 0
    BY <1>0, <2>1
  <2>3. Synchronous => logrs' = logrs
    BY <1>9, SetQueues DEF setLogrger
  <2> QED
    BY <2>1, <2>2, <2>3
<1>10. ASSUME NEW t \in Threads, callUpdateConfig(t) PROVE Phases'
  <2>1. pc # "none" /\ UNCHANGED <<running, pc, logrs>> /\ calls' = [calls EXCEPT ![t] = calls[t] + 1]
    BY <1>10 DEF callUpdateConfig, Idle, Counted
  <2>2. calls'[t] # 0 /\ \A r \in Threads : calls'[r] = 0 => calls[r] = 0
    BY <1>0, <2>1
  <2>3. \A p \in Processes : p # t => todo'[p] = todo[p]
    BY <1>0, <1>10 DEF callUpdateConfig, updateConfig, configFromStringImpl
  <2> QED
    BY <1>0, <2>1, <2>2, <2>3
<1> QED
  BY <1>0, <1>1, <1>3, <1>4, <1>5, <1>6, <1>7, <1>8, <1>9, <1>10 DEF Next, Runs, Over

-----------------------------------------------------------------------------
(***************************************************************************)
(* The queue keeps the order of the calls.                                 *)
(***************************************************************************)
\* A call that waits is behind the ones before it.
LEMMA SetFollows ==
  ASSUME Shaped, Phases, running, NEW call, Call(call), Set(call), UNCHANGED <<ids, lastId, running>>,
         NEW id \in 0 .. lastId, NEW name \in Names, Waits(id, name) => Follows(id, name), Waits(id, name)'
  PROVE  Follows(id, name)'
<1> DEFINE s == Effective(call)
<1>1. Call(s) /\ s \in Calls
  BY EffectiveCall DEF Call
<1>2. s.id \in Ids /\ s.name \in Names /\ id \in Ids /\ name \in Names
  BY <1>1, SettingsAssumption DEF Calls, Ids, Shaped, Numbers
<1>3. info \in [Ids -> Settings] /\ wanted \in [Ids -> Settings] /\ logrs \in Seq(Calls)
  BY DEF Shaped, Tables
<1>4. \A i \in Ids : DOMAIN info[i] = Names /\ DOMAIN wanted[i] = Names
  BY <1>3, NamesAre DEF Settings
<1> HIDE DEF s
<1>9. wanted'[id][name] = wanted[id][name] => Follows(id, name)
  BY DEF Waits
<1>5. CASE ~Accepted(s)
  BY <1>5, <1>9 DEF Set, s, Follows
<1>6. CASE Accepted(s) /\ Immediate(s) /\ onHotChange(s) /\ UNCHANGED logrs
  <2>1. wanted' = [wanted EXCEPT ![s.id][s.name] = s.value]
    BY <1>6 DEF Set, s
  <2>2. info' = [info EXCEPT ![s.id][s.name] = s.value]
    BY <1>6 DEF onHotChange
  <2>3. CASE s.id = id /\ s.name = name
    <3>3. info'[id][name] = s.value /\ wanted'[id][name] = s.value
      BY <1>2, <1>3, <1>4, <2>1, <2>2, <2>3
    <3>1. Synchronous
      BY <1>6, <2>3, <3>3 DEF Immediate, Waits
    <3>2. logrs = <<>>
      BY <3>1 DEF Phases
    <3> QED
      BY <1>6, <3>2, <3>3 DEF Follows
  <2>4. CASE ~ (s.id = id /\ s.name = name)
    <3>1. info'[id][name] = info[id][name] /\ wanted'[id][name] = wanted[id][name]
      BY <1>2, <1>3, <1>4, <2>1, <2>2, <2>4
    <3> QED
      BY <1>6, <1>9, <3>1 DEF Follows
  <2> QED
    BY <2>3, <2>4
<1>7. CASE Accepted(s) /\ logrs' = Append(logrs, s) /\ UNCHANGED info
  <2>1. wanted' = [wanted EXCEPT ![s.id][s.name] = s.value]
    BY <1>7 DEF Set, s
  <2> DEFINE q == Append(logrs, s)
  <2>2. /\ \A i \in DOMAIN logrs : i \in DOMAIN q /\ q[i] = logrs[i]
        /\ \A i \in DOMAIN q : i \in DOMAIN logrs \/ q[i] = s
        /\ \E i \in DOMAIN q : q[i] = s /\ \A j \in DOMAIN q : j <= i
    BY ONLY <1>1, <1>3, Appended
  <2>3. logrs' = q
    BY <1>7
  <2> HIDE DEF q
  <2>4. CASE s.id = id /\ s.name = name
    <3>1. wanted'[id][name] = s.value
      BY <1>2, <1>3, <1>4, <2>1, <2>4
    <3> QED
      BY <2>2, <2>3, <2>4, <3>1 DEF Follows
  <2>5. CASE ~ (s.id = id /\ s.name = name)
    <3>1. wanted'[id][name] = wanted[id][name]
      BY <1>2, <1>3, <1>4, <2>1, <2>5
    <3> QED
      BY <1>7, <1>9, <2>2, <2>3, <2>5, <3>1 DEF Follows
  <2> QED
    BY <2>4, <2>5
<1> QED
  BY <1>5, <1>6, <1>7 DEF Set, s

\* The first of the queue takes effect, and the last call stays the last.
LEMMA PopFollows ==
  ASSUME Shaped, popLogr, NEW id \in 0 .. lastId, NEW name \in Names, Follows(id, name)
  PROVE  Follows(id, name)'
<1> DEFINE s == Head(logrs)
<1>1. logrs \in Seq(Calls) /\ logrs # <<>> /\ logrs' = Tail(logrs) /\ info' = [info EXCEPT ![s.id][s.name] = s.value]
  BY DEF popLogr, onHotChange, Shaped, Tables
<1>2. /\ s \in Calls /\ s = logrs[1] /\ 1 \in DOMAIN logrs
      /\ \A i \in DOMAIN logrs' : i + 1 \in DOMAIN logrs /\ logrs'[i] = logrs[i + 1]
      /\ \A i \in DOMAIN logrs : i # 1 => i - 1 \in DOMAIN logrs' /\ logrs'[i - 1] = logrs[i]
      /\ DOMAIN logrs \subseteq Nat /\ DOMAIN logrs' \subseteq Nat
  BY <1>1, Queues
<1>3. wanted' = wanted
  BY DEF popLogr
<1>4. s.id \in Ids /\ s.name \in Names /\ id \in Ids /\ name \in Names
  BY <1>2, SettingsAssumption DEF Calls, Ids, Shaped, Numbers
<1>5. info \in [Ids -> Settings] /\ \A i \in Ids : DOMAIN info[i] = Names
  BY NamesAre DEF Settings, Shaped, Tables
<1> DEFINE mine(i) == logrs[i].id = id /\ logrs[i].name = name
<1> HIDE DEF s
<1>6. CASE \A i \in DOMAIN logrs : ~mine(i)
  <2>1. info[id][name] = wanted[id][name]
    BY <1>6 DEF Follows
  <2>2. info'[id][name] = info[id][name]
    BY <1>1, <1>2, <1>4, <1>5, <1>6
  <2>3. \A i \in DOMAIN logrs' : ~ (logrs'[i].id = id /\ logrs'[i].name = name)
    BY <1>2, <1>6
  <2> QED
    BY <1>3, <2>1, <2>2, <2>3 DEF Follows
<1>7. CASE \E m \in DOMAIN logrs : mine(m)
  <2>1. PICK m \in DOMAIN logrs : /\ mine(m) /\ logrs[m].value = wanted[id][name]
                                  /\ \A i \in DOMAIN logrs : mine(i) => i <= m
    BY <1>7 DEF Follows
  <2>2. CASE m = 1
    <3>1. info'[id][name] = wanted[id][name]
      BY <1>1, <1>2, <1>4, <1>5, <2>1, <2>2
    <3>2. ASSUME NEW i \in DOMAIN logrs' PROVE ~ (logrs'[i].id = id /\ logrs'[i].name = name)
      <4>1. i + 1 \in DOMAIN logrs /\ logrs'[i] = logrs[i + 1] /\ i \in Nat
        BY <1>2
      <4>2. i # 0
        <5>1. DOMAIN logrs' = 1 .. Len(logrs') /\ Len(logrs') \in Nat
          BY <1>1
        <5> QED
          BY <5>1
      <4>3. ~ (i + 1 <= 1)
        BY <4>1, <4>2
      <4> QED
        BY <2>1, <2>2, <4>1, <4>3
    <3> QED
      BY <1>3, <3>1, <3>2 DEF Follows
  <2>3. CASE m # 1
    <3>1. m - 1 \in DOMAIN logrs' /\ logrs'[m - 1] = logrs[m] /\ m \in Nat
      BY <1>2, <2>3
    <3>2. ASSUME NEW i \in DOMAIN logrs', logrs'[i].id = id, logrs'[i].name = name PROVE i <= m - 1
      <4>1. i + 1 \in DOMAIN logrs /\ logrs'[i] = logrs[i + 1] /\ i \in Nat
        BY <1>2
      <4>2. i + 1 <= m
        BY <2>1, <3>2, <4>1
      <4> QED
        BY <3>1, <4>1, <4>2
    <3> QED
      BY <1>3, <2>1, <3>1, <3>2 DEF Follows
  <2> QED
    BY <2>2, <2>3
<1> QED
  BY <1>6, <1>7

LEMMA NextQueued ==
  ASSUME Shaped, Phases, Queued, [Next]_vars
  PROVE  Queued'
<1> SUFFICES ASSUME running', NEW id \in 0 .. lastId', NEW name \in Names, Waits(id, name)'
             PROVE  Follows(id, name)'
  BY DEF Queued
<1>1. running => \A d \in 0 .. lastId, n \in Names : Waits(d, n) => Follows(d, n)
  BY DEF Queued
<1>2. CASE createLogrger \/ config \/ configFromString
  <2>1. pc = "none" /\ running' = running
    BY <1>2 DEF createLogrger, config, configFromString, Preparing
  <2> QED
    BY <2>1 DEF Phases
<1>3. CASE start
  <2>1. logrs = <<>> /\ info = wanted /\ UNCHANGED <<info, wanted, logrs>>
    BY <1>3 DEF start, Preparing, Phases
  <2> QED
    BY <2>1 DEF Follows
<1>4. CASE stop \/ quit
  BY <1>4 DEF stop, quit
<1>5. CASE popLogr
  <2>1. running /\ lastId' = lastId /\ wanted' = wanted
    BY <1>5 DEF popLogr
  <2>2. Waits(id, name)
    BY <2>1 DEF Waits
  <2> QED
    BY <1>1, <1>5, <2>1, <2>2, PopFollows
<1>6. CASE drained \/ goRound \/ updated \/ edit \/ UNCHANGED vars
  <2>1. UNCHANGED <<running, lastId, info, wanted, logrs>>
    BY <1>6 DEF drained, goRound, updated, edit, vars
  <2> QED
    BY <1>1, <2>1 DEF Follows, Waits
<1>7. ASSUME NEW p \in Processes, apply(p) PROVE Follows(id, name)'
  <2>1. todo[p] \in Seq(Calls) /\ todo[p] # <<>>
    BY <1>7 DEF apply, Shaped, Pending
  <2>2. Call(Head(todo[p]))
    <3>1. 1 \in DOMAIN todo[p] /\ Head(todo[p]) = todo[p][1]
      BY ONLY <2>1, Queues
    <3> QED
      BY <3>1 DEF Shaped, Pending
  <2>3. Set(Head(todo[p])) /\ UNCHANGED <<ids, lastId, running>>
    BY <1>7 DEF apply
  <2> QED
    BY <1>1, <2>2, <2>3, SetFollows
<1>8. ASSUME NEW t \in Threads, setLogrger(t) PROVE Follows(id, name)'
  <2>1. PICK u \in UserCalls : u.key \in DOMAIN ids /\ Set(Setting(ids[u.key], u.name, u.value))
    BY <1>8 DEF setLogrger
  <2>2. Call(Setting(ids[u.key], u.name, u.value))
    BY <2>1, UserCallFits DEF Shaped
  <2>3. UNCHANGED <<ids, lastId, running>>
    BY <1>8 DEF setLogrger
  <2> QED
    BY <1>1, <2>1, <2>2, <2>3, SetFollows
<1>9. ASSUME NEW p \in Processes, updateConfig(p), UNCHANGED <<running, logrs>> PROVE Follows(id, name)'
  <2>1. lastId' = lastId
    BY <1>9 DEF updateConfig, configFromStringImpl
  <2>2. SwitchedOn(info) = info /\ SwitchedOn(wanted) = wanted
    <3>1. lastId \in Nat
      BY SettingsAssumption DEF Shaped, Numbers
    <3>2. \A d \in Ids : ~ (d > lastId /\ d <= lastId')
      BY <2>1, <3>1 DEF Ids
    <3> QED
      BY <3>2 DEF SwitchedOn, Shaped, Tables
  <2>3. info' = info /\ wanted' = wanted
    BY <1>9, <2>2 DEF updateConfig, configFromStringImpl
  <2> QED
    BY <1>1, <1>9, <2>1, <2>3 DEF Follows, Waits
<1>10. CASE autoUpdate
  BY <1>9, <1>10 DEF autoUpdate, Processes
<1>11. ASSUME NEW t \in Threads, callUpdateConfig(t) PROVE Follows(id, name)'
  BY <1>9, <1>11 DEF callUpdateConfig, Processes
<1>12. Logger \in Processes
  BY DEF Processes
<1> QED
  BY <1>2, <1>3, <1>4, <1>5, <1>6, <1>7, <1>8, <1>10, <1>11, <1>12 DEF Next, Runs, Over

-----------------------------------------------------------------------------
(***************************************************************************)
(* What is on its way, and what has arrived, is all from one file.         *)
(***************************************************************************)
\* What waits for a process is said by the file; so is what is in the queue.
TodoFromFile ==
  \A p \in Processes : \A i \in DOMAIN todo[p] :
    \A k \in Known, name \in Names : About(todo[p][i], k, name) => todo[p][i] = Said(k, name)

LogrsFromFile ==
  \A i \in DOMAIN logrs :
    \A k \in Known, name \in Names : About(logrs[i], k, name) => logrs[i] = Effective(Said(k, name))

\* What the file says is not lost, but for what the end of run() undoes.
Kept(k, name) ==
  \/ ~Accepted(Effective(Said(k, name)))
  \/ info[ids[k]][name] = InTheEnd(Effective(Said(k, name)))
  \/ \E i \in DOMAIN logrs : About(logrs[i], k, name)
  \/ \E p \in Processes : \E i \in DOMAIN todo[p] : About(todo[p][i], k, name)

\* Before start the file's loggers are there, or there is no room.
Room == pc = "none" => DOMAIN Says[loaded] \subseteq DOMAIN ids \/ lastId = MaxLogrgers - 1

FromFile ==
  Undisturbed /\ loaded # NoFile =>
    TodoFromFile /\ LogrsFromFile /\ (\A k \in Known, name \in Names : Kept(k, name)) /\ Room

\* What is said of a logger is a call for it.
LEMMA SaidCalls ==
  ASSUME Shaped, loaded # NoFile, NEW k \in Known, NEW name \in Names
  PROVE  /\ Call(Said(k, name)) /\ Said(k, name).id = ids[k] /\ Said(k, name).name = name
         /\ ids[k] \in Ids /\ ids[k] <= lastId
<1>1. loaded \in Contents
  BY DEF Shaped, Rest
<1>2. k \in DOMAIN ids /\ k \in DOMAIN Says[loaded] /\ Says[loaded][k] \in Settings
  BY <1>1, SettingsAssumption DEF Known
<1>3. ids[k] \in Ids /\ ids[k] <= lastId
  BY <1>2, SettingsAssumption DEF Shaped, Numbers
<1>4. Fits(name, Says[loaded][k][name]) /\ Says[loaded][k][name] \in BOOLEAN \cup Paths \cup Nat
  BY <1>2, SettingFits
<1> QED
  BY <1>3, <1>4 DEF Said, Setting, Call, Calls

\* An action of run() or of main that leaves the file's calls alone.
LEMMA LeftAlone ==
  ASSUME FromFile, UNCHANGED <<ids, lastId, info, logrs, todo, calls, loaded>>, pc' = "none" => pc = "none",
         pc' = "ended" <=> pc = "ended"
  PROVE  FromFile'
<1> SUFFICES ASSUME Undisturbed, loaded # NoFile
             PROVE  TodoFromFile' /\ LogrsFromFile' /\ (\A k \in Known, name \in Names : Kept(k, name))' /\ Room'
  BY DEF FromFile, Undisturbed
<1>1. TodoFromFile /\ LogrsFromFile /\ (\A k \in Known, name \in Names : Kept(k, name)) /\ Room
  BY DEF FromFile
<1>2. TodoFromFile' /\ LogrsFromFile' /\ Room' /\ Known' = Known
  BY <1>1 DEF TodoFromFile, LogrsFromFile, Room, Known, About, Said
<1>3. ASSUME NEW k \in Known, NEW name \in Names PROVE Kept(k, name)'
  <2>1. InTheEnd(Effective(Said(k, name)))' = InTheEnd(Effective(Said(k, name)))
    BY DEF InTheEnd, Said, Effective, Setting
  <2>2. Accepted(Effective(Said(k, name)))' = Accepted(Effective(Said(k, name)))
    BY DEF Said
  <2> HIDE DEF InTheEnd
  <2> QED
    BY <1>1, <2>1, <2>2 DEF Kept, About
<1> QED
  BY <1>2, <1>3

\* While a process has something to do for a file, run() is there.
LEMMA NotEnded ==
  ASSUME Phases, Undisturbed, NEW p \in Processes, todo[p] # <<>>
  PROVE  pc # "ended"
BY DEF Phases, Undisturbed, Processes

\* run() ends when nothing is on its way, and switches off.
LEMMA QuitFromFile ==
  ASSUME Shaped, Phases, FromFile, quit
  PROVE  FromFile'
<1> SUFFICES ASSUME Undisturbed, loaded # NoFile
             PROVE  TodoFromFile' /\ LogrsFromFile' /\ (\A k \in Known, name \in Names : Kept(k, name))' /\ Room'
  BY DEF FromFile, Undisturbed, quit
<1>1. TodoFromFile /\ LogrsFromFile /\ (\A k \in Known, name \in Names : Kept(k, name))
  BY DEF FromFile
<1>2. /\ pc = "sleep" /\ pc' = "ended" /\ logrs = <<>> /\ UNCHANGED <<ids, lastId, logrs, todo, calls, loaded>>
      /\ info' = [id \in DOMAIN info |-> IF id <= lastId THEN [info[id] EXCEPT !.enable = FALSE] ELSE info[id]]
  BY DEF quit
<1>3. \A p \in Processes : todo[p] = <<>>
  BY <1>2 DEF Phases, Undisturbed, Processes
<1>4. DOMAIN <<>> = {}
  OBVIOUS
<1>5. TodoFromFile' /\ LogrsFromFile' /\ Room' /\ Known' = Known
  BY <1>1, <1>2 DEF TodoFromFile, LogrsFromFile, Room, Known, About, Said
<1>6. ASSUME NEW k \in Known, NEW name \in Names PROVE Kept(k, name)'
  <2>1. ids[k] \in Ids /\ ids[k] <= lastId /\ Said(k, name).name = name
    BY SaidCalls
  <2>2. info \in [Ids -> Settings] /\ DOMAIN info[ids[k]] = Names /\ "enable" \in Names
    BY <2>1, NamesAre DEF Shaped, Tables, Settings
  <2>3. info'[ids[k]] = [info[ids[k]] EXCEPT !.enable = FALSE]
    BY <1>2, <2>1, <2>2
  <2>4. Effective(Said(k, name)).name = name
    BY <2>1 DEF Effective, Said, Setting
  <2>5. \/ ~Accepted(Effective(Said(k, name)))
        \/ info[ids[k]][name] = Effective(Said(k, name)).value
    BY <1>1, <1>2, <1>3, <1>4 DEF Kept, InTheEnd
  <2>6. CASE name = "enable"
    <3>1. info'[ids[k]][name] = FALSE
      BY <2>2, <2>3, <2>6
    <3> QED
      BY <1>2, <2>4, <2>6, <3>1 DEF Kept, InTheEnd, Said
  <2>7. CASE name # "enable"
    <3>1. info'[ids[k]][name] = info[ids[k]][name]
      BY <2>2, <2>3, <2>7
    <3> QED
      BY <1>2, <2>4, <2>5, <2>7, <3>1 DEF Kept, InTheEnd, Said
  <2> QED
    BY <2>6, <2>7
<1> QED
  BY <1>5, <1>6

\* The first of the calls that wait for a process.
LEMMA ApplyFromFile ==
  ASSUME Shaped, Phases, FromFile, NEW p \in Processes, apply(p)
  PROVE  FromFile'
<1> SUFFICES ASSUME Undisturbed, loaded # NoFile
             PROVE  TodoFromFile' /\ LogrsFromFile' /\ (\A k \in Known, name \in Names : Kept(k, name))' /\ Room'
  BY DEF FromFile, Undisturbed, apply
<1>0. pc # "ended" /\ \A d : InTheEnd(d) = d.value
  <2>1. pc # "ended"
    BY NotEnded DEF apply
  <2> QED
    BY <2>1 DEF InTheEnd
<1> DEFINE call == Head(todo[p])
           s == Effective(call)
           rest == Tail(todo[p])
<1>1. TodoFromFile /\ LogrsFromFile /\ (\A k \in Known, name \in Names : Kept(k, name)) /\ Room
  BY DEF FromFile
<1>2. todo \in [Processes -> Seq(Calls)] /\ todo[p] \in Seq(Calls) /\ todo[p] # <<>>
  BY DEF apply, Shaped, Pending
<1>3. /\ call = todo[p][1] /\ 1 \in DOMAIN todo[p]
      /\ \A i \in DOMAIN rest : i + 1 \in DOMAIN todo[p] /\ rest[i] = todo[p][i + 1]
      /\ \A i \in DOMAIN todo[p] : i # 1 => i - 1 \in DOMAIN rest /\ rest[i - 1] = todo[p][i]
  BY ONLY <1>2, Queues
<1>4. /\ todo' = [todo EXCEPT ![p] = rest]
      /\ Set(call)
      /\ UNCHANGED <<running, pc, ids, lastId, calls, loaded>>
  BY DEF apply
<1>5. Call(call)
  BY <1>3 DEF Shaped, Pending
<1>6. Call(s) /\ s \in Calls /\ s.id = call.id /\ s.name = call.name
  BY <1>5, EffectiveCall DEF Call
<1> HIDE DEF call, rest
<1>7. \A k \in Known, name \in Names : About(s, k, name) => call = Said(k, name)
  <2> SUFFICES ASSUME NEW k \in Known, NEW name \in Names, About(s, k, name) PROVE call = Said(k, name)
    OBVIOUS
  <2>1. About(todo[p][1], k, name)
    BY <1>3, <1>6 DEF About
  <2> QED
    BY <1>1, <1>3, <2>1 DEF TodoFromFile
<1>8. \A k \in Known, name \in Names : About(s, k, name) => s = Effective(Said(k, name))
  BY <1>7
<1> HIDE DEF s
<1>9. todo'[p] = rest /\ \A r \in Processes : r # p => todo'[r] = todo[r]
  BY <1>2, <1>4
<1>10. Known' = Known /\ \A k, name : Said(k, name)' = Said(k, name) /\ \A d : About(d, k, name)' = About(d, k, name)
  BY <1>4 DEF Known, Said, About
<1>11. TodoFromFile'
  <2>1. ASSUME NEW r \in Processes, NEW i \in DOMAIN todo'[r] PROVE \E j \in DOMAIN todo[r] : todo'[r][i] = todo[r][j]
    BY <1>3, <1>9
  <2>2. \A r \in Processes : \A i \in DOMAIN todo'[r] : \A k \in Known, name \in Names :
          todo'[r][i].id = ids[k] /\ todo'[r][i].name = name => todo'[r][i] = Said(k, name)
    BY <1>1, <2>1 DEF TodoFromFile, About
  <2> QED
    BY <1>4, <2>2 DEF TodoFromFile, About, Known, Said
<1>12. ASSUME NEW k \in Known, NEW name \in Names, ~About(s, k, name),
              \E r \in Processes : \E i \in DOMAIN todo[r] : About(todo[r][i], k, name)
       PROVE  Kept(k, name)'
  <2>1. PICK r \in Processes : \E i \in DOMAIN todo[r] : About(todo[r][i], k, name)
    BY <1>12
  <2>2. PICK i \in DOMAIN todo[r] : About(todo[r][i], k, name)
    BY <2>1
  <2>3. r = p => i # 1
    BY <1>3, <1>6, <1>12, <2>2 DEF About
  <2>4. \E j \in DOMAIN todo'[r] : todo'[r][j] = todo[r][i]
    BY <1>3, <1>9, <2>3
  <2> QED
    BY <1>4, <2>2, <2>4 DEF Kept, About
<1>13. CASE Accepted(s) /\ onHotChange(s) /\ UNCHANGED logrs
  <2>1. info' = [info EXCEPT ![s.id][s.name] = s.value]
    BY <1>13 DEF onHotChange
  <2>2. LogrsFromFile'
    BY <1>1, <1>4, <1>13 DEF LogrsFromFile, About, Known, Said
  <2>3. ASSUME NEW k \in Known, NEW name \in Names PROVE Kept(k, name)'
    <3>1. ids[k] \in Ids
      BY SaidCalls
    <3>2. info \in [Ids -> Settings] /\ DOMAIN info[ids[k]] = Names
      BY <3>1, NamesAre DEF Shaped, Tables, Settings
    <3>3. CASE About(s, k, name)
      <4>1. info'[ids[k]][name] = s.value
        BY <2>1, <3>1, <3>2, <3>3 DEF About
      <4>2. s.value = InTheEnd(Effective(Said(k, name)))
        BY <1>0, <1>8, <3>3
      <4>3. InTheEnd(Effective(Said(k, name)))' = InTheEnd(Effective(Said(k, name)))
        BY <1>4 DEF InTheEnd, Said
      <4> QED
        BY <1>4, <4>1, <4>2, <4>3 DEF Kept
    <3>4. CASE ~About(s, k, name)
      <4>1. info'[ids[k]][name] = info[ids[k]][name]
        BY <1>6, <2>1, <3>1, <3>2, <3>4 DEF About, Calls
      <4>2. CASE \E r \in Processes : \E i \in DOMAIN todo[r] : About(todo[r][i], k, name)
        BY <1>12, <3>4, <4>2
      <4>3. CASE \E i \in DOMAIN logrs : About(logrs[i], k, name)
        BY <1>4, <1>13, <4>3 DEF Kept, About
      <4>4. CASE info[ids[k]][name] = InTheEnd(Effective(Said(k, name))) \/ ~Accepted(Effective(Said(k, name)))
        BY <1>4, <4>1, <4>4 DEF Kept, InTheEnd, Said
      <4> QED
        BY <1>1, <4>2, <4>3, <4>4 DEF Kept
    <3> QED
      BY <3>3, <3>4
  <2> QED
    BY <1>1, <1>4, <1>10, <1>11, <2>2, <2>3 DEF Room
<1>14. CASE Accepted(s) /\ logrs' = Append(logrs, s) /\ UNCHANGED info
  <2> DEFINE q == Append(logrs, s)
  <2>1. logrs \in Seq(Calls)
    BY DEF Shaped, Tables
  <2>2. /\ \A i \in DOMAIN logrs : i \in DOMAIN q /\ q[i] = logrs[i]
        /\ \A i \in DOMAIN q : i \in DOMAIN logrs \/ q[i] = s
        /\ \E i \in DOMAIN q : q[i] = s
    BY ONLY <1>6, <2>1, Appended
  <2>3. logrs' = q
    BY <1>14
  <2> HIDE DEF q
  <2>4. LogrsFromFile'
    <3>1. \A i \in DOMAIN q : \A k \in Known, name \in Names : About(q[i], k, name) => q[i] = Effective(Said(k, name))
      BY <1>1, <1>8, <2>2 DEF LogrsFromFile
    <3> QED
      BY <1>4, <2>3, <3>1 DEF LogrsFromFile, About, Known, Said
  <2>5. ASSUME NEW k \in Known, NEW name \in Names PROVE Kept(k, name)'
    <3>1. CASE About(s, k, name)
      BY <1>4, <2>2, <2>3, <3>1 DEF Kept, About
    <3>2. CASE ~About(s, k, name)
      <4>2. CASE \E r \in Processes : \E i \in DOMAIN todo[r] : About(todo[r][i], k, name)
        BY <1>12, <3>2, <4>2
      <4>3. CASE \E i \in DOMAIN logrs : About(logrs[i], k, name)
        BY <1>4, <2>2, <2>3, <4>3 DEF Kept, About
      <4>4. CASE info[ids[k]][name] = InTheEnd(Effective(Said(k, name))) \/ ~Accepted(Effective(Said(k, name)))
        BY <1>4, <1>14, <4>4 DEF Kept, InTheEnd, Said
      <4> QED
        BY <1>1, <4>2, <4>3, <4>4 DEF Kept
    <3> QED
      BY <3>1, <3>2
  <2> QED
    BY <1>1, <1>4, <1>10, <1>11, <2>4, <2>5 DEF Room
<1>15. CASE ~Accepted(s) /\ UNCHANGED <<info, logrs>>
  <2>1. LogrsFromFile'
    BY <1>1, <1>4, <1>15 DEF LogrsFromFile, About, Known, Said
  <2>2. ASSUME NEW k \in Known, NEW name \in Names PROVE Kept(k, name)'
    <3>1. CASE About(s, k, name)
      BY <1>4, <1>8, <1>15, <3>1 DEF Kept, Said
    <3>2. CASE ~About(s, k, name)
      <4>2. CASE \E r \in Processes : \E i \in DOMAIN todo[r] : About(todo[r][i], k, name)
        BY <1>12, <3>2, <4>2
      <4>3. CASE \E i \in DOMAIN logrs : About(logrs[i], k, name)
        BY <1>4, <1>15, <4>3 DEF Kept, About
      <4>4. CASE info[ids[k]][name] = InTheEnd(Effective(Said(k, name))) \/ ~Accepted(Effective(Said(k, name)))
        BY <1>4, <1>15, <4>4 DEF Kept, InTheEnd, Said
      <4> QED
        BY <1>1, <4>2, <4>3, <4>4 DEF Kept
    <3> QED
      BY <3>1, <3>2
  <2> QED
    BY <1>1, <1>4, <1>10, <1>11, <2>1, <2>2 DEF Room
<1> QED
  BY <1>4, <1>13, <1>14, <1>15 DEF Set, s

\* run() takes the first of the queue.
LEMMA PopFromFile ==
  ASSUME Shaped, FromFile, popLogr
  PROVE  FromFile'
<1> SUFFICES ASSUME Undisturbed, loaded # NoFile
             PROVE  TodoFromFile' /\ LogrsFromFile' /\ (\A k \in Known, name \in Names : Kept(k, name))' /\ Room'
  BY DEF FromFile, Undisturbed, popLogr
<1> DEFINE s == Head(logrs)
<1>1. TodoFromFile /\ LogrsFromFile /\ (\A k \in Known, name \in Names : Kept(k, name)) /\ Room
  BY DEF FromFile
<1>2. logrs \in Seq(Calls) /\ logrs # <<>> /\ logrs' = Tail(logrs) /\ info' = [info EXCEPT ![s.id][s.name] = s.value]
  BY DEF popLogr, onHotChange, Shaped, Tables
<1>3. /\ s \in Calls /\ s = logrs[1] /\ 1 \in DOMAIN logrs
      /\ \A i \in DOMAIN logrs' : i + 1 \in DOMAIN logrs /\ logrs'[i] = logrs[i + 1]
      /\ \A i \in DOMAIN logrs : i # 1 => i - 1 \in DOMAIN logrs' /\ logrs'[i - 1] = logrs[i]
  BY <1>2, Queues
<1> HIDE DEF s
<1>4. UNCHANGED <<running, pc, ids, lastId, calls, loaded, todo>> /\ pc = "drain"
  BY DEF popLogr
<1>5. TodoFromFile' /\ Room' /\ Known' = Known
  BY <1>1, <1>4 DEF TodoFromFile, Room, Known, About, Said
<1>6. LogrsFromFile'
  <2>1. \A i \in DOMAIN logrs' : \A k \in Known, name \in Names : About(logrs'[i], k, name) => logrs'[i] = Effective(Said(k, name))
    BY <1>1, <1>3 DEF LogrsFromFile
  <2> QED
    BY <1>4, <2>1 DEF LogrsFromFile, About, Known, Said
<1>7. ASSUME NEW k \in Known, NEW name \in Names PROVE Kept(k, name)'
  <2>1. ids[k] \in Ids
    BY SaidCalls
  <2>2. info \in [Ids -> Settings] /\ DOMAIN info[ids[k]] = Names
    BY <2>1, NamesAre DEF Shaped, Tables, Settings
  <2>3. CASE About(s, k, name)
    <3>1. s = Effective(Said(k, name))
      BY <1>1, <1>3, <2>3 DEF LogrsFromFile
    <3>2. info'[ids[k]][name] = s.value
      BY <1>2, <2>1, <2>2, <2>3 DEF About
    <3> QED
      BY <1>4, <3>1, <3>2 DEF Kept, InTheEnd, Said
  <2>4. CASE ~About(s, k, name)
    <3>1. info'[ids[k]][name] = info[ids[k]][name]
      BY <1>2, <1>3, <2>1, <2>2, <2>4 DEF About, Calls
    <3>2. CASE \E i \in DOMAIN logrs : About(logrs[i], k, name)
      <4>1. PICK i \in DOMAIN logrs : About(logrs[i], k, name)
        BY <3>2
      <4>2. i # 1
        BY <1>3, <2>4, <4>1
      <4>3. i - 1 \in DOMAIN logrs' /\ About(logrs'[i - 1], k, name)
        BY <1>3, <4>1, <4>2
      <4> QED
        BY <1>4, <4>3 DEF Kept, About
    <3>3. CASE \E r \in Processes : \E i \in DOMAIN todo[r] : About(todo[r][i], k, name)
      BY <1>4, <3>3 DEF Kept, About
    <3>4. CASE info[ids[k]][name] = InTheEnd(Effective(Said(k, name))) \/ ~Accepted(Effective(Said(k, name)))
      BY <1>4, <3>1, <3>4 DEF Kept, InTheEnd, Said
    <3> QED
      BY <1>1, <3>2, <3>3, <3>4 DEF Kept
  <2> QED
    BY <2>3, <2>4
<1> QED
  BY <1>5, <1>6, <1>7

\* A new file is read when all of the last has been done.
LEMMA LoadFromFile ==
  ASSUME Shaped, NEW p \in Processes, NEW c \in Contents, NEW isUpdate, configFromStringImpl(p, c, isUpdate),
         UNCHANGED <<logrs, calls>>, logrs = <<>>, \A r \in Processes : todo[r] = <<>>,
         isUpdate => pc' # "none"
  PROVE  FromFile'
<1> DEFINE q == SetsOfAll(ids', Says[c])
           mine(k, name) == Setting(ids'[k], name, Says[c][k][name])
           known == DOMAIN Says[c] \cap DOMAIN ids'
<1>1. todo' = [todo EXCEPT ![p] = q] /\ loaded' = c
  BY DEF configFromStringImpl
<1>2. Numbers'
  BY LoadShaped
<1> HIDE DEF q
<1>3. /\ q \in Seq(Calls)
      /\ \A i \in DOMAIN q : \E k \in known, name \in Names : q[i] = mine(k, name)
      /\ \A k \in known, name \in Names : \E i \in DOMAIN q : q[i] = mine(k, name)
  <2>1. q = SetsOfAll(ids', Says[c])
    BY DEF q
  <2>2. q \in Seq(Calls) /\ AllSaid(q, ids', Says[c])
    BY <1>2, <2>1, LoadedCalls
  <2> QED
    BY <2>2 DEF AllSaid
<1>4. \A k, name : mine(k, name).id = ids'[k] /\ mine(k, name).name = name
  BY DEF Setting
<1>5. \A k, l \in known : ids'[k] = ids'[l] => k = l
  BY <1>2 DEF Numbers
<1>6. todo'[p] = q /\ \A r \in Processes : r # p => todo'[r] = <<>>
  BY <1>1 DEF Shaped, Pending
<1>7. Known' = known /\ \A k, name : Said(k, name)' = mine(k, name)
  BY <1>1 DEF Known, Said
<1> HIDE DEF mine, known
<1>8. DOMAIN <<>> = {}
  OBVIOUS
<1>9. \A r \in Processes : \A i \in DOMAIN todo'[r] : \A k \in known, name \in Names :
        todo'[r][i].id = ids'[k] /\ todo'[r][i].name = name => todo'[r][i] = mine(k, name)
  <2> SUFFICES ASSUME NEW i \in DOMAIN q, NEW k \in known, NEW name \in Names, q[i].id = ids'[k], q[i].name = name
               PROVE  q[i] = mine(k, name)
    BY <1>6, <1>8
  <2>1. PICK l \in known, n \in Names : q[i] = mine(l, n)
    BY <1>3
  <2>2. l = k /\ n = name
    BY <1>4, <1>5, <2>1
  <2> QED
    BY <2>1, <2>2
<1>10. \A k \in known, name \in Names : \E i \in DOMAIN todo'[p] : todo'[p][i].id = ids'[k] /\ todo'[p][i].name = name
  <2> SUFFICES ASSUME NEW k \in known, NEW name \in Names
               PROVE  \E i \in DOMAIN q : q[i].id = ids'[k] /\ q[i].name = name
    BY <1>6
  <2>1. PICK i \in DOMAIN q : q[i] = mine(k, name)
    BY <1>3
  <2> QED
    BY <1>4, <2>1
<1>11. TodoFromFile'
  BY <1>7, <1>9 DEF TodoFromFile, About
<1>12. LogrsFromFile'
  BY <1>8 DEF LogrsFromFile
<1>13. \A k \in known, name \in Names : Kept(k, name)'
  BY <1>10 DEF Kept, About
<1>14. Room'
  <2>1. CASE isUpdate
    BY <2>1 DEF Room
  <2>2. CASE ~ isUpdate
    <3>1. Grown(DOMAIN Says[c])
      BY <2>2, Loads
    <3> QED
      BY <1>1, <3>1 DEF Grown, Room
  <2> QED
    BY <2>1, <2>2
<1> QED
  BY <1>7, <1>11, <1>12, <1>13, <1>14 DEF FromFile

\* A logger that is created after the file was read.
LEMMA CreatedFromFile ==
  ASSUME Shaped, Phases, FromFile, createLogrger
  PROVE  FromFile'
<1> SUFFICES ASSUME Undisturbed, loaded # NoFile
             PROVE  TodoFromFile' /\ LogrsFromFile' /\ (\A k \in Known, name \in Names : Kept(k, name))' /\ Room'
  BY DEF FromFile, Undisturbed, createLogrger
<1>1. TodoFromFile /\ LogrsFromFile /\ (\A k \in Known, name \in Names : Kept(k, name)) /\ Room
  BY DEF FromFile
<1>2. UNCHANGED <<pc, logrs, todo, calls, loaded>> /\ pc = "none" /\ info' = SwitchedOn(info)
  BY DEF createLogrger, Preparing
<1>3. PICK key \in Keys : createLogrgers({key})
  BY DEF createLogrger
<1>4. Grown({key})
  BY <1>3, NewIds DEF Shaped
<1>5. DOMAIN Says[loaded] \subseteq DOMAIN ids \/ lastId = MaxLogrgers - 1
  BY <1>1, <1>2 DEF Room
<1>6. lastId \in Nat /\ lastId' \in Nat /\ lastId <= lastId' /\ lastId' <= MaxLogrgers - 1 /\ MaxLogrgers \in Nat
  BY <1>4, SettingsAssumption DEF Grown, Shaped, Numbers
<1>7. Known' = Known
  <2>1. CASE DOMAIN Says[loaded] \subseteq DOMAIN ids
    BY <1>2, <1>4, <2>1 DEF Known, Grown
  <2>2. CASE lastId = MaxLogrgers - 1
    <3>1. lastId' = lastId
      BY <1>6, <2>2
    <3>2. DOMAIN ids' \subseteq DOMAIN ids
      <4> SUFFICES ASSUME NEW k \in DOMAIN ids' PROVE k \in DOMAIN ids
        OBVIOUS
      <4>1. ids'[k] \in 0 .. lastId
        BY <1>4, <3>1 DEF Grown
      <4>2. PICK l \in DOMAIN ids : ids[l] = ids'[k]
        BY <4>1 DEF Shaped, Numbers
      <4> QED
        BY <1>4, <4>2 DEF Grown
    <3> QED
      BY <1>2, <1>4, <3>2 DEF Known, Grown
  <2> QED
    BY <1>5, <2>1, <2>2
<1>8. \A k \in Known : ids'[k] = ids[k]
  BY <1>4 DEF Known, Grown
<1>9. \A k \in Known : \A name : Said(k, name)' = Said(k, name) /\ \A d : About(d, k, name)' = About(d, k, name)
  BY <1>2, <1>8 DEF Said, About
<1>10. TodoFromFile' /\ LogrsFromFile'
  <2>1. \A r \in Processes : \A i \in DOMAIN todo[r] : \A k \in Known, name \in Names :
          todo[r][i].id = ids'[k] /\ todo[r][i].name = name => todo[r][i] = Setting(ids'[k], name, Says[loaded][k][name])
    BY <1>1, <1>8 DEF TodoFromFile, About, Said
  <2>2. \A i \in DOMAIN logrs : \A k \in Known, name \in Names :
          logrs[i].id = ids'[k] /\ logrs[i].name = name => logrs[i] = Effective(Setting(ids'[k], name, Says[loaded][k][name]))
    BY <1>1, <1>8 DEF LogrsFromFile, About, Said
  <2> QED
    BY <1>2, <1>7, <2>1, <2>2 DEF TodoFromFile, LogrsFromFile, About, Said
<1>11. ASSUME NEW k \in Known, NEW name \in Names PROVE Kept(k, name)'
  <2>1. ids[k] \in Ids /\ ids[k] <= lastId /\ ids[k] \in Nat
    BY SaidCalls, SettingsAssumption DEF Ids
  <2>2. info'[ids[k]] = info[ids[k]]
    <3>1. info \in [Ids -> Settings]
      BY DEF Shaped, Tables
    <3> QED
      BY <1>2, <1>6, <2>1, <3>1 DEF SwitchedOn
  <2> QED
    BY <1>1, <1>2, <1>8, <2>2 DEF Kept, InTheEnd, About, Said
<1>12. Room'
  BY <1>2, <1>4, <1>5, <1>6 DEF Room, Grown
<1> QED
  BY <1>7, <1>10, <1>11, <1>12

LEMMA NextFromFile ==
  ASSUME Shaped, Phases, FromFile, [Next]_vars
  PROVE  FromFile'
<1>1. /\ Main \in Processes /\ Logger \in Processes
      /\ \A t \in Threads : t \in Processes
      /\ calls \in [Processes -> Nat]
  BY DEF Processes, Shaped, Rest
<1>2. \A p \in Processes : p = Main \/ p = Logger \/ p \in Threads
  BY DEF Processes
<1>3. CASE createLogrger
  BY <1>3, CreatedFromFile
<1>4. ASSUME Preparing, NEW c \in Contents, configFromStringImpl(Main, c, FALSE), UNCHANGED <<pc, logrs, calls>>
      PROVE  FromFile'
  <2> SUFFICES ASSUME Undisturbed PROVE FromFile'
    BY <1>4 DEF FromFile, Undisturbed
  <2>1. logrs = <<>> /\ \A r \in Processes : todo[r] = <<>>
    BY <1>2, <1>4 DEF Preparing, Phases, Undisturbed
  <2> QED
    BY <1>1, <1>4, <2>1, LoadFromFile
<1>5. CASE config
  <2>1. CASE file # NoFile /\ configFromStringImpl(Main, file, FALSE)
    <3>1. file \in Contents
      BY <2>1 DEF Shaped, Rest
    <3> QED
      BY <1>4, <1>5, <2>1, <3>1 DEF config
  <2>2. CASE UNCHANGED <<checksum, loaded, ids, lastId, info, wanted, todo>>
    BY <1>5, <2>2, LeftAlone DEF config
  <2> QED
    BY <1>5, <2>1, <2>2 DEF config
<1>6. CASE configFromString
  BY <1>4, <1>6 DEF configFromString
<1>7. CASE start \/ stop \/ drained \/ goRound \/ updated \/ edit \/ UNCHANGED vars
  <2>1. /\ UNCHANGED <<ids, lastId, info, logrs, todo, calls, loaded>>
        /\ pc' = "none" => pc = "none"
        /\ pc' = "ended" <=> pc = "ended"
    BY <1>7 DEF start, Preparing, stop, drained, goRound, updated, edit, vars
  <2> QED
    BY <2>1, LeftAlone
<1>13. CASE quit
  BY <1>13, QuitFromFile
<1>8. CASE popLogr
  BY <1>8, PopFromFile
<1>9. CASE autoUpdate
  <2> SUFFICES ASSUME Undisturbed PROVE FromFile'
    BY <1>9 DEF FromFile, Undisturbed, autoUpdate
  <2>1. pc = "sleep" /\ pc' = "update" /\ UNCHANGED <<logrs, calls>> /\ updateConfig(Logger)
    BY <1>9 DEF autoUpdate
  <2>2. logrs = <<>> /\ \A r \in Processes : todo[r] = <<>>
    BY <1>2, <2>1 DEF Phases, Undisturbed
  <2>3. CASE file # NoFile /\ configFromStringImpl(Logger, file, TRUE)
    <3>1. file \in Contents
      BY <2>3 DEF Shaped, Rest
    <3> QED
      BY <1>1, <2>1, <2>2, <2>3, <3>1, LoadFromFile
  <2>4. CASE UNCHANGED <<checksum, loaded, ids, lastId, info, wanted, todo>>
    BY <2>1, <2>4, LeftAlone
  <2> QED
    BY <2>1, <2>3, <2>4 DEF updateConfig
<1>10. ASSUME NEW p \in Processes, apply(p) PROVE FromFile'
  BY <1>10, ApplyFromFile
<1>11. ASSUME NEW t \in Threads, Counted(t) PROVE FromFile'
  <2>1. calls'[t] = calls[t] + 1 /\ calls[t] \in Nat
    BY <1>1, <1>11 DEF Counted
  <2>2. calls'[t] # 0
    BY <2>1
  <2> QED
    BY <2>2 DEF FromFile, Undisturbed
<1>12. ASSUME NEW t \in Threads, setLogrger(t) \/ callUpdateConfig(t) PROVE FromFile'
  BY <1>11, <1>12 DEF setLogrger, callUpdateConfig
<1> QED
  BY <1>1, <1>3, <1>5, <1>6, <1>7, <1>8, <1>9, <1>10, <1>12, <1>13 DEF Next, Runs, Over

-----------------------------------------------------------------------------
(***************************************************************************)
(* The inductive invariant, and the properties.                            *)
(***************************************************************************)
IInv == Shaped /\ Phases /\ Queued /\ FromFile

\* The types, who does what when, that the last call of a setting is the
\* last in the queue, and that nothing of the file read last is lost or
\* mixed with an earlier one, hold together in every state.
THEOREM SettingsInvariance == Spec => []IInv
<1>1. Init => IInv
  <2> SUFFICES ASSUME Init PROVE IInv
    OBVIOUS
  <2>1. Phases
    <3>1. \A p \in Processes : todo[p] = <<>>
      BY DEF Init
    <3>2. Main \in Processes /\ Logger \in Processes /\ Threads \subseteq Processes
      BY DEF Processes
    <3> QED
      BY <3>1, <3>2 DEF Init, Phases
  <2>2. Queued /\ FromFile
    BY DEF Init, Queued, FromFile
  <2> QED
    BY <2>1, <2>2, InitShaped DEF IInv
<1>2. IInv /\ [Next]_vars => IInv'
  BY NextShaped, NextPhases, NextQueued, NextFromFile DEF IInv
<1> QED
  BY <1>1, <1>2, PTL DEF Spec

\* The keys have numbers of their own within the table, however many a file
\* names, and no set function is ever waiting for a logger that is not there.
THEOREM SettingsTypesKept == Spec => []TypeOK
<1>1. Shaped => TypeOK
  <2> SUFFICES ASSUME Shaped PROVE TypeOK
    OBVIOUS
  <2>1. \A i \in DOMAIN logrs : logrs[i].id \in 0 .. lastId
    BY SettingsAssumption DEF Shaped, Numbers, Tables, Call, Calls, Ids
  <2> QED
    BY <2>1 DEF TypeOK, Shaped, Numbers, Tables, Rest, Ids
<1> QED
  BY <1>1, SettingsInvariance, PTL DEF IInv

\* Among the calls for one setting, of any number of threads and of a file,
\* the last one wins, whatever waits in the queue.
THEOREM LastCallWins == Spec => []LastRequestWins
<1>1. ASSUME Shaped, Queued, running, NEW id \in 0 .. lastId, NEW name \in Names, Waits(id, name)
      PROVE  Coming(id, name) = wanted[id][name]
  <2> DEFINE waiting == {i \in DOMAIN logrs : logrs[i].id = id /\ logrs[i].name = name}
             last == CHOOSE i \in waiting : \A j \in waiting : j <= i
  <2>1. Follows(id, name)
    BY <1>1 DEF Queued
  <2>2. Coming(id, name) = IF waiting = {} THEN info[id][name] ELSE logrs[last].value
    BY DEF Coming
  <2>3. CASE waiting = {}
    BY <2>1, <2>2, <2>3 DEF Follows
  <2>4. CASE waiting # {}
    <3>1. PICK m \in waiting : logrs[m].value = wanted[id][name] /\ \A j \in waiting : j <= m
      BY <2>1, <2>4 DEF Follows
    <3>2. last \in waiting /\ \A j \in waiting : j <= last
      BY <3>1
    <3>3. waiting \subseteq Nat
      BY <1>1 DEF Shaped, Tables
    <3>4. last <= m /\ m <= last /\ last \in Nat /\ m \in Nat
      BY <3>1, <3>2, <3>3
    <3>5. last = m
      BY <3>4
    <3> QED
      BY <2>2, <2>4, <3>1, <3>5
  <2> QED
    BY <2>3, <2>4
<1>2. Shaped /\ Queued => LastRequestWins
  <2> SUFFICES ASSUME Shaped, Queued, running, NEW id \in 0 .. lastId
               PROVE  /\ \A name \in {"path", "outfile", "limitsize"} : Coming(id, name) = wanted[id][name]
                      /\ ~wanted[id].enable => ~Coming(id, "enable")
    BY DEF LastRequestWins
  <2>1. \A name \in Names : Waits(id, name) => Coming(id, name) = wanted[id][name]
    BY <1>1
  <2> QED
    BY <2>1, NamesAre DEF Waits
<1> QED
  BY <1>2, SettingsInvariance, PTL DEF IInv

\* When the queue is empty and nothing waits for a file, the settings are
\* those of the file read last, for any files and any number of loggers.
THEOREM WholeFileApplied == Spec => []FileApplied
<1>1. Shaped /\ FromFile => FileApplied
  <2> SUFFICES ASSUME Shaped, FromFile, Undisturbed, Quiet, loaded # NoFile,
                      NEW k \in Known, NEW name \in Names, Accepted(Effective(Said(k, name)))
               PROVE  info[ids[k]][name] = InTheEnd(Effective(Said(k, name)))
    BY DEF FileApplied, Applied, Known, Names, Said
  <2>1. Kept(k, name)
    BY DEF FromFile
  <2>2. DOMAIN <<>> = {}
    OBVIOUS
  <2> QED
    BY <2>1, <2>2 DEF Kept, Quiet
<1> QED
  BY <1>1, SettingsInvariance, PTL DEF IInv

=============================================================================
