------------------------ MODULE ScanLifecycle_proofs ------------------------
(* Proofs about all scans of an installation for every set of names, every   *)
(* number of scans kept, every number of starts and faults. The inductive    *)
(* invariant IInv ties the file operations a start has ahead to the files    *)
(* that are there already.                                                   *)
EXTENDS ScanLifecycle, SequenceTheorems, FiniteSetTheorems, TLAPS

File == {None} \cup [inc : Nat \ {0}, torn : BOOLEAN]
Delete == {"-state", "-journal", "-slot1", "-slot2"}
Create == {"+journal", "+slot1", "+slot2", "+state", "+save"}
Ops == [op : Delete \cup Create, id : Ids]

Types ==
    /\ state \in [Ids -> File] /\ journal \in [Ids -> File]
    /\ slots \in [Ids -> [{1, 2} -> File]] /\ left \in [Ids -> Nat]
    /\ todo \in Seq(Ops)
    /\ starts \in Nat \ {0} /\ started \subseteq 2 .. starts
    /\ listedAll \in BOOLEAN

\* The name the running start creates.
New == todo[Len(todo)].id

\* A start deletes before it creates, and of a scan the state file first.
Order ==
    \A n \in 1 .. Len(todo) :
        LET o == todo[n]  rest == Len(todo) - n
        IN  /\ rest = 0 => o.op = "+save"
            /\ rest = 1 => o.op = "+state"
            /\ rest = 2 => o.op = "+slot2"
            /\ rest = 3 => o.op = "+slot1"
            /\ rest = 4 => o.op = "+journal"
            /\ rest <= 4 => o.id = New
            /\ rest > 4 =>
                /\ o.op \in Delete
                /\ \/ o.op = "-state" \/ state[o.id] = None
                   \/ \E m \in 1 .. n - 1 : todo[m] = Op("-state", o.id)

\* What the running start has done so far.
Underway ==
    todo # <<>> =>
        /\ starts > 1 /\ starts \notin started
        /\ Len(todo) = 1 => state[New] = Whole(starts)
        /\ Len(todo) \in 2 .. 4 => state[New] = None \/ IsLegacy(New)
        /\ Len(todo) <= 4 => journal[New] = Whole(starts)
        /\ Len(todo) <= 3 => slots[New][1] = None
        /\ Len(todo) <= 2 => slots[New][2] = None
        /\ \A i \in Ids : i # New \/ Len(todo) > 1 => state[i].inc < starts

\* The files of a listed scan are its own, and of an acknowledged one there is
\* always a checkpoint that decodes.
Sound(i) ==
    /\ state[i].inc \in 1 .. starts
    /\ ~ IsLegacy(i) =>
        /\ journal[i].inc = state[i].inc
        /\ \A k \in {1, 2} : slots[i][k].inc \in {0, state[i].inc}
    /\ state[i].inc \in started =>
        /\ ~ state[i].torn
        /\ \E k \in {1, 2} : Valid(slots[i][k])

\* When the start saw all scans there is room for the one being created once
\* the prune is through, and it gets no other.
Condemned == {i \in Ids : \E n \in 1 .. Len(todo) : todo[n] = Op("-state", i)}
Room ==
    /\ listedAll /\ Len(todo) > 1 => Cardinality(Listed \ Condemned) < Keep
    /\ listedAll /\ Len(todo) = 1 => Cardinality(Listed) <= Keep

IInv == Types /\ Order /\ Underway /\ (\A i \in Listed : Sound(i)) /\ Room

-----------------------------------------------------------------------------
(* Files                                                                     *)
LEMMA FileFacts ==
    /\ None \in File /\ None.inc = 0 /\ None.torn = FALSE
    /\ \A f \in File : f.inc \in Nat /\ f.torn \in BOOLEAN /\ (f.inc = 0 <=> f = None)
    /\ \A n \in Nat \ {0} :
        /\ Whole(n) \in File /\ Whole(n).inc = n /\ Whole(n).torn = FALSE /\ Whole(n) # None
        /\ Torn(n) \in File /\ Torn(n).inc = n /\ Torn(n).torn = TRUE /\ Torn(n) # None
<1>1. /\ None \in File /\ None.inc = 0 /\ None.torn = FALSE
  BY DEF File, None
<1>2. ASSUME NEW f \in File
      PROVE  f.inc \in Nat /\ f.torn \in BOOLEAN /\ (f.inc = 0 <=> f = None)
  <2>1. CASE f = None
    <3>1. f.inc = 0 /\ f.torn = FALSE /\ 0 \in Nat
      BY <1>1, <2>1, Zenon
    <3> QED BY ONLY <2>1, <3>1, Zenon
  <2>2. CASE f \in [inc : Nat \ {0}, torn : BOOLEAN]
    <3>1. f.inc \in Nat \ {0} /\ f.torn \in BOOLEAN
      BY ONLY <2>2
    <3>2. f.inc # 0 /\ f.inc \in Nat
      BY ONLY <3>1
    <3>3. f # None
      BY ONLY <1>1, <3>2
    <3> QED BY ONLY <3>1, <3>2, <3>3, Zenon
  <2> QED BY <2>1, <2>2 DEF File
<1>3. ASSUME NEW n \in Nat \ {0}
      PROVE  Whole(n) \in File /\ Whole(n).inc = n /\ Whole(n).torn = FALSE /\ Whole(n) # None
  <2>1. Whole(n) \in File /\ Whole(n).inc = n /\ Whole(n).torn = FALSE
    BY DEF File, Whole
  <2> QED BY <1>1, <2>1
<1>4. ASSUME NEW n \in Nat \ {0}
      PROVE  Torn(n) \in File /\ Torn(n).inc = n /\ Torn(n).torn = TRUE /\ Torn(n) # None
  <2>1. Torn(n) \in File /\ Torn(n).inc = n /\ Torn(n).torn = TRUE
    BY DEF File, Torn
  <2> QED BY <1>1, <2>1
<1> QED BY <1>1, <1>2, <1>3, <1>4, Zenon

LEMMA NoSlots ==
    /\ <<None, None>> \in [{1, 2} -> File]
    /\ \A s \in [{1, 2} -> File] : s = <<None, None>> <=> s[1] = None /\ s[2] = None
<1>1. DOMAIN <<None, None>> = {1, 2} /\ <<None, None>>[1] = None /\ <<None, None>>[2] = None
  OBVIOUS
<1>2. <<None, None>> = [k \in {1, 2} |-> None]
  BY <1>1
<1> QED BY <1>2, FileFacts

-----------------------------------------------------------------------------
(* The names a prune deletes. Sorting by rank: the place of a name in the    *)
(* list is the number of names not above it.                                 *)
LEMMA SortedExists ==
    ASSUME NEW L \in SUBSET Nat, IsFiniteSet(L)
    PROVE  \E s \in [1 .. Cardinality(L) -> L] :
              \A m, n \in DOMAIN s : m < n => s[m] < s[n]
<1> DEFINE c == Cardinality(L)
           upto(x) == {y \in L : y <= x}
           r == [x \in L |-> Cardinality(upto(x))]
<1>1. c \in Nat
  BY FS_CardinalityType
<1>2. ASSUME NEW x \in L
      PROVE  IsFiniteSet(upto(x)) /\ Cardinality(upto(x)) \in 1 .. c
  <2>1. upto(x) \in SUBSET L /\ x \in upto(x)
    OBVIOUS
  <2> HIDE DEF upto
  <2>2. IsFiniteSet(upto(x)) /\ Cardinality(upto(x)) <= c
    BY <2>1, FS_Subset
  <2>3. Cardinality(upto(x)) \in Nat /\ Cardinality(upto(x)) # 0
    BY <2>1, <2>2, FS_CardinalityType, FS_EmptySet
  <2> QED BY <1>1, <2>2, <2>3
<1>3. ASSUME NEW x \in L, NEW y \in L, x < y PROVE r[x] < r[y]
  <2>1. upto(x) \in SUBSET upto(y) /\ y \in upto(y) /\ y \notin upto(x)
    <3>1. x \in Nat /\ y \in Nat /\ \A z \in L : z \in Nat
      OBVIOUS
    <3>2. \A u, v, w \in Nat : u < v => (w <= u => w <= v) /\ v <= v /\ ~ (v <= u)
      OBVIOUS
    <3> QED BY <1>3, <3>1, <3>2, Zenon
  <2> HIDE DEF upto
  <2>2. IsFiniteSet(upto(y)) /\ upto(x) # upto(y)
    BY <1>2, <2>1
  <2>3. Cardinality(upto(x)) <= Cardinality(upto(y)) /\ Cardinality(upto(x)) # Cardinality(upto(y))
    BY <2>1, <2>2, FS_Subset
  <2> QED BY <1>2, <2>3
<1>4. r \in [L -> 1 .. c]
  BY <1>2
<1> HIDE DEF r
<1>5. \A x, y \in L : r[x] <= r[y] => x <= y
  BY <1>1, <1>3, <1>4
<1>6. \A x, y \in L : r[x] = r[y] => x = y
  BY <1>1, <1>4, <1>5
<1>7. r \in Injection(L, 1 .. c)
  BY <1>4, <1>6 DEF Injection, IsInjective
<1>8. IsFiniteSet(1 .. c) /\ Cardinality(1 .. c) = c
  BY <1>1, FS_Interval
<1>9. r \in Surjection(L, 1 .. c)
  BY <1>7, <1>8, FS_Injection
<1>10. \A n \in 1 .. c : \E x \in L : r[x] = n
  BY <1>9 DEF Surjection
<1> DEFINE s == [n \in 1 .. c |-> CHOOSE x \in L : r[x] = n]
<1>11. \A n \in 1 .. c : s[n] \in L /\ r[s[n]] = n
  BY <1>10
<1>12. s \in [1 .. c -> L] /\ DOMAIN s = 1 .. c
  BY <1>11
<1> HIDE DEF s
<1>13. ASSUME NEW m \in 1 .. c, NEW n \in 1 .. c, m < n PROVE s[m] < s[n]
  <2>2. CASE s[n] = s[m]
    BY <1>11, <1>13, <2>2, <1>1
  <2>3. CASE s[n] < s[m]
    <3>1. r[s[n]] < r[s[m]]
      BY <1>3, <1>11, <2>3
    <3> QED BY <1>1, <1>11, <1>13, <3>1
  <2>4. s[m] \in Nat /\ s[n] \in Nat
    BY <1>11
  <2> QED BY <2>2, <2>3, <2>4
<1> QED BY <1>12, <1>13

LEMMA VictimsFacts ==
    ASSUME NEW L \in SUBSET Ids
    PROVE  /\ Victims(L) \in Seq(L)
           /\ \A S \in SUBSET L :
                (\A k \in 1 .. Len(Victims(L)) : Victims(L)[k] \notin S)
                    => IsFiniteSet(S) /\ Cardinality(S) < Keep
<1> DEFINE c == Cardinality(L)
           v == IF c >= Keep THEN c - Keep + 1 ELSE 0
           ids == ScanIds(L)
           vs == Victims(L)
<1>1. L \in SUBSET Ids /\ Ids \in SUBSET Nat /\ IsFiniteSet(Ids)
  BY IdsAssumption
<1>2. L \in SUBSET Nat /\ IsFiniteSet(L)
  BY <1>1, FS_Subset
<1>3. c \in Nat /\ Keep \in Nat \ {0}
  BY <1>2, FS_CardinalityType, KeepAssumption
<1>4. v \in 0 .. c /\ (v = 0 \/ c - v = Keep - 1) /\ (v = 0 => c < Keep)
  BY <1>3
<1>5. /\ ids \in [1 .. c -> L]
      /\ \A m, n \in DOMAIN ids : m < n => ids[m] < ids[n]
  BY <1>2, SortedExists DEF ScanIds
<1>8. vs = SubSeq(ids, 1, v)
  BY DEF Victims
<1> HIDE DEF c, ids, vs
<1>6. \A m, n \in 1 .. c : m # n => ids[m] # ids[n]
  <2>1. DOMAIN ids = 1 .. c /\ \A n \in 1 .. c : ids[n] \in Nat
    BY <1>2, <1>5
  <2> QED BY <1>3, <1>5, <2>1
<1>7. ids \in Seq(L) /\ Len(ids) = c
  BY <1>3, <1>5
<1>9. vs \in Seq(L) /\ Len(vs) = v /\ \A k \in 1 .. v : vs[k] = ids[k]
  BY <1>3, <1>4, <1>7, <1>8
<1>10. ids \in Surjection(1 .. c, L)
  <2>1. ids \in Injection(1 .. c, L)
    BY <1>5, <1>6 DEF Injection, IsInjective
  <2>2. Cardinality(1 .. c) = c
    BY <1>3, FS_Interval
  <2> QED BY <1>2, <2>1, <2>2, FS_Injection DEF c
<1>11. \A x \in L : \E n \in 1 .. c : ids[n] = x
  BY <1>10 DEF Surjection
<1>12. ASSUME NEW S \in SUBSET L, \A k \in 1 .. Len(vs) : vs[k] \notin S
       PROVE  IsFiniteSet(S) /\ Cardinality(S) < Keep
  <2> DEFINE g == [x \in S |-> CHOOSE n \in 1 .. c : ids[n] = x]
  <2>1. \A x \in S : g[x] \in 1 .. c /\ ids[g[x]] = x
    BY <1>11
  <2>2. \A x \in S : g[x] \in v + 1 .. c
    <3> SUFFICES ASSUME NEW x \in S, g[x] \in 1 .. v PROVE FALSE
      BY <1>3, <1>4, <2>1
    <3> QED BY <1>9, <1>12, <2>1
  <2>3. g \in [S -> v + 1 .. c]
    BY <2>2
  <2> HIDE DEF g
  <2>4. g \in Injection(S, v + 1 .. c)
    BY <2>1, <2>3 DEF Injection, IsInjective
  <2>5. IsFiniteSet(v + 1 .. c) /\ Cardinality(v + 1 .. c) = c - v
    <3>1. v + 1 \in Int /\ c \in Int
      BY <1>3, <1>4
    <3> QED BY <1>3, <1>4, <3>1, FS_Interval
  <2>6. IsFiniteSet(S) /\ Cardinality(S) <= c - v
    BY <2>4, <2>5, FS_Injection
  <2>7. Cardinality(S) \in Nat
    BY <2>6, FS_CardinalityType
  <2> HIDE DEF v
  <2> QED BY <1>3, <1>4, <2>6, <2>7
<1> QED BY <1>9, <1>12 DEF vs

LEMMA DeleteOpsFacts ==
    ASSUME NEW v \in Seq(Ids)
    PROVE  /\ DeleteOps(v) \in Seq(Ops) /\ Len(DeleteOps(v)) = 4 * Len(v)
           /\ \A n \in 1 .. 4 * Len(v) :
                LET o == DeleteOps(v)[n]
                IN  /\ o.op \in Delete /\ \E k \in 1 .. Len(v) : o.id = v[k]
                    /\ o.op = "-state" \/ \E m \in 1 .. n - 1 : DeleteOps(v)[m] = Op("-state", o.id)
           /\ \A k \in 1 .. Len(v) :
                \E n \in 1 .. 4 * Len(v) : DeleteOps(v)[n] = Op("-state", v[k])
<1> DEFINE D == DeleteOps(v)
           l == Len(v)
           kind(n) == 1 + ((n - 1) % 4)
           at(n) == 1 + ((n - 1) \div 4)
<1>1. l \in Nat /\ \A k \in 1 .. l : v[k] \in Ids
  OBVIOUS
<1>2. \A p \in Nat : \A n \in 1 .. 4 * p :
        /\ kind(n) \in 1 .. 4 /\ at(n) \in 1 .. p
        /\ kind(n) = 1 \/ (/\ n - (kind(n) - 1) \in 1 .. n - 1
                           /\ kind(n - (kind(n) - 1)) = 1 /\ at(n - (kind(n) - 1)) = at(n))
  OBVIOUS
<1>3. \A p \in Nat : \A k \in 1 .. p :
        4 * k - 3 \in 1 .. 4 * p /\ kind(4 * k - 3) = 1 /\ at(4 * k - 3) = k
  OBVIOUS
<1>4. \A n \in 1 .. 4 * l : kind(n) \in 1 .. 4 /\ at(n) \in 1 .. l
  BY <1>1, <1>2, Zenon
<1>5. Deletions[1] = "-state" /\ \A k \in 1 .. 4 : Deletions[k] \in Delete
  BY DEF Deletions, Delete
<1>6. D = [n \in 1 .. 4 * l |-> Op(Deletions[kind(n)], v[at(n)])]
  BY DEF DeleteOps
<1> HIDE DEF D, l, kind, at
<1>7. \A n \in 1 .. 4 * l : D[n] = Op(Deletions[kind(n)], v[at(n)])
  BY <1>6
<1>8. ASSUME NEW n \in 1 .. 4 * l
      PROVE  D[n].op = Deletions[kind(n)] /\ D[n].id = v[at(n)] /\ D[n] \in Ops
  <2>1. D[n] = [op |-> Deletions[kind(n)], id |-> v[at(n)]]
    BY <1>7 DEF Op
  <2>2. Deletions[kind(n)] \in Delete \cup Create /\ v[at(n)] \in Ids
    BY <1>1, <1>4, <1>5, Zenon
  <2> QED BY ONLY <2>1, <2>2 DEF Ops
<1>9. D \in Seq(Ops) /\ Len(D) = 4 * l
  BY <1>1, <1>6, <1>8
<1>10. ASSUME NEW n \in 1 .. 4 * l
       PROVE  D[n].op = "-state" \/ \E m \in 1 .. n - 1 : D[m] = Op("-state", D[n].id)
  <2>1. CASE kind(n) = 1
    BY <1>5, <1>8, <2>1
  <2>2. CASE kind(n) # 1
    <3> DEFINE m == n - (kind(n) - 1)
    <3>1. m \in 1 .. n - 1 /\ kind(m) = 1 /\ at(m) = at(n)
      BY <1>1, <1>2, <2>2, Zenon
    <3> HIDE DEF m
    <3>2. m \in 1 .. 4 * l
      BY <1>1, <3>1
    <3> QED BY <1>5, <1>7, <1>8, <3>1, <3>2
  <2> QED BY <2>1, <2>2
<1>11. ASSUME NEW k \in 1 .. l
       PROVE  \E n \in 1 .. 4 * l : D[n] = Op("-state", v[k])
  <2>1. 4 * k - 3 \in 1 .. 4 * l /\ kind(4 * k - 3) = 1 /\ at(4 * k - 3) = k
    BY <1>1, <1>3, Zenon
  <2> QED BY <1>5, <1>7, <2>1
<1>12. \A n \in 1 .. 4 * l : D[n].op \in Delete /\ \E k \in 1 .. l : D[n].id = v[k]
  BY <1>4, <1>5, <1>8
<1> QED BY <1>9, <1>10, <1>11, <1>12 DEF D, l

LEMMA CreateOpsFacts ==
    ASSUME NEW i \in Ids
    PROVE  /\ CreateOps(i) \in Seq(Ops) /\ Len(CreateOps(i)) = 5
           /\ \A k \in 1 .. 5 : CreateOps(i)[k].id = i
           /\ CreateOps(i)[1].op = "+journal" /\ CreateOps(i)[2].op = "+slot1"
           /\ CreateOps(i)[3].op = "+slot2" /\ CreateOps(i)[4].op = "+state"
           /\ CreateOps(i)[5].op = "+save"
<1>1. \A x \in Create : Op(x, i) \in Ops /\ Op(x, i).op = x /\ Op(x, i).id = i
  BY DEF Op, Ops
<1> QED BY <1>1 DEF CreateOps, Create

\* What is left of the operations when the first is done.
LEMMA TailFacts ==
    ASSUME NEW S, NEW s \in Seq(S), s # <<>>
    PROVE  /\ Len(s) \in Nat \ {0} /\ Head(s) = s[1] /\ Head(s) \in S
           /\ Tail(s) \in Seq(S) /\ Len(Tail(s)) = Len(s) - 1
           /\ \A n \in 1 .. Len(s) - 1 : Tail(s)[n] = s[n + 1]
  OBVIOUS

LEMMA ConcatFacts ==
    ASSUME NEW S, NEW s \in Seq(S), NEW t \in Seq(S)
    PROVE  /\ s \o t \in Seq(S) /\ Len(s \o t) = Len(s) + Len(t)
           /\ \A n \in 1 .. Len(s) : (s \o t)[n] = s[n]
           /\ \A n \in 1 .. Len(t) : (s \o t)[Len(s) + n] = t[n]
  OBVIOUS

-----------------------------------------------------------------------------
(* The invariant                                                             *)
LEMMA InitHolds == Init => IInv
<1> SUFFICES ASSUME Init PROVE IInv
  OBVIOUS
<1>1. todo = <<>> /\ started = {} /\ starts = 1 /\ listedAll = TRUE
  BY DEF Init, LegacyInc
<1>2. Whole(1) \in File /\ Whole(1) # None /\ Whole(1).inc = 1 /\ None \in File
  BY FileFacts
<1>3. Types
  <2>1. state \in [Ids -> File] /\ journal \in [Ids -> File] /\ slots \in [Ids -> [{1, 2} -> File]]
    BY <1>2, NoSlots DEF Init, LegacyInc
  <2>2. left \in [Ids -> Nat]
    BY KeepAssumption DEF Init
  <2> QED BY <1>1, <2>1, <2>2 DEF Types
<1>4. Listed = Legacy
  BY <1>2, IdsAssumption DEF Init, Listed, LegacyInc
<1>5. ASSUME NEW i \in Listed PROVE Sound(i)
  <2>1. state[i].inc = 1 /\ IsLegacy(i)
    BY <1>2, <1>4, <1>5, IdsAssumption DEF Init, IsLegacy, LegacyInc
  <2> QED BY <1>1, <2>1 DEF Sound
<1>6. Order /\ Underway
  BY <1>1 DEF Order, Underway
<1>7. Room
  BY <1>1 DEF Room
<1> QED BY <1>3, <1>5, <1>6, <1>7 DEF IInv

LEMMA ListedFinite ==
    /\ Listed \in SUBSET Ids /\ IsFiniteSet(Listed) /\ Cardinality(Listed) \in Nat
    /\ \A S \in SUBSET Listed : Cardinality(S) \in Nat /\ Cardinality(S) <= Cardinality(Listed)
<1>1. Listed \in SUBSET Ids /\ IsFiniteSet(Ids)
  BY IdsAssumption DEF Listed
<1>2. IsFiniteSet(Listed)
  BY <1>1, FS_Subset
<1> QED BY <1>1, <1>2, FS_Subset, FS_CardinalityType

\* A start decides what to delete and what to create.
LEMMA ScanStartKeeps ==
    ASSUME IInv, NEW i \in Ids, ScanStart(i)
    PROVE  IInv'
<1>19. PICK L \in SUBSET Listed : /\ listedAll' = (L = Listed)
                                   /\ todo' = DeleteOps(Victims(L)) \o CreateOps(i)
  BY DEF ScanStart
<1> DEFINE v == Victims(L)
           D == DeleteOps(Victims(L))
           C == CreateOps(i)
           d == Len(D)
<1>1. /\ todo = <<>> /\ starts' = starts + 1 /\ todo' = D \o C
      /\ UNCHANGED <<state, journal, slots, left, started>>
      /\ listedAll' \in BOOLEAN /\ (listedAll' => L = Listed)
  BY <1>19 DEF ScanStart, files
<1>2. Types /\ \A j \in Listed : Sound(j)
  BY DEF IInv
<1>20. L \in SUBSET Ids
  BY DEF Listed
<1>3. v \in Seq(L) /\ \A k \in 1 .. Len(v) : v[k] \in L
  BY <1>20, VictimsFacts
<1>4. v \in Seq(Ids)
  BY <1>3, <1>20
<1>5. /\ D \in Seq(Ops) /\ d = 4 * Len(v) /\ d \in Nat
      /\ \A n \in 1 .. d :
            /\ D[n].op \in Delete
            /\ \E k \in 1 .. Len(v) : D[n].id = v[k]
            /\ D[n].op = "-state" \/ \E m \in 1 .. n - 1 : D[m] = Op("-state", D[n].id)
      /\ \A k \in 1 .. Len(v) : \E n \in 1 .. d : D[n] = Op("-state", v[k])
  <2>1. D = DeleteOps(v) /\ d = Len(D)
    OBVIOUS
  <2> HIDE DEF D, v, d
  <2>2. Len(D) = 4 * Len(v) /\ Len(v) \in Nat
    BY <1>4, <2>1, DeleteOpsFacts
  <2>3. d = 4 * Len(v) /\ d \in Nat
    BY ONLY <2>1, <2>2
  <2>4. D \in Seq(Ops)
    BY <1>4, <2>1, DeleteOpsFacts
  <2>5. \A n \in 1 .. 4 * Len(v) :
          /\ D[n].op \in Delete
          /\ \E k \in 1 .. Len(v) : D[n].id = v[k]
          /\ D[n].op = "-state" \/ \E m \in 1 .. n - 1 : D[m] = Op("-state", D[n].id)
    BY <1>4, <2>1, DeleteOpsFacts
  <2>6. \A k \in 1 .. Len(v) : \E n \in 1 .. 4 * Len(v) : D[n] = Op("-state", v[k])
    BY <1>4, <2>1, DeleteOpsFacts
  <2> QED BY ONLY <2>3, <2>4, <2>5, <2>6
<1>18. d \in Nat /\ d = Len(D) /\ D \in Seq(Ops)
  BY <1>5
<1>6. C \in Seq(Ops) /\ Len(C) = 5
  BY CreateOpsFacts
<1> HIDE DEF D, C, v
<1>7. /\ todo' \in Seq(Ops) /\ Len(todo') = d + 5 /\ todo' # <<>>
      /\ \A n \in 1 .. d : todo'[n] = D[n]
      /\ \A k \in 1 .. 5 : todo'[d + k] = C[k]
  <2>1. /\ D \o C \in Seq(Ops) /\ Len(D \o C) = Len(D) + Len(C)
        /\ \A n \in 1 .. Len(D) : (D \o C)[n] = D[n]
        /\ \A n \in 1 .. Len(C) : (D \o C)[Len(D) + n] = C[n]
    <3>1. D \in Seq(Ops) /\ C \in Seq(Ops)
      BY <1>6, <1>18
    <3> HIDE DEF d
    <3> QED BY ONLY <3>1, ConcatFacts
  <2>2. todo' \in Seq(Ops) /\ Len(todo') = d + 5
    BY <1>1, <1>6, <1>18, <2>1
  <2>3. todo' # <<>>
    BY <1>5, <2>2
  <2>4. todo' = D \o C /\ Len(C) = 5 /\ d = Len(D)
    BY <1>1, <1>6, <1>18
  <2> HIDE DEF d
  <2> QED BY ONLY <2>1, <2>2, <2>3, <2>4
<1> HIDE DEF d
<1>8. New' = i
  <2>1. todo'[Len(todo')] = C[5]
    BY <1>5, <1>7
  <2> QED BY <2>1, CreateOpsFacts DEF New, C
<1>9. Types'
  BY <1>1, <1>2, <1>7 DEF Types
<1>10. ASSUME NEW n \in 1 .. d
       PROVE  /\ todo'[n].op \in Delete
              /\ todo'[n].op = "-state" \/ \E m \in 1 .. n - 1 : todo'[m] = Op("-state", todo'[n].id)
  <2>2. \A m \in 1 .. n - 1 : todo'[m] = D[m]
    <3>1. \A m \in 1 .. n - 1 : m \in 1 .. d
      BY ONLY <1>18, n \in 1 .. d
    <3> QED BY ONLY <1>7, <3>1
  <2>3. todo'[n] = D[n] /\ D[n].op \in Delete
    BY <1>5, <1>7
  <2>4. D[n].op = "-state" \/ \E m \in 1 .. n - 1 : D[m] = Op("-state", D[n].id)
    BY <1>5, Zenon
  <2> QED BY ONLY <2>2, <2>3, <2>4
<1>11. Order'
  <2> SUFFICES ASSUME NEW n \in 1 .. Len(todo')
               PROVE  LET o == todo'[n]  rest == Len(todo') - n
                      IN  /\ rest = 0 => o.op = "+save"
                          /\ rest = 1 => o.op = "+state"
                          /\ rest = 2 => o.op = "+slot2"
                          /\ rest = 3 => o.op = "+slot1"
                          /\ rest = 4 => o.op = "+journal"
                          /\ rest <= 4 => o.id = New'
                          /\ rest > 4 => /\ o.op \in Delete
                                         /\ \/ o.op = "-state" \/ state'[o.id] = None
                                            \/ \E m \in 1 .. n - 1 : todo'[m] = Op("-state", o.id)
    BY DEF Order
  <2>3. Len(todo') = d + 5 /\ New' = i /\ n \in 1 .. d + 5
    BY ONLY <1>7, <1>8, n \in 1 .. Len(todo')
  <2>1. CASE n \in 1 .. d
    <3>1. d + 5 - n > 4
      BY ONLY <1>18, <2>1
    <3> DEFINE rest == Len(todo') - n
    <3>2. rest \notin {0, 1, 2, 3, 4} /\ ~ (rest <= 4)
      BY ONLY <1>18, <2>1, <2>3, <3>1
    <3>3. /\ todo'[n].op \in Delete
          /\ todo'[n].op = "-state" \/ \E m \in 1 .. n - 1 : todo'[m] = Op("-state", todo'[n].id)
      BY <1>10, <2>1
    <3> HIDE DEF rest
    <3>4. /\ rest = 0 => FALSE
          /\ rest = 1 => FALSE
          /\ rest = 2 => FALSE
          /\ rest = 3 => FALSE
          /\ rest = 4 => FALSE
          /\ rest <= 4 => FALSE
      BY ONLY <3>2
    <3> QED BY ONLY <3>3, <3>4, Zenon DEF rest
  <2>2. CASE n \notin 1 .. d
    <3>1. PICK k \in 1 .. 5 : n = d + k
      <4>1. n - d \in 1 .. 5 /\ n = d + (n - d)
        BY ONLY <1>18, <2>2, <2>3
      <4> QED BY <4>1
    <3>2. d + 5 - n = 5 - k /\ todo'[n] = C[k]
      <4>1. todo'[d + k] = C[k]
        BY <1>7
      <4> QED BY ONLY <1>18, <3>1, <4>1
    <3>3. k = 1 \/ k = 2 \/ k = 3 \/ k = 4 \/ k = 5
      OBVIOUS
    <3>4. /\ C[k].id = i
          /\ k = 1 => C[k].op = "+journal"
          /\ k = 2 => C[k].op = "+slot1"
          /\ k = 3 => C[k].op = "+slot2"
          /\ k = 4 => C[k].op = "+state"
          /\ k = 5 => C[k].op = "+save"
      BY CreateOpsFacts DEF C
    <3>5. Len(todo') - n = 5 - k /\ k \in Nat /\ k > 0
      BY ONLY <1>18, <2>3, <3>1, k \in 1 .. 5
    <3> QED BY ONLY <2>3, <3>2, <3>3, <3>4, <3>5
  <2> QED BY <2>1, <2>2
<1>12. \A j \in Ids : state[j].inc \in Nat /\ state[j].inc <= starts
  BY <1>2, FileFacts DEF Types, Listed, Sound
<1>13. starts \in Nat \ {0} /\ starts + 1 > 1 /\ starts + 1 \notin started
  BY <1>2 DEF Types
<1>14. Underway'
  <2>1. Len(todo') > 4
    BY <1>5, <1>7
  <2>2. \A j \in Ids : state'[j].inc < starts'
    BY <1>1, <1>12, <1>13
  <2>4. starts' > 1 /\ starts' \notin started'
    BY <1>1, <1>13
  <2>5. Len(todo') # 1 /\ ~ (Len(todo') <= 4) /\ ~ (Len(todo') <= 3) /\ ~ (Len(todo') <= 2)
    BY <1>5, <1>7, <2>1
  <2>6. Len(todo') \notin 2 .. 4
    BY <1>5, <1>7, <2>1
  <2> QED BY <2>2, <2>4, <2>5, <2>6 DEF Underway
<1>15. Listed' = Listed
  BY <1>1 DEF Listed
<1>16. ASSUME NEW j \in Listed' PROVE Sound(j)'
  <2>1. Sound(j) /\ starts \in Nat
    BY <1>2, <1>13, <1>15
  <2>2. state[j].inc \in 1 .. starts + 1
    BY <2>1 DEF Sound
  <2> QED BY <1>1, <2>1, <2>2 DEF Sound, IsLegacy, Valid
<1>17. Room'
  <2> SUFFICES ASSUME L = Listed PROVE Cardinality(Listed' \ Condemned') < Keep
    <3>1. Len(todo') # 1
      BY <1>7, <1>18
    <3> QED BY <1>1, <3>1 DEF Room
  <2> DEFINE S == Listed \ Condemned'
  <2>1. \A k \in 1 .. Len(v) : v[k] \notin S
    <3> SUFFICES ASSUME NEW k \in 1 .. Len(v) PROVE v[k] \in Condemned'
      OBVIOUS
    <3>1. PICK n \in 1 .. d : D[n] = Op("-state", v[k])
      BY <1>5
    <3>2. n \in 1 .. Len(todo') /\ todo'[n] = Op("-state", v[k])
      BY <1>5, <1>7, <3>1
    <3>3. v[k] \in Ids
      BY <1>3, <1>20
    <3> QED BY <3>2, <3>3 DEF Condemned
  <2>2. S \in SUBSET L
    OBVIOUS
  <2> HIDE DEF S
  <2>3. Cardinality(S) < Keep
    BY <1>20, <2>1, <2>2, VictimsFacts DEF v
  <2> QED BY <1>15, <2>3 DEF S
<1> QED BY <1>9, <1>11, <1>14, <1>16, <1>17 DEF IInv

\* What a file operation does to the files, name by name.
LEMMA EffectIs ==
    ASSUME Types, NEW o \in Ops, NEW f \in File, Effect(o, f)
    PROVE  /\ state' \in [Ids -> File] /\ journal' \in [Ids -> File]
           /\ slots' \in [Ids -> [{1, 2} -> File]] /\ left' \in [Ids -> Nat]
           /\ \A j \in Ids \ {o.id} :
                state'[j] = state[j] /\ journal'[j] = journal[j] /\ slots'[j] = slots[j]
           /\ state'[o.id] = IF o.op = "-state" THEN None
                             ELSE IF o.op = "+state" THEN f ELSE state[o.id]
           /\ journal'[o.id] = IF o.op = "-journal" THEN None
                               ELSE IF o.op = "+journal" THEN f ELSE journal[o.id]
           /\ slots'[o.id][1] = IF o.op \in {"-slot1", "+slot1"} THEN None
                                ELSE IF o.op = "+save" THEN f ELSE slots[o.id][1]
           /\ slots'[o.id][2] = IF o.op \in {"-slot2", "+slot2"} THEN None ELSE slots[o.id][2]
<1>1. o.id \in Ids /\ o.op \in Delete \cup Create /\ None \in File
  BY FileFacts DEF Ops
<1>2. /\ state \in [Ids -> File] /\ journal \in [Ids -> File]
      /\ slots \in [Ids -> [{1, 2} -> File]] /\ left \in [Ids -> Nat]
  BY DEF Types
<1>3. /\ state' = IF o.op = "-state" THEN [state EXCEPT ![o.id] = None]
                  ELSE IF o.op = "+state" THEN [state EXCEPT ![o.id] = f] ELSE state
      /\ journal' = IF o.op = "-journal" THEN [journal EXCEPT ![o.id] = None]
                    ELSE IF o.op = "+journal" THEN [journal EXCEPT ![o.id] = f] ELSE journal
      /\ slots' = IF o.op \in {"-slot1", "+slot1"} THEN [slots EXCEPT ![o.id][1] = None]
                  ELSE IF o.op \in {"-slot2", "+slot2"} THEN [slots EXCEPT ![o.id][2] = None]
                  ELSE IF o.op = "+save" THEN [slots EXCEPT ![o.id][1] = f] ELSE slots
      /\ left' = IF o.op = "+state" THEN [left EXCEPT ![o.id] = Steps] ELSE left
  BY DEF Effect
<1>4. /\ state' \in [Ids -> File]
      /\ \A j \in Ids \ {o.id} : state'[j] = state[j]
      /\ state'[o.id] = IF o.op = "-state" THEN None
                        ELSE IF o.op = "+state" THEN f ELSE state[o.id]
  BY <1>1, <1>2, <1>3
<1>5. /\ journal' \in [Ids -> File]
      /\ \A j \in Ids \ {o.id} : journal'[j] = journal[j]
      /\ journal'[o.id] = IF o.op = "-journal" THEN None
                          ELSE IF o.op = "+journal" THEN f ELSE journal[o.id]
  BY <1>1, <1>2, <1>3
<1>6. /\ slots' \in [Ids -> [{1, 2} -> File]]
      /\ \A j \in Ids \ {o.id} : slots'[j] = slots[j]
      /\ slots'[o.id][1] = IF o.op \in {"-slot1", "+slot1"} THEN None
                           ELSE IF o.op = "+save" THEN f ELSE slots[o.id][1]
      /\ slots'[o.id][2] = IF o.op \in {"-slot2", "+slot2"} THEN None ELSE slots[o.id][2]
  <2>1. CASE o.op \in {"-slot1", "+slot1"}
    BY <1>1, <1>2, <1>3, <2>1
  <2>2. CASE o.op \in {"-slot2", "+slot2"}
    BY <1>1, <1>2, <1>3, <2>2
  <2>3. CASE o.op = "+save"
    BY <1>1, <1>2, <1>3, <2>3
  <2>4. CASE o.op \notin {"-slot1", "+slot1", "-slot2", "+slot2", "+save"}
    BY <1>1, <1>2, <1>3, <2>4
  <2> QED BY <2>1, <2>2, <2>3, <2>4
<1>7. left' \in [Ids -> Nat]
  BY <1>1, <1>2, <1>3, KeepAssumption
<1> QED BY <1>4, <1>5, <1>6, <1>7

\* The next operation, by how many are left.
LEMMA HeadIs ==
    ASSUME IInv, todo # <<>>
    PROVE  LET o == Head(todo)  l == Len(todo)
           IN  /\ l \in Nat \ {0} /\ o \in Ops /\ New \in Ids /\ New = todo[l].id
               /\ l = 1 => o.op = "+save" /\ o.id = New
               /\ l = 2 => o.op = "+state" /\ o.id = New
               /\ l = 3 => o.op = "+slot2" /\ o.id = New
               /\ l = 4 => o.op = "+slot1" /\ o.id = New
               /\ l = 5 => o.op = "+journal" /\ o.id = New
               /\ l > 5 =>
                    /\ o.op \in Delete /\ o.id \in Ids
                    /\ o.op = "-state" \/ state[o.id] = None
<1> DEFINE o == Head(todo)
           l == Len(todo)
<1>1. todo \in Seq(Ops)
  BY DEF IInv, Types
<1>2. l \in Nat \ {0} /\ o = todo[1] /\ o \in Ops /\ todo[l] \in Ops
  BY <1>1, TailFacts
<1>3. o.id \in Ids /\ todo[l].id \in Ids
  BY <1>2 DEF Ops
<1> HIDE DEF o, l
<1>4. /\ l - 1 = 0 => o.op = "+save"
      /\ l - 1 = 1 => o.op = "+state"
      /\ l - 1 = 2 => o.op = "+slot2"
      /\ l - 1 = 3 => o.op = "+slot1"
      /\ l - 1 = 4 => o.op = "+journal"
      /\ l - 1 <= 4 => o.id = New
      /\ l - 1 > 4 =>
            /\ o.op \in Delete
            /\ \/ o.op = "-state" \/ state[o.id] = None
               \/ \E m \in 1 .. 1 - 1 : todo[m] = Op("-state", o.id)
  <2>1. Order /\ 1 \in 1 .. Len(todo) /\ l = Len(todo) /\ o = todo[1]
    BY <1>2 DEF IInv, l
  <2> QED BY ONLY <2>1 DEF Order
<1>5. ~ \E m \in 1 .. 1 - 1 : todo[m] = Op("-state", o.id)
  OBVIOUS
<1>6. New = todo[l].id
  BY DEF New, l
<1> QED BY <1>2, <1>3, <1>4, <1>5, <1>6 DEF o, l

\* One file operation, done or torn, whether the start goes on or not: the
\* files of every listed scan stay its own.
Performed(f) ==
    /\ todo # <<>> /\ ~ Refused(Head(todo)) /\ Effect(Head(todo), f)
    /\ starts' = starts
    /\ \/ f = Whole(starts)
       \/ f = Torn(starts) /\ Head(todo).op \in {"+state", "+save"}
    /\ \/ started' = started
       \/ started' = started \cup {starts} /\ Len(todo) = 1 /\ f = Whole(starts)

LEMMA PerformedIs ==
    ASSUME IInv, NEW f, Performed(f)
    PROVE  /\ starts \in Nat \ {0} /\ starts > 1 /\ starts \notin started
           /\ f \in File /\ f # None /\ f.inc = starts
           /\ \A j \in Ids \ {New} : state[j].inc \in Nat /\ state[j].inc < starts
<1>1. starts \in Nat \ {0} /\ starts > 1 /\ starts \notin started
  BY DEF IInv, Types, Underway, Performed
<1>2. f \in File /\ f # None /\ f.inc = starts
  BY <1>1, FileFacts DEF Performed
<1>3. \A j \in Ids \ {New} : state[j].inc \in Nat /\ state[j].inc < starts
  BY FileFacts DEF IInv, Types, Underway, Performed
<1> QED BY <1>1, <1>2, <1>3

LEMMA PerformedSound ==
    ASSUME IInv, NEW f, Performed(f), NEW j \in Listed'
    PROVE  Sound(j)'
<1> DEFINE o == Head(todo)
           l == Len(todo)
<1>1. /\ starts \in Nat \ {0} /\ starts > 1 /\ starts \notin started
      /\ f \in File /\ f # None /\ f.inc = starts
      /\ \A i \in Ids \ {New} : state[i].inc \in Nat /\ state[i].inc < starts
  BY PerformedIs
<1>2. /\ l \in Nat \ {0} /\ o \in Ops /\ New \in Ids
      /\ l = 1 => o.op = "+save" /\ o.id = New
      /\ l = 2 => o.op = "+state" /\ o.id = New
      /\ l = 3 => o.op = "+slot2" /\ o.id = New
      /\ l = 4 => o.op = "+slot1" /\ o.id = New
      /\ l = 5 => o.op = "+journal" /\ o.id = New
      /\ l > 5 =>
            /\ o.op \in Delete /\ o.id \in Ids
            /\ o.op = "-state" \/ state[o.id] = None
  BY HeadIs DEF Performed
<1>3. Types /\ Effect(o, f) /\ todo # <<>>
  BY DEF IInv, Performed
<1>4. j \in Ids /\ state'[j] # None
  BY DEF Listed
<1>5. /\ \A i \in Ids \ {o.id} :
            state'[i] = state[i] /\ journal'[i] = journal[i] /\ slots'[i] = slots[i]
      /\ state'[o.id] = IF o.op = "-state" THEN None
                        ELSE IF o.op = "+state" THEN f ELSE state[o.id]
      /\ journal'[o.id] = IF o.op = "-journal" THEN None
                          ELSE IF o.op = "+journal" THEN f ELSE journal[o.id]
      /\ slots'[o.id][1] = IF o.op \in {"-slot1", "+slot1"} THEN None
                           ELSE IF o.op = "+save" THEN f ELSE slots[o.id][1]
      /\ slots'[o.id][2] = IF o.op \in {"-slot2", "+slot2"} THEN None ELSE slots[o.id][2]
  <2> HIDE DEF o
  <2> QED BY <1>1, <1>2, <1>3, EffectIs
<1>6. /\ starts' = starts
      /\ \/ started' = started
         \/ started' = started \cup {starts} /\ l = 1 /\ f = Whole(starts)
  BY DEF Performed
<1>7. /\ l = 1 => state[New] = Whole(starts)
      /\ l \in 2 .. 4 => state[New] = None \/ IsLegacy(New)
      /\ l <= 4 => journal[New] = Whole(starts)
      /\ l <= 3 => slots[New][1] = None
      /\ l <= 2 => slots[New][2] = None
  BY <1>3 DEF IInv, Underway
<1>8. /\ Whole(starts) # None /\ Whole(starts).inc = starts /\ Whole(starts).torn = FALSE
      /\ None.inc = 0
  BY <1>1, FileFacts
<1> HIDE DEF o, l
<1>9. CASE j # o.id
  <2>1. state'[j] = state[j] /\ journal'[j] = journal[j] /\ slots'[j] = slots[j] /\ j \in Listed
    BY <1>4, <1>5, <1>9 DEF Listed
  <2>2. Sound(j)
    BY <2>1 DEF IInv
  <2>3. state[j].inc \in started' => state[j].inc \in started
    <3> SUFFICES ASSUME l = 1, started' = started \cup {starts} PROVE state[j].inc # starts
      BY <1>6
    <3> QED BY <1>1, <1>2, <1>4, <1>9
  <2> QED BY <1>6, <2>1, <2>2, <2>3 DEF Sound, IsLegacy, Valid
<1>10. CASE j = o.id
  <2>9. CASE IsLegacy(j) /\ state'[j] = state[j]
    <3>1. state'[j].inc = 1
      BY <2>9 DEF IsLegacy, LegacyInc
    <3>2. 1 \notin started' /\ 1 \in 1 .. starts'
      BY <1>1, <1>3, <1>6 DEF Types
    <3> QED BY <3>1, <3>2 DEF Sound, IsLegacy, LegacyInc
  <2>1. CASE l > 2
    <3>1. state'[j] = state[j] /\ j \in Listed /\ l <= 5
      <4>1. l > 5 => o.op \in Delete /\ (o.op = "-state" \/ state[j] = None)
        BY <1>2, <1>10
      <4>2. o.op # "+state"
        BY <1>2, <2>1 DEF Delete
      <4>3. o.op # "-state" /\ state'[j] = state[j]
        BY <1>4, <1>5, <1>10, <4>2
      <4> QED BY <1>2, <1>4, <4>1, <4>3 DEF Listed
    <3>2. j = New
      BY <1>2, <1>10, <2>1, <3>1
    <3>3. IsLegacy(j)
      <4>1. CASE l = 5
        <5>1. journal[j] = None
          BY <1>2, <1>10, <4>1 DEF Performed, Refused, o
        <5>2. Sound(j) /\ state[j].inc # 0
          BY <3>1 DEF IInv, Sound
        <5> QED BY <1>8, <5>1, <5>2 DEF Sound
      <4>2. CASE l # 5
        <5>1. l \in 2 .. 4
          BY <1>2, <2>1, <3>1, <4>2
        <5> QED BY <1>7, <3>1, <3>2, <5>1 DEF Listed
      <4> QED BY <4>1, <4>2
    <3> QED BY <2>9, <3>1, <3>3
  <2> SUFFICES ASSUME ~ (l > 2) PROVE Sound(j)'
    BY <2>1
  <2>2. j = New /\ (l = 1 \/ l = 2) /\ journal'[j] = Whole(starts) /\ slots'[j][2] = None
        /\ (l = 1 => o.op = "+save") /\ (l = 2 => o.op = "+state")
    BY <1>2, <1>5, <1>7, <1>10
  <2>3. /\ state'[j] = IF l = 1 THEN Whole(starts) ELSE f
        /\ slots'[j][1] = IF l = 1 THEN f ELSE None
    BY <1>5, <1>7, <1>10, <2>2
  <2>4. state'[j].inc = starts
    BY <1>1, <1>8, <2>2, <2>3
  <2>5. journal'[j].inc = starts /\ \A k \in {1, 2} : slots'[j][k].inc \in {0, starts}
    BY <1>1, <1>8, <2>2, <2>3
  <2>6. ASSUME starts \in started'
        PROVE  state'[j].torn = FALSE /\ slots'[j][1] # None /\ slots'[j][1].torn = FALSE
    BY <1>1, <1>6, <1>8, <2>3, <2>6
  <2>7. state'[j].inc \in 1 .. starts'
    BY <1>1, <1>6, <2>4
  <2>8. starts \in started' => ~ state'[j].torn /\ \E k \in {1, 2} : Valid(slots'[j][k])
    BY <2>6 DEF Valid
  <2> QED BY <2>4, <2>5, <2>7, <2>8 DEF Sound, Valid
<1> QED BY <1>9, <1>10

\* Only the state file puts a name on the list, and there is room for it.
LEMMA PerformedListed ==
    ASSUME IInv, NEW f, Performed(f)
    PROVE  /\ Len(todo) # 2 => Listed' \subseteq Listed
           /\ listedAll /\ Len(todo) <= 2 => Cardinality(Listed') <= Keep
           /\ Head(todo).op = "-state" => Head(todo).id \notin Listed'
<1> DEFINE o == Head(todo)
           l == Len(todo)
<1>1. f \in File
  BY PerformedIs
<1>2. /\ l \in Nat \ {0} /\ o \in Ops /\ New \in Ids
      /\ l = 1 => o.op = "+save" /\ o.id = New
      /\ l = 2 => o.op = "+state" /\ o.id = New
      /\ l = 3 => o.op = "+slot2" /\ o.id = New
      /\ l = 4 => o.op = "+slot1" /\ o.id = New
      /\ l = 5 => o.op = "+journal" /\ o.id = New
      /\ l > 5 => o.op \in Delete /\ o.id \in Ids
  BY HeadIs DEF Performed
<1>3. Types /\ Effect(o, f) /\ todo # <<>> /\ Room
  BY DEF IInv, Performed
<1>4. /\ \A i \in Ids \ {o.id} : state'[i] = state[i]
      /\ state'[o.id] = IF o.op = "-state" THEN None
                        ELSE IF o.op = "+state" THEN f ELSE state[o.id]
  <2> HIDE DEF o
  <2> QED BY <1>1, <1>2, <1>3, EffectIs
<1>5. l # 2 => o.op # "+state"
  <2> HIDE DEF o, l
  <2> QED BY <1>2 DEF Delete
<1>6. l # 2 => Listed' \subseteq Listed
  <2> HIDE DEF o, l
  <2> QED BY <1>4, <1>5 DEF Listed
<1>7. o.op = "-state" => o.id \notin Listed'
  <2> HIDE DEF o
  <2> QED BY <1>4 DEF Listed
<1>8. CASE l # 2
  <2>1. Cardinality(Listed') \in Nat /\ Cardinality(Listed') <= Cardinality(Listed)
    BY <1>6, <1>8, ListedFinite
  <2>2. listedAll /\ l <= 2 => Cardinality(Listed) <= Keep
    <3>1. l <= 2 => l = 1
      <4>1. l \in Nat \ {0} /\ l # 2
        BY <1>2, <1>8
      <4> HIDE DEF l
      <4> QED BY ONLY <4>1
    <3> QED BY <1>3, <3>1 DEF Room
  <2>3. listedAll /\ l <= 2 => Cardinality(Listed') <= Keep
    <3>1. Cardinality(Listed) \in Nat /\ Keep \in Nat
      BY ListedFinite, KeepAssumption
    <3> HIDE DEF l
    <3> QED BY ONLY <2>1, <2>2, <3>1
  <2> QED BY <1>6, <1>7, <1>8, <2>3, Zenon
<1>9. CASE l = 2 /\ listedAll
  <2>1. Condemned = {}
    <3>1. todo[1].op = "+state" /\ todo[2].op = "+save"
      <4>1. o = todo[1]
        BY <1>3, TailFacts DEF Types
      <4>2. 2 \in 1 .. Len(todo) /\ Len(todo) - 2 = 0 /\ Order
        BY <1>9 DEF IInv
      <4>3. todo[2].op = "+save"
        BY ONLY <4>2 DEF Order
      <4> QED BY <1>2, <1>9, <4>1, <4>3
    <3>2. \A i : Op("-state", i).op = "-state"
      BY DEF Op
    <3>3. \A n \in 1 .. Len(todo) : n = 1 \/ n = 2
      BY <1>9
    <3>4. \A n \in 1 .. Len(todo) : todo[n].op # "-state"
      BY <3>1, <3>3
    <3> QED BY <3>2, <3>4, Zenon DEF Condemned
  <2>2. Cardinality(Listed) < Keep
    <3>1. Listed \ Condemned = Listed
      BY <2>1
    <3>2. Cardinality(Listed \ Condemned) < Keep
      BY <1>3, <1>9 DEF Room
    <3> QED BY ONLY <3>1, <3>2, Zenon
  <2>3. Listed' \in SUBSET (Listed \cup {New})
    <3> HIDE DEF o, l
    <3> QED BY <1>2, <1>4, <1>9 DEF Listed
  <2>4. IsFiniteSet(Listed \cup {New}) /\ Cardinality(Listed \cup {New}) <= Keep
    <3>1. IsFiniteSet(Listed) /\ Cardinality(Listed) \in Nat /\ Keep \in Nat
      BY ListedFinite, KeepAssumption
    <3>2. /\ IsFiniteSet(Listed \cup {New})
          /\ Cardinality(Listed \cup {New}) = IF New \in Listed THEN Cardinality(Listed)
                                              ELSE Cardinality(Listed) + 1
      BY <3>1, FS_AddElement
    <3> QED BY ONLY <2>2, <3>1, <3>2
  <2>5. Cardinality(Listed') \in Nat /\ Cardinality(Listed') <= Cardinality(Listed \cup {New})
        /\ Cardinality(Listed \cup {New}) \in Nat
    BY <2>3, <2>4, FS_Subset, FS_CardinalityType
  <2>6. Cardinality(Listed') <= Keep
    <3>1. Keep \in Nat
      BY KeepAssumption
    <3> QED BY ONLY <2>4, <2>5, <3>1
  <2> QED BY <1>7, <1>9, <2>6
<1> QED BY <1>7, <1>8, <1>9

\* The start fails: no operation is ahead any more.
LEMMA StartFailsKeeps ==
    ASSUME IInv, StartFails
    PROVE  IInv'
<1>1. /\ todo # <<>> /\ ~ Refused(Head(todo)) /\ todo' = <<>>
      /\ starts' = starts /\ started' = started /\ listedAll' = listedAll
  BY DEF StartFails, history
<1>2. Order' /\ Underway' /\ Room'
  BY <1>1 DEF Order, Underway, Room
<1>3. CASE UNCHANGED <<files, left>>
  <2>1. UNCHANGED <<state, journal, slots, left>>
    BY <1>3 DEF files
  <2>2. Types'
    BY <1>1, <2>1 DEF IInv, Types
  <2>3. \A j \in Listed' : Sound(j)'
    BY <1>1, <2>1 DEF IInv, Listed, Sound, IsLegacy, Valid
  <2> QED BY <1>2, <2>2, <2>3 DEF IInv
<1>4. CASE ~ UNCHANGED <<files, left>>
  <2>1. PICK f : Performed(f)
    BY <1>1, <1>4 DEF StartFails, Performed
  <2>2. f \in File /\ Head(todo) \in Ops /\ Types /\ Effect(Head(todo), f)
    BY <1>1, <2>1, PerformedIs, HeadIs DEF IInv, Performed
  <2>3. Types'
    <3>1. /\ state' \in [Ids -> File] /\ journal' \in [Ids -> File]
          /\ slots' \in [Ids -> [{1, 2} -> File]] /\ left' \in [Ids -> Nat]
      BY <2>2, EffectIs
    <3> QED BY <1>1, <2>2, <3>1 DEF Types
  <2>4. \A j \in Listed' : Sound(j)'
    BY <2>1, PerformedSound
  <2> QED BY <1>2, <2>3, <2>4 DEF IInv
<1> QED BY <1>3, <1>4

\* The start goes on with what is left of its list.
LEMMA DoNextKeeps ==
    ASSUME IInv, DoNext
    PROVE  IInv'
<1> DEFINE o == Head(todo)
           l == Len(todo)
           t == Tail(todo)
           f == Whole(starts)
<1>1. /\ todo # <<>> /\ ~ Refused(o) /\ Effect(o, f)
      /\ todo' = t /\ starts' = starts /\ listedAll' = listedAll
      /\ started' = IF t = <<>> THEN started \cup {starts} ELSE started
  BY DEF DoNext
<1>2. Types /\ Order /\ Underway /\ Room /\ todo \in Seq(Ops)
  BY DEF IInv, Types
<1>3. /\ l \in Nat \ {0} /\ o = todo[1] /\ t \in Seq(Ops) /\ Len(t) = l - 1
      /\ \A n \in 1 .. l - 1 : t[n] = todo[n + 1]
  BY <1>1, <1>2, TailFacts
<1>4. t = <<>> <=> l = 1
  <2>1. \A x \in Seq(Ops) : x = <<>> <=> Len(x) = 0
    OBVIOUS
  <2>2. t = <<>> <=> Len(t) = 0
    BY <1>3, <2>1, Zenon
  <2>3. Len(t) = 0 <=> l = 1
    BY <1>3
  <2> QED BY ONLY <2>2, <2>3, Zenon
<1>5. Performed(f)
  BY <1>1, <1>4 DEF Performed
<1>6. /\ starts \in Nat \ {0} /\ starts > 1 /\ starts \notin started /\ f \in File
      /\ \A j \in Ids \ {New} : state[j].inc \in Nat /\ state[j].inc < starts
  BY <1>5, PerformedIs
<1>7. /\ o \in Ops /\ New \in Ids
      /\ l = 1 => o.op = "+save" /\ o.id = New
      /\ l = 2 => o.op = "+state" /\ o.id = New
      /\ l = 3 => o.op = "+slot2" /\ o.id = New
      /\ l = 4 => o.op = "+slot1" /\ o.id = New
      /\ l = 5 => o.op = "+journal" /\ o.id = New
      /\ l > 5 =>
            /\ o.op \in Delete /\ o.id \in Ids
            /\ o.op = "-state" \/ state[o.id] = None
  BY <1>1, HeadIs DEF IInv
<1>8. /\ state' \in [Ids -> File] /\ journal' \in [Ids -> File]
      /\ slots' \in [Ids -> [{1, 2} -> File]] /\ left' \in [Ids -> Nat]
      /\ \A j \in Ids \ {o.id} :
            state'[j] = state[j] /\ journal'[j] = journal[j] /\ slots'[j] = slots[j]
      /\ state'[o.id] = IF o.op = "-state" THEN None
                        ELSE IF o.op = "+state" THEN f ELSE state[o.id]
      /\ journal'[o.id] = IF o.op = "-journal" THEN None
                          ELSE IF o.op = "+journal" THEN f ELSE journal[o.id]
      /\ slots'[o.id][1] = IF o.op \in {"-slot1", "+slot1"} THEN None
                           ELSE IF o.op = "+save" THEN f ELSE slots[o.id][1]
      /\ slots'[o.id][2] = IF o.op \in {"-slot2", "+slot2"} THEN None ELSE slots[o.id][2]
  <2> HIDE DEF o, f
  <2> QED BY <1>1, <1>2, <1>6, <1>7, EffectIs
<1>9. l > 1 => New' = New /\ todo' # <<>>
  <2> SUFFICES ASSUME l > 1 PROVE New' = New /\ todo' # <<>>
    OBVIOUS
  <2>1. l - 1 \in 1 .. l - 1 /\ (l - 1) + 1 = l
    BY <1>3
  <2>2. t[l - 1] = todo[l]
    BY <1>3, <2>1
  <2> QED BY <1>1, <1>3, <1>4, <2>2 DEF New
<1> HIDE DEF o, l, t, f
<1>10. Types'
  <2>1. started' \subseteq 2 .. starts
    BY <1>1, <1>2, <1>6 DEF Types
  <2> QED BY <1>1, <1>2, <1>3, <1>8, <2>1 DEF Types
<1>11. Order'
  <2> SUFFICES ASSUME NEW n \in 1 .. Len(t)
               PROVE  LET u == t[n]  rest == Len(t) - n
                      IN  /\ rest = 0 => u.op = "+save"
                          /\ rest = 1 => u.op = "+state"
                          /\ rest = 2 => u.op = "+slot2"
                          /\ rest = 3 => u.op = "+slot1"
                          /\ rest = 4 => u.op = "+journal"
                          /\ rest <= 4 => u.id = New'
                          /\ rest > 4 =>
                                /\ u.op \in Delete
                                /\ \/ u.op = "-state" \/ state'[u.id] = None
                                   \/ \E m \in 1 .. n - 1 : t[m] = Op("-state", u.id)
    BY <1>1 DEF Order
  <2>1. /\ n \in 1 .. l - 1 /\ n + 1 \in 1 .. Len(todo) /\ l > 1
        /\ Len(t) - n = Len(todo) - (n + 1) /\ t[n] = todo[n + 1] /\ n + 1 - 1 = n
    BY <1>3 DEF l
  <2> DEFINE u == t[n]
             rest == Len(t) - n
  <2>2. /\ rest = 0 => u.op = "+save"
        /\ rest = 1 => u.op = "+state"
        /\ rest = 2 => u.op = "+slot2"
        /\ rest = 3 => u.op = "+slot1"
        /\ rest = 4 => u.op = "+journal"
        /\ rest <= 4 => u.id = New
        /\ rest > 4 =>
              /\ u.op \in Delete
              /\ \/ u.op = "-state" \/ state[u.id] = None
                 \/ \E m \in 1 .. n : todo[m] = Op("-state", u.id)
    <3> DEFINE k == n + 1
    <3>1. k \in 1 .. Len(todo) /\ Len(todo) - k = rest /\ todo[k] = u /\ k - 1 = n /\ Order
      BY <1>2, <2>1
    <3> HIDE DEF k, u, rest
    <3> QED BY ONLY <3>1 DEF Order
  <2>3. New' = New
    BY <1>9, <2>1
  <2>4. u \in Ops /\ u.id \in Ids
    <3>1. u \in Ops
      BY <1>3, <2>1
    <3> HIDE DEF u
    <3> QED BY ONLY <3>1 DEF Ops
  <2> HIDE DEF u
  <2>5. ASSUME rest > 4
        PROVE  \/ u.op = "-state" \/ state'[u.id] = None
               \/ \E m \in 1 .. n - 1 : t[m] = Op("-state", u.id)
    <3>1. l > 5 /\ o.op \in Delete
      BY <1>3, <1>7, <2>1, <2>5
    <3>2. CASE state[u.id] = None
      <4>1. o.op # "+state"
        BY <3>1 DEF Delete
      <4> QED BY <1>8, <2>4, <3>2, <4>1
    <3>3. ASSUME NEW m \in 1 .. n, todo[m] = Op("-state", u.id)
          PROVE  state'[u.id] = None \/ \E k \in 1 .. n - 1 : t[k] = Op("-state", u.id)
      <4>1. CASE m = 1
        <5>1. o.op = "-state" /\ o.id = u.id
          BY <1>3, <3>3, <4>1 DEF Op
        <5> QED BY <1>8, <5>1
      <4>2. CASE m # 1
        <5>1. m - 1 \in 1 .. n - 1 /\ m - 1 \in 1 .. l - 1 /\ (m - 1) + 1 = m
          BY <1>3, <2>1, <4>2
        <5>2. t[m - 1] = todo[m]
          BY <1>3, <5>1
        <5> QED BY <3>3, <5>1, <5>2
      <4> QED BY <4>1, <4>2
    <3> QED BY <2>2, <2>5, <3>2, <3>3
  <2> QED BY <2>2, <2>3, <2>5 DEF u
<1>12. Underway'
  <2> SUFFICES ASSUME l > 1
               PROVE  /\ starts > 1 /\ starts \notin started
                      /\ l - 1 = 1 => state'[New] = Whole(starts)
                      /\ l - 1 \in 2 .. 4 => state'[New] = None \/ state'[New].inc = LegacyInc
                      /\ l - 1 <= 4 => journal'[New] = Whole(starts)
                      /\ l - 1 <= 3 => slots'[New][1] = None
                      /\ l - 1 <= 2 => slots'[New][2] = None
                      /\ \A j \in Ids : j # New \/ l - 1 > 1 => state'[j].inc < starts
    <3>1. CASE l > 1
      BY <1>1, <1>3, <1>9, <3>1 DEF Underway, IsLegacy
    <3>2. CASE ~ (l > 1)
      <4>1. todo' = <<>>
        BY <1>1, <1>3, <1>4, <3>2
      <4> QED BY <4>1 DEF Underway
    <3> QED BY <3>1, <3>2
  <2>1. /\ l \in 2 .. 4 => state[New] = None \/ IsLegacy(New)
        /\ l <= 4 => journal[New] = Whole(starts)
        /\ l <= 3 => slots[New][1] = None
        /\ l <= 2 => slots[New][2] = None
        /\ \A j \in Ids : state[j].inc < starts
    BY <1>1, <1>2, <1>3 DEF Underway, l
  <2>3. l # 2 => o.op # "+state"
    BY <1>3, <1>7 DEF Delete
  <2>4. l = 2 => state'[New] = Whole(starts)
    BY <1>7, <1>8 DEF f
  <2>9. ASSUME l - 1 \in 2 .. 4
        PROVE  state'[New] = None \/ state'[New].inc = LegacyInc
    <3>1. l \in 3 .. 5 /\ o.op \notin {"-state", "+state"} /\ o.id = New
      BY <1>3, <1>7, <2>9
    <3>2. state'[New] = state[New]
      BY <1>8, <3>1
    <3>3. CASE l = 5
      <4>1. journal[New] = None
        BY <1>1, <1>7, <3>3 DEF Refused
      <4>2. ASSUME state[New] # None
            PROVE  IsLegacy(New)
        <5>1. New \in Listed
          BY <1>7, <4>2 DEF Listed
        <5>2. Sound(New)
          BY <5>1 DEF IInv
        <5> QED BY <4>1, <5>2, FileFacts DEF Sound
      <4> QED BY <3>2, <4>2 DEF IsLegacy
    <3>4. CASE l # 5
      <4>1. l \in 2 .. 4
        BY <3>1, <3>4
      <4> QED BY <2>1, <3>2, <4>1 DEF IsLegacy
    <3> QED BY <3>3, <3>4
  <2>5. ASSUME NEW j \in Ids, j # New \/ l - 1 > 1
        PROVE  state'[j].inc < starts
    <3>1. CASE j # o.id
      BY <1>8, <2>1, <3>1
    <3>2. CASE j = o.id
      <4>1. state'[j] = None \/ state'[j] = state[j]
        BY <1>3, <1>7, <1>8, <2>3, <2>5, <3>2
      <4> QED BY <1>6, <2>1, <4>1, FileFacts
    <3> QED BY <3>1, <3>2
  <2>6. l - 1 <= 4 => journal'[New] = Whole(starts)
    BY <1>3, <1>7, <1>8, <2>1 DEF f
  <2>7. l - 1 <= 3 => slots'[New][1] = None
    BY <1>3, <1>7, <1>8, <2>1
  <2>8. l - 1 <= 2 => slots'[New][2] = None
    BY <1>3, <1>7, <1>8, <2>1
  <2>10. l - 1 = 1 => l = 2
    BY <1>3
  <2> QED BY <1>6, <2>4, <2>5, <2>6, <2>7, <2>8, <2>9, <2>10
<1>13. \A j \in Listed' : Sound(j)'
  BY <1>5, PerformedSound
<1>14. /\ l # 2 => Listed' \subseteq Listed
       /\ listedAll /\ l <= 2 => Cardinality(Listed') <= Keep
       /\ o.op = "-state" => o.id \notin Listed'
  BY <1>5, PerformedListed DEF o, l
<1>15. Room'
  <2> SUFFICES ASSUME l - 1 > 1, listedAll PROVE Cardinality(Listed' \ Condemned') < Keep
    <3>1. listedAll /\ l - 1 = 1 => Cardinality(Listed') <= Keep
      BY <1>3, <1>14
    <3> QED BY <1>1, <1>3, <3>1 DEF Room
  <2>1. ASSUME NEW j \in Listed' \ Condemned'
        PROVE  j \in Listed \ Condemned
    <3>1. j \in Listed /\ j \in Ids
      BY <1>3, <1>14 DEF Listed
    <3>2. ASSUME NEW n \in 1 .. Len(todo), todo[n] = Op("-state", j)
          PROVE  FALSE
      <4>1. CASE n = 1
        <5>1. o.op = "-state" /\ o.id = j
          BY <1>3, <3>2, <4>1 DEF Op
        <5> QED BY <1>14, <5>1
      <4>2. CASE n # 1
        <5>1. n - 1 \in 1 .. Len(todo') /\ n - 1 \in 1 .. l - 1 /\ (n - 1) + 1 = n
          BY <1>1, <1>3, <4>2 DEF l
        <5>2. todo'[n - 1] = Op("-state", j)
          BY <1>1, <1>3, <3>2, <5>1
        <5> QED BY <3>1, <5>1, <5>2 DEF Condemned
      <4> QED BY <4>1, <4>2
    <3> QED BY <3>1, <3>2 DEF Condemned
  <2>2. (Listed' \ Condemned') \in SUBSET (Listed \ Condemned)
    BY <2>1
  <2>3. IsFiniteSet(Listed \ Condemned)
    BY ListedFinite, FS_Subset
  <2>4. /\ Cardinality(Listed' \ Condemned') \in Nat /\ Cardinality(Listed \ Condemned) \in Nat
        /\ Cardinality(Listed' \ Condemned') <= Cardinality(Listed \ Condemned)
    BY <2>2, <2>3, FS_Subset, FS_CardinalityType
  <2>5. Cardinality(Listed \ Condemned) < Keep /\ Keep \in Nat
    BY <1>2, <1>3, KeepAssumption DEF Room, l
  <2> QED BY ONLY <2>4, <2>5
<1> QED BY <1>10, <1>11, <1>12, <1>13, <1>15 DEF IInv

\* A name that is still taken ends the start.
LEMMA JournalExistsKeeps ==
    ASSUME IInv, JournalExists
    PROVE  IInv'
<1>1. todo' = <<>> /\ UNCHANGED <<state, journal, slots, left, starts, started, listedAll>>
  BY DEF JournalExists, files, history
<1>2. Types' /\ Order' /\ Underway'
  BY <1>1 DEF IInv, Types, Order, Underway
<1>3. \A j \in Listed' : Sound(j)'
  BY <1>1 DEF IInv, Listed, Sound, IsLegacy, Valid
<1>4. Room'
  BY <1>1 DEF Room
<1> QED BY <1>2, <1>3, <1>4 DEF IInv

\* A save writes beside a slot that decodes, whenever there is one.
LEMMA SavesBeside ==
    ASSUME NEW i \in Ids, NEW k \in SaveSlots(i)
    PROVE  /\ k \in {1, 2}
           /\ (\E w \in {1, 2} : Valid(slots[i][w]))
                 => \E v \in {1, 2} \ {k} : Valid(slots[i][v])
<1> DEFINE whole == {w \in {1, 2} : Valid(slots[i][w])}
<1>1. \/ whole = {} /\ k = 1
      \/ whole = {1, 2} /\ k \in {1, 2}
      \/ whole # {} /\ whole # {1, 2} /\ k \in {1, 2} \ whole
  BY DEF SaveSlots
<1> QED BY <1>1

\* A step, or one that dies: the journal is as it was or torn, and so is the
\* checkpoint, or one of its slots is written.
Stepped(i) ==
    /\ todo = <<>> /\ Steppable(i)
    /\ UNCHANGED <<state, todo, starts, history>>
    /\ left' \in [Ids -> Nat]
    /\ journal' = journal \/ journal' = [journal EXCEPT ![i] = Torn(@.inc)]
    /\ \/ slots' = slots
       \/ \E k \in SaveSlots(i) : \E f \in {Whole(state[i].inc), Torn(state[i].inc)} :
             slots' = [slots EXCEPT ![i][k] = f]

LEMMA SteppedKeeps ==
    ASSUME IInv, NEW i \in Ids, Stepped(i)
    PROVE  IInv'
<1>1. /\ todo' = <<>> /\ UNCHANGED <<state, starts, started, listedAll>> /\ Types
      /\ Valid(state[i]) /\ ~ IsLegacy(i) /\ Valid(journal[i])
  BY DEF Stepped, Steppable, Loads, IInv, history
<1>2. /\ state[i] \in File /\ state[i] # None /\ journal[i] \in File /\ journal[i] # None
      /\ state[i].inc \in Nat \ {0} /\ journal[i].inc \in Nat \ {0} /\ i \in Listed
  <2>1. state[i] \in File /\ state[i] # None /\ journal[i] \in File /\ journal[i] # None
    BY <1>1 DEF Types, Valid
  <2> QED BY <2>1, FileFacts DEF Listed
<1> DEFINE n == state[i].inc
<1>3. /\ journal' \in [Ids -> File]
      /\ \A j \in Ids : journal'[j].inc = journal[j].inc
  <2>1. Torn(journal[i].inc) \in File /\ Torn(journal[i].inc).inc = journal[i].inc
    BY <1>2, FileFacts
  <2>2. journal \in [Ids -> File]
    BY <1>1 DEF Types
  <2>3. journal' = journal \/ journal' = [journal EXCEPT ![i] = Torn(journal[i].inc)]
    BY DEF Stepped
  <2> QED BY <2>1, <2>2, <2>3
<1>4. /\ Whole(n) \in File /\ Whole(n).inc = n /\ Torn(n) \in File /\ Torn(n).inc = n
  BY <1>2, FileFacts
<1>5. slots \in [Ids -> [{1, 2} -> File]]
  BY <1>1 DEF Types
<1> HIDE DEF n
<1>6. /\ slots' \in [Ids -> [{1, 2} -> File]]
      /\ \A j \in Ids \ {i} : slots'[j] = slots[j]
      /\ \A k \in {1, 2} : slots'[i][k] = slots[i][k] \/ slots'[i][k].inc = n
      /\ (\E w \in {1, 2} : Valid(slots[i][w])) => \E v \in {1, 2} : Valid(slots'[i][v])
  <2>1. CASE slots' = slots
    BY <1>5, <2>1
  <2>2. ASSUME NEW k \in SaveSlots(i), NEW f \in {Whole(n), Torn(n)},
               slots' = [slots EXCEPT ![i][k] = f]
        PROVE  /\ slots' \in [Ids -> [{1, 2} -> File]]
               /\ \A j \in Ids \ {i} : slots'[j] = slots[j]
               /\ \A m \in {1, 2} : slots'[i][m] = slots[i][m] \/ slots'[i][m].inc = n
               /\ \A v \in {1, 2} \ {k} : slots'[i][v] = slots[i][v]
    <3>1. k \in {1, 2} /\ f \in File /\ f.inc = n
      BY <1>4, SavesBeside
    <3>2. /\ slots' \in [Ids -> [{1, 2} -> File]]
          /\ \A j \in Ids \ {i} : slots'[j] = slots[j]
          /\ \A v \in {1, 2} \ {k} : slots'[i][v] = slots[i][v]
          /\ slots'[i][k] = f
      BY ONLY <1>5, <2>2, <3>1, i \in Ids
    <3> QED BY <3>1, <3>2
  <2>3. ASSUME NEW k \in SaveSlots(i), NEW f \in {Whole(n), Torn(n)},
               slots' = [slots EXCEPT ![i][k] = f], \E w \in {1, 2} : Valid(slots[i][w])
        PROVE  \E v \in {1, 2} : Valid(slots'[i][v])
    <3>1. PICK v \in {1, 2} \ {k} : Valid(slots[i][v])
      BY <2>3, SavesBeside
    <3>2. slots'[i][v] = slots[i][v]
      BY <2>2, <2>3
    <3> QED BY <3>1, <3>2
  <2>4. \/ slots' = slots
        \/ \E k \in SaveSlots(i) : \E f \in {Whole(n), Torn(n)} : slots' = [slots EXCEPT ![i][k] = f]
    BY DEF Stepped, n
  <2>5. CASE slots' # slots
    <3>1. PICK k \in SaveSlots(i), f \in {Whole(n), Torn(n)} : slots' = [slots EXCEPT ![i][k] = f]
      BY <2>4, <2>5
    <3>2. (\E w \in {1, 2} : Valid(slots[i][w])) => \E v \in {1, 2} : Valid(slots'[i][v])
      BY <2>3, <3>1
    <3>3. /\ slots' \in [Ids -> [{1, 2} -> File]]
          /\ \A j \in Ids \ {i} : slots'[j] = slots[j]
          /\ \A m \in {1, 2} : slots'[i][m] = slots[i][m] \/ slots'[i][m].inc = n
      BY <2>2, <3>1
    <3> QED BY ONLY <3>2, <3>3, Zenon
  <2> QED BY <2>1, <2>5
<1>7. Types'
  BY <1>1, <1>3, <1>6 DEF Types, Stepped
<1>8. ASSUME NEW j \in Listed' PROVE Sound(j)'
  <2>1. j \in Listed /\ j \in Ids /\ Sound(j)
    BY <1>1 DEF Listed, IInv
  <2>2. /\ state[j].inc \in 1 .. starts
        /\ ~ IsLegacy(j) =>
            /\ journal[j].inc = state[j].inc
            /\ \A k \in {1, 2} : slots[j][k].inc \in {0, state[j].inc}
        /\ state[j].inc \in started =>
            /\ ~ state[j].torn
            /\ \E k \in {1, 2} : Valid(slots[j][k])
    BY <2>1 DEF Sound
  <2>3. ASSUME NEW k \in {1, 2}, slots[j][k].inc \in {0, state[j].inc}
        PROVE  slots'[j][k].inc \in {0, state[j].inc}
    BY <1>6, <2>1, <2>3 DEF n
  <2>4. (\E k \in {1, 2} : Valid(slots[j][k])) => \E k \in {1, 2} : Valid(slots'[j][k])
    BY <1>6, <2>1
  <2>5. /\ state'[j].inc \in 1 .. starts'
        /\ state'[j].inc # LegacyInc =>
            /\ journal'[j].inc = state'[j].inc
            /\ \A k \in {1, 2} : slots'[j][k].inc \in {0, state'[j].inc}
    BY <1>1, <1>3, <2>1, <2>2, <2>3 DEF IsLegacy
  <2>6. state'[j].inc \in started' =>
            /\ ~ state'[j].torn
            /\ \E k \in {1, 2} : Valid(slots'[j][k])
    BY <1>1, <2>2, <2>4
  <2> QED BY ONLY <2>5, <2>6 DEF Sound, IsLegacy, Valid
<1>9. Order' /\ Underway' /\ Room'
  BY <1>1 DEF Order, Underway, Room
<1> QED BY <1>7, <1>8, <1>9 DEF IInv

LEMMA StepsAreStepped ==
    ASSUME IInv, NEW i \in Ids, todo = <<>>, Steppable(i),
           UNCHANGED <<todo, starts, history>>, StepScan(i) \/ StepFails(i)
    PROVE  Stepped(i)
<1>1. left \in [Ids -> Nat] /\ left[i] \in Nat
  BY DEF IInv, Types
<1>2. \A n \in 0 .. left[i] : [left EXCEPT ![i] = n] \in [Ids -> Nat]
  BY <1>1
<1>3. CASE StepScan(i)
  BY <1>1, <1>2, <1>3 DEF StepScan, Save, Stepped
<1>4. CASE StepFails(i)
  BY <1>1, <1>4 DEF StepFails, Stepped
<1> QED BY <1>3, <1>4

\* Nothing the invariant speaks of changes.
LEMMA SameKeeps ==
    ASSUME IInv, UNCHANGED <<files, left, todo, starts, history>>
    PROVE  IInv'
<1>1. UNCHANGED <<state, journal, slots, left, todo, starts, started, listedAll>>
  BY DEF files, history
<1>2. Types' /\ Order' /\ Underway'
  BY <1>1 DEF IInv, Types, Order, Underway, New, IsLegacy
<1>3. (\A j \in Listed : Sound(j))'
  BY <1>1 DEF IInv, Listed, Sound, IsLegacy, Valid
<1>4. Room'
  BY <1>1 DEF IInv, Room, Listed, Condemned
<1> QED BY <1>2, <1>3, <1>4 DEF IInv

LEMMA NextHolds == IInv /\ [Next]_vars => IInv'
<1> SUFFICES ASSUME IInv, [Next]_vars PROVE IInv'
  OBVIOUS
<1>1. ASSUME NEW i \in Ids, ScanStart(i) PROVE IInv'
  BY <1>1, ScanStartKeeps
<1>2. ASSUME NEW i \in Ids, Step(i) PROVE IInv'
  <2>1. Stepped(i)
    BY <1>2, StepsAreStepped DEF Step
  <2> QED BY <2>1, SteppedKeeps
<1>3. CASE AdvanceScans
  <2>1. todo = <<>> /\ UNCHANGED <<todo, starts, history>>
    BY <1>3 DEF AdvanceScans
  <2>2. PICK L \in SUBSET Listed :
          \/ \E i \in L : Turn(i, L) /\ Steppable(i) /\ StepScan(i)
          \/ UNCHANGED <<files, left>>
    BY <1>3 DEF AdvanceScans
  <2>3. CASE UNCHANGED <<files, left>>
    BY <2>1, <2>3, SameKeeps
  <2>4. ASSUME NEW i \in L, Steppable(i), StepScan(i)
        PROVE  IInv'
    <3>1. i \in Ids
      BY DEF Listed
    <3>2. Stepped(i)
      BY <2>1, <2>4, <3>1, StepsAreStepped
    <3> QED BY <3>1, <3>2, SteppedKeeps
  <2> QED BY <2>2, <2>3, <2>4
<1>4. CASE AdvanceFails
  <2>1. PICK i \in Listed : Steppable(i) /\ StepFails(i)
    BY <1>4 DEF AdvanceFails
  <2>2. i \in Ids /\ todo = <<>> /\ UNCHANGED <<todo, starts, history>>
    BY <1>4 DEF AdvanceFails, Listed
  <2>3. Stepped(i)
    BY <2>1, <2>2, StepsAreStepped
  <2> QED BY <2>2, <2>3, SteppedKeeps
<1>5. CASE UNCHANGED vars
  <2>1. UNCHANGED <<files, left, todo, starts, history>>
    BY <1>5 DEF vars
  <2> QED BY <2>1, SameKeeps
<1> QED
  BY <1>1, <1>2, <1>3, <1>4, <1>5, JournalExistsKeeps, DoNextKeeps, StartFailsKeeps DEF Next

-----------------------------------------------------------------------------
(* What the files of an installation guarantee                               *)

(* The inductive invariant: what a start has ahead, what it has done, and    *)
(* whose the files of the listed scans are.                                  *)
THEOREM Invariance == Spec => []IInv
<1> QED BY InitHolds, NextHolds, PTL DEF Spec

(* A scan that loads has no file of an earlier scan of its name, whatever a  *)
(* prune or a start that was cut short left behind.                          *)
THEOREM NoFilesMix == Spec => []OneIncarnation
<1>1. IInv => OneIncarnation
  <2> SUFFICES ASSUME IInv, NEW i \in Ids, Loads(i), ~ IsLegacy(i)
               PROVE  /\ journal[i].inc = state[i].inc
                      /\ \A k \in {1, 2} : slots[i][k].inc \in {0, state[i].inc}
    BY DEF OneIncarnation
  <2>1. i \in Listed
    BY DEF Loads, Valid, Listed
  <2> QED BY <2>1 DEF IInv, Sound
<1> QED BY <1>1, Invariance, PTL

(* An acknowledged scan can be loaded until it is pruned, whatever steps of  *)
(* it die and whatever other starts do.                                      *)
THEOREM StartedStaysLoadable == Spec => []StartedLoads
<1>1. IInv => StartedLoads
  <2> SUFFICES ASSUME IInv, NEW i \in Ids, state[i].inc \in started
               PROVE  Loads(i)
    BY DEF StartedLoads
  <2>1. state[i] \in File /\ state[i].inc # 0
    BY DEF IInv, Types
  <2>2. i \in Listed
    BY <2>1, FileFacts DEF Listed
  <2> QED BY <2>2 DEF IInv, Sound, Loads, Valid, Listed
<1> QED BY <1>1, Invariance, PTL

(* A start that sees all the scans there are never makes them more than      *)
(* keep_scans, wherever it is cut short, and no more are kept when it is     *)
(* acknowledged, however many there were. A start that could not list them   *)
(* adds one.                                                                 *)
THEOREM RetentionBound == Spec => KeepsAtMost
<1> DEFINE few == Cardinality(Listed') <= Cardinality(Listed) \/ Cardinality(Listed') <= Keep
           kept == started' # started => Cardinality(Listed') <= Keep
<1>1. IInv /\ [Next]_vars /\ listedAll => few /\ kept
  <2> SUFFICES ASSUME IInv, [Next]_vars, listedAll PROVE few /\ kept
    OBVIOUS
  <2>1. ASSUME Listed' \subseteq Listed
        PROVE  few
    BY <2>1, ListedFinite
  <2>2. ASSUME NEW f, Performed(f)
        PROVE  few /\ (Len(todo) <= 2 => Cardinality(Listed') <= Keep)
    <3>1. /\ Len(todo) # 2 => Listed' \subseteq Listed
          /\ Len(todo) <= 2 => Cardinality(Listed') <= Keep
      BY <2>2, PerformedListed
    <3>2. Len(todo) = 2 => Len(todo) <= 2
      OBVIOUS
    <3> QED BY <2>1, <3>1, <3>2
  <2>3. ASSUME state' = state /\ started' = started
        PROVE  few /\ kept
    BY <2>1, <2>3 DEF Listed
  <2>4. CASE DoNext
    <3>1. Performed(Whole(starts)) /\ (started' # started => Len(todo) = 1)
      <4>1. todo # <<>> /\ todo \in Seq(Ops)
        BY <2>4 DEF DoNext, IInv, Types
      <4>2. ASSUME Tail(todo) = <<>> PROVE Len(todo) = 1
        <5>1. Len(Tail(todo)) = Len(todo) - 1 /\ Len(todo) \in Nat
          BY <4>1, TailFacts
        <5>2. Len(Tail(todo)) = 0
          <6>1. \A x \in Seq(Ops) : x = <<>> => Len(x) = 0
            OBVIOUS
          <6>2. Tail(todo) \in Seq(Ops)
            BY <4>1, TailFacts
          <6> QED BY <4>2, <6>1, <6>2, Zenon
        <5> QED BY ONLY <5>1, <5>2
      <4> QED BY <2>4, <4>1, <4>2 DEF DoNext, Performed
    <3>2. few /\ (Len(todo) = 1 => Cardinality(Listed') <= Keep)
      <4>1. Len(todo) = 1 => Len(todo) <= 2
        OBVIOUS
      <4> HIDE DEF few
      <4> QED BY <2>2, <3>1, <4>1
    <3> HIDE DEF few
    <3> QED BY <3>1, <3>2
  <2>5. CASE StartFails
    <3>1. started' = started
      BY <2>5 DEF StartFails, history
    <3>2. CASE UNCHANGED <<files, left>>
      BY <2>3, <3>1, <3>2 DEF files
    <3>3. CASE ~ UNCHANGED <<files, left>>
      <4>1. PICK f : Performed(f)
        BY <2>5, <3>1, <3>3 DEF StartFails, Performed
      <4> QED BY <2>2, <3>1, <4>1
    <3> QED BY <3>2, <3>3
  <2>6. ASSUME NEW i \in Ids, ScanStart(i) PROVE state' = state /\ started' = started
    BY <2>6 DEF ScanStart, files
  <2>7. ASSUME NEW i \in Ids, Step(i) PROVE state' = state /\ started' = started
    BY <2>7 DEF Step, StepScan, StepFails, history
  <2>8. ASSUME AdvanceScans \/ AdvanceFails PROVE state' = state /\ started' = started
    BY <2>8 DEF AdvanceScans, AdvanceFails, StepScan, StepFails, history, files
  <2>9. ASSUME JournalExists \/ UNCHANGED vars PROVE state' = state /\ started' = started
    BY <2>9 DEF JournalExists, vars, history, files
  <2> QED BY <2>3, <2>4, <2>5, <2>6, <2>7, <2>8, <2>9 DEF Next
<1>2. IInv /\ [Next]_vars => [listedAll => few /\ kept]_vars
  BY <1>1
<1> QED BY <1>2, Invariance, PTL DEF Spec, KeepsAtMost
=============================================================================
