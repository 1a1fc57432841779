-------------------------- MODULE ShardCache_proofs --------------------------
(* Proofs about one shard of the cache for every set of keys and answers,    *)
(* every length of lines and limit of a shard, and any number of faults.     *)
EXTENDS ShardCache, FiniteSetTheorems, SequenceTheorems, WellFoundedInduction, TLAPS

Pieces == [e : Entries \cup {NoEntry}, bytes : Nat, nl : BOOLEAN]
Shards == [entries : Seq(Entries), size : Nat, over : BOOLEAN]
SomeAnswer == {NoAnswer} \cup UNION {Answers[k] : k \in Keys}

TypeOK ==
    /\ file \in Seq(Pieces) /\ limit \in Nat
    /\ open \in BOOLEAN /\ mem \in Shards
    /\ faults \in Nat
    /\ latest \in [Keys -> SomeAnswer] /\ clean \in BOOLEAN

\* The pieces that are spoiled, or that the next line would spoil.
Weak(f) == {i \in DOMAIN f : f[i].e = NoEntry \/ ~ f[i].nl}

\* The entries in whole lines, and the spoiled lines no line runs into any more.
Whole(f) == {f[i].e : i \in {j \in DOMAIN f : f[j].nl}}
Firm(f) == {i \in DOMAIN f : f[i].e = NoEntry /\ f[i].nl}

\* What is appended next begins a line.
Ended(f) == f = <<>> \/ Last(f).nl

\* File and memory are the same.
Same ==
    /\ mem.entries = Decoded(file) /\ mem.size = FileBytes(file)
    /\ mem.size <= limit /\ Ended(file)

IInv ==
    /\ TypeOK
    /\ NeverStale
    /\ Cardinality(Weak(file)) <= faults
    /\ clean => Same

-----------------------------------------------------------------------------
(* Positions                                                                 *)

(* A set of numbers that is not empty has a least element.                   *)
LEMMA LeastExists ==
    ASSUME NEW S \in SUBSET Nat, S # {}
    PROVE  \E x \in S : \A y \in S : x <= y
<1> DEFINE Less == {ss \in Nat \X Nat : ss[1] < ss[2]}
<1>1. IsWellFoundedOn(Less, Nat)
  BY NatLessThanWellFounded, Zenon DEF OpToRel
<1>2. PICK x \in S : \A y \in S : ~ (<<y, x>> \in Less)
  <2> HIDE DEF Less
  <2> QED BY <1>1, WFMin
<1>3. ASSUME NEW y \in S PROVE x <= y
  <2>1. x \in Nat /\ y \in Nat
    OBVIOUS
  <2>2. ~ (<<y, x>> \in Less)
    BY <1>2
  <2> QED BY <2>1, <2>2
<1> QED BY <1>3

(* One that is also bounded has a greatest element.                          *)
LEMMA GreatestExists ==
    ASSUME NEW n \in Nat, NEW S \in SUBSET (0 .. n), S # {}
    PROVE  \E x \in S : \A y \in S : y <= x
<1> DEFINE T == {n - y : y \in S}
<1>1. T \in SUBSET Nat /\ T # {}
  <2>1. \A y \in S : n - y \in Nat
    OBVIOUS
  <2>2. T # {}
    OBVIOUS
  <2> QED BY <2>1, <2>2
<1>2. PICK t \in T : \A u \in T : t <= u
  <2> HIDE DEF T
  <2> QED BY <1>1, LeastExists
<1>3. PICK x \in S : t = n - x
  OBVIOUS
<1>4. ASSUME NEW y \in S PROVE y <= x
  <2>1. n - x <= n - y
    BY <1>2, <1>3
  <2> QED BY <2>1
<1> QED BY <1>4

(* A set of positions is finite.                                             *)
LEMMA PositionsFinite ==
    ASSUME NEW n \in Nat
    PROVE  /\ IsFiniteSet(1 .. n) /\ Cardinality(1 .. n) = n
           /\ \A S \in SUBSET (1 .. n) : S \in SUBSET Nat /\ IsFiniteSet(S)
<1>1. n \in Int /\ 1 \in Int /\ (1 > n => n = 0) /\ n - 1 + 1 = n
  OBVIOUS
<1>2. IsFiniteSet(1 .. n) /\ Cardinality(1 .. n) = n
  BY <1>1, FS_Interval
<1>3. \A S \in SUBSET (1 .. n) : S \in SUBSET Nat
  OBVIOUS
<1> QED BY <1>2, <1>3, FS_Subset

\* The place of x in S.
Rank(S, x) == Cardinality({j \in S : j <= x})

(* Every element of a finite set has a place of its own, and every place is  *)
(* taken.                                                                    *)
LEMMA RankFacts ==
    ASSUME NEW S \in SUBSET Nat, IsFiniteSet(S)
    PROVE  /\ Cardinality(S) \in Nat
           /\ \A x \in S : Rank(S, x) \in 1 .. Cardinality(S)
           /\ \A x, y \in S : Rank(S, x) = Rank(S, y) => x = y
           /\ \A n \in 1 .. Cardinality(S) : \E x \in S : Rank(S, x) = n
<1> DEFINE c == Cardinality(S)
           upto(x) == {j \in S : j <= x}
           r == [x \in S |-> Rank(S, x)]
<1>1. c \in Nat
  BY FS_CardinalityType
<1>2. ASSUME NEW x \in S
      PROVE  IsFiniteSet(upto(x)) /\ Rank(S, x) \in 1 .. c
  <2>1. upto(x) \in SUBSET S /\ x \in upto(x) /\ Rank(S, x) = Cardinality(upto(x))
    BY DEF Rank
  <2> HIDE DEF upto
  <2>2. IsFiniteSet(upto(x)) /\ Cardinality(upto(x)) <= c
    BY <2>1, FS_Subset
  <2>3. Cardinality(upto(x)) \in Nat /\ Cardinality(upto(x)) # 0
    BY <2>1, <2>2, FS_CardinalityType, FS_EmptySet
  <2> QED BY <1>1, <2>1, <2>2, <2>3
<1>3. ASSUME NEW x \in S, NEW y \in S, x < y PROVE Rank(S, x) < Rank(S, y)
  <2>1. upto(x) \in SUBSET upto(y) /\ y \in upto(y) /\ y \notin upto(x)
    <3>1. x \in Nat /\ y \in Nat /\ \A z \in S : z \in Nat
      OBVIOUS
    <3>2. \A u, v, w \in Nat : u < v => (w <= u => w <= v) /\ v <= v /\ ~ (v <= u)
      OBVIOUS
    <3> QED BY <1>3, <3>1, <3>2, Zenon
  <2>2. Rank(S, x) = Cardinality(upto(x)) /\ Rank(S, y) = Cardinality(upto(y))
    BY DEF Rank
  <2>3. IsFiniteSet(upto(y)) /\ Rank(S, x) \in 1 .. c /\ Rank(S, y) \in 1 .. c
    BY <1>2
  <2> HIDE DEF upto
  <2>4. Cardinality(upto(x)) <= Cardinality(upto(y)) /\ Cardinality(upto(x)) # Cardinality(upto(y))
    BY <2>1, <2>3, FS_Subset
  <2> QED BY <1>1, <2>2, <2>3, <2>4
<1>4. \A x, y \in S : Rank(S, x) = Rank(S, y) => x = y
  <2> SUFFICES ASSUME NEW x \in S, NEW y \in S, Rank(S, x) = Rank(S, y), x # y
               PROVE  FALSE
    OBVIOUS
  <2>1. x < y \/ y < x
    OBVIOUS
  <2>2. Rank(S, x) < Rank(S, y) \/ Rank(S, y) < Rank(S, x)
    BY <1>3, <2>1
  <2>3. Rank(S, x) \in 1 .. c /\ Rank(S, y) \in 1 .. c
    BY <1>2
  <2>4. \A u, v \in 1 .. c : u = v => ~ (u < v) /\ ~ (v < u)
    BY <1>1
  <2> QED BY <2>2, <2>3, <2>4, Zenon
<1>5. r \in [S -> 1 .. c] /\ \A x \in S : r[x] = Rank(S, x)
  BY <1>2
<1> HIDE DEF r, upto
<1>6. r \in Injection(S, 1 .. c)
  BY <1>4, <1>5 DEF Injection, IsInjective
<1>7. IsFiniteSet(1 .. c) /\ Cardinality(1 .. c) = c
  BY <1>1, FS_Interval
<1>8. r \in Surjection(S, 1 .. c)
  BY <1>6, <1>7, FS_Injection
<1>9. \A n \in 1 .. c : \E x \in S : Rank(S, x) = n
  BY <1>5, <1>8 DEF Surjection
<1> QED BY <1>1, <1>2, <1>4, <1>9

(* InOrder lists each element at its place.                                  *)
LEMMA InOrderFacts ==
    ASSUME NEW S \in SUBSET Nat, IsFiniteSet(S)
    PROVE  /\ Cardinality(S) \in Nat
           /\ DOMAIN InOrder(S) = 1 .. Cardinality(S)
           /\ \A n \in 1 .. Cardinality(S) :
                 InOrder(S)[n] \in S /\ Rank(S, InOrder(S)[n]) = n
           /\ \A x \in S : Rank(S, x) \in 1 .. Cardinality(S) /\ InOrder(S)[Rank(S, x)] = x
<1>1. InOrder(S) = [n \in 1 .. Cardinality(S) |-> CHOOSE i \in S : Rank(S, i) = n]
  BY DEF InOrder, Rank
<1>2. \A n \in 1 .. Cardinality(S) :
         (CHOOSE i \in S : Rank(S, i) = n) \in S
         /\ Rank(S, CHOOSE i \in S : Rank(S, i) = n) = n
  BY RankFacts
<1>3. \A n \in 1 .. Cardinality(S) : InOrder(S)[n] \in S /\ Rank(S, InOrder(S)[n]) = n
  BY <1>1, <1>2
<1>4. \A x \in S : Rank(S, x) \in 1 .. Cardinality(S) /\ InOrder(S)[Rank(S, x)] = x
  <2> SUFFICES ASSUME NEW x \in S
               PROVE  Rank(S, x) \in 1 .. Cardinality(S) /\ InOrder(S)[Rank(S, x)] = x
    OBVIOUS
  <2>1. Rank(S, x) \in 1 .. Cardinality(S)
    BY RankFacts
  <2>2. InOrder(S)[Rank(S, x)] \in S /\ Rank(S, InOrder(S)[Rank(S, x)]) = Rank(S, x)
    BY <1>3, <2>1
  <2>3. \A u, v \in S : Rank(S, u) = Rank(S, v) => u = v
    BY RankFacts
  <2> QED BY <2>1, <2>2, <2>3, Zenon
<1> QED BY <1>1, <1>3, <1>4, RankFacts

(* A new greatest element is listed last.                                    *)
LEMMA InOrderAppend ==
    ASSUME NEW S \in SUBSET Nat, IsFiniteSet(S), NEW m \in Nat, \A x \in S : x < m
    PROVE  /\ Cardinality(S \cup {m}) = Cardinality(S) + 1
           /\ \A n \in 1 .. Cardinality(S) : InOrder(S \cup {m})[n] = InOrder(S)[n]
           /\ InOrder(S \cup {m})[Cardinality(S) + 1] = m
<1> DEFINE T == S \cup {m}
           c == Cardinality(S)
<1>1. T \in SUBSET Nat /\ IsFiniteSet(T) /\ Cardinality(T) = c + 1 /\ c \in Nat
  <2>1. m \notin S
    OBVIOUS
  <2> QED BY <2>1, FS_AddElement, FS_CardinalityType
<1>2. ASSUME NEW x \in S PROVE Rank(T, x) = Rank(S, x)
  <2>1. {j \in T : j <= x} = {j \in S : j <= x}
    <3>1. x \in Nat /\ x < m
      OBVIOUS
    <3>2. ~ (m <= x)
      BY <3>1
    <3> QED BY <3>2
  <2> QED BY <2>1 DEF Rank
<1>3. Rank(T, m) = c + 1
  <2>1. \A j \in T : j <= m
    OBVIOUS
  <2>2. {j \in T : j <= m} = T
    BY <2>1
  <2> QED BY <1>1, <2>2 DEF Rank
<1> HIDE DEF T
<1>4. ASSUME NEW n \in 1 .. c PROVE InOrder(T)[n] = InOrder(S)[n]
  <2>1. InOrder(S)[n] \in S /\ Rank(S, InOrder(S)[n]) = n
    BY InOrderFacts
  <2>2. InOrder(S)[n] \in T /\ Rank(T, InOrder(S)[n]) = n
    BY <1>2, <2>1 DEF T
  <2> QED BY <1>1, <2>2, InOrderFacts
<1>5. InOrder(T)[c + 1] = m
  <2>1. m \in T
    BY DEF T
  <2>2. InOrder(T)[Rank(T, m)] = m
    BY <1>1, <2>1, InOrderFacts
  <2> QED BY <1>3, <2>2
<1> QED BY <1>1, <1>4, <1>5 DEF T

(* The first n positions are listed as they are.                             *)
LEMMA InOrderInterval ==
    ASSUME NEW n \in Nat
    PROVE  Cardinality(1 .. n) = n /\ \A i \in 1 .. n : InOrder(1 .. n)[i] = i
<1>1. 1 .. n \in SUBSET Nat /\ IsFiniteSet(1 .. n) /\ Cardinality(1 .. n) = n
  BY PositionsFinite
<1>2. ASSUME NEW i \in 1 .. n PROVE InOrder(1 .. n)[i] = i
  <2>1. {j \in 1 .. n : j <= i} = 1 .. i
    OBVIOUS
  <2>2. Rank(1 .. n, i) = i
    <3>1. i \in Nat
      OBVIOUS
    <3> QED BY <2>1, <3>1, PositionsFinite DEF Rank
  <2>3. InOrder(1 .. n)[Rank(1 .. n, i)] = i
    BY <1>1, InOrderFacts
  <2> QED BY <2>2, <2>3
<1> QED BY <1>1, <1>2
-----------------------------------------------------------------------------
(* Bytes                                                                     *)

(* A file has finitely many bytes.                                           *)
LEMMA BytesFinite ==
    ASSUME NEW f \in Seq(Pieces)
    PROVE  IsFiniteSet(Bytes(f)) /\ FileBytes(f) \in Nat
<1> DEFINE of == [i \in 1 .. Len(f) |-> {i} \X (1 .. f[i].bytes)]
           T == {of[i] : i \in 1 .. Len(f)}
<1>1. DOMAIN f = 1 .. Len(f) /\ Len(f) \in Nat /\ \A i \in 1 .. Len(f) : f[i] \in Pieces
  OBVIOUS
<1>2. ASSUME NEW i \in 1 .. Len(f) PROVE IsFiniteSet(of[i])
  <2>1. f[i].bytes \in Nat
    BY <1>1 DEF Pieces
  <2>2. IsFiniteSet(1 .. f[i].bytes) /\ IsFiniteSet({i})
    BY <2>1, PositionsFinite, FS_Singleton
  <2>3. IsFiniteSet({i} \X (1 .. f[i].bytes))
    BY <2>2, FS_Product
  <2> QED BY <2>3
<1>3. Bytes(f) = UNION T
  BY <1>1 DEF Bytes
<1>4. IsFiniteSet(1 .. Len(f))
  BY <1>1, PositionsFinite
<1>5. of \in Surjection(1 .. Len(f), T)
  <2>1. of \in [1 .. Len(f) -> T]
    OBVIOUS
  <2>2. \A t \in T : \E i \in 1 .. Len(f) : of[i] = t
    OBVIOUS
  <2> QED BY ONLY <2>1, <2>2 DEF Surjection
<1>6. \A t \in T : IsFiniteSet(t)
  BY <1>2
<1> HIDE DEF T, of
<1>7. IsFiniteSet(T)
  BY <1>4, <1>5, FS_Surjection
<1>8. IsFiniteSet(Bytes(f))
  BY <1>3, <1>6, <1>7, FS_UNION
<1> QED BY <1>8, FS_CardinalityType DEF FileBytes

(* An appended piece adds its bytes.                                         *)
LEMMA BytesAppend ==
    ASSUME NEW f \in Seq(Pieces), NEW p \in Pieces
    PROVE  FileBytes(Append(f, p)) = FileBytes(f) + p.bytes
<1> DEFINE m == Len(f) + 1
           new == {m} \X (1 .. p.bytes)
<1>1. Len(f) \in Nat /\ DOMAIN f = 1 .. Len(f) /\ p.bytes \in Nat
  BY DEF Pieces
<1>2. DOMAIN Append(f, p) = 1 .. m /\ Append(f, p)[m] = p
      /\ \A i \in 1 .. Len(f) : Append(f, p)[i] = f[i]
  BY <1>1
<1>3. \A i : i \in 1 .. m <=> i \in 1 .. Len(f) \/ i = m
  BY <1>1
<1>4. m \notin 1 .. Len(f) /\ m \in Nat /\ m \in Int
  BY <1>1
<1> HIDE DEF m
<1>5. Bytes(Append(f, p)) = Bytes(f) \cup new
  <2>1. ASSUME NEW x PROVE x \in Bytes(Append(f, p)) <=> x \in Bytes(f) \cup new
    <3>1. x \in Bytes(Append(f, p)) <=> \E i \in 1 .. m : x \in {i} \X (1 .. Append(f, p)[i].bytes)
      BY <1>2 DEF Bytes
    <3>2. x \in Bytes(f) <=> \E i \in 1 .. Len(f) : x \in {i} \X (1 .. f[i].bytes)
      BY <1>1 DEF Bytes
    <3>3. x \in new <=> x \in {m} \X (1 .. Append(f, p)[m].bytes)
      BY <1>2
    <3> HIDE DEF new
    <3>4. \A i \in 1 .. Len(f) : x \in {i} \X (1 .. Append(f, p)[i].bytes)
                                   <=> x \in {i} \X (1 .. f[i].bytes)
      BY <1>2
    <3> QED BY <1>3, <3>1, <3>2, <3>3, <3>4, Zenon
  <2> QED BY <2>1
<1>6. Bytes(f) \cap new = {}
  <2>1. \A x \in Bytes(f) : x[1] \in 1 .. Len(f)
    BY <1>1 DEF Bytes
  <2>2. \A x \in new : x[1] = m
    OBVIOUS
  <2> QED BY <1>4, <2>1, <2>2
<1>7. IsFiniteSet(new) /\ Cardinality(new) = p.bytes
  <2>1. IsFiniteSet({m}) /\ Cardinality({m}) = 1
    BY FS_Singleton
  <2>2. IsFiniteSet(1 .. p.bytes) /\ Cardinality(1 .. p.bytes) = p.bytes
    BY <1>1, PositionsFinite
  <2>3. IsFiniteSet(new) /\ Cardinality(new) = 1 * p.bytes
    BY <2>1, <2>2, FS_Product
  <2> QED BY <1>1, <2>3
<1> HIDE DEF new
<1>8. Cardinality(Bytes(f) \cup new)
        = Cardinality(Bytes(f)) + Cardinality(new) - Cardinality(Bytes(f) \cap new)
  BY <1>7, BytesFinite, FS_Union
<1>9. Cardinality(Bytes(f)) \in Nat
  BY BytesFinite DEF FileBytes
<1>10. Cardinality(Bytes(f) \cap new) = 0
  BY <1>6, FS_EmptySet
<1>11. Cardinality(Bytes(Append(f, p))) = Cardinality(Bytes(f)) + Cardinality(new)
  BY <1>1, <1>5, <1>7, <1>8, <1>9, <1>10
<1> QED BY <1>7, <1>11 DEF FileBytes

(* The lines of entries are pieces, each of which ends.                      *)
LEMMA LinesFacts ==
    ASSUME NEW es \in Seq(Entries)
    PROVE  /\ Lines(es) \in Seq(Pieces) /\ Len(Lines(es)) = Len(es)
           /\ \A i \in 1 .. Len(es) : Lines(es)[i] = Line(es[i])
           /\ \A i \in 1 .. Len(es) : es[i] \in Entries /\ Line(es[i]) \in Pieces
           /\ Ended(Lines(es))
           /\ EntriesBytes(es) \in Nat
<1>1. DOMAIN es = 1 .. Len(es) /\ Len(es) \in Nat /\ \A i \in 1 .. Len(es) : es[i] \in Entries
  OBVIOUS
<1>2. \A e \in Entries : e.k \in Keys /\ Line(e) \in Pieces
  BY BytesAssumption DEF Entries, Line, Pieces
<1>3. Lines(es) = [i \in 1 .. Len(es) |-> Line(es[i])]
  BY <1>1 DEF Lines
<1>4. Lines(es) \in [1 .. Len(es) -> Pieces]
  BY <1>1, <1>2, <1>3
<1>5. Lines(es) \in Seq(Pieces) /\ Len(Lines(es)) = Len(es)
  BY <1>1, <1>4
<1>6. \A i \in 1 .. Len(es) : Lines(es)[i] = Line(es[i])
  BY <1>3
<1>7. Ended(Lines(es))
  <2> SUFFICES ASSUME Lines(es) # <<>> PROVE Last(Lines(es)).nl
    BY DEF Ended
  <2>1. Len(es) \in 1 .. Len(es)
    BY <1>1, <1>5
  <2>2. Last(Lines(es)) = Line(es[Len(es)])
    BY <1>5, <1>6, <2>1 DEF Last
  <2> QED BY <2>2 DEF Line
<1>8. EntriesBytes(es) \in Nat
  BY <1>5, BytesFinite DEF EntriesBytes
<1> QED BY <1>1, <1>2, <1>5, <1>6, <1>7, <1>8

(* An entry more is a line more.                                             *)
LEMMA LinesAppend ==
    ASSUME NEW es \in Seq(Entries), NEW e \in Entries
    PROVE  /\ Append(es, e) \in Seq(Entries)
           /\ Lines(Append(es, e)) = Append(Lines(es), Line(e))
           /\ EntriesBytes(Append(es, e)) = EntriesBytes(es) + LineBytes[e.k]
           /\ LineBytes[e.k] \in Nat /\ e.k \in Keys
<1>1. Append(es, e) \in Seq(Entries) /\ Len(Append(es, e)) = Len(es) + 1 /\ Len(es) \in Nat
  OBVIOUS
<1>2. Lines(Append(es, e)) \in Seq(Pieces) /\ Len(Lines(Append(es, e))) = Len(es) + 1
      /\ \A i \in 1 .. Len(es) + 1 : Lines(Append(es, e))[i] = Line(Append(es, e)[i])
  BY <1>1, LinesFacts
<1>3. Lines(es) \in Seq(Pieces) /\ Len(Lines(es)) = Len(es)
      /\ \A i \in 1 .. Len(es) : Lines(es)[i] = Line(es[i])
  BY LinesFacts
<1>4. e.k \in Keys /\ Line(e) \in Pieces /\ Line(e).bytes = LineBytes[e.k]
      /\ LineBytes[e.k] \in Nat
  BY BytesAssumption DEF Entries, Line, Pieces
<1>5. Lines(Append(es, e)) = Append(Lines(es), Line(e))
  <2> DEFINE a == Append(Lines(es), Line(e))
  <2>1. a \in Seq(Pieces) /\ Len(a) = Len(es) + 1
    BY <1>1, <1>3, <1>4
  <2>2. ASSUME NEW i \in 1 .. Len(es) + 1 PROVE Lines(Append(es, e))[i] = a[i]
    <3>1. Lines(Append(es, e))[i] = Line(Append(es, e)[i])
      BY <1>2
    <3>2. CASE i = Len(es) + 1
      <4>1. Append(es, e)[i] = e /\ a[i] = Line(e)
        BY <1>1, <1>3, <3>2
      <4> QED BY <3>1, <4>1
    <3>3. CASE i \in 1 .. Len(es)
      <4>1. Append(es, e)[i] = es[i] /\ a[i] = Lines(es)[i]
        BY <1>1, <1>3, <3>3
      <4> QED BY <1>3, <3>1, <3>3, <4>1
    <3>4. i \in 1 .. Len(es) \/ i = Len(es) + 1
      BY <1>1
    <3> QED BY <3>2, <3>3, <3>4
  <2> HIDE DEF a
  <2> QED BY <1>2, <2>1, <2>2, SeqEqual DEF a
<1>6. FileBytes(Append(Lines(es), Line(e))) = FileBytes(Lines(es)) + LineBytes[e.k]
  BY <1>3, <1>4, BytesAppend
<1> QED BY <1>1, <1>4, <1>5, <1>6 DEF EntriesBytes
-----------------------------------------------------------------------------
(* Reading                                                                   *)

Good(f) == {i \in DOMAIN f : f[i].e # NoEntry}

(* What decodes of a file are entries.                                       *)
LEMMA DecodedFacts ==
    ASSUME NEW f \in Seq(Pieces)
    PROVE  /\ Good(f) \in SUBSET Nat /\ IsFiniteSet(Good(f))
           /\ Decoded(f) \in Seq(Entries) /\ Len(Decoded(f)) = Cardinality(Good(f))
           /\ \A n \in 1 .. Len(Decoded(f)) :
                 InOrder(Good(f))[n] \in Good(f) /\ Decoded(f)[n] = f[InOrder(Good(f))[n]].e
<1>1. Len(f) \in Nat /\ DOMAIN f = 1 .. Len(f) /\ \A i \in 1 .. Len(f) : f[i] \in Pieces
  OBVIOUS
<1>2. Good(f) \in SUBSET (1 .. Len(f))
  BY <1>1 DEF Good
<1>3. Good(f) \in SUBSET Nat /\ IsFiniteSet(Good(f))
  BY <1>1, <1>2, PositionsFinite
<1> DEFINE at == InOrder(Good(f))
           c == Cardinality(Good(f))
<1>4. c \in Nat /\ DOMAIN at = 1 .. c /\ \A n \in 1 .. c : at[n] \in Good(f)
  BY <1>3, InOrderFacts
<1>5. Decoded(f) = [n \in DOMAIN at |-> f[at[n]].e]
  BY DEF Decoded, Good
<1>6. \A i \in Good(f) : f[i].e \in Entries
  BY <1>1, <1>2 DEF Good, Pieces
<1> HIDE DEF at, c
<1>7. Decoded(f) \in [1 .. c -> Entries] /\ \A n \in 1 .. c : Decoded(f)[n] = f[at[n]].e
  BY <1>4, <1>5, <1>6
<1>8. Decoded(f) \in Seq(Entries) /\ Len(Decoded(f)) = c
  BY <1>4, <1>7
<1> QED BY <1>3, <1>4, <1>7, <1>8 DEF at, c

(* A line that is appended is the last one decoded.                          *)
LEMMA DecodedAppend ==
    ASSUME NEW f \in Seq(Pieces), NEW p \in Pieces, p.e # NoEntry
    PROVE  Decoded(Append(f, p)) = Append(Decoded(f), p.e)
<1> DEFINE a == Append(f, p)
           m == Len(f) + 1
           c == Cardinality(Good(f))
<1>1. Len(f) \in Nat /\ DOMAIN f = 1 .. Len(f) /\ m \in Nat /\ p.e \in Entries
  BY DEF Pieces
<1>2. a \in Seq(Pieces) /\ DOMAIN a = 1 .. m /\ a[m] = p /\ \A i \in 1 .. Len(f) : a[i] = f[i]
  BY <1>1
<1>3. (\A i : i \in 1 .. m <=> i \in 1 .. Len(f) \/ i = m) /\ \A i \in 1 .. Len(f) : i < m
  BY <1>1
<1> HIDE DEF a, m
<1>4. Good(a) = Good(f) \cup {m}
  BY <1>1, <1>2, <1>3 DEF Good
<1>5. /\ Good(f) \in SUBSET Nat /\ IsFiniteSet(Good(f)) /\ c \in Nat
      /\ Decoded(f) \in Seq(Entries) /\ Len(Decoded(f)) = c
      /\ \A n \in 1 .. c :
            InOrder(Good(f))[n] \in Good(f) /\ Decoded(f)[n] = f[InOrder(Good(f))[n]].e
  BY DecodedFacts, FS_CardinalityType
<1>6. /\ Decoded(a) \in Seq(Entries) /\ Len(Decoded(a)) = Cardinality(Good(a))
      /\ \A n \in 1 .. Len(Decoded(a)) : Decoded(a)[n] = a[InOrder(Good(a))[n]].e
  BY <1>2, DecodedFacts
<1>7. \A x \in Good(f) : x < m /\ x \in 1 .. Len(f)
  BY <1>1, <1>3 DEF Good
<1>8. /\ Cardinality(Good(a)) = c + 1
      /\ \A n \in 1 .. c : InOrder(Good(a))[n] = InOrder(Good(f))[n]
      /\ InOrder(Good(a))[c + 1] = m
  <2>1. Good(f) \in SUBSET Nat /\ IsFiniteSet(Good(f)) /\ m \in Nat /\ \A x \in Good(f) : x < m
    BY <1>1, <1>5, <1>7
  <2> HIDE DEF c
  <2>2. /\ Cardinality(Good(f) \cup {m}) = Cardinality(Good(f)) + 1
        /\ \A n \in 1 .. Cardinality(Good(f)) :
              InOrder(Good(f) \cup {m})[n] = InOrder(Good(f))[n]
        /\ InOrder(Good(f) \cup {m})[Cardinality(Good(f)) + 1] = m
    BY ONLY <2>1, InOrderAppend
  <2> QED BY <1>4, <2>2 DEF c
<1> DEFINE d == Append(Decoded(f), p.e)
<1>9. d \in Seq(Entries) /\ Len(d) = c + 1 /\ d[c + 1] = p.e
      /\ \A n \in 1 .. c : d[n] = Decoded(f)[n]
  BY <1>1, <1>5
<1> HIDE DEF d, c
<1>10. ASSUME NEW n \in 1 .. c + 1 PROVE Decoded(a)[n] = d[n]
  <2>1. Decoded(a)[n] = a[InOrder(Good(a))[n]].e
    BY <1>6, <1>8
  <2>2. CASE n = c + 1
    BY <1>2, <1>8, <1>9, <2>1, <2>2
  <2>3. CASE n \in 1 .. c
    <3>1. InOrder(Good(a))[n] = InOrder(Good(f))[n] /\ InOrder(Good(f))[n] \in 1 .. Len(f)
      BY <1>5, <1>7, <1>8, <2>3
    <3>2. Decoded(a)[n] = f[InOrder(Good(f))[n]].e
      BY <1>2, <2>1, <3>1
    <3> QED BY <1>5, <1>9, <2>3, <3>2
  <2>4. n \in 1 .. c \/ n = c + 1
    BY <1>5
  <2> QED BY <2>2, <2>3, <2>4
<1>11. Len(Decoded(a)) = Len(d) /\ \A n \in 1 .. Len(d) : Decoded(a)[n] = d[n]
  BY <1>6, <1>8, <1>9, <1>10
<1>12. Decoded(a) = d
  BY <1>6, <1>9, <1>11, SeqEqual
<1> QED BY <1>12 DEF a, d

(* The lines of entries decode to the entries.                               *)
LEMMA DecodedLines ==
    ASSUME NEW es \in Seq(Entries)
    PROVE  Decoded(Lines(es)) = es
<1> DEFINE f == Lines(es)
<1>1. Len(es) \in Nat /\ f \in Seq(Pieces) /\ Len(f) = Len(es) /\ DOMAIN f = 1 .. Len(es)
  BY LinesFacts
<1>2. \A i \in 1 .. Len(es) : f[i].e = es[i] /\ es[i] \in Entries /\ es[i] # NoEntry
  <2>1. \A i \in 1 .. Len(es) : f[i] = Line(es[i]) /\ es[i] \in Entries
    BY LinesFacts
  <2>2. \A e : Line(e).e = e
    BY DEF Line
  <2> HIDE DEF f
  <2> QED BY <2>1, <2>2, NoEntryAssumption
<1> HIDE DEF f
<1>3. Good(f) = 1 .. Len(es)
  BY <1>1, <1>2 DEF Good
<1>4. Cardinality(Good(f)) = Len(es) /\ \A n \in 1 .. Len(es) : InOrder(Good(f))[n] = n
  BY <1>1, <1>3, InOrderInterval
<1>5. Decoded(f) \in Seq(Entries) /\ Len(Decoded(f)) = Len(es)
      /\ \A n \in 1 .. Len(es) : Decoded(f)[n] = f[InOrder(Good(f))[n]].e
  BY <1>1, <1>4, DecodedFacts
<1>6. \A n \in 1 .. Len(es) : Decoded(f)[n] = es[n]
  BY <1>2, <1>4, <1>5
<1>7. Decoded(f) = es
  BY <1>5, <1>6, SeqEqual
<1> QED BY <1>7 DEF f

(* A shard that is read is well formed; one that is complete is the file.    *)
LEMMA LoadedFacts ==
    ASSUME NEW f \in Seq(Pieces), NEW l \in Nat
    PROVE  /\ Loaded(f, l) \in Shards
           /\ Complete(f, l) => /\ Loaded(f, l).entries = Decoded(f)
                                /\ Loaded(f, l).size = FileBytes(f)
                                /\ FileBytes(f) <= l
<1>1. ReadShard(f, l) \in Seq(Pieces)
  <2>1. CASE Complete(f, l)
    BY <2>1 DEF ReadShard
  <2>2. CASE ~ Complete(f, l)
    <3> DEFINE whole == {n \in 0 .. Len(f) :
                           FileBytes(SubSeq(f, 1, n)) <= l /\ (n > 0 => f[n].nl)}
    <3>1. Len(f) \in Nat /\ 0 \in 0 .. Len(f)
      OBVIOUS
    <3>2. FileBytes(SubSeq(f, 1, 0)) = 0
      <4>1. SubSeq(f, 1, 0) = <<>>
        OBVIOUS
      <4>2. Bytes(<<>>) = {}
        BY DEF Bytes
      <4> QED BY <4>1, <4>2, FS_EmptySet DEF FileBytes
    <3>3. whole \in SUBSET (0 .. Len(f)) /\ 0 \in whole
      BY <3>1, <3>2
    <3>4. WithinLimit(f, l) = SubSeq(f, 1, CHOOSE n \in whole : \A m \in whole : m <= n)
      BY DEF WithinLimit
    <3> HIDE DEF whole
    <3>5. \E n \in whole : \A m \in whole : m <= n
      BY <3>1, <3>3, GreatestExists
    <3>6. (CHOOSE n \in whole : \A m \in whole : m <= n) \in whole
      BY <3>5
    <3>7. PICK n \in 0 .. Len(f) : WithinLimit(f, l) = SubSeq(f, 1, n)
      BY <3>3, <3>4, <3>6
    <3>8. SubSeq(f, 1, n) \in Seq(Pieces)
      OBVIOUS
    <3> QED BY <2>2, <3>7, <3>8 DEF ReadShard
  <2> QED BY <2>1, <2>2
<1>2. Decoded(ReadShard(f, l)) \in Seq(Entries) /\ FileBytes(ReadShard(f, l)) \in Nat
  BY <1>1, DecodedFacts, BytesFinite
<1>3. Loaded(f, l) \in Shards
  BY <1>2 DEF Loaded, Shards, Complete
<1>4. ASSUME Complete(f, l)
      PROVE  /\ Loaded(f, l).entries = Decoded(f) /\ Loaded(f, l).size = FileBytes(f)
             /\ FileBytes(f) <= l
  BY <1>4 DEF Loaded, ReadShard, Complete
<1> QED BY <1>3, <1>4

-----------------------------------------------------------------------------
(* Answers                                                                   *)

LastAt(es, k, i) ==
    i \in DOMAIN es /\ es[i].k = k /\ \A j \in DOMAIN es : es[j].k = k => j <= i

(* A key that has an entry has the answer of its last one.                   *)
LEMMA GetFacts ==
    ASSUME NEW sh, sh.entries \in Seq(Entries), NEW k
    PROVE  /\ (\A i \in DOMAIN sh.entries : sh.entries[i].k # k) => Get(sh, k) = NoAnswer
           /\ \A i : LastAt(sh.entries, k, i) => Get(sh, k) = sh.entries[i].a
           /\ (\E i \in DOMAIN sh.entries : sh.entries[i].k = k)
                 => \E i : LastAt(sh.entries, k, i)
<1> DEFINE es == sh.entries
           at == {i \in DOMAIN es : es[i].k = k}
           last == CHOOSE i \in at : \A j \in at : j <= i
<1>1. Get(sh, k) = IF at = {} THEN NoAnswer ELSE es[last].a
  BY DEF Get
<1>2. Len(es) \in Nat /\ DOMAIN es = 1 .. Len(es)
  OBVIOUS
<1>3. at \in SUBSET (0 .. Len(es))
  BY <1>2
<1>4. ASSUME NEW i, LastAt(es, k, i) PROVE Get(sh, k) = es[i].a
  <2>1. i \in at /\ \A j \in at : j <= i
    BY <1>4 DEF LastAt
  <2>2. last \in at /\ \A j \in at : j <= last
    BY <2>1
  <2>3. i <= last /\ last <= i /\ i \in Nat /\ last \in Nat
    BY <1>3, <2>1, <2>2
  <2>4. last = i
    BY ONLY <2>3
  <2> QED BY <1>1, <2>1, <2>4
<1>5. ASSUME \E i \in DOMAIN es : es[i].k = k PROVE \E i : LastAt(es, k, i)
  <2>1. at # {}
    BY <1>5
  <2> HIDE DEF at
  <2>2. PICK i \in at : \A j \in at : j <= i
    BY <1>2, <1>3, <2>1, GreatestExists
  <2>3. LastAt(es, k, i)
    BY <2>2 DEF at, LastAt
  <2> QED BY <2>3
<1>6. (\A i \in DOMAIN es : es[i].k # k) => Get(sh, k) = NoAnswer
  BY <1>1
<1> QED BY <1>4, <1>5, <1>6

(* An entry that is added has its key's answer, and no other key's changes.  *)
LEMMA GetAdded ==
    ASSUME NEW sh, sh.entries \in Seq(Entries), NEW e \in Entries, NEW new,
           new.entries = Append(sh.entries, e), NEW k
    PROVE  Get(new, k) = IF k = e.k THEN e.a ELSE Get(sh, k)
<1> DEFINE es == sh.entries
           m == Len(es) + 1
<1>1. Len(es) \in Nat /\ DOMAIN es = 1 .. Len(es)
  OBVIOUS
<1>2. new.entries \in Seq(Entries) /\ DOMAIN new.entries = 1 .. m /\ new.entries[m] = e
      /\ \A i \in 1 .. Len(es) : new.entries[i] = es[i]
  BY <1>1
<1>3. (\A i : i \in 1 .. m <=> i \in 1 .. Len(es) \/ i = m)
      /\ \A i \in 1 .. m : i <= m
  BY <1>1
<1> HIDE DEF m
<1>4. CASE k = e.k
  <2>1. LastAt(new.entries, k, m)
    BY <1>2, <1>3, <1>4 DEF LastAt
  <2> QED BY <1>2, <1>4, <2>1, GetFacts
<1>5. CASE k # e.k
  <2>1. CASE \E i \in DOMAIN es : es[i].k = k
    <3>1. PICK i : LastAt(es, k, i)
      BY <2>1, GetFacts
    <3>2. LastAt(new.entries, k, i) /\ new.entries[i] = es[i]
      BY <1>1, <1>2, <1>3, <1>5, <3>1 DEF LastAt
    <3>3. Get(sh, k) = es[i].a
      BY <3>1, GetFacts
    <3>4. Get(new, k) = new.entries[i].a
      BY <1>2, <3>2, GetFacts
    <3> QED BY <1>5, <3>2, <3>3, <3>4
  <2>2. CASE \A i \in DOMAIN es : es[i].k # k
    <3>1. \A i \in DOMAIN new.entries : new.entries[i].k # k
      BY <1>1, <1>2, <1>3, <1>5, <2>2
    <3>2. Get(sh, k) = NoAnswer
      BY <2>2, GetFacts
    <3>3. Get(new, k) = NoAnswer
      BY <1>2, <3>1, GetFacts
    <3> QED BY <1>5, <3>2, <3>3
  <2> QED BY <2>1, <2>2
<1> QED BY <1>4, <1>5
-----------------------------------------------------------------------------
(* Writing                                                                   *)

(* A piece appended to a file that ends is its last one; else it runs into   *)
(* the last one.                                                             *)
LEMMA AppendPieceFacts ==
    ASSUME NEW f \in Seq(Pieces), NEW p \in Pieces
    PROVE  /\ AppendPiece(f, p) \in Seq(Pieces)
           /\ Ended(f) => AppendPiece(f, p) = Append(f, p)
           /\ Weak(AppendPiece(f, p)) \subseteq Weak(f) \cup {Len(f) + 1}
           /\ p.e # NoEntry /\ p.nl => Weak(AppendPiece(f, p)) \subseteq Weak(f)
           /\ Whole(f) \subseteq Whole(AppendPiece(f, p))
           /\ Firm(f) \subseteq Firm(AppendPiece(f, p))
           /\ p.nl => \/ p.e \in Whole(AppendPiece(f, p))
                      \/ \E i \in Firm(AppendPiece(f, p)) : i \notin Firm(f)
<1>1. Len(f) \in Nat /\ DOMAIN f = 1 .. Len(f) /\ \A i \in 1 .. Len(f) : f[i] \in Pieces
  OBVIOUS
<1>2. CASE Ended(f)
  <2> DEFINE a == Append(f, p)
             m == Len(f) + 1
  <2>1. AppendPiece(f, p) = a
    BY <1>2 DEF AppendPiece, Ended
  <2>2. a \in Seq(Pieces) /\ DOMAIN a = 1 .. m /\ a[m] = p /\ \A i \in 1 .. Len(f) : a[i] = f[i]
    BY <1>1
  <2>3. \A i : i \in 1 .. m <=> i \in 1 .. Len(f) \/ i = m
    BY <1>1
  <2> HIDE DEF a, m
  <2>4. Weak(a) \subseteq Weak(f) \cup {m}
    BY <1>1, <2>2, <2>3 DEF Weak
  <2>5. ASSUME p.e # NoEntry /\ p.nl PROVE m \notin Weak(a)
    BY <2>2, <2>5 DEF Weak
  <2>6. Whole(f) \subseteq Whole(a) /\ Firm(f) \subseteq Firm(a)
    BY <1>1, <2>2, <2>3 DEF Whole, Firm
  <2>7. p.nl => p.e \in Whole(a)
    BY <2>2, <2>3 DEF Whole
  <2> QED BY <1>1, <2>1, <2>2, <2>4, <2>5, <2>6, <2>7 DEF a, m, Weak
<1>3. CASE ~ Ended(f)
  <2> DEFINE n == Len(f)
             q == [e |-> NoEntry, bytes |-> Last(f).bytes + p.bytes, nl |-> p.nl]
             a == Append(Front(f), q)
  <2>1. AppendPiece(f, p) = a
    BY <1>3 DEF AppendPiece, Ended
  <2>2. n \in 1 .. n /\ Last(f) = f[n] /\ ~ f[n].nl
    BY <1>1, <1>3 DEF Ended, Last
  <2>3. q \in Pieces
    BY <1>1, <2>2 DEF Pieces
  <2> HIDE DEF a, q
  <2>4. n \in Nat /\ n - 1 \in Nat /\ n - 1 + 1 = n /\ \A i \in 1 .. n : i \in 1 .. n - 1 \/ i = n
    <3>1. n \in Nat /\ n \in 1 .. n
      BY <1>1, <2>2
    <3> HIDE DEF n
    <3> QED BY ONLY <3>1
  <2>5. Front(f) \in Seq(Pieces) /\ Len(Front(f)) = n - 1
        /\ \A i \in 1 .. n - 1 : Front(f)[i] = f[i]
    <3>1. Front(f) = SubSeq(f, 1, n - 1)
      BY DEF Front
    <3>2. f \in Seq(Pieces) /\ n = Len(f) /\ n \in Nat
      BY <2>4
    <3> HIDE DEF n
    <3>3. SubSeq(f, 1, n - 1) \in Seq(Pieces) /\ Len(SubSeq(f, 1, n - 1)) = n - 1
          /\ \A i \in 1 .. n - 1 : SubSeq(f, 1, n - 1)[i] = f[i]
      <4> DEFINE u == n - 1
      <4>1. u \in Nat /\ u \in Int /\ 1 \in Int /\ \A i \in 1 .. u : i \in 1 .. n
        BY ONLY <2>4
      <4>2. \A i \in 1 .. n : f[i] \in Pieces
        BY ONLY <1>1, <3>2
      <4> HIDE DEF u
      <4>3. \A i \in 1 .. u : f[i] \in Pieces
        BY ONLY <4>1, <4>2
      <4>4. /\ SubSeq(f, 1, u) \in Seq(Pieces)
            /\ Len(SubSeq(f, 1, u)) = IF 1 <= u THEN u - 1 + 1 ELSE 0
            /\ \A i \in 1 .. u - 1 + 1 : SubSeq(f, 1, u)[i] = f[1 + i - 1]
        BY ONLY <4>1, <4>3, SubSeqProperties
      <4>5. u - 1 + 1 = u /\ (~ (1 <= u) => u = 0) /\ \A i \in 1 .. u : 1 + i - 1 = i
        BY <4>1
      <4> QED BY <4>4, <4>5 DEF u
    <3> QED BY <3>1, <3>3
  <2>6. a \in Seq(Pieces) /\ Len(a) = n /\ \A i \in 1 .. n - 1 : a[i] = f[i]
    <3> HIDE DEF n
    <3>1. a \in Seq(Pieces) /\ Len(a) = n - 1 + 1
      BY <2>3, <2>5 DEF a
    <3>2. \A i \in 1 .. n - 1 : a[i] = Front(f)[i]
      BY <2>3, <2>5 DEF a
    <3> QED BY <2>4, <2>5, <3>1, <3>2
  <2>7. DOMAIN a = 1 .. n /\ \A i \in 1 .. n : i \in 1 .. n - 1 \/ i = n
    <3> HIDE DEF n
    <3> QED BY <2>4, <2>6
  <2> HIDE DEF n
  <2>8. DOMAIN f = 1 .. n
    BY <1>1 DEF n
  <2>9. n \in Weak(f)
    BY <2>2, <2>8 DEF Weak
  <2>10. Weak(a) \subseteq Weak(f)
    BY <2>6, <2>7, <2>8, <2>9 DEF Weak
  <2>11. a[n] = q
    <3>1. Front(f) \in Seq(Pieces) /\ Len(Front(f)) + 1 = n
      BY <2>4, <2>5
    <3> QED BY <2>3, <3>1 DEF a
  <2>12. q.e = NoEntry /\ q.nl = p.nl
    BY DEF q
  <2>13. Whole(f) \subseteq Whole(a)
    <3> SUFFICES ASSUME NEW i \in 1 .. n, f[i].nl PROVE f[i].e \in Whole(a)
      BY <2>8 DEF Whole
    <3>1. i \in 1 .. n - 1
      BY <2>2, <2>7
    <3> QED BY <2>6, <2>7, <3>1 DEF Whole
  <2>14. Firm(f) \subseteq Firm(a)
    <3> SUFFICES ASSUME NEW i \in 1 .. n, f[i].e = NoEntry, f[i].nl PROVE i \in Firm(a)
      BY <2>8 DEF Firm
    <3>1. i \in 1 .. n - 1
      BY <2>2, <2>7
    <3> QED BY <2>6, <2>7, <3>1 DEF Firm
  <2>15. p.nl => n \in Firm(a) /\ n \notin Firm(f)
    BY <2>2, <2>7, <2>11, <2>12 DEF Firm
  <2> QED BY <1>3, <2>1, <2>6, <2>10, <2>13, <2>14, <2>15
<1> QED BY <1>2, <1>3

(* One more piece spoils one line at most, a whole line none.                *)
LEMMA WeakFacts ==
    ASSUME NEW f \in Seq(Pieces), NEW p \in Pieces
    PROVE  /\ IsFiniteSet(Weak(f)) /\ Cardinality(Weak(f)) \in Nat
           /\ Cardinality(Weak(AppendPiece(f, p))) \in Nat
           /\ Cardinality(Weak(AppendPiece(f, p))) <= Cardinality(Weak(f)) + 1
           /\ p.e # NoEntry /\ p.nl =>
                 Cardinality(Weak(AppendPiece(f, p))) <= Cardinality(Weak(f))
<1>1. \A g \in Seq(Pieces) : IsFiniteSet(Weak(g)) /\ Cardinality(Weak(g)) \in Nat
  <2> SUFFICES ASSUME NEW g \in Seq(Pieces)
               PROVE  IsFiniteSet(Weak(g)) /\ Cardinality(Weak(g)) \in Nat
    OBVIOUS
  <2>1. Len(g) \in Nat /\ Weak(g) \in SUBSET (1 .. Len(g))
    BY DEF Weak
  <2>2. IsFiniteSet(Weak(g))
    BY <2>1, PositionsFinite
  <2> QED BY <2>2, FS_CardinalityType
<1>2. AppendPiece(f, p) \in Seq(Pieces)
      /\ Weak(AppendPiece(f, p)) \subseteq Weak(f) \cup {Len(f) + 1}
      /\ (p.e # NoEntry /\ p.nl => Weak(AppendPiece(f, p)) \subseteq Weak(f))
  BY AppendPieceFacts
<1> DEFINE W == Weak(f)
           V == Weak(AppendPiece(f, p))
           x == Len(f) + 1
<1> HIDE DEF x
<1>3. IsFiniteSet(W) /\ Cardinality(W) \in Nat /\ Cardinality(V) \in Nat
  BY <1>1, <1>2
<1>4. V \subseteq W \cup {x} /\ (p.e # NoEntry /\ p.nl => V \subseteq W)
  BY <1>2 DEF x
<1> HIDE DEF W, V
<1>5. IsFiniteSet(W \cup {x}) /\ Cardinality(W \cup {x}) <= Cardinality(W) + 1
  <2>1. IsFiniteSet(W \cup {x})
        /\ Cardinality(W \cup {x}) = IF x \in W THEN Cardinality(W) ELSE Cardinality(W) + 1
    BY <1>3, FS_AddElement
  <2>2. Cardinality(W) <= Cardinality(W) + 1 /\ Cardinality(W) + 1 <= Cardinality(W) + 1
    BY <1>3
  <2> QED BY <2>1, <2>2
<1>6. Cardinality(V) <= Cardinality(W \cup {x}) /\ Cardinality(W \cup {x}) \in Nat
  BY <1>4, <1>5, FS_Subset, FS_CardinalityType
<1>7. p.e # NoEntry /\ p.nl => Cardinality(V) <= Cardinality(W)
  BY <1>3, <1>4, FS_Subset
<1>8. Cardinality(V) <= Cardinality(W) + 1
  BY <1>3, <1>5, <1>6
<1> QED BY <1>3, <1>7, <1>8 DEF V, W

(* Lines are not spoiled.                                                    *)
LEMMA LinesStrong ==
    ASSUME NEW es \in Seq(Entries)
    PROVE  Weak(Lines(es)) = {} /\ Cardinality(Weak(Lines(es))) = 0
<1>1. Lines(es) \in Seq(Pieces) /\ Len(Lines(es)) = Len(es)
      /\ \A i \in 1 .. Len(es) : Lines(es)[i] = Line(es[i]) /\ es[i] \in Entries
  BY LinesFacts
<1>2. \A e \in Entries : Line(e).e # NoEntry /\ Line(e).nl
  BY NoEntryAssumption DEF Line
<1>3. Weak(Lines(es)) = {}
  BY <1>1, <1>2 DEF Weak
<1> QED BY <1>3, FS_EmptySet

(* What a cut or a whole write of a line leaves are pieces.                  *)
LEMMA PieceFacts ==
    ASSUME NEW e \in Entries
    PROVE  /\ Line(e) \in Pieces /\ Line(e).e = e /\ Line(e).nl /\ e # NoEntry
           /\ \A n \in 1 .. LineBytes[e.k] : Piece(e, n) \in Pieces
           /\ e.k \in Keys /\ e.a \in SomeAnswer /\ LineBytes[e.k] \in Nat
<1>1. e.k \in Keys /\ e.a \in SomeAnswer
  BY DEF Entries, SomeAnswer
<1>2. LineBytes[e.k] \in Nat
  BY <1>1, BytesAssumption
<1>3. Line(e) \in Pieces /\ Line(e).e = e /\ Line(e).nl
  BY <1>2 DEF Line, Pieces
<1>4. ASSUME NEW n \in 1 .. LineBytes[e.k] PROVE Piece(e, n) \in Pieces
  <2>1. n \in Nat
    BY <1>2
  <2> QED BY <2>1 DEF Piece, Pieces
<1> QED BY <1>1, <1>2, <1>3, <1>4, NoEntryAssumption

-----------------------------------------------------------------------------
(* Compaction                                                                *)

(* A compaction keeps entries that are the last ones of their keys, no more  *)
(* than its budget has room for.                                             *)
LEMMA KeptFacts ==
    ASSUME NEW es \in Seq(Entries), NEW budget \in Nat
    PROVE  /\ Kept(es, budget) \in Seq(Entries)
           /\ EntriesBytes(Kept(es, budget)) <= budget
           /\ \A i \in 1 .. Len(Kept(es, budget)) :
                 \E j : LastAt(es, es[j].k, j) /\ Kept(es, budget)[i] = es[j]
<1> DEFINE lasts == {i \in DOMAIN es : \A j \in DOMAIN es : es[j].k = es[i].k => j <= i}
           at == InOrder(lasts)
           new == [n \in DOMAIN at |-> es[at[n]]]
           fit == {n \in 0 .. Len(new) : EntriesBytes(SubSeq(new, n + 1, Len(new))) <= budget}
           least == CHOOSE n \in fit : \A m \in fit : n <= m
           c == Cardinality(lasts)
<1>1. Len(es) \in Nat /\ DOMAIN es = 1 .. Len(es) /\ \A i \in 1 .. Len(es) : es[i] \in Entries
  OBVIOUS
<1>2. lasts \in SUBSET (1 .. Len(es))
  BY <1>1
<1>3. \A j \in lasts : LastAt(es, es[j].k, j)
  BY DEF LastAt
<1>4. Kept(es, budget) = SubSeq(new, 1 + least, Len(new))
  BY DEF Kept, Newest
<1> HIDE DEF lasts
<1>5. lasts \in SUBSET Nat /\ IsFiniteSet(lasts)
  BY <1>1, <1>2, PositionsFinite
<1>6. c \in Nat /\ DOMAIN at = 1 .. c /\ \A n \in 1 .. c : at[n] \in lasts
  BY <1>5, InOrderFacts
<1> HIDE DEF at, c
<1>7. new \in [1 .. c -> Entries] /\ \A n \in 1 .. c : new[n] = es[at[n]]
  BY <1>1, <1>2, <1>6
<1>8. new \in Seq(Entries) /\ Len(new) = c
  BY <1>6, <1>7
<1> HIDE DEF new
<1>9. c \in fit
  <2>1. SubSeq(new, c + 1, Len(new)) = <<>>
    BY <1>6, <1>8
  <2>2. EntriesBytes(<<>>) = 0
    <3>1. Bytes(Lines(<<>>)) = {}
      BY DEF Lines, Bytes
    <3> QED BY <3>1, FS_EmptySet DEF EntriesBytes, FileBytes
  <2>3. EntriesBytes(SubSeq(new, c + 1, Len(new))) <= budget
    <3>1. EntriesBytes(SubSeq(new, c + 1, Len(new))) = 0
      BY <2>1, <2>2
    <3> HIDE DEF fit
    <3> QED BY <3>1
  <2>4. c \in 0 .. Len(new)
    BY <1>6, <1>8
  <2> QED BY <2>3, <2>4
<1>10. fit \in SUBSET Nat /\ fit \in SUBSET (0 .. c)
  BY <1>6, <1>8
<1>11. \A n \in fit : EntriesBytes(SubSeq(new, n + 1, Len(new))) <= budget
  OBVIOUS
<1> HIDE DEF fit
<1>12. \E n \in fit : \A m \in fit : n <= m
  BY <1>9, <1>10, LeastExists
<1>13. least \in fit
  BY <1>12
<1> HIDE DEF least
<1>14. least \in 0 .. c /\ 1 + least = least + 1
  BY <1>10, <1>13
<1>15. Kept(es, budget) = SubSeq(new, least + 1, Len(new))
  BY <1>4, <1>14
<1>16. EntriesBytes(Kept(es, budget)) <= budget
  BY <1>11, <1>13, <1>15
<1>17. /\ SubSeq(new, least + 1, c) \in Seq(Entries)
       /\ \A i \in 1 .. Len(SubSeq(new, least + 1, c)) :
             \E n \in 1 .. c : SubSeq(new, least + 1, c)[i] = new[n]
  <2>1. \A i \in 1 .. c - least : least + i \in 1 .. c
    BY <1>6, <1>14
  <2>2. SubSeq(new, least + 1, c) = [i \in 1 .. c - least |-> new[least + i]]
    BY <1>6, <1>8, <1>14
  <2>3. c - least \in Nat
    BY <1>6, <1>14
  <2> DEFINE part == [i \in 1 .. c - least |-> new[least + i]]
  <2>4. part \in [1 .. c - least -> Entries]
    BY <1>7, <2>1
  <2>5. part \in Seq(Entries) /\ Len(part) = c - least
    BY <2>3, <2>4
  <2> QED BY <2>1, <2>2, <2>5
<1> DEFINE kept == SubSeq(new, least + 1, c)
<1>18. kept = Kept(es, budget)
  BY <1>8, <1>15
<1> HIDE DEF kept
<1>19. ASSUME NEW i \in 1 .. Len(kept)
       PROVE  \E j : LastAt(es, es[j].k, j) /\ kept[i] = es[j]
  <2>1. PICK n \in 1 .. c : kept[i] = new[n]
    BY <1>17 DEF kept
  <2>2. new[n] = es[at[n]] /\ at[n] \in lasts
    BY ONLY <1>6, <1>7, n \in 1 .. c
  <2>3. LastAt(es, es[at[n]].k, at[n])
    BY ONLY <1>3, <2>2
  <2> QED BY ONLY <2>1, <2>2, <2>3
<1>20. kept \in Seq(Entries)
  BY <1>17 DEF kept
<1> QED BY ONLY <1>16, <1>18, <1>19, <1>20, Zenon

(* A compaction leaves room for the new line in half a shard, and gives no   *)
(* key another answer.                                                       *)
LEMMA CompactedFacts ==
    ASSUME TypeOK, NEW e \in Entries, ~ TooLong(e)
    PROVE  /\ Compacted(e) \in Shards /\ Compacted(e).entries \in Seq(Entries)
           /\ Compacted(e).size = EntriesBytes(Compacted(e).entries)
           /\ 2 * Compacted(e).size <= limit
           /\ 2 * (Compacted(e).size + LineBytes[e.k]) <= limit
           /\ \A k : Get(Compacted(e), k) \in {NoAnswer, Get(mem, k)}
<1> DEFINE kept == Kept(mem.entries, Budget(e))
<1>1. mem.entries \in Seq(Entries) /\ limit \in Nat /\ LineBytes[e.k] \in Nat
  BY PieceFacts DEF TypeOK, Shards
<1>2. limit \div 2 \in Nat /\ 2 * (limit \div 2) <= limit
  BY <1>1
<1>3. Budget(e) \in Nat /\ Budget(e) + LineBytes[e.k] = limit \div 2
  BY <1>1, <1>2 DEF TooLong, Budget
<1>4. /\ kept \in Seq(Entries) /\ EntriesBytes(kept) <= Budget(e)
      /\ \A i \in 1 .. Len(kept) :
            \E j : LastAt(mem.entries, mem.entries[j].k, j) /\ kept[i] = mem.entries[j]
  BY <1>1, <1>3, KeptFacts
<1> HIDE DEF kept
<1>5. Compacted(e) = [entries |-> kept, size |-> EntriesBytes(kept), over |-> FALSE]
  BY DEF Compacted, kept
<1>6. EntriesBytes(kept) \in Nat
  BY <1>4, LinesFacts
<1>7. Compacted(e).entries = kept /\ Compacted(e).size = EntriesBytes(kept)
  BY <1>5
<1>8. Compacted(e) \in Shards
  BY <1>4, <1>5, <1>6 DEF Shards
<1>9. 2 * EntriesBytes(kept) <= limit /\ 2 * (EntriesBytes(kept) + LineBytes[e.k]) <= limit
  BY <1>1, <1>2, <1>3, <1>4, <1>6
<1>10. ASSUME NEW k PROVE Get(Compacted(e), k) \in {NoAnswer, Get(mem, k)}
  <2>1. CASE \A i \in DOMAIN kept : kept[i].k # k
    BY <1>4, <1>7, <2>1, GetFacts
  <2>2. CASE \E i \in DOMAIN kept : kept[i].k = k
    <3>1. PICK i : LastAt(kept, k, i)
      BY <1>4, <1>7, <2>2, GetFacts
    <3>2. i \in 1 .. Len(kept) /\ kept[i].k = k
      BY <1>4, <3>1 DEF LastAt
    <3>3. PICK j : LastAt(mem.entries, mem.entries[j].k, j) /\ kept[i] = mem.entries[j]
      BY <1>4, <3>2
    <3>4. LastAt(mem.entries, k, j)
      BY <3>2, <3>3
    <3>5. Get(mem, k) = mem.entries[j].a
      BY <1>1, <3>4, GetFacts
    <3>6. Get(Compacted(e), k) = kept[i].a
      BY <1>4, <1>7, <3>1, GetFacts
    <3> QED BY <3>3, <3>5, <3>6
  <2> QED BY <2>1, <2>2
<1> QED BY <1>4, <1>7, <1>8, <1>9, <1>10

-----------------------------------------------------------------------------
(* The invariant                                                             *)

LEMMA InitHolds == Init => IInv
<1> SUFFICES ASSUME Init PROVE IInv
  OBVIOUS
<1>1. <<>> \in Seq(Pieces) /\ <<>> \in Seq(Entries)
  OBVIOUS
<1>2. TypeOK
  BY <1>1, BytesAssumption DEF Init, TypeOK, Shards, NewShard, SomeAnswer
<1>3. NeverStale
  BY DEF Init, NeverStale
<1>4. Weak(file) = {}
  BY DEF Init, Weak
<1>5. Cardinality(Weak(file)) <= faults
  <2>1. Cardinality(Weak(file)) = 0 /\ faults = 0
    BY <1>4, FS_EmptySet DEF Init
  <2> QED BY <2>1
<1> QED BY <1>2, <1>3, <1>5 DEF IInv, Init

(* A call begins with what it reads, or with nothing.                        *)
LEMMA StartKeeps ==
    ASSUME IInv, NEW l \in Limits, NEW sh \in Shards, Start(l, sh),
           faults' \in Nat, faults <= faults',
           clean' \in BOOLEAN, clean' => Same'
    PROVE  IInv'
<1>1. l \in Nat
  BY BytesAssumption
<1>2. TypeOK'
  BY <1>1 DEF IInv, TypeOK, Start, SomeAnswer
<1>3. NeverStale'
  BY DEF Start, NeverStale
<1>4. Cardinality(Weak(file)) \in Nat /\ file' = file
  <2>1. file \in Seq(Pieces)
    BY DEF IInv, TypeOK
  <2>2. Len(file) \in Nat /\ Weak(file) \in SUBSET (1 .. Len(file))
    BY <2>1 DEF Weak
  <2> QED BY <2>2, PositionsFinite, FS_CardinalityType DEF Start
<1>5. Cardinality(Weak(file)) <= faults'
  BY <1>4 DEF IInv, TypeOK
<1> QED BY <1>2, <1>3, <1>4, <1>5 DEF IInv

LEMMA OpenKeeps ==
    ASSUME IInv, NEW l \in Limits, Open(l)
    PROVE  IInv'
<1>1. file \in Seq(Pieces) /\ l \in Nat /\ faults \in Nat
  BY BytesAssumption DEF IInv, TypeOK
<1>2. Loaded(file, l) \in Shards
  BY <1>1, LoadedFacts
<1>3. /\ file' = file /\ mem' = Loaded(file, l) /\ limit' = l /\ faults' = faults
      /\ clean' = (Complete(file, l) /\ Ended(file)) /\ Start(l, Loaded(file, l))
  BY DEF Open, Start, Ended
<1>4. ASSUME clean' PROVE Same'
  <2>1. Complete(file, l) /\ Ended(file)
    BY <1>3, <1>4
  <2>2. Loaded(file, l).entries = Decoded(file) /\ Loaded(file, l).size = FileBytes(file)
        /\ FileBytes(file) <= l
    BY <1>1, <2>1, LoadedFacts
  <2> QED BY <1>3, <2>1, <2>2 DEF Same
<1>5. faults' \in Nat /\ faults <= faults' /\ clean' \in BOOLEAN
  BY <1>1, <1>3
<1> QED BY <1>2, <1>3, <1>4, <1>5, StartKeeps

LEMMA OpenFailsKeeps ==
    ASSUME IInv, NEW l \in Limits, OpenFails(l)
    PROVE  IInv'
<1>1. <<>> \in Seq(Entries)
  OBVIOUS
<1>2. NewShard \in Shards
  BY <1>1 DEF NewShard, Shards
<1>3. faults \in Nat
  BY DEF IInv, TypeOK
<1>4. Start(l, NewShard) /\ faults' = faults + 1 /\ clean' = FALSE
  BY DEF OpenFails
<1>5. faults' \in Nat /\ faults <= faults'
  BY <1>3, <1>4
<1>6. clean' \in BOOLEAN /\ ~ clean'
  BY <1>4, Zenon
<1> QED BY <1>2, <1>4, <1>5, <1>6, StartKeeps

(* A line that is added to a well-formed shard.                              *)
LEMMA AddedFacts ==
    ASSUME NEW sh \in Shards, NEW e \in Entries
    PROVE  /\ Added(sh, e) \in Shards
           /\ Added(sh, e).entries = Append(sh.entries, e)
           /\ Added(sh, e).size = sh.size + LineBytes[e.k]
           /\ \A k : Get(Added(sh, e), k) = IF k = e.k THEN e.a ELSE Get(sh, k)
<1>1. sh.entries \in Seq(Entries) /\ sh.size \in Nat /\ LineBytes[e.k] \in Nat
  BY PieceFacts DEF Shards
<1>2. Append(sh.entries, e) \in Seq(Entries) /\ sh.size + LineBytes[e.k] \in Nat
  BY <1>1
<1>3. Added(sh, e) \in Shards /\ Added(sh, e).entries = Append(sh.entries, e)
      /\ Added(sh, e).size = sh.size + LineBytes[e.k]
  BY <1>2 DEF Added, Shards
<1>4. \A k : Get(Added(sh, e), k) = IF k = e.k THEN e.a ELSE Get(sh, k)
  BY <1>1, <1>3, GetAdded
<1> QED BY <1>3, <1>4
(* The answers after a line is added are those given last.                   *)
LEMMA AddedIsLatest ==
    ASSUME IInv, NEW sh \in Shards, NEW e \in Entries,
           \A k : Get(sh, k) \in {NoAnswer, Get(mem, k)},
           mem' = Added(sh, e), latest' = [latest EXCEPT ![e.k] = e.a]
    PROVE  NeverStale'
<1>1. latest \in [Keys -> SomeAnswer] /\ e.k \in Keys
  BY PieceFacts DEF IInv, TypeOK
<1>2. ASSUME NEW k \in Keys, latest'[k] # NoAnswer
      PROVE  Get(mem', k) \in {NoAnswer, latest'[k]}
  <2>1. CASE k = e.k
    BY <1>1, <2>1, AddedFacts
  <2>2. CASE k # e.k
    <3>1. latest'[k] = latest[k]
      BY <1>1, <2>2
    <3>2. Get(mem, k) \in {NoAnswer, latest[k]}
      BY <1>2, <3>1 DEF IInv, NeverStale
    <3>3. Get(mem', k) = Get(sh, k)
      BY <2>2, AddedFacts
    <3> QED BY <3>1, <3>2, <3>3
  <2> QED BY <2>1, <2>2
<1> QED BY <1>2 DEF NeverStale

(* A Put that succeeds keeps file and memory together, and a compaction      *)
(* brings them together.                                                     *)
LEMMA PutKeeps ==
    ASSUME IInv, NEW e \in Entries, Put(e)
    PROVE  IInv'
<1>1. /\ file \in Seq(Pieces) /\ limit \in Nat /\ mem \in Shards /\ faults \in Nat
      /\ latest \in [Keys -> SomeAnswer] /\ clean \in BOOLEAN /\ TypeOK
      /\ mem.entries \in Seq(Entries) /\ mem.size \in Nat
  BY DEF IInv, TypeOK, Shards
<1>2. ~ TooLong(e) /\ latest' = [latest EXCEPT ![e.k] = e.a]
      /\ limit' = limit /\ open' = open /\ faults' = faults
  BY DEF Put
<1>3. /\ Line(e) \in Pieces /\ Line(e).e = e /\ Line(e).nl /\ e # NoEntry
      /\ e.k \in Keys /\ e.a \in SomeAnswer /\ LineBytes[e.k] \in Nat
      /\ Line(e).bytes = LineBytes[e.k]
  BY PieceFacts DEF Line
<1>4. latest' \in [Keys -> SomeAnswer]
  BY <1>1, <1>2, <1>3
<1>5. ASSUME NEW f \in Seq(Pieces), Ended(f), file' = AppendPiece(f, Line(e))
      PROVE  Decoded(file') = Append(Decoded(f), e) /\ Ended(file')
             /\ FileBytes(file') = FileBytes(f) + LineBytes[e.k]
  <2>1. file' = Append(f, Line(e))
    BY <1>3, <1>5, AppendPieceFacts
  <2>2. Decoded(file') = Append(Decoded(f), e)
    BY <1>3, <2>1, DecodedAppend
  <2>3. FileBytes(file') = FileBytes(f) + LineBytes[e.k]
    BY <1>3, <2>1, BytesAppend
  <2>4. Len(file') = Len(f) + 1 /\ file'[Len(f) + 1] = Line(e)
    BY <1>3, <2>1
  <2>5. Last(file') = Line(e)
    BY <2>4 DEF Last
  <2> QED BY <1>3, <2>2, <2>3, <2>5 DEF Ended
<1>6. CASE Full(e)
  <2> DEFINE c == Compacted(e)
  <2>1. /\ c \in Shards /\ c.entries \in Seq(Entries)
        /\ c.size = EntriesBytes(c.entries)
        /\ 2 * (c.size + LineBytes[e.k]) <= limit
        /\ \A k : Get(c, k) \in {NoAnswer, Get(mem, k)}
    BY <1>1, <1>2, CompactedFacts
  <2>2. file' = AppendPiece(Lines(c.entries), Line(e)) /\ mem' = Added(c, e) /\ clean' = TRUE
    BY <1>6 DEF Put
  <2> HIDE DEF c
  <2>3. Lines(c.entries) \in Seq(Pieces) /\ Ended(Lines(c.entries))
        /\ Decoded(Lines(c.entries)) = c.entries
    BY <2>1, LinesFacts, DecodedLines
  <2>4. Decoded(file') = Append(c.entries, e) /\ Ended(file')
        /\ FileBytes(file') = FileBytes(Lines(c.entries)) + LineBytes[e.k]
    BY <1>5, <2>2, <2>3
  <2>5. mem' \in Shards /\ mem'.entries = Append(c.entries, e)
        /\ mem'.size = c.size + LineBytes[e.k]
    BY <2>1, <2>2, AddedFacts
  <2>6. c.size \in Nat /\ c.size = FileBytes(Lines(c.entries))
    BY <2>1 DEF Shards, EntriesBytes
  <2>7. mem'.size <= limit
    BY <1>1, <1>3, <2>1, <2>5, <2>6
  <2>8. Same'
    BY <1>2, <2>4, <2>5, <2>6, <2>7 DEF Same
  <2>9. file' \in Seq(Pieces)
    BY <1>3, <2>2, <2>3, AppendPieceFacts
  <2>10. Cardinality(Weak(file')) <= faults
    <3>1. Cardinality(Weak(file')) <= Cardinality(Weak(Lines(c.entries)))
      BY <1>3, <2>2, <2>3, WeakFacts
    <3>2. Cardinality(Weak(Lines(c.entries))) = 0 /\ Cardinality(Weak(file')) \in Nat
      BY <1>3, <2>1, <2>2, <2>3, LinesStrong, WeakFacts
    <3> QED BY <1>1, <3>1, <3>2
  <2>11. NeverStale'
    BY <1>2, <2>1, <2>2, AddedIsLatest
  <2>12. TypeOK'
    BY <1>1, <1>2, <1>4, <2>2, <2>5, <2>9 DEF TypeOK
  <2> QED BY <1>2, <2>8, <2>10, <2>11, <2>12 DEF IInv
<1>7. CASE ~ Full(e)
  <2>1. file' = AppendPiece(file, Line(e)) /\ mem' = Added(mem, e) /\ clean' = clean
    BY <1>7 DEF Put
  <2>2. mem' \in Shards /\ mem'.entries = Append(mem.entries, e)
        /\ mem'.size = mem.size + LineBytes[e.k]
    BY <1>1, <2>1, AddedFacts
  <2>3. mem.size + LineBytes[e.k] <= limit
    BY <1>1, <1>3, <1>7 DEF Full
  <2>4. clean' => Same'
    <3> SUFFICES ASSUME clean PROVE Same'
      BY <2>1
    <3>1. Same
      BY DEF IInv
    <3>2. Decoded(file') = Append(Decoded(file), e) /\ Ended(file')
          /\ FileBytes(file') = FileBytes(file) + LineBytes[e.k]
      BY <1>1, <1>5, <2>1, <3>1 DEF Same
    <3> QED BY <1>2, <2>2, <2>3, <3>1, <3>2 DEF Same
  <2>5. file' \in Seq(Pieces)
    BY <1>1, <1>3, <2>1, AppendPieceFacts
  <2>6. Cardinality(Weak(file')) <= faults
    <3>1. Cardinality(Weak(file')) <= Cardinality(Weak(file))
      BY <1>1, <1>3, <2>1, WeakFacts
    <3>2. Cardinality(Weak(file)) \in Nat /\ Cardinality(Weak(file')) \in Nat
      BY <1>1, <1>3, <2>1, WeakFacts
    <3> QED BY <1>1, <3>1, <3>2 DEF IInv
  <2>7. NeverStale'
    BY <1>1, <1>2, <2>1, AddedIsLatest
  <2>8. TypeOK'
    BY <1>1, <1>2, <1>4, <2>1, <2>2, <2>5 DEF TypeOK
  <2> QED BY <1>2, <2>4, <2>6, <2>7, <2>8 DEF IInv
<1> QED BY <1>6, <1>7
(* An append that is cut spoils one line at most.                            *)
LEMMA CutAppendFacts ==
    ASSUME NEW f \in Seq(Pieces), NEW e \in Entries, NEW g \in CutAppend(f, e)
    PROVE  /\ g \in Seq(Pieces)
           /\ Cardinality(Weak(g)) \in Nat /\ Cardinality(Weak(f)) \in Nat
           /\ Cardinality(Weak(g)) <= Cardinality(Weak(f)) + 1
<1>1. CASE g = f
  <2>1. Cardinality(Weak(f)) \in Nat
    BY PieceFacts, WeakFacts
  <2> QED BY <1>1, <2>1
<1>2. CASE \E n \in 1 .. LineBytes[e.k] : g = AppendPiece(f, Piece(e, n))
  <2>1. PICK n \in 1 .. LineBytes[e.k] : g = AppendPiece(f, Piece(e, n))
    BY <1>2
  <2>2. Piece(e, n) \in Pieces
    BY PieceFacts
  <2> QED BY <2>1, <2>2, AppendPieceFacts, WeakFacts
<1> QED BY <1>1, <1>2 DEF CutAppend

(* A rewrite that is cut leaves one spoiled line at most, or the old file.   *)
LEMMA CutRewriteFacts ==
    ASSUME NEW f \in Seq(Pieces), NEW es \in Seq(Entries), NEW g \in CutRewrite(f, es)
    PROVE  /\ g \in Seq(Pieces)
           /\ g = f \/ Cardinality(Weak(g)) \in {0, 1}
<1>1. CASE g = f
  BY <1>1
<1>2. CASE g = <<>>
  <2>1. Weak(<<>>) = {} /\ <<>> \in Seq(Pieces)
    BY DEF Weak
  <2> QED BY <1>2, <2>1, FS_EmptySet
<1>3. CASE \E i \in DOMAIN es : \E n \in 1 .. LineBytes[es[i].k] :
              g = AppendPiece(Lines(SubSeq(es, 1, i - 1)), Piece(es[i], n))
  <2>1. PICK i \in DOMAIN es : \E n \in 1 .. LineBytes[es[i].k] :
                g = AppendPiece(Lines(SubSeq(es, 1, i - 1)), Piece(es[i], n))
    BY <1>3
  <2>2. PICK n \in 1 .. LineBytes[es[i].k] :
                g = AppendPiece(Lines(SubSeq(es, 1, i - 1)), Piece(es[i], n))
    BY <2>1
  <2>3. es[i] \in Entries /\ i \in 1 .. Len(es) /\ Len(es) \in Nat
    BY <2>1
  <2>4. SubSeq(es, 1, i - 1) \in Seq(Entries)
    <3> DEFINE u == i - 1
    <3>1. u \in Int /\ 1 \in Int /\ \A j \in 1 .. u : j \in 1 .. Len(es)
      BY <2>3
    <3>2. \A j \in 1 .. Len(es) : es[j] \in Entries
      OBVIOUS
    <3> HIDE DEF u
    <3>3. \A j \in 1 .. u : es[j] \in Entries
      BY <3>1, <3>2
    <3>4. SubSeq(es, 1, u) \in Seq(Entries)
      BY ONLY <3>1, <3>3, SubSeqProperties
    <3> QED BY <3>4 DEF u
  <2> DEFINE part == SubSeq(es, 1, i - 1)
             p == Piece(es[i], n)
  <2>5. p \in Pieces
    BY <2>3, PieceFacts
  <2>6. part \in Seq(Entries) /\ g = AppendPiece(Lines(part), p)
    BY <2>2, <2>4
  <2> HIDE DEF part, p
  <2>7. Lines(part) \in Seq(Pieces) /\ Cardinality(Weak(Lines(part))) = 0
    BY <2>6, LinesFacts, LinesStrong
  <2>8. g \in Seq(Pieces)
    BY <2>5, <2>6, <2>7, AppendPieceFacts
  <2>9. Cardinality(Weak(g)) \in Nat /\ Cardinality(Weak(g)) <= Cardinality(Weak(Lines(part))) + 1
    BY <2>5, <2>6, <2>7, WeakFacts
  <2> QED BY <2>7, <2>8, <2>9
<1> QED BY <1>1, <1>2, <1>3 DEF CutRewrite

(* A Put that fails spoils one line at most and gives no key another answer. *)
LEMMA PutFailsKeeps ==
    ASSUME IInv, NEW e \in Entries, PutFails(e)
    PROVE  IInv'
<1>1. /\ file \in Seq(Pieces) /\ limit \in Nat /\ mem \in Shards /\ faults \in Nat
      /\ mem.entries \in Seq(Entries) /\ TypeOK /\ Cardinality(Weak(file)) <= faults
  BY DEF IInv, TypeOK, Shards
<1>2. ~ TooLong(e) /\ faults' = faults + 1 /\ clean' = FALSE
      /\ limit' = limit /\ open' = open /\ latest' = latest
  BY DEF PutFails
<1>3. /\ Compacted(e) \in Shards /\ Compacted(e).entries \in Seq(Entries)
      /\ \A k : Get(Compacted(e), k) \in {NoAnswer, Get(mem, k)}
  BY <1>1, <1>2, CompactedFacts
<1>4. Cardinality(Weak(file)) \in Nat
  <2>1. file \in CutAppend(file, e)
    BY DEF CutAppend
  <2> QED BY <1>1, <2>1, CutAppendFacts
<1>5. file' \in Seq(Pieces) /\ Cardinality(Weak(file')) <= faults + 1
  <2>1. CASE file' \in CutRewrite(file, Compacted(e).entries)
    <3>1. file' \in Seq(Pieces) /\ (file' = file \/ Cardinality(Weak(file')) \in {0, 1})
      BY <1>1, <1>3, <2>1, CutRewriteFacts
    <3> QED BY <1>1, <1>4, <3>1
  <2>2. CASE file' \in CutAppend(Lines(Compacted(e).entries), e)
    <3> DEFINE f == Lines(Compacted(e).entries)
    <3>1. f \in Seq(Pieces) /\ Cardinality(Weak(f)) = 0
      BY <1>3, LinesFacts, LinesStrong
    <3>2. file' \in CutAppend(f, e)
      BY <2>2
    <3> HIDE DEF f
    <3>3. file' \in Seq(Pieces) /\ Cardinality(Weak(file')) \in Nat
          /\ Cardinality(Weak(file')) <= Cardinality(Weak(f)) + 1
      BY <3>1, <3>2, CutAppendFacts
    <3> QED BY <1>1, <3>1, <3>3
  <2>3. CASE file' \in CutAppend(file, e)
    <3>1. file' \in Seq(Pieces) /\ Cardinality(Weak(file')) \in Nat
          /\ Cardinality(Weak(file')) <= Cardinality(Weak(file)) + 1
      BY <1>1, <2>3, CutAppendFacts
    <3> QED BY <1>1, <1>4, <3>1
  <2> QED BY <2>1, <2>2, <2>3 DEF PutFails
<1>6. mem' = mem \/ mem' = Compacted(e)
  BY DEF PutFails
<1>7. mem' \in Shards /\ \A k : Get(mem', k) \in {NoAnswer, Get(mem, k)}
  BY <1>1, <1>3, <1>6
<1>8. NeverStale'
  BY <1>2, <1>7 DEF IInv, NeverStale
<1>9. clean' \in BOOLEAN /\ ~ clean'
  BY <1>2, Zenon
<1>10. faults' \in Nat
  BY <1>1, <1>2
<1>11. TypeOK'
  BY <1>1, <1>2, <1>5, <1>7, <1>9, <1>10 DEF TypeOK
<1> QED BY <1>2, <1>5, <1>8, <1>9, <1>11 DEF IInv

LEMMA CloseKeeps == ASSUME IInv, Close PROVE IInv'
<1>1. <<>> \in Seq(Entries)
  OBVIOUS
<1>2. NewShard \in Shards
  BY <1>1 DEF NewShard, Shards
<1>3. [k \in Keys |-> NoAnswer] \in [Keys -> SomeAnswer]
  BY DEF SomeAnswer
<1>4. TypeOK'
  BY <1>2, <1>3 DEF IInv, TypeOK, Close
<1>5. NeverStale'
  BY DEF Close, NeverStale
<1>6. ~ clean' /\ faults' = faults /\ file' = file
  BY Zenon DEF Close
<1>7. (Cardinality(Weak(file)) <= faults)'
  BY <1>6 DEF IInv
<1> QED BY <1>4, <1>5, <1>6, <1>7 DEF IInv

LEMMA NextHolds == IInv /\ [Next]_vars => IInv'
<1> SUFFICES ASSUME IInv, [Next]_vars PROVE IInv'
  OBVIOUS
<1>1. CASE \E l \in Limits : Open(l) \/ OpenFails(l)
  BY <1>1, OpenKeeps, OpenFailsKeeps
<1>2. CASE \E e \in Entries : Put(e) \/ PutFails(e)
  BY <1>2, PutKeeps, PutFailsKeeps
<1>3. CASE Close
  BY <1>3, CloseKeeps
<1>4. CASE UNCHANGED vars
  BY <1>4 DEF vars, IInv, TypeOK, NeverStale, Same
<1> QED BY <1>1, <1>2, <1>3, <1>4 DEF Next

(* In every reachable state the file has no more weak pieces than writes     *)
(* failed, memory has no answer older than the last one put, and when it is  *)
(* clean the file is what is in memory.                                      *)
THEOREM Invariance == Spec => []IInv
<1> QED BY InitHolds, NextHolds, PTL DEF Spec

(* Within a call the cache never returns an answer that Put replaced,        *)
(* whatever writes fail and however often it compacts.                       *)
THEOREM NeverStaleAlways == Spec => []NeverStale
<1>1. IInv => NeverStale
  BY DEF IInv
<1> QED BY <1>1, Invariance, PTL

(* As long as no fault came after the last compaction or complete read, the  *)
(* next call finds the answers, and counts the size, that this one has.      *)
THEOREM SameAfterRestartAlways == Spec => []SameAfterRestart
<1>1. IInv => SameAfterRestart
  <2> SUFFICES ASSUME IInv, clean PROVE /\ \A k \in Keys : Get(Loaded(file, limit), k) = Get(mem, k)
                                       /\ FileBytes(file) = mem.size
                                       /\ mem.size <= limit
    BY DEF SameAfterRestart
  <2>1. Same /\ file \in Seq(Pieces) /\ limit \in Nat
    BY DEF IInv, TypeOK
  <2>2. FileBytes(file) = mem.size /\ mem.size <= limit /\ Complete(file, limit)
    BY <2>1 DEF Same, Complete
  <2>3. Loaded(file, limit).entries = mem.entries
    BY <2>1, <2>2, LoadedFacts DEF Same
  <2>4. \A k \in Keys : Get(Loaded(file, limit), k) = Get(mem, k)
    BY <2>3 DEF Get
  <2> QED BY <2>2, <2>4
<1> QED BY <1>1, Invariance, PTL

(* The answers that are missing are at most as many as the lines that were   *)
(* spoiled for good: a line that may still be run into has cost none yet.    *)
Paid ==
    /\ due \subseteq Entries /\ IsFiniteSet(due)
    /\ Cardinality(due \ Whole(file)) <= Cardinality(Firm(file))

\* One set of spoiled lines and another.
LEMMA FirmFacts ==
    ASSUME NEW f \in Seq(Pieces)
    PROVE  /\ IsFiniteSet(Firm(f)) /\ Cardinality(Firm(f)) \in Nat
           /\ Firm(f) \in SUBSET (1 .. Len(f))
<1>1. Len(f) \in Nat /\ Firm(f) \in SUBSET (1 .. Len(f))
  BY DEF Firm
<1>2. IsFiniteSet(Firm(f))
  BY <1>1, PositionsFinite
<1> QED BY <1>1, <1>2, FS_CardinalityType

\* A piece that is appended takes no answer away; a whole line either is in
\* the file or is paid for.
LEMMA AppendPays ==
    ASSUME NEW f \in Seq(Pieces), NEW p \in Pieces, NEW D, IsFiniteSet(D),
           Cardinality(D \ Whole(f)) <= Cardinality(Firm(f))
    PROVE  LET g == AppendPiece(f, p)
           IN  /\ Cardinality(D \ Whole(g)) <= Cardinality(Firm(g))
               /\ p.nl => Cardinality((D \cup {p.e}) \ Whole(g)) <= Cardinality(Firm(g))
<1> DEFINE g == AppendPiece(f, p)
           wf == Whole(f)
           wg == Whole(g)
           rf == Firm(f)
           rg == Firm(g)
           e == p.e
<1>1. g \in Seq(Pieces) /\ wf \subseteq wg /\ rf \subseteq rg
      /\ (p.nl => e \in wg \/ \E i \in rg : i \notin rf)
  BY AppendPieceFacts
<1>2. /\ IsFiniteSet(rf) /\ Cardinality(rf) \in Nat
      /\ IsFiniteSet(rg) /\ Cardinality(rg) \in Nat
  BY <1>1, FirmFacts
<1>3. Cardinality(D \ wf) <= Cardinality(rf)
  OBVIOUS
<1> HIDE DEF g, wf, wg, rf, rg, e
<1>4. IsFiniteSet(D \ wf) /\ Cardinality(D \ wf) \in Nat
  BY FS_Difference, FS_CardinalityType
<1>5. Cardinality(D \ wg) <= Cardinality(D \ wf) /\ Cardinality(D \ wg) \in Nat
      /\ IsFiniteSet(D \ wg)
  <2>1. D \ wg \subseteq D \ wf
    BY <1>1
  <2> QED BY <1>4, <2>1, FS_Subset, FS_CardinalityType
<1>6. Cardinality(rf) <= Cardinality(rg)
  BY <1>1, <1>2, FS_Subset
<1>7. Cardinality(D \ wg) <= Cardinality(rg)
  BY <1>2, <1>3, <1>4, <1>5, <1>6
<1>8. ASSUME p.nl PROVE Cardinality((D \cup {e}) \ wg) <= Cardinality(rg)
  <2>1. CASE e \in wg
    <3>1. (D \cup {e}) \ wg = D \ wg
      BY <2>1
    <3> QED BY <1>7, <3>1
  <2>2. CASE \E i \in rg : i \notin rf
    <3>1. PICK i \in rg : i \notin rf
      BY <2>2
    <3>2. IsFiniteSet(rf \cup {i}) /\ Cardinality(rf \cup {i}) = Cardinality(rf) + 1
      BY <1>2, <3>1, FS_AddElement
    <3>3. Cardinality(rf \cup {i}) <= Cardinality(rg)
      <4>1. rf \cup {i} \subseteq rg
        BY <1>1, <3>1
      <4> QED BY <1>2, <4>1, FS_Subset
    <3> DEFINE T == (D \ wg) \cup {e}
               S == (D \cup {e}) \ wg
    <3>4. S \subseteq T
      OBVIOUS
    <3>5. IsFiniteSet(T) /\ Cardinality(T) \in {Cardinality(D \ wg), Cardinality(D \ wg) + 1}
      BY <1>5, FS_AddElement
    <3> HIDE DEF T, S
    <3>6. Cardinality(S) <= Cardinality(T) /\ Cardinality(S) \in Nat
      BY <3>4, <3>5, FS_Subset, FS_CardinalityType
    <3>7. Cardinality(S) <= Cardinality(rg)
      BY <1>2, <1>3, <1>4, <1>5, <3>2, <3>3, <3>5, <3>6
    <3> QED BY <3>7 DEF S
  <2> QED BY <1>1, <1>8, <2>1, <2>2
<1> QED BY <1>7, <1>8 DEF g, wf, wg, rf, rg, e

\* Of a file just written anew nothing is missing.
LEMMA LinesPay ==
    ASSUME NEW es \in Seq(Entries)
    PROVE  /\ ToSet(es) \subseteq Entries /\ IsFiniteSet(ToSet(es))
           /\ Cardinality(ToSet(es) \ Whole(Lines(es))) <= Cardinality(Firm(Lines(es)))
<1>1. Lines(es) \in Seq(Pieces) /\ Len(Lines(es)) = Len(es) /\ Len(es) \in Nat
      /\ \A i \in 1 .. Len(es) : Lines(es)[i] = Line(es[i]) /\ es[i] \in Entries
  BY LinesFacts
<1>2. \A i \in 1 .. Len(es) : Lines(es)[i].nl /\ Lines(es)[i].e = es[i]
  BY <1>1, PieceFacts
<1>3. ToSet(es) \subseteq Whole(Lines(es))
  BY <1>1, <1>2 DEF ToSet, Whole
<1>4. ToSet(es) \ Whole(Lines(es)) = {}
  BY <1>3
<1>5. ToSet(es) \subseteq Entries
  BY <1>1 DEF ToSet
<1>6. IsFiniteSet(ToSet(es))
  <2>1. IsFiniteSet(1 .. Len(es))
    BY <1>1, PositionsFinite
  <2>2. es \in Surjection(1 .. Len(es), ToSet(es))
    BY <1>1 DEF ToSet, Surjection
  <2> QED BY <2>1, <2>2, FS_Surjection
<1>7. Cardinality(Firm(Lines(es))) \in Nat
  BY <1>1, FirmFacts
<1>8. Cardinality(ToSet(es) \ Whole(Lines(es))) = 0
  BY <1>4, FS_EmptySet
<1> QED BY <1>5, <1>6, <1>7, <1>8

\* What a cut append leaves.
LEMMA CutAppendPays ==
    ASSUME NEW f \in Seq(Pieces), NEW e \in Entries, NEW D, IsFiniteSet(D),
           Cardinality(D \ Whole(f)) <= Cardinality(Firm(f)),
           NEW g \in CutAppend(f, e)
    PROVE  Cardinality(D \ Whole(g)) <= Cardinality(Firm(g))
<1>1. CASE g = f
  BY <1>1
<1>2. CASE \E n \in 1 .. LineBytes[e.k] : g = AppendPiece(f, Piece(e, n))
  <2>1. PICK n \in 1 .. LineBytes[e.k] : g = AppendPiece(f, Piece(e, n))
    BY <1>2
  <2>2. Piece(e, n) \in Pieces
    BY PieceFacts
  <2> DEFINE q == Piece(e, n)
  <2> HIDE DEF q
  <2>3. q \in Pieces /\ g = AppendPiece(f, q)
    BY <2>1, <2>2 DEF q
  <2> QED BY <2>3, AppendPays
<1> QED BY <1>1, <1>2 DEF CutAppend

LEMMA PutPays == ASSUME IInv, Paid, NEW e \in Entries, Put(e) PROVE Paid'
<1>1. /\ file \in Seq(Pieces) /\ limit \in Nat /\ mem \in Shards
      /\ mem.entries \in Seq(Entries) /\ TypeOK
  BY DEF IInv, TypeOK, Shards
<1>2. ~ TooLong(e)
  BY DEF Put
<1>3. Line(e) \in Pieces /\ Line(e).nl /\ Line(e).e = e
  BY PieceFacts
<1>4. CASE Full(e)
  <2> DEFINE es == Compacted(e).entries
  <2>1. es \in Seq(Entries)
    BY <1>1, <1>2, CompactedFacts
  <2>2. file' = AppendPiece(Lines(es), Line(e)) /\ due' = ToSet(es) \cup {e}
    BY <1>4 DEF Put
  <2> HIDE DEF es
  <2>3. Lines(es) \in Seq(Pieces)
    BY <2>1, LinesFacts
  <2>4. Cardinality(due' \ Whole(file')) <= Cardinality(Firm(file'))
    BY <1>3, <2>1, <2>2, <2>3, LinesPay, AppendPays
  <2>5. due' \subseteq Entries /\ IsFiniteSet(due')
    BY <2>1, <2>2, LinesPay, FS_AddElement
  <2> QED BY <2>4, <2>5 DEF Paid
<1>5. CASE ~ Full(e)
  <2>1. file' = AppendPiece(file, Line(e)) /\ due' = due \cup {e}
    BY <1>5 DEF Put
  <2>2. due' \subseteq Entries /\ IsFiniteSet(due')
    BY <2>1, FS_AddElement DEF Paid
  <2>3. Cardinality(due' \ Whole(file')) <= Cardinality(Firm(file'))
    BY <1>1, <1>3, <2>1, AppendPays DEF Paid
  <2> QED BY <2>2, <2>3 DEF Paid
<1> QED BY <1>4, <1>5

LEMMA PutFailsPays == ASSUME IInv, Paid, NEW e \in Entries, PutFails(e) PROVE Paid'
<1>1. /\ file \in Seq(Pieces) /\ limit \in Nat /\ mem \in Shards
      /\ mem.entries \in Seq(Entries) /\ TypeOK
  BY DEF IInv, TypeOK, Shards
<1>2. ~ TooLong(e)
  BY DEF PutFails
<1> DEFINE es == Compacted(e).entries
<1>3. es \in Seq(Entries)
  BY <1>1, <1>2, CompactedFacts
<1>4. \/ file' \in CutRewrite(file, es) /\ due' = {}
      \/ file' \in CutAppend(Lines(es), e) /\ due' = ToSet(es)
      \/ file' \in CutAppend(file, e) /\ due' = due
  BY DEF PutFails
<1> HIDE DEF es
<1>5. CASE file' \in CutRewrite(file, es) /\ due' = {}
  <2>1. file' \in Seq(Pieces)
    BY <1>1, <1>3, <1>5, CutRewriteFacts
  <2>2. Cardinality(Firm(file')) \in Nat
    BY <2>1, FirmFacts
  <2>3. due' \ Whole(file') = {} /\ IsFiniteSet(due')
    BY <1>5, FS_EmptySet
  <2>4. Cardinality(due' \ Whole(file')) = 0
    BY <2>3, FS_EmptySet
  <2> QED BY <1>5, <2>2, <2>3, <2>4 DEF Paid
<1>6. CASE file' \in CutAppend(Lines(es), e) /\ due' = ToSet(es)
  <2>1. Lines(es) \in Seq(Pieces)
    BY <1>3, LinesFacts
  <2> QED BY <1>3, <1>6, <2>1, LinesPay, CutAppendPays DEF Paid
<1>7. CASE file' \in CutAppend(file, e) /\ due' = due
  BY <1>1, <1>7, CutAppendPays DEF Paid
<1> QED BY <1>4, <1>5, <1>6, <1>7

LEMMA PaidKept == IInv /\ Paid /\ [Next]_vars => Paid'
<1> SUFFICES ASSUME IInv, Paid, [Next]_vars PROVE Paid'
  OBVIOUS
<1>1. CASE \E e \in Entries : Put(e) \/ PutFails(e)
  BY <1>1, PutPays, PutFailsPays
<1>2. CASE (\E l \in Limits : Open(l) \/ OpenFails(l)) \/ Close \/ UNCHANGED vars
  <2>1. file' = file /\ due' = due
    BY <1>2 DEF Open, OpenFails, Start, Close, vars
  <2> QED BY <2>1 DEF Paid
<1> QED BY <1>1, <1>2 DEF Next

(* A write that fails spoils one line of the file at most, the one that was  *)
(* cut with what runs into it, and no more of the answers put since the file *)
(* was last written anew are missing from it than lines are spoiled.         *)
THEOREM DamageIsBounded == Spec => []DamageBounded
<1>1. IInv /\ Paid => DamageBounded
  <2> SUFFICES ASSUME IInv, Paid PROVE DamageBounded
    OBVIOUS
  <2> DEFINE bad == Spoilt
             weak == Weak(file)
             firm == Firm(file)
             gone == Missing
             out == due \ Whole(file)
  <2>1. file \in Seq(Pieces) /\ Cardinality(weak) <= faults /\ faults \in Nat
    BY DEF IInv, TypeOK
  <2>2. Len(file) \in Nat /\ weak \in SUBSET (1 .. Len(file))
    BY <2>1 DEF Weak
  <2>3. firm \subseteq bad /\ bad \subseteq weak
    BY DEF Weak, Firm, Spoilt
  <2>4. gone \subseteq out
    BY DEF Missing, Whole
  <2>5. IsFiniteSet(out) /\ Cardinality(out) <= Cardinality(firm)
    BY FS_Difference DEF Paid
  <2>6. IsFiniteSet(weak)
    BY <2>2, PositionsFinite
  <2> HIDE DEF bad, weak, firm, gone, out
  <2>7. IsFiniteSet(bad) /\ Cardinality(bad) <= Cardinality(weak)
    BY <2>3, <2>6, FS_Subset
  <2>8. IsFiniteSet(firm) /\ Cardinality(firm) <= Cardinality(bad)
    BY <2>3, <2>7, FS_Subset
  <2>9. IsFiniteSet(gone) /\ Cardinality(gone) <= Cardinality(out)
    BY <2>4, <2>5, FS_Subset
  <2>10. /\ Cardinality(bad) \in Nat /\ Cardinality(weak) \in Nat /\ Cardinality(firm) \in Nat
         /\ Cardinality(gone) \in Nat /\ Cardinality(out) \in Nat
    BY <2>5, <2>6, <2>7, <2>8, <2>9, FS_CardinalityType
  <2>11. Cardinality(gone) <= Cardinality(bad) /\ Cardinality(bad) <= faults
    BY <2>1, <2>5, <2>7, <2>8, <2>9, <2>10
  <2> QED BY <2>11 DEF DamageBounded, gone, bad
<1>2. Init => Paid
  <2> SUFFICES ASSUME Init PROVE Paid
    OBVIOUS
  <2>1. due = {} /\ file = <<>>
    BY DEF Init
  <2>2. due \ Whole(file) = {} /\ Firm(file) = {} /\ IsFiniteSet(due)
    BY <2>1, FS_EmptySet DEF Firm
  <2>3. Cardinality(due \ Whole(file)) = 0 /\ Cardinality(Firm(file)) = 0
    BY <2>2, FS_EmptySet
  <2> QED BY <2>1, <2>2, <2>3 DEF Paid
<1> QED BY <1>1, <1>2, PaidKept, Invariance, PTL DEF Spec

(* Only a compaction makes a shard smaller during a call, and with the line  *)
(* it makes room for it fills no more than half of the limit.                *)
THEOREM HalfStaysFree == Spec => HalfFree
<1>1. IInv /\ [Next]_vars =>
        [open /\ open' /\ mem'.size < mem.size => 2 * mem'.size <= limit]_vars
  <2> SUFFICES ASSUME IInv, Next, open, open', mem'.size < mem.size
               PROVE  2 * mem'.size <= limit
    OBVIOUS
  <2>1. mem \in Shards /\ mem.size \in Nat /\ limit \in Nat /\ TypeOK
    BY DEF IInv, TypeOK, Shards
  <2>2. ~ \E l \in Limits : Open(l) \/ OpenFails(l)
    BY DEF Open, OpenFails, Start
  <2>3. ~ Close
    BY DEF Close
  <2>4. PICK e \in Entries : Put(e) \/ PutFails(e)
    BY <2>2, <2>3 DEF Next
  <2>5. ~ TooLong(e)
    BY <2>4 DEF Put, PutFails
  <2>6. /\ Compacted(e) \in Shards
        /\ 2 * Compacted(e).size <= limit
        /\ 2 * (Compacted(e).size + LineBytes[e.k]) <= limit
    BY <2>1, <2>5, CompactedFacts
  <2>7. mem' # mem
    BY <2>1
  <2>8. mem' \in {Compacted(e), Added(Compacted(e), e), Added(mem, e)}
    BY <2>4, <2>7 DEF Put, PutFails
  <2>9. mem' # Added(mem, e)
    BY <2>1, AddedFacts, PieceFacts
  <2>10. Added(Compacted(e), e).size = Compacted(e).size + LineBytes[e.k]
    BY <2>6, AddedFacts
  <2> QED BY <2>6, <2>8, <2>9, <2>10
<1> QED BY <1>1, Invariance, PTL DEF Spec, HalfFree
=============================================================================
