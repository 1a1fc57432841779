--------------------------- MODULE ScanStep_proofs ---------------------------
(* Proofs about one scan for every directory structure, every number of      *)
(* batteries, every budget and capacity, and every bound on faults, edits    *)
(* and misses.                                                               *)
EXTENDS ScanStep, SequenceTheorems, FiniteSetTheorems, TLAPS

JobPcs == {"battery", "record", "locate", "located", "cover"}

Refs == Dirs \cup UNION {ToSet(Barred[d]) : d \in Dirs}
Event ==
    [t : {"record"}, ref : Files, dig : Nat, b : Nat, ok : BOOLEAN]
    \cup [t : {"file"}, ref : Files, dig : Nat, disp : Closing \cup {"pending"}]
    \cup [t : {"subtree"}, ref : Refs,
         why : {"excluded", "file_budget", "step_budget", "rules_error"}]
StepStates ==
    [base : Nat, end : Nat, calls : Nat, left : Nat, examined : Nat, loaded : BOOLEAN,
     runtime : {"ok", "wait", "blocked"}, err : {"none", "full", "store", "rules", "other"}]
Jobs ==
    [f : Files, dig : Nat, prior : SUBSET Nat, b : Nat, ok : BOOLEAN,
     err : {"none", "judge", "other", "refused", "progress"}]

\* The files ahead of a cursor, and those the journal accounts for.
Ahead(c) == {f \in Files : InCursor(c, f)}
Told == {f \in Files : Accounted(f)}

\* A cursor comes to no file twice.
Distinct(c) ==
    /\ \A i, j \in 1 .. Len(c.pending) : i # j => c.pending[i] # c.pending[j]
    /\ \A i, j \in 1 .. Len(c.stack) :
          i # j => FilesBelow(c.stack[i]) \cap FilesBelow(c.stack[j]) = {}
    /\ \A i \in 1 .. Len(c.stack) : ToSet(c.pending) \cap FilesBelow(c.stack[i]) = {}

\* A cursor with k files counted but not yet decided, against a journal of n
\* events in which the files X are assessed.
Kept(c, k, X, n) ==
    /\ c \in Cursors /\ c.offset <= n
    /\ ToSet(c.pending) \subseteq ToSet(FilesIn[c.dir])
    /\ c.seen = c.judged + c.skipped + k
    /\ c.seen + Len(c.pending) <= c.listed + k
    /\ c.seen <= c.max
    /\ Distinct(c)
    /\ c.judged <= Cardinality(X \ Ahead(c))

Whole(c, T) == Files \subseteq Ahead(c) \cup T

(* Sequences used as stack and queue.                                        *)
LEMMA InToSet ==
    ASSUME NEW S, NEW s \in Seq(S)
    PROVE  \A x : x \in ToSet(s) <=> \E i \in 1 .. Len(s) : x = s[i]
  BY DEF ToSet

LEMMA PoppedFacts ==
    ASSUME NEW S, NEW s \in Seq(S), s # <<>>
    PROVE  /\ Top(s) \in S /\ Popped(s) \in Seq(S) /\ Len(Popped(s)) = Len(s) - 1
           /\ \A i \in 1 .. Len(s) - 1 : Popped(s)[i] = s[i]
           /\ ToSet(s) = ToSet(Popped(s)) \cup {Top(s)}
<1>1. Len(s) \in Nat \ {0} /\ \A i \in 1 .. Len(s) : s[i] \in S
  OBVIOUS
<1>2. Popped(s) \in Seq(S) /\ Len(Popped(s)) = Len(s) - 1
      /\ \A i \in 1 .. Len(s) - 1 : Popped(s)[i] = s[i]
  <2> DEFINE n == Len(s) - 1
  <2>1. 1 \in Int /\ n \in Int /\ n \in Nat /\ \A i \in 1 .. n : s[i] \in S
    BY <1>1
  <2>2. /\ SubSeq(s, 1, n) \in Seq(S)
        /\ Len(SubSeq(s, 1, n)) = IF 1 <= n THEN n - 1 + 1 ELSE 0
        /\ \A i \in 1 .. n - 1 + 1 : SubSeq(s, 1, n)[i] = s[1 + i - 1]
    <3> HIDE DEF n
    <3> QED BY ONLY <2>1, SubSeqProperties
  <2>3. Popped(s) = SubSeq(s, 1, n)
    BY DEF Popped
  <2>4. n - 1 + 1 = n /\ \A i \in 1 .. n : 1 + i - 1 = i
    BY <2>1
  <2>5. /\ Popped(s) \in Seq(S) /\ Len(Popped(s)) = n
        /\ \A i \in 1 .. n : Popped(s)[i] = s[i]
    <3> HIDE DEF n
    <3> QED BY <2>1, <2>2, <2>3, <2>4
  <2> QED BY <2>5
<1>3. Top(s) = s[Len(s)] /\ Top(s) \in S
  BY <1>1 DEF Top
<1>4. \A x : x \in ToSet(s) <=> \E i \in 1 .. Len(s) : x = s[i]
  BY InToSet
<1>5. \A x : x \in ToSet(Popped(s)) <=> \E i \in 1 .. Len(s) - 1 : x = s[i]
  <2>1. \A x : x \in ToSet(Popped(s)) <=> \E i \in 1 .. Len(Popped(s)) : x = Popped(s)[i]
    BY <1>2, InToSet
  <2> QED BY <1>2, <2>1
<1>6. \A i : i \in 1 .. Len(s) <=> i \in 1 .. Len(s) - 1 \/ i = Len(s)
  BY <1>1
<1> QED BY <1>2, <1>3, <1>4, <1>5, <1>6

LEMMA TailFacts ==
    ASSUME NEW S, NEW s \in Seq(S), s # <<>>
    PROVE  /\ Head(s) \in S /\ Tail(s) \in Seq(S) /\ Len(Tail(s)) = Len(s) - 1
           /\ Len(s) \in Nat \ {0} /\ Head(s) = s[1]
           /\ \A i \in 1 .. Len(s) - 1 : Tail(s)[i] = s[i + 1]
           /\ ToSet(s) = {Head(s)} \cup ToSet(Tail(s))
<1>1. Len(s) \in Nat \ {0} /\ Head(s) = s[1] /\ Tail(s) \in Seq(S) /\ Len(Tail(s)) = Len(s) - 1
  OBVIOUS
<1>2. \A i \in 1 .. Len(s) - 1 : Tail(s)[i] = s[i + 1]
  OBVIOUS
<1>3. \A x : x \in ToSet(s) <=> \E i \in 1 .. Len(s) : x = s[i]
  BY InToSet
<1>4. \A x : x \in ToSet(Tail(s)) <=> \E i \in 1 .. Len(s) - 1 : x = s[i + 1]
  <2>1. \A x : x \in ToSet(Tail(s)) <=> \E i \in 1 .. Len(Tail(s)) : x = Tail(s)[i]
    BY <1>1, InToSet
  <2> QED BY <1>1, <1>2, <2>1
<1>5. ASSUME NEW x \in ToSet(s) PROVE x \in {Head(s)} \cup ToSet(Tail(s))
  <2>1. PICK i \in 1 .. Len(s) : x = s[i]
    BY <1>3
  <2>2. CASE i = 1
    BY <1>1, <2>1, <2>2
  <2>3. CASE i # 1
    <3>1. i - 1 \in 1 .. Len(s) - 1 /\ x = s[(i - 1) + 1]
      BY <1>1, <2>1, <2>3
    <3> QED BY <1>4, <3>1
  <2> QED BY <2>2, <2>3
<1>6. ASSUME NEW x \in {Head(s)} \cup ToSet(Tail(s)) PROVE x \in ToSet(s)
  <2>1. CASE x = Head(s)
    BY <1>1, <1>3, <2>1
  <2>2. CASE x \in ToSet(Tail(s))
    <3>1. PICK i \in 1 .. Len(s) - 1 : x = s[i + 1]
      BY <1>4, <2>2
    <3>2. i + 1 \in 1 .. Len(s)
      BY <1>1
    <3> QED BY <1>3, <3>1, <3>2
  <2> QED BY <1>6, <2>1, <2>2
<1> QED BY <1>1, <1>2, <1>5, <1>6

LEMMA ConcatFacts ==
    ASSUME NEW S, NEW s \in Seq(S), NEW t \in Seq(S)
    PROVE  /\ s \o t \in Seq(S) /\ Len(s \o t) = Len(s) + Len(t)
           /\ \A i \in 1 .. Len(s) : (s \o t)[i] = s[i]
           /\ \A i \in 1 .. Len(t) : (s \o t)[Len(s) + i] = t[i]
           /\ ToSet(s \o t) = ToSet(s) \cup ToSet(t)
<1> DEFINE g == s \o t
<1>1. g \in Seq(S) /\ Len(g) = Len(s) + Len(t) /\ Len(s) \in Nat /\ Len(t) \in Nat
  OBVIOUS
<1>2. \A i \in 1 .. Len(s) : g[i] = s[i]
  OBVIOUS
<1>3. \A i \in 1 .. Len(t) : g[Len(s) + i] = t[i]
  OBVIOUS
<1> HIDE DEF g
<1>4. \A x : x \in ToSet(g) <=> \E i \in 1 .. Len(g) : x = g[i]
  BY <1>1, InToSet
<1>5. \A x : x \in ToSet(s) <=> \E i \in 1 .. Len(s) : x = s[i]
  BY InToSet
<1>6. \A x : x \in ToSet(t) <=> \E i \in 1 .. Len(t) : x = t[i]
  BY InToSet
<1>7. ASSUME NEW x \in ToSet(g) PROVE x \in ToSet(s) \cup ToSet(t)
  <2>1. PICK i \in 1 .. Len(g) : x = g[i]
    BY <1>4
  <2>2. CASE i <= Len(s)
    BY <1>1, <1>2, <1>5, <2>1, <2>2
  <2>3. CASE i > Len(s)
    <3>1. i - Len(s) \in 1 .. Len(t) /\ x = g[Len(s) + (i - Len(s))]
      BY <1>1, <2>1, <2>3
    <3> QED BY <1>3, <1>6, <3>1
  <2> QED BY <1>1, <2>1, <2>2, <2>3
<1>8. ASSUME NEW x \in ToSet(s) \cup ToSet(t) PROVE x \in ToSet(g)
  <2>1. CASE x \in ToSet(s)
    BY <1>1, <1>2, <1>4, <1>5, <2>1
  <2>2. CASE x \in ToSet(t)
    <3>1. PICK i \in 1 .. Len(t) : x = t[i]
      BY <1>6, <2>2
    <3>2. Len(s) + i \in 1 .. Len(g) /\ g[Len(s) + i] = x
      BY <1>1, <1>3, <3>1
    <3> QED BY <1>4, <3>2
  <2> QED BY <1>8, <2>1, <2>2
<1> QED BY <1>1, <1>2, <1>3, <1>7, <1>8 DEF g

LEMMA ReverseFacts ==
    ASSUME NEW S, NEW s \in Seq(S)
    PROVE  /\ Reverse(s) \in Seq(S) /\ Len(Reverse(s)) = Len(s)
           /\ \A i \in 1 .. Len(s) : Reverse(s)[i] = s[Len(s) - i + 1]
           /\ ToSet(Reverse(s)) = ToSet(s)
<1>1. Len(s) \in Nat
  OBVIOUS
<1>2. \A i \in 1 .. Len(s) : Len(s) - i + 1 \in 1 .. Len(s)
  BY <1>1
<1>3. Reverse(s) \in Seq(S) /\ Len(Reverse(s)) = Len(s)
      /\ \A i \in 1 .. Len(s) : Reverse(s)[i] = s[Len(s) - i + 1]
  BY <1>1, <1>2 DEF Reverse
<1>4. \A x : x \in ToSet(s) <=> \E i \in 1 .. Len(s) : x = s[i]
  BY InToSet
<1>5. \A x : x \in ToSet(Reverse(s)) <=> \E i \in 1 .. Len(s) : x = s[Len(s) - i + 1]
  <2>1. \A x : x \in ToSet(Reverse(s)) <=> \E i \in 1 .. Len(Reverse(s)) : x = Reverse(s)[i]
    BY <1>3, InToSet
  <2> QED BY <1>3, <2>1
<1>6. ASSUME NEW x \in ToSet(s) PROVE x \in ToSet(Reverse(s))
  <2>1. PICK i \in 1 .. Len(s) : x = s[i]
    BY <1>4
  <2>2. x = s[Len(s) - (Len(s) - i + 1) + 1]
    BY <1>1, <2>1
  <2> QED BY <1>2, <1>5, <2>2
<1>7. ASSUME NEW x \in ToSet(Reverse(s)) PROVE x \in ToSet(s)
  BY <1>2, <1>4, <1>5
<1> QED BY <1>3, <1>6, <1>7

-----------------------------------------------------------------------------
(* What is walked from a directory: itself, and what is walked from its      *)
(* subdirectories.                                                           *)
LEMMA BelowFacts ==
    ASSUME NEW d \in Dirs
    PROVE  /\ d \in Below(d) /\ Below(d) \subseteq Dirs
           /\ \A s \in ToSet(SubDirs[d]) : s \in Dirs /\ Below(s) \subseteq Below(d)
           /\ \A x \in Below(d) : x = d \/ \E s \in ToSet(SubDirs[d]) : x \in Below(s)
<1>1. ASSUME NEW y \in Dirs PROVE ToSet(SubDirs[y]) \subseteq Dirs
  <2>1. SubDirs[y] \in Seq(Dirs)
    BY ListingAssumption
  <2> QED BY <2>1 DEF ToSet
<1>2. d \in Below(d) /\ Below(d) \subseteq Dirs
  BY DEF Below
<1>3. ASSUME NEW s \in ToSet(SubDirs[d]) PROVE s \in Dirs /\ Below(s) \subseteq Below(d)
  <2>1. s \in Dirs
    BY <1>1
  <2>2. ASSUME NEW x \in Below(s) PROVE x \in Below(d)
    <3>1. ASSUME NEW S \in SUBSET Dirs, d \in S, \A y \in S : ToSet(SubDirs[y]) \subseteq S
          PROVE  x \in S
      BY <2>2, <3>1 DEF Below
    <3> QED BY <2>2, <3>1 DEF Below
  <2> QED BY <2>1, <2>2
<1>4. ASSUME NEW x \in Below(d) PROVE x = d \/ \E s \in ToSet(SubDirs[d]) : x \in Below(s)
  <2> DEFINE S == {d} \cup {y \in Dirs : \E s \in ToSet(SubDirs[d]) : y \in Below(s)}
  <2>1. S \in SUBSET Dirs
    OBVIOUS
  <2>2. ASSUME NEW y \in S, NEW z \in ToSet(SubDirs[y]) PROVE z \in S
    <3>1. z \in Dirs
      BY <1>1, <2>1, <2>2
    <3>2. CASE y = d
      BY <3>1, <3>2, <2>2 DEF Below
    <3>3. CASE y # d
      <4>1. PICK s \in ToSet(SubDirs[d]) : y \in Below(s)
        BY <2>2, <3>3
      <4>2. z \in Below(s)
        BY <2>2, <3>1, <4>1 DEF Below
      <4> QED BY <3>1, <4>1, <4>2
    <3> QED BY <3>2, <3>3
  <2>3. d \in S /\ \A y \in S : ToSet(SubDirs[y]) \subseteq S
    BY <2>2
  <2>4. x \in S
    BY <2>1, <2>3 DEF Below
  <2> QED BY <2>4
<1> QED BY <1>2, <1>3, <1>4

LEMMA FilesBelowFacts ==
    ASSUME NEW d \in Dirs
    PROVE  \A f : f \in FilesBelow(d) <=>
                \/ f \in ToSet(FilesIn[d])
                \/ \E s \in ToSet(SubDirs[d]) : f \in FilesBelow(s)
  BY BelowFacts DEF FilesBelow

-----------------------------------------------------------------------------
(* Cursors                                                                   *)

LEMMA AheadIs ==
    ASSUME NEW c, c.stack \in Seq(Dirs)
    PROVE  \A f : f \in Ahead(c) <=>
              /\ f \in Files
              /\ \/ f \in ToSet(c.pending)
                 \/ \E i \in 1 .. Len(c.stack) : f \in FilesBelow(c.stack[i])
<1>1. \A x : x \in ToSet(c.stack) <=> \E i \in 1 .. Len(c.stack) : x = c.stack[i]
  BY InToSet
<1> QED BY <1>1 DEF Ahead, InCursor

\* Only the stack and the pending files matter.
LEMMA SameAhead ==
    ASSUME NEW c, NEW m, m.stack = c.stack, m.pending = c.pending
    PROVE  Ahead(m) = Ahead(c) /\ (Distinct(c) => Distinct(m))
  BY DEF Ahead, InCursor, Distinct

\* The head of the pending files is closed.
LEMMA HeadClosed ==
    ASSUME NEW c \in Cursors, NEW m, Distinct(c), c.pending # <<>>,
           m.stack = c.stack, m.pending = Tail(c.pending)
    PROVE  /\ Distinct(m)
           /\ Head(c.pending) \in Ahead(c)
           /\ Ahead(m) = Ahead(c) \ {Head(c.pending)}
<1> DEFINE p == c.pending
           h == Head(p)
<1>1. p \in Seq(Files) /\ c.stack \in Seq(Dirs)
  BY DEF Cursors
<1>2. /\ h \in Files /\ Tail(p) \in Seq(Files) /\ Len(Tail(p)) = Len(p) - 1
      /\ Len(p) \in Nat \ {0} /\ h = p[1]
      /\ \A i \in 1 .. Len(p) - 1 : Tail(p)[i] = p[i + 1]
      /\ ToSet(p) = {h} \cup ToSet(Tail(p))
  BY <1>1, TailFacts
<1>3. \A i, j \in 1 .. Len(p) : i # j => p[i] # p[j]
  BY DEF Distinct
<1>4. h \notin ToSet(Tail(p))
  <2> SUFFICES ASSUME h \in ToSet(Tail(p)) PROVE FALSE
    OBVIOUS
  <2>1. PICK i \in 1 .. Len(Tail(p)) : h = Tail(p)[i]
    BY <1>2, InToSet
  <2>2. i \in 1 .. Len(p) - 1 /\ i \in Nat
    BY <1>2, <2>1
  <2>3. i + 1 \in 1 .. Len(p) /\ 1 \in 1 .. Len(p) /\ i + 1 # 1
    BY ONLY <1>2, <2>2
  <2>4. h = p[i + 1]
    BY <1>2, <2>1, <2>2
  <2> QED BY <1>2, <1>3, <2>3, <2>4
<1>5. \A i \in 1 .. Len(c.stack) : ToSet(p) \cap FilesBelow(c.stack[i]) = {}
  BY DEF Distinct
<1>6. h \in ToSet(p)
  BY <1>2
<1> HIDE DEF h, p
<1>7. Ahead(m) = Ahead(c) \ {h}
  <2>1. \A f : f \in Ahead(c) <=>
              /\ f \in Files
              /\ \/ f \in ToSet(p)
                 \/ \E i \in 1 .. Len(c.stack) : f \in FilesBelow(c.stack[i])
    BY <1>1, AheadIs DEF p
  <2>2. \A f : f \in Ahead(m) <=>
              /\ f \in Files
              /\ \/ f \in ToSet(Tail(p))
                 \/ \E i \in 1 .. Len(c.stack) : f \in FilesBelow(c.stack[i])
    BY <1>1, AheadIs DEF p
  <2> QED BY <1>2, <1>4, <1>5, <1>6, <2>1, <2>2
<1>8. h \in Ahead(c)
  BY <1>1, <1>2, <1>6, AheadIs DEF p
<1>9. Distinct(m)
  <2>1. \A i, j \in 1 .. Len(Tail(p)) : i # j => Tail(p)[i] # Tail(p)[j]
    <3> SUFFICES ASSUME NEW i \in 1 .. Len(Tail(p)), NEW j \in 1 .. Len(Tail(p)), i # j
                 PROVE  Tail(p)[i] # Tail(p)[j]
      OBVIOUS
    <3>1. i + 1 \in 1 .. Len(p) /\ j + 1 \in 1 .. Len(p) /\ i + 1 # j + 1
      BY <1>2
    <3>2. Tail(p)[i] = p[i + 1] /\ Tail(p)[j] = p[j + 1]
      BY <1>2
    <3> QED BY <1>3, <3>1, <3>2
  <2>2. m.pending = Tail(p) /\ m.stack = c.stack
    BY DEF p
  <2> QED BY <1>2, <1>5, <2>1, <2>2 DEF Distinct
<1> QED BY <1>7, <1>8, <1>9 DEF h, p

\* The pending files of a directory are dropped.
LEMMA PendingDropped ==
    ASSUME NEW c \in Cursors, NEW m, Distinct(c), m.stack = c.stack, m.pending = <<>>,
           ToSet(c.pending) \subseteq FilesBelow(c.dir)
    PROVE  /\ Distinct(m) /\ Ahead(m) \subseteq Ahead(c)
           /\ Ahead(c) \subseteq Ahead(m) \cup FilesBelow(c.dir)
<1>1. c.stack \in Seq(Dirs) /\ ToSet(m.pending) = {} /\ Len(m.pending) = 0
  BY DEF Cursors, ToSet
<1>2. \A f : f \in Ahead(c) <=>
            /\ f \in Files
            /\ \/ f \in ToSet(c.pending)
               \/ \E i \in 1 .. Len(c.stack) : f \in FilesBelow(c.stack[i])
  BY <1>1, AheadIs
<1>3. \A f : f \in Ahead(m) <=>
            /\ f \in Files
            /\ \/ f \in ToSet(m.pending)
               \/ \E i \in 1 .. Len(c.stack) : f \in FilesBelow(c.stack[i])
  BY <1>1, AheadIs
<1>4. Distinct(m)
  <2>1. \A i, j \in 1 .. Len(m.pending) : i # j => m.pending[i] # m.pending[j]
    BY <1>1
  <2>2. \A i, j \in 1 .. Len(m.stack) :
          i # j => FilesBelow(m.stack[i]) \cap FilesBelow(m.stack[j]) = {}
    BY DEF Distinct
  <2>3. \A i \in 1 .. Len(m.stack) : ToSet(m.pending) \cap FilesBelow(m.stack[i]) = {}
    BY <1>1
  <2> QED BY ONLY <2>1, <2>2, <2>3, Zenon DEF Distinct
<1>5. Ahead(m) \subseteq Ahead(c)
  BY ONLY <1>1, <1>2, <1>3
<1>6. Ahead(c) \subseteq Ahead(m) \cup FilesBelow(c.dir)
  <2>1. \A f : f \in ToSet(c.pending) => f \in FilesBelow(c.dir)
    OBVIOUS
  <2> QED BY ONLY <1>2, <1>3, <2>1
<1> QED BY <1>4, <1>5, <1>6

\* A directory on top of the stack is dropped, when no files are pending.
LEMMA TopDropped ==
    ASSUME NEW c \in Cursors, NEW m, Distinct(c), c.stack # <<>>, c.pending = <<>>,
           m.stack = Popped(c.stack), m.pending = <<>>
    PROVE  /\ Distinct(m) /\ Ahead(m) \subseteq Ahead(c)
           /\ Ahead(c) \subseteq Ahead(m) \cup FilesBelow(Top(c.stack))
<1> DEFINE s == c.stack
<1>1. s \in Seq(Dirs) /\ ToSet(c.pending) = {} /\ ToSet(m.pending) = {} /\ Len(m.pending) = 0
  BY DEF Cursors, ToSet
<1>2. Popped(s) \in Seq(Dirs) /\ ToSet(s) = ToSet(Popped(s)) \cup {Top(s)}
      /\ Len(Popped(s)) = Len(s) - 1 /\ \A i \in 1 .. Len(s) - 1 : Popped(s)[i] = s[i]
  BY <1>1, PoppedFacts
<1>3. Ahead(c) = {f \in Files : \E d \in ToSet(s) : f \in FilesBelow(d)}
  BY <1>1 DEF Ahead, InCursor
<1>4. Ahead(m) = {f \in Files : \E d \in ToSet(Popped(s)) : f \in FilesBelow(d)}
  BY <1>1 DEF Ahead, InCursor
<1>5. Ahead(m) \subseteq Ahead(c) /\ Ahead(c) \subseteq Ahead(m) \cup FilesBelow(Top(s))
  BY <1>2, <1>3, <1>4
<1>6. Distinct(m)
  <2>1. Len(s) \in Nat /\ m.stack = Popped(s)
    BY <1>1
  <2>2. \A i \in 1 .. Len(m.stack) : i \in 1 .. Len(s) /\ m.stack[i] = s[i]
    BY <1>2, <2>1
  <2>3. \A i, j \in 1 .. Len(m.stack) :
          i # j => FilesBelow(m.stack[i]) \cap FilesBelow(m.stack[j]) = {}
    BY <1>1, <2>2 DEF Distinct
  <2>4. \A i \in 1 .. Len(m.stack) : ToSet(c.pending) \cap FilesBelow(m.stack[i]) = {}
    BY <1>1, <2>2 DEF Distinct
  <2>5. m.pending = c.pending
    BY <1>1
  <2>6. \A k, l \in 1 .. Len(m.pending) : k # l => m.pending[k] # m.pending[l]
    BY <2>5 DEF Distinct
  <2>7. ToSet(m.pending) = ToSet(c.pending)
    BY <2>5
  <2> QED BY ONLY <2>3, <2>4, <2>6, <2>7, Zenon DEF Distinct
<1> QED BY <1>5, <1>6

\* A directory is listed: its files and subdirectories take its place.
LEMMA TopListed ==
    ASSUME NEW c \in Cursors, NEW m, Distinct(c), c.stack # <<>>, c.pending = <<>>,
           m.stack = Popped(c.stack) \o Reverse(SubDirs[Top(c.stack)]),
           m.pending = FilesIn[Top(c.stack)]
    PROVE  /\ m.stack \in Seq(Dirs) /\ m.pending \in Seq(Files) /\ Top(c.stack) \in Dirs
           /\ Distinct(m) /\ Ahead(m) = Ahead(c)
<1> DEFINE s == c.stack
           d == Top(s)
           q == Popped(s)
           u == SubDirs[d]
           r == Reverse(u)
<1>1. s \in Seq(Dirs) /\ ToSet(c.pending) = {}
  BY DEF Cursors, ToSet
<1>2. /\ q \in Seq(Dirs) /\ ToSet(s) = ToSet(q) \cup {d} /\ d \in Dirs
      /\ Len(q) = Len(s) - 1 /\ \A i \in 1 .. Len(s) - 1 : q[i] = s[i]
  BY <1>1, PoppedFacts
<1>3. u \in Seq(Dirs) /\ FilesIn[d] \in Seq(Files) /\ Len(u) \in Nat
  BY <1>2, ListingAssumption
<1>4. /\ r \in Seq(Dirs) /\ Len(r) = Len(u) /\ ToSet(r) = ToSet(u)
      /\ \A i \in 1 .. Len(u) : r[i] = u[Len(u) - i + 1]
  BY <1>3, ReverseFacts
<1>5. s # <<>> /\ m.stack = q \o r /\ m.pending = FilesIn[d] /\ Len(s) \in Nat \ {0}
      /\ d = s[Len(s)]
  BY <1>1 DEF Top
<1> HIDE DEF s, d, q, u, r
<1>6. /\ m.stack \in Seq(Dirs) /\ Len(m.stack) = Len(q) + Len(u)
      /\ \A i \in 1 .. Len(q) : m.stack[i] = q[i]
      /\ \A i \in 1 .. Len(u) : m.stack[Len(q) + i] = r[i]
      /\ ToSet(m.stack) = ToSet(q) \cup ToSet(u)
  <2>1. /\ q \o r \in Seq(Dirs) /\ Len(q \o r) = Len(q) + Len(r)
        /\ \A i \in 1 .. Len(q) : (q \o r)[i] = q[i]
        /\ \A i \in 1 .. Len(r) : (q \o r)[Len(q) + i] = r[i]
        /\ ToSet(q \o r) = ToSet(q) \cup ToSet(r)
    <3>1. q \in Seq(Dirs) /\ r \in Seq(Dirs)
      BY <1>2, <1>4
    <3> QED BY ONLY <3>1, ConcatFacts
  <2> QED BY <1>4, <1>5, <2>1
<1>7. \A f : f \in FilesBelow(d) <=>
            \/ f \in ToSet(FilesIn[d]) \/ \E x \in ToSet(u) : f \in FilesBelow(x)
  BY <1>2, FilesBelowFacts DEF u
<1>8. Ahead(m) = Ahead(c)
  <2>1. \A f : f \in Ahead(c) <=> f \in Files /\ \E x \in ToSet(q) \cup {d} : f \in FilesBelow(x)
    BY <1>1, <1>2 DEF Ahead, InCursor, s
  <2>2. \A f : f \in Ahead(m) <=>
              /\ f \in Files
              /\ \/ f \in ToSet(FilesIn[d])
                 \/ \E x \in ToSet(q) \cup ToSet(u) : f \in FilesBelow(x)
    BY <1>5, <1>6 DEF Ahead, InCursor
  <2> QED BY <1>7, <2>1, <2>2
<1>9. Distinct(m)
  <2>1. \A i, j \in 1 .. Len(s) : i # j => FilesBelow(s[i]) \cap FilesBelow(s[j]) = {}
    BY DEF Distinct, s
  <2>2. /\ IsInjective(FilesIn[d])
        /\ \A i, j \in 1 .. Len(u) : i # j => FilesBelow(u[i]) \cap FilesBelow(u[j]) = {}
        /\ \A i \in 1 .. Len(u) : ToSet(FilesIn[d]) \cap FilesBelow(u[i]) = {}
    <3>1. DOMAIN u = 1 .. Len(u)
      BY <1>3
    <3>2. /\ IsInjective(FilesIn[d])
          /\ \A i, j \in DOMAIN u : i # j => FilesBelow(u[i]) \cap FilesBelow(u[j]) = {}
          /\ \A i \in DOMAIN u : ToSet(FilesIn[d]) \cap FilesBelow(u[i]) = {}
      BY <1>2, TreeAssumption DEF u
    <3> QED BY <3>1, <3>2
  <2>3. \A i, j \in 1 .. Len(m.pending) : i # j => m.pending[i] # m.pending[j]
    BY <1>3, <1>5, <2>2 DEF IsInjective
  \* Where a directory of the new stack comes from.
  <2>4. ASSUME NEW i \in 1 .. Len(m.stack)
        PROVE  \/ i \in 1 .. Len(s) - 1 /\ m.stack[i] = s[i]
               \/ \E k \in 1 .. Len(u) : i = Len(s) + Len(u) - k /\ m.stack[i] = u[k]
    <3>1. CASE i <= Len(q)
      BY <1>2, <1>5, <1>6, <3>1
    <3>2. CASE i > Len(q)
      <4> DEFINE k == i - Len(q)
      <4>1. k \in 1 .. Len(u) /\ i = Len(q) + k
        BY <1>2, <1>3, <1>5, <1>6, <3>2
      <4>2. m.stack[i] = u[Len(u) - k + 1]
        BY <1>4, <1>6, <4>1
      <4>3. Len(u) - k + 1 \in 1 .. Len(u) /\ i = Len(s) + Len(u) - (Len(u) - k + 1)
        BY <1>2, <1>3, <1>5, <4>1
      <4> QED BY <4>2, <4>3
    <3> QED BY <1>2, <1>5, <1>6, <3>1, <3>2
  <2>5. \A k \in 1 .. Len(u) : FilesBelow(u[k]) \subseteq FilesBelow(d)
    <3>1. \A k \in 1 .. Len(u) : u[k] \in ToSet(u)
      BY <1>3, InToSet
    <3> QED BY <1>7, <3>1
  <2>6. ToSet(m.pending) \subseteq FilesBelow(d)
    BY <1>5, <1>7
  <2>7. \A i \in 1 .. Len(s) - 1 : FilesBelow(s[i]) \cap FilesBelow(d) = {}
    <3>1. \A i \in 1 .. Len(s) - 1 : i \in 1 .. Len(s) /\ i # Len(s)
      BY <1>5
    <3>2. Len(s) \in 1 .. Len(s)
      BY <1>5
    <3> QED BY <1>5, <2>1, <3>1, <3>2
  <2>8. ASSUME NEW i \in 1 .. Len(m.stack), NEW j \in 1 .. Len(m.stack), i # j
        PROVE  FilesBelow(m.stack[i]) \cap FilesBelow(m.stack[j]) = {}
    <3>1. CASE i \in 1 .. Len(s) - 1 /\ m.stack[i] = s[i]
      <4>1. CASE j \in 1 .. Len(s) - 1 /\ m.stack[j] = s[j]
        <5>1. i \in 1 .. Len(s) /\ j \in 1 .. Len(s)
          BY <1>5, <3>1, <4>1
        <5> QED BY <2>1, <2>8, <3>1, <4>1, <5>1
      <4>2. CASE \E k \in 1 .. Len(u) : j = Len(s) + Len(u) - k /\ m.stack[j] = u[k]
        BY <2>5, <2>7, <3>1, <4>2
      <4> QED BY <2>4, <4>1, <4>2
    <3>2. CASE \E k \in 1 .. Len(u) : i = Len(s) + Len(u) - k /\ m.stack[i] = u[k]
      <4>1. CASE j \in 1 .. Len(s) - 1 /\ m.stack[j] = s[j]
        BY <2>5, <2>7, <3>2, <4>1
      <4>2. CASE \E k \in 1 .. Len(u) : j = Len(s) + Len(u) - k /\ m.stack[j] = u[k]
        <5>1. PICK k \in 1 .. Len(u) : i = Len(s) + Len(u) - k /\ m.stack[i] = u[k]
          BY <3>2
        <5>2. PICK l \in 1 .. Len(u) : j = Len(s) + Len(u) - l /\ m.stack[j] = u[l]
          BY <4>2
        <5>3. k # l
          BY <2>8, <5>1, <5>2
        <5> QED BY <2>2, <5>1, <5>2, <5>3
      <4> QED BY <2>4, <4>1, <4>2
    <3> QED BY <2>4, <3>1, <3>2
  <2>9. ASSUME NEW i \in 1 .. Len(m.stack)
        PROVE  ToSet(m.pending) \cap FilesBelow(m.stack[i]) = {}
    <3>1. CASE i \in 1 .. Len(s) - 1 /\ m.stack[i] = s[i]
      BY <2>6, <2>7, <3>1
    <3>2. CASE \E k \in 1 .. Len(u) : i = Len(s) + Len(u) - k /\ m.stack[i] = u[k]
      BY <1>5, <2>2, <3>2
    <3> QED BY <2>4, <3>1, <3>2
  <2> QED BY <2>3, <2>8, <2>9 DEF Distinct
<1> QED BY <1>2, <1>3, <1>5, <1>6, <1>8, <1>9 DEF d, s

-----------------------------------------------------------------------------
(* Counting judged files                                                     *)

LEMMA FewerAhead ==
    ASSUME NEW X \in SUBSET Files, NEW Y \in SUBSET Files, NEW P, NEW Q,
           X \subseteq Y, Q \subseteq P
    PROVE  /\ Cardinality(X \ P) \in Nat /\ Cardinality(Y \ Q) \in Nat
           /\ Cardinality(X \ P) <= Cardinality(Y \ Q)
<1>1. IsFiniteSet(Files)
  BY ListingAssumption
<1>2. IsFiniteSet(X \ P) /\ IsFiniteSet(Y \ Q)
  BY <1>1, FS_Subset
<1>3. X \ P \subseteq Y \ Q
  OBVIOUS
<1> QED BY <1>2, <1>3, FS_CardinalityType, FS_Subset

LEMMA OneMoreAssessed ==
    ASSUME NEW X \in SUBSET Files, NEW Y \in SUBSET Files, NEW P, NEW f \in Files,
           X \subseteq Y, f \in P, f \in Y
    PROVE  Cardinality(X \ P) + 1 <= Cardinality(Y \ (P \ {f}))
<1>1. IsFiniteSet(Files)
  BY ListingAssumption
<1>2. IsFiniteSet(X \ P) /\ IsFiniteSet(Y \ (P \ {f}))
  BY <1>1, FS_Subset
<1>3. f \notin X \ P /\ (X \ P) \cup {f} \subseteq Y \ (P \ {f})
  OBVIOUS
<1>4. /\ IsFiniteSet((X \ P) \cup {f})
      /\ Cardinality((X \ P) \cup {f}) = Cardinality(X \ P) + 1
  BY <1>2, <1>3, FS_AddElement
<1> QED BY <1>2, <1>3, <1>4, FS_Subset

-----------------------------------------------------------------------------
(* The journal                                                               *)

HasRecord(f, d, q) == \E i \in 1 .. Len(journal) : journal[i] = RecordOf(f, d, q, TRUE)

Log == /\ journal \in Seq(Event) /\ Len(journal) <= JournalCap
       /\ CompleteHasEvidence

\* The first k of the events es are appended.
Grows(es, k) ==
    /\ journal' \in Seq(Event) /\ Len(journal') = Len(journal) + k
    /\ \A i \in 1 .. Len(journal) : journal'[i] = journal[i]
    /\ \A i \in 1 .. k : journal'[Len(journal) + i] = es[i]

\* An event that calls a file complete has its evidence.
Honest(es) ==
    \A i \in 1 .. Len(es) :
        es[i].t = "file" /\ es[i].disp = "complete" =>
            \A q \in 1 .. Batteries[es[i].ref] : HasRecord(es[i].ref, es[i].dig, q)

LEMMA Appended ==
    ASSUME NEW j \in Seq(Event), j = journal, NEW es \in Seq(Event), journal' = j \o es
    PROVE  Grows(es, Len(es))
<1>1. /\ j \o es \in Seq(Event) /\ Len(j \o es) = Len(j) + Len(es)
      /\ \A i \in 1 .. Len(j) : (j \o es)[i] = j[i]
      /\ \A i \in 1 .. Len(es) : (j \o es)[Len(j) + i] = es[i]
  BY ONLY j \in Seq(Event), es \in Seq(Event), ConcatFacts
<1> QED BY <1>1 DEF Grows

LEMMA PartAppended ==
    ASSUME NEW j \in Seq(Event), j = journal, NEW es \in Seq(Event), NEW k \in 0 .. Len(es),
           journal' = j \o SubSeq(es, 1, k)
    PROVE  Grows(es, k)
<1>1. Len(es) \in Nat /\ 1 \in Int /\ k \in Int /\ k \in Nat
      /\ \A i \in 1 .. k : es[i] \in Event
  OBVIOUS
<1>2. /\ SubSeq(es, 1, k) \in Seq(Event)
      /\ Len(SubSeq(es, 1, k)) = IF 1 <= k THEN k - 1 + 1 ELSE 0
      /\ \A i \in 1 .. k - 1 + 1 : SubSeq(es, 1, k)[i] = es[1 + i - 1]
  BY ONLY <1>1, SubSeqProperties
<1> DEFINE t == SubSeq(es, 1, k)
<1> HIDE DEF t
<1>3. t \in Seq(Event) /\ Len(t) = k /\ \A i \in 1 .. k : t[i] = es[i]
  BY <1>1, <1>2 DEF t
<1>4. journal' = j \o t
  BY DEF t
<1>5. Grows(t, Len(t))
  BY <1>3, <1>4, Appended
<1> QED BY <1>3, <1>5 DEF Grows

(* Whatever is appended, evidence stays, and an honest journal stays honest. *)
LEMMA GrowthKeeps ==
    ASSUME Log, NEW es \in Seq(Event), NEW k \in 0 .. Len(es), Grows(es, k), Honest(es),
           Len(journal) + k <= JournalCap
    PROVE  /\ Log' /\ Len(journal') = Len(journal) + k
           /\ Told \subseteq Told' /\ AssessedFiles \subseteq AssessedFiles'
           /\ AssessedFiles' \subseteq Files
           /\ \A f, d, q : HasRecord(f, d, q) => HasRecord(f, d, q)'
<1>1. /\ journal \in Seq(Event) /\ Len(journal) \in Nat /\ k \in Nat
      /\ journal' \in Seq(Event) /\ Len(journal') = Len(journal) + k
      /\ \A i \in 1 .. Len(journal) : journal'[i] = journal[i]
      /\ \A i \in 1 .. k : journal'[Len(journal) + i] = es[i]
  BY DEF Log, Grows
<1>2. \A i \in 1 .. Len(journal) : i \in 1 .. Len(journal')
  BY <1>1
<1>3. Told \subseteq Told'
  BY <1>1, <1>2 DEF Told, Accounted
<1>4. AssessedFiles \subseteq AssessedFiles' /\ AssessedFiles' \subseteq Files
  BY <1>1, <1>2 DEF AssessedFiles
<1>5. \A f, d, q : HasRecord(f, d, q) => HasRecord(f, d, q)'
  BY <1>1, <1>2 DEF HasRecord
<1>6. CompleteHasEvidence'
  <2> SUFFICES ASSUME NEW i \in 1 .. Len(journal'),
                      journal'[i].t = "file", journal'[i].disp = "complete",
                      NEW q \in 1 .. Batteries[journal'[i].ref]
               PROVE  \E l \in 1 .. i - 1 :
                         journal'[l] = RecordOf(journal'[i].ref, journal'[i].dig, q, TRUE)
    BY DEF CompleteHasEvidence
  <2>1. CASE i <= Len(journal)
    <3>1. i \in 1 .. Len(journal) /\ journal'[i] = journal[i]
      BY <1>1, <2>1
    <3>2. PICK l \in 1 .. i - 1 : journal[l] = RecordOf(journal[i].ref, journal[i].dig, q, TRUE)
      BY <3>1 DEF Log, CompleteHasEvidence
    <3>3. l \in 1 .. Len(journal)
      BY <1>1, <3>1
    <3> QED BY <1>1, <3>1, <3>2, <3>3
  <2>2. CASE i > Len(journal)
    <3> DEFINE n == i - Len(journal)
    <3>1. n \in 1 .. k /\ i = Len(journal) + n /\ n \in 1 .. Len(es)
      BY <1>1, <2>2
    <3>2. journal'[i] = es[n]
      BY <1>1, <3>1
    <3>3. HasRecord(es[n].ref, es[n].dig, q)
      BY <3>1, <3>2 DEF Honest
    <3>4. PICK l \in 1 .. Len(journal) : journal[l] = RecordOf(es[n].ref, es[n].dig, q, TRUE)
      BY <3>3 DEF HasRecord
    <3>5. l \in 1 .. i - 1 /\ journal'[l] = journal[l]
      BY <1>1, <2>2
    <3>6. journal'[l] = RecordOf(journal'[i].ref, journal'[i].dig, q, TRUE)
      BY <3>2, <3>4, <3>5
    <3> QED BY <3>5, <3>6
  <2>3. i <= Len(journal) \/ i > Len(journal)
    BY <1>1
  <2> QED BY <2>1, <2>2, <2>3
<1> QED BY <1>1, <1>3, <1>4, <1>5, <1>6 DEF Log

(* What the new events say.                                                  *)
LEMMA NewlyTold ==
    ASSUME Log, NEW es \in Seq(Event), Grows(es, Len(es)), NEW i \in 1 .. Len(es)
    PROVE  /\ es[i].t = "file" /\ es[i].disp \in Closing => es[i].ref \in Told'
           /\ es[i].t = "file" /\ es[i].disp = "complete" => es[i].ref \in AssessedFiles'
           /\ es[i].t = "subtree" /\ es[i].why = "excluded" /\ es[i].ref \in Dirs =>
                 Files \cap FilesBelow(es[i].ref) \subseteq Told'
           /\ \A f, d, q : es[i] = RecordOf(f, d, q, TRUE) => HasRecord(f, d, q)'
<1> DEFINE l == Len(journal) + i
<1>1. l \in 1 .. Len(journal') /\ journal'[l] = es[i]
  BY DEF Log, Grows
<1> HIDE DEF l
<1>2. es[i] \in Event
  OBVIOUS
<1>3. ASSUME es[i].t = "file" PROVE es[i].ref \in Files
  BY <1>2, <1>3 DEF Event
<1>4. es[i].t = "file" /\ es[i].disp \in Closing => es[i].ref \in Told'
  BY <1>1, <1>3 DEF Told, Accounted
<1>5. es[i].t = "file" /\ es[i].disp = "complete" => es[i].ref \in AssessedFiles'
  BY <1>1, <1>3 DEF AssessedFiles
<1>6. es[i].t = "subtree" /\ es[i].why = "excluded" /\ es[i].ref \in Dirs =>
         Files \cap FilesBelow(es[i].ref) \subseteq Told'
  BY <1>1 DEF Told, Accounted
<1>7. \A f, d, q : es[i] = RecordOf(f, d, q, TRUE) => HasRecord(f, d, q)'
  BY <1>1 DEF HasRecord
<1> QED BY <1>4, <1>5, <1>6, <1>7

-----------------------------------------------------------------------------
(* The inductive invariant                                                   *)

\* The cursor c of a running step, with k files counted but not decided,
\* against the journal and the saved cursor s it started from.
Carried(c, k, T, X, n, s) ==
    /\ Kept(c, k, X, n) /\ Whole(c, T)
    /\ Ahead(c) \subseteq Ahead(s) /\ s.judged <= c.judged
    /\ s.status \in Unfinished
    /\ c.status \in {"running", "done", "budget_exhausted", "judge_unavailable"}
    /\ c.status = "done" => c.stack = <<>> /\ c.pending = <<>>

Undecided == IF pc \in JobPcs THEN 1 ELSE 0

DiskSound ==
    /\ Kept(disk, 0, AssessedFiles, Len(journal))
    /\ disk.status # "storage_cap" => Whole(disk, Told)

Running == pc # "idle" => Carried(mem, Undecided, Told, AssessedFiles, Len(journal), disk)

\* The file under assessment is the head of the pending files, and what is
\* behind the assessment has its records.
JobSound ==
    /\ job \in Jobs
    /\ mem.pending # <<>> /\ job.f = Head(mem.pending)
    /\ \A q \in job.prior : HasRecord(job.f, job.dig, q)
    /\ \A q \in 1 .. job.b - 1 : HasRecord(job.f, job.dig, q)
    /\ pc \in {"battery", "locate", "located"} => job.err = "none"
    /\ pc = "record" => job.ok = (job.err = "none")
    /\ pc = "cover" /\ job.err = "none" => job.b > Batteries[job.f]

IInv == /\ TypeOK /\ Log /\ step \in StepStates
        /\ DiskSound /\ Running
        /\ pc \in JobPcs => JobSound

LEMMA KeptGrows ==
    ASSUME NEW c, NEW k, NEW n \in Nat, NEW l \in Nat, n <= l,
           NEW X \in SUBSET Files, NEW Y \in SUBSET Files, X \subseteq Y, Kept(c, k, X, n)
    PROVE  Kept(c, k, Y, l)
<1>1. /\ Cardinality(X \ Ahead(c)) \in Nat /\ Cardinality(Y \ Ahead(c)) \in Nat
      /\ Cardinality(X \ Ahead(c)) <= Cardinality(Y \ Ahead(c))
  BY FewerAhead
<1>2. c.offset \in Nat /\ c.judged \in Nat
  BY DEF Kept, Cursors
<1>3. c.offset <= l
  BY <1>2 DEF Kept
<1>4. c.judged <= Cardinality(Y \ Ahead(c))
  BY <1>1, <1>2 DEF Kept
<1> QED BY <1>3, <1>4 DEF Kept

LEMMA TakenBack ==
    ASSUME NEW a \in Nat, NEW b \in Nat, NEW k \in Nat, NEW l \in Nat, NEW x \in Nat, NEW y \in Nat,
           x = a + b + k, y + k = x + l
    PROVE  y = a + b + l
  OBVIOUS

\* A cursor with the same work, of which a file may be counted or taken back.
LEMMA SameWork ==
    ASSUME NEW T, NEW X, NEW n \in Nat, NEW s,
           NEW k \in {0, 1}, NEW l \in {0, 1},
           NEW c, Carried(c, k, T, X, n, s),
           NEW m \in Cursors, m.offset <= n,
           m.stack = c.stack, m.dir = c.dir, m.pending = c.pending,
           m.judged = c.judged, m.skipped = c.skipped, m.listed = c.listed, m.max = c.max,
           m.seen + k = c.seen + l, m.seen <= m.max,
           m.status \in {"running", "done", "budget_exhausted", "judge_unavailable"},
           m.status = "done" => m.stack = <<>> /\ m.pending = <<>>
    PROVE  Carried(m, l, T, X, n, s)
<1>1. c \in Cursors /\ Kept(c, k, X, n)
  BY DEF Carried, Kept
<1>2. Ahead(m) = Ahead(c) /\ Distinct(m)
  BY <1>1, SameAhead DEF Kept
<1>3. /\ c.seen \in Nat /\ m.seen \in Nat /\ c.judged \in Nat /\ c.skipped \in Nat
      /\ c.listed \in Nat /\ Len(c.pending) \in Nat
  BY <1>1 DEF Cursors
<1>4. m.seen = m.judged + m.skipped + l /\ m.seen + Len(m.pending) <= m.listed + l
  <2> DEFINE cs == c.seen  ms == m.seen  p == Len(c.pending)
  <2>1. cs = c.judged + c.skipped + k
    BY <1>1 DEF Kept
  <2>2. cs + p <= c.listed + k
    BY <1>1 DEF Kept
  <2>3. ms + k = cs + l /\ k \in Nat /\ l \in Nat
    OBVIOUS
  <2>4. cs \in Nat /\ ms \in Nat /\ p \in Nat
    BY <1>3
  <2> HIDE DEF cs, ms, p
  <2>5. ms = c.judged + c.skipped + l
    <3> DEFINE a == c.judged  b == c.skipped
    <3>1. a \in Nat /\ b \in Nat /\ cs = a + b + k
      BY <1>3, <2>1
    <3> HIDE DEF a, b
    <3>2. ms = a + b + l
      BY ONLY <3>1, <2>3, <2>4, TakenBack
    <3> QED BY <3>2 DEF a, b
  <2>6. ms + p <= c.listed + l
    BY ONLY <1>3, <2>2, <2>3, <2>4
  <2> QED BY <2>5, <2>6 DEF cs, ms, p
<1>5. Kept(m, l, X, n)
  BY <1>1, <1>2, <1>4 DEF Kept
<1> QED BY <1>2, <1>5 DEF Carried, Whole

LEMMA IInvFacts ==
    ASSUME IInv
    PROVE  /\ journal \in Seq(Event) /\ Len(journal) \in Nat /\ JournalCap \in Nat
           /\ Len(journal) <= JournalCap
           /\ mem \in Cursors /\ disk \in Cursors
           /\ AssessedFiles \in SUBSET Files /\ Told \in SUBSET Files
           /\ Undecided \in {0, 1}
           /\ step \in StepStates /\ step.end \in Nat /\ step.end <= Len(journal)
<1>1. journal \in Seq(Event) /\ Len(journal) \in Nat /\ Len(journal) <= JournalCap
  BY DEF IInv, Log
<1>2. AssessedFiles \in SUBSET Files /\ Told \in SUBSET Files /\ Undecided \in {0, 1}
  BY DEF AssessedFiles, Told, Undecided
<1> QED BY <1>1, <1>2, BudgetAssumption DEF IInv, TypeOK, StepStates

\* The step adds to what the journal says and leaves the saved progress; when
\* it adds, the scan is not ended.
Recorded ==
    /\ Told \subseteq Told' /\ AssessedFiles \subseteq AssessedFiles'
    /\ Ahead(disk') = Ahead(disk) /\ disk'.judged = disk.judged /\ disk'.status = disk.status
    /\ disk.status \in Unfinished \/ (Told' = Told /\ AssessedFiles' = AssessedFiles)

\* The invariant after any number of events was appended to the journal.
LEMMA StepKeeps ==
    ASSUME IInv,
           NEW es \in Seq(Event), NEW k \in 0 .. Len(es), Grows(es, k), Honest(es),
           Len(journal) + k <= JournalCap,
           disk' \in {disk} \cup {[disk EXCEPT !.runtime = r] : r \in {"ok", "wait", "blocked"}},
           torn' \in BOOLEAN, world' = world,
           pc' \in JobPcs \cup {"walk", "save"},
           step' \in StepStates, step'.end <= Len(journal) + k,
           Carried(mem', Undecided', Told', AssessedFiles', Len(journal'), disk),
           pc' \in JobPcs => JobSound'
    PROVE  IInv' /\ Recorded
<1>1. /\ Log' /\ Len(journal') = Len(journal) + k
      /\ Told \subseteq Told' /\ AssessedFiles \subseteq AssessedFiles'
      /\ AssessedFiles' \subseteq Files
  BY GrowthKeeps DEF IInv
<1>2. /\ disk' \in Cursors /\ disk'.offset = disk.offset /\ disk'.stack = disk.stack
      /\ disk'.dir = disk.dir /\ disk'.pending = disk.pending /\ disk'.status = disk.status
      /\ disk'.max = disk.max /\ disk'.seen = disk.seen /\ disk'.judged = disk.judged
      /\ disk'.skipped = disk.skipped /\ disk'.listed = disk.listed
  <2>1. disk \in Cursors
    BY IInvFacts
  <2>2. CASE disk' = disk
    BY <2>1, <2>2
  <2>3. ASSUME NEW r \in {"ok", "wait", "blocked"}, disk' = [disk EXCEPT !.runtime = r]
        PROVE  /\ disk' \in Cursors /\ disk'.offset = disk.offset /\ disk'.stack = disk.stack
              /\ disk'.dir = disk.dir /\ disk'.pending = disk.pending
              /\ disk'.status = disk.status /\ disk'.max = disk.max /\ disk'.seen = disk.seen
              /\ disk'.judged = disk.judged /\ disk'.skipped = disk.skipped
              /\ disk'.listed = disk.listed
    BY <2>1, <2>3 DEF Cursors
  <2> QED BY <2>2, <2>3
<1>3. Ahead(disk') = Ahead(disk) /\ (Distinct(disk) => Distinct(disk'))
  BY <1>2, SameAhead
<1>4. Len(journal) \in Nat /\ Len(journal') \in Nat /\ Len(journal) <= Len(journal')
  BY <1>1, IInvFacts
<1>5. Kept(disk', 0, AssessedFiles', Len(journal'))
  <2>1. Kept(disk, 0, AssessedFiles', Len(journal'))
    BY <1>1, <1>4, KeptGrows, IInvFacts DEF IInv, DiskSound
  <2> QED BY <1>2, <1>3, <2>1 DEF Kept
<1>6. DiskSound'
  <2>1. disk'.status # "storage_cap" => Whole(disk', Told')
    BY <1>1, <1>2, <1>3 DEF IInv, DiskSound, Whole
  <2> QED BY <1>5, <2>1 DEF DiskSound
<1>7. Running'
  <2>1. Carried(mem', Undecided', Told', AssessedFiles', Len(journal'), disk')
    BY <1>2, <1>3 DEF Carried
  <2> QED BY <2>1 DEF Running
<1>8. TypeOK'
  <2>1. mem' \in Cursors
    BY DEF Carried, Kept
  <2>2. disk'.offset <= Len(journal')
    BY <1>5 DEF Kept
  <2>3. src' \in [Files -> Nat] /\ unusable' \subseteq Dirs
    BY DEF IInv, TypeOK, world
  <2> QED BY <1>1, <1>2, <2>1, <2>2, <2>3 DEF IInv, TypeOK, JobPcs
<1>9. Recorded
  BY <1>1, <1>2, <1>3 DEF Recorded, Carried
<1> QED BY <1>1, <1>6, <1>7, <1>8, <1>9 DEF IInv

\* A running step's cursor stays what it is while events are appended.
LEMMA CarriedOn ==
    ASSUME IInv, NEW es \in Seq(Event), NEW k \in 0 .. Len(es), Grows(es, k), Honest(es),
           Len(journal) + k <= JournalCap,
           NEW c, NEW u, Carried(c, u, Told, AssessedFiles, Len(journal), disk)
    PROVE  Carried(c, u, Told', AssessedFiles', Len(journal'), disk)
<1>1. /\ Log' /\ Len(journal') = Len(journal) + k
      /\ Told \subseteq Told' /\ AssessedFiles \subseteq AssessedFiles'
      /\ AssessedFiles' \subseteq Files
  BY GrowthKeeps DEF IInv
<1>2. Len(journal) \in Nat /\ Len(journal') \in Nat /\ Len(journal) <= Len(journal')
  BY <1>1, IInvFacts
<1>3. Kept(c, u, AssessedFiles', Len(journal'))
  BY <1>1, <1>2, KeptGrows, IInvFacts DEF Carried
<1> QED BY <1>1, <1>3 DEF Carried, Whole

\* Steps that append nothing.
LEMMA QuietKeeps ==
    ASSUME IInv, journal' = journal,
           disk' \in {disk} \cup {[disk EXCEPT !.runtime = r] : r \in {"ok", "wait", "blocked"}},
           torn' \in BOOLEAN, world' = world,
           pc' \in JobPcs \cup {"walk", "save"},
           step' \in StepStates, step'.end <= Len(journal),
           Carried(mem', Undecided', Told, AssessedFiles, Len(journal), disk),
           pc' \in JobPcs => JobSound'
    PROVE  IInv' /\ Recorded
<1>1. <<>> \in Seq(Event) /\ Len(<<>>) = 0 /\ 0 \in 0 .. 0
  OBVIOUS
<1>2. Grows(<<>>, 0) /\ Honest(<<>>)
  BY <1>1, IInvFacts DEF Grows, Honest
<1>3. Told' = Told /\ AssessedFiles' = AssessedFiles /\ Len(journal') = Len(journal)
  BY DEF Told, Accounted, AssessedFiles
<1>4. Len(journal) + 0 = Len(journal) /\ Len(journal) <= JournalCap
  BY IInvFacts
<1> QED BY <1>1, <1>2, <1>3, <1>4, StepKeeps

LEMMA EmittedGrows ==
    ASSUME IInv, NEW es \in Seq(Event), journal' = journal \o es
    PROVE  Grows(es, Len(es)) /\ Len(es) \in 0 .. Len(es) /\ Len(es) \in Nat
<1>1. journal \in Seq(Event)
  BY IInvFacts
<1> QED BY <1>1, Appended

\* The cursor a failing step goes to save: a counted file is taken back.
LEMMA UncountedCarried ==
    ASSUME IInv, pc # "idle",
           NEW m, m = IF pc \in JobPcs THEN Uncounted ELSE mem
    PROVE  Carried(m, 0, Told, AssessedFiles, Len(journal), disk)
<1>1. Carried(mem, Undecided, Told, AssessedFiles, Len(journal), disk)
  BY DEF IInv, Running
<1>2. CASE pc \notin JobPcs
  BY <1>1, <1>2 DEF Undecided
<1>3. CASE pc \in JobPcs
  <2>1. /\ mem \in Cursors /\ mem.seen = mem.judged + mem.skipped + 1 /\ mem.seen <= mem.max
        /\ mem.offset <= Len(journal) /\ Undecided = 1
    BY <1>1, <1>3 DEF Carried, Kept, Undecided
  <2>2. mem.seen \in Nat /\ mem.judged \in Nat /\ mem.skipped \in Nat /\ mem.max \in Nat
    BY <2>1, BudgetAssumption DEF Cursors
  <2>3. m = [mem EXCEPT !.seen = mem.seen - 1] /\ mem.seen - 1 \in Nat
        /\ (mem.seen - 1) + 1 = mem.seen + 0 /\ mem.seen - 1 <= mem.max
    BY <1>3, <2>1, <2>2 DEF Uncounted
  <2>4. /\ m \in Cursors /\ m.seen = mem.seen - 1 /\ m.offset = mem.offset
        /\ m.stack = mem.stack /\ m.dir = mem.dir /\ m.pending = mem.pending
        /\ m.judged = mem.judged /\ m.skipped = mem.skipped /\ m.listed = mem.listed
        /\ m.max = mem.max /\ m.status = mem.status
    BY <2>1, <2>3 DEF Cursors
  <2>5. /\ m.status \in {"running", "done", "budget_exhausted", "judge_unavailable"}
        /\ m.status = "done" => m.stack = <<>> /\ m.pending = <<>>
    BY <1>1, <2>4 DEF Carried
  <2>6. m.seen + 1 = mem.seen + 0 /\ m.seen <= m.max /\ m.offset <= Len(journal)
    BY <2>1, <2>3, <2>4
  <2>7. Carried(mem, 1, Told, AssessedFiles, Len(journal), disk)
    BY <1>1, <2>1
  <2>8. Len(journal) \in Nat
    BY IInvFacts
  <2> QED BY <2>4, <2>5, <2>6, <2>7, <2>8, SameWork
<1> QED BY <1>2, <1>3

\* An append fails, or the journal is full: the step ends.
LEMMA FailureKeeps ==
    ASSUME IInv, pc # "idle", NEW es \in Seq(Event), Honest(es),
           NEW m, m = IF pc \in JobPcs THEN Uncounted ELSE mem,
           EmitFull(es, m) \/ EmitFails(es, m), world' = world
    PROVE  IInv' /\ Recorded
<1>1. PICK k \in 0 .. Len(es) : journal' = journal \o SubSeq(es, 1, k) /\ Len(journal) + k <= JournalCap
  <2>1. CASE EmitFull(es, m)
    <3>1. JournalCap - Len(journal) \in 0 .. Len(es)
      BY <2>1, IInvFacts DEF EmitFull
    <3>2. Len(journal) + (JournalCap - Len(journal)) <= JournalCap
      BY IInvFacts
    <3> QED BY <2>1, <3>1, <3>2 DEF EmitFull
  <2>2. CASE EmitFails(es, m)
    BY <2>2 DEF EmitFails
  <2> QED BY <2>1, <2>2
<1>2. Grows(es, k)
  BY <1>1, PartAppended, IInvFacts
<1>3. Carried(m, 0, Told', AssessedFiles', Len(journal'), disk)
  BY <1>1, <1>2, CarriedOn, UncountedCarried
<1>4. disk' = disk /\ torn' \in BOOLEAN /\ pc' = "save" /\ mem' = m
      /\ \E e \in {"full", "store"} : step' = [step EXCEPT !.err = e]
  BY DEF EmitFull, EmitFails, Stop, IInv, TypeOK
<1>5. step' \in StepStates /\ step'.end = step.end
  <2>1. step \in StepStates
    BY IInvFacts
  <2> QED BY <1>4, <2>1 DEF StepStates
<1>6. step'.end <= Len(journal) + k
  BY <1>5, IInvFacts
<1>7. pc' \notin JobPcs /\ Undecided' = 0
  BY <1>4 DEF Undecided, JobPcs
<1> QED BY <1>1, <1>2, <1>3, <1>4, <1>5, <1>6, <1>7, StepKeeps

\* All of the events are appended.
LEMMA EmissionKeeps ==
    ASSUME IInv, NEW es \in Seq(Event), Honest(es), Emitted(es), world' = world,
           pc' \in JobPcs \cup {"walk", "save"},
           step' \in StepStates, step'.end <= Len(journal) + Len(es),
           Carried(mem', Undecided', Told', AssessedFiles', Len(journal'), disk),
           pc' \in JobPcs => JobSound'
    PROVE  IInv' /\ Recorded
<1>1. /\ journal' = journal \o es /\ Len(journal) + Len(es) <= JournalCap
      /\ disk' = disk /\ torn' \in BOOLEAN
  BY DEF Emitted, IInv, TypeOK
<1>2. Grows(es, Len(es)) /\ Len(es) \in 0 .. Len(es)
  BY <1>1, EmittedGrows
<1> QED BY <1>1, <1>2, StepKeeps

LEMMA EmittedCarried ==
    ASSUME IInv, NEW es \in Seq(Event), Honest(es), journal' = journal \o es,
           Len(journal) + Len(es) <= JournalCap, pc # "idle"
    PROVE  /\ Carried(mem, Undecided, Told', AssessedFiles', Len(journal'), disk)
           /\ Grows(es, Len(es)) /\ Len(journal') = Len(journal) + Len(es)
           /\ Len(journal') \in Nat /\ AssessedFiles' \in SUBSET Files
           /\ AssessedFiles \subseteq AssessedFiles' /\ Told \subseteq Told'
<1>1. Grows(es, Len(es)) /\ Len(es) \in 0 .. Len(es) /\ Len(es) \in Nat
  BY EmittedGrows
<1>2. Carried(mem, Undecided, Told, AssessedFiles, Len(journal), disk)
  BY DEF IInv, Running
<1>3. Carried(mem, Undecided, Told', AssessedFiles', Len(journal'), disk)
  BY <1>1, <1>2, CarriedOn
<1>4. AssessedFiles \subseteq AssessedFiles' /\ Told \subseteq Told'
      /\ Len(journal') = Len(journal) + Len(es) /\ AssessedFiles' \subseteq Files
  BY <1>1, GrowthKeeps DEF IInv
<1> QED BY <1>1, <1>3, <1>4, IInvFacts

LEMMA NewEndFacts ==
    ASSUME IInv, NEW es \in Seq(Event), Len(journal) + Len(es) <= JournalCap
    PROVE  NewEnd(es) \in 0 .. JournalCap /\ NewEnd(es) \in Nat
           /\ NewEnd(es) <= Len(journal) + Len(es)
<1>1. Len(es) \in Nat
  OBVIOUS
<1> QED BY <1>1, IInvFacts DEF NewEnd

\* One event that calls nothing complete.
LEMMA OnePlain ==
    ASSUME NEW e \in Event, e.t = "file" => e.disp # "complete"
    PROVE  <<e>> \in Seq(Event) /\ Len(<<e>>) = 1 /\ <<e>>[1] = e /\ Honest(<<e>>)
<1>1. <<e>> \in Seq(Event) /\ Len(<<e>>) = 1 /\ <<e>>[1] = e
  OBVIOUS
<1> QED BY <1>1 DEF Honest

LEMMA Plain ==
    ASSUME NEW es \in Seq(Event),
           \A i \in 1 .. Len(es) : es[i].t = "file" => es[i].disp # "complete"
    PROVE  Honest(es)
  BY DEF Honest

-----------------------------------------------------------------------------
(* What a step does to its cursor                                            *)

\* Work is dropped without being done; the journal tells of it.
LEMMA WorkDropped ==
    ASSUME NEW T, NEW X \in SUBSET Files, NEW n \in Nat, NEW s,
           NEW c, Carried(c, 0, T, X, n, s),
           NEW m \in Cursors, m.offset <= n, Distinct(m), m.pending = <<>>,
           Ahead(m) \subseteq Ahead(c), Ahead(c) \subseteq Ahead(m) \cup T,
           m.seen = c.seen, m.judged = c.judged, m.skipped = c.skipped,
           m.listed = c.listed, m.max = c.max, m.status = c.status,
           c.status = "done" => FALSE
    PROVE  Carried(m, 0, T, X, n, s)
<1>1. c \in Cursors /\ Kept(c, 0, X, n)
  BY DEF Carried, Kept
<1>2. /\ Cardinality(X \ Ahead(c)) \in Nat /\ Cardinality(X \ Ahead(m)) \in Nat
      /\ Cardinality(X \ Ahead(c)) <= Cardinality(X \ Ahead(m))
  BY FewerAhead
<1>3. /\ c.seen \in Nat /\ c.judged \in Nat /\ c.skipped \in Nat
      /\ c.listed \in Nat /\ Len(c.pending) \in Nat
  BY <1>1 DEF Cursors
<1>4. m.judged <= Cardinality(X \ Ahead(m))
  BY <1>1, <1>2, <1>3 DEF Kept
<1>5. m.seen + Len(m.pending) <= m.listed + 0
  BY <1>1, <1>3 DEF Kept
<1>6. ToSet(m.pending) \subseteq ToSet(FilesIn[m.dir])
  BY DEF ToSet
<1>7. Kept(m, 0, X, n)
  BY <1>1, <1>4, <1>5, <1>6 DEF Kept
<1>8. Whole(m, T)
  BY DEF Carried, Whole
<1> QED BY <1>7, <1>8 DEF Carried

\* The head of the pending files is decided; the journal tells of it.
LEMMA HeadDecided ==
    ASSUME NEW T, NEW X \in SUBSET Files, NEW n \in Nat, NEW s, s.judged \in Nat,
           NEW k \in {0, 1}, NEW c, Carried(c, k, T, X, n, s),
           c.pending # <<>>, Head(c.pending) \in T,
           NEW m \in Cursors, m.offset <= n,
           m.stack = c.stack, m.dir = c.dir, m.pending = Tail(c.pending),
           m.listed = c.listed, m.max = c.max, m.status = c.status,
           m.seen + k = c.seen + 1, m.seen <= m.max,
           m.judged + m.skipped = c.judged + c.skipped + 1,
           c.judged <= m.judged, m.judged <= Cardinality(X \ Ahead(m))
    PROVE  Carried(m, 0, T, X, n, s)
<1>1. c \in Cursors /\ Kept(c, k, X, n) /\ Distinct(c)
  BY DEF Carried, Kept
<1>2. /\ c.seen \in Nat /\ m.seen \in Nat /\ c.judged \in Nat /\ c.skipped \in Nat
      /\ m.judged \in Nat /\ m.skipped \in Nat /\ c.listed \in Nat
      /\ c.pending \in Seq(Files) /\ k \in Nat
  BY <1>1 DEF Cursors
<1>3. /\ Len(m.pending) = Len(c.pending) - 1 /\ Len(c.pending) \in Nat \ {0}
      /\ ToSet(c.pending) = {Head(c.pending)} \cup ToSet(m.pending)
  BY ONLY <1>2, c.pending # <<>>, m.pending = Tail(c.pending), TailFacts
<1>4. Distinct(m) /\ Ahead(m) = Ahead(c) \ {Head(c.pending)}
  BY ONLY <1>1, c.pending # <<>>, m.stack = c.stack, m.pending = Tail(c.pending), HeadClosed
<1>5. m.seen = m.judged + m.skipped + 0
  <2>1. c.seen = c.judged + c.skipped + k
    BY <1>1 DEF Kept
  <2> DEFINE cs == c.seen  ms == m.seen  a == c.judged + c.skipped  b == m.judged + m.skipped
  <2>2. cs \in Nat /\ ms \in Nat /\ a \in Nat /\ b \in Nat
    <3>1. \A x, y \in Nat : x + y \in Nat
      OBVIOUS
    <3>2. cs \in Nat /\ ms \in Nat
      BY <1>2
    <3>3. a \in Nat /\ b \in Nat
      BY ONLY <1>2, <3>1, Zenon
    <3> QED BY <3>2, <3>3
  <2>3. cs = a + k /\ ms + k = cs + 1 /\ b = a + 1
    BY <2>1
  <2> HIDE DEF cs, ms, a, b
  <2>4. ms = b
    BY <1>2, <2>2, <2>3
  <2> QED BY <1>2, <2>4 DEF ms, b
<1>6. m.seen + Len(m.pending) <= m.listed + 0
  <2>1. c.seen + Len(c.pending) <= c.listed + k
    BY <1>1 DEF Kept
  <2> DEFINE cs == c.seen  ms == m.seen  p == Len(c.pending)  q == c.listed
  <2>2. cs \in Nat /\ ms \in Nat /\ p \in Nat \ {0} /\ q \in Nat
    BY <1>2, <1>3
  <2>3. cs + p <= q + k /\ ms + k = cs + 1 /\ k \in Nat
    BY <2>1
  <2> HIDE DEF cs, ms, p, q
  <2>4. ms + (p - 1) <= q
    BY <2>2, <2>3
  <2> QED BY <1>2, <1>3, <2>4 DEF ms, p, q
<1>7. Kept(m, 0, X, n)
  BY <1>1, <1>3, <1>4, <1>5, <1>6 DEF Kept
<1>8. Whole(m, T) /\ Ahead(m) \subseteq Ahead(s)
  BY <1>4 DEF Carried, Whole
<1>9. /\ s.judged <= m.judged
      /\ m.status = "done" => m.stack = <<>> /\ m.pending = <<>>
  <2>1. c.status # "done"
    BY DEF Carried
  <2>2. s.judged <= c.judged
    BY DEF Carried
  <2>3. \A x, y, z \in Nat : x <= y /\ y <= z => x <= z
    OBVIOUS
  <2>4. s.judged <= m.judged
    BY ONLY <1>2, <2>2, <2>3, s.judged \in Nat, c.judged <= m.judged, Zenon
  <2> QED BY <2>1, <2>4
<1> QED BY <1>7, <1>8, <1>9 DEF Carried

-----------------------------------------------------------------------------
(* Every action keeps the invariant: starting and ending a step              *)

LEMMA InitHolds == Init => IInv
<1> SUFFICES ASSUME Init PROVE IInv
  OBVIOUS
<1>1. PICK max \in MaxFiles : disk = NewScan(max)
  BY DEF Init
<1>2. journal = <<>> /\ torn = FALSE /\ pc = "idle" /\ mem = NoScan /\ step = NoStep
  BY DEF Init
<1>3. max \in Nat /\ Root \in Dirs /\ JournalCap \in Nat
  BY BudgetAssumption, ListingAssumption
<1>4. <<Root>> \in Seq(Dirs) /\ <<>> \in Seq(Files) /\ Len(<<Root>>) = 1
      /\ Len(<<>>) = 0 /\ <<Root>>[1] = Root
  BY <1>3
<1>5. disk \in Cursors /\ mem \in Cursors
  BY <1>1, <1>2, <1>3, <1>4 DEF NewScan, NoScan, Cursors, Unfinished
<1>6. TypeOK
  <2>1. src \in [Files -> Nat] /\ unusable \subseteq Dirs
    BY DEF Init
  <2>2. disk.offset = 0 /\ step.end = 0 /\ Len(journal) = 0
    BY <1>1, <1>2, <1>4 DEF NewScan, NoStep
  <2>3. disk.offset <= Len(journal) /\ step.end <= Len(journal)
    BY <2>2
  <2> QED BY <1>2, <1>5, <2>1, <2>3 DEF TypeOK
<1>7. Log /\ step \in StepStates
  BY <1>2, <1>3 DEF Log, CompleteHasEvidence, NoStep, StepStates
<1>8. Ahead(disk) = Files
  <2>1. disk.stack = <<Root>>
    BY <1>1 DEF NewScan
  <2>2. Root \in ToSet(disk.stack)
    BY <1>4, <2>1 DEF ToSet
  <2> QED BY <2>2, TreeAssumption DEF Ahead, InCursor
<1>9. Distinct(disk)
  <2>1. disk.stack = <<Root>> /\ disk.pending = <<>>
    BY <1>1 DEF NewScan
  <2> QED BY <1>4, <2>1 DEF Distinct, ToSet
<1>10. Cardinality(AssessedFiles \ Ahead(disk)) = 0
  BY <1>8, FS_EmptySet DEF AssessedFiles
<1>11. Kept(disk, 0, AssessedFiles, Len(journal))
  BY <1>1, <1>2, <1>3, <1>4, <1>5, <1>9, <1>10 DEF Kept, NewScan, ToSet
<1> QED BY <1>2, <1>6, <1>7, <1>8, <1>11 DEF IInv, DiskSound, Running, Whole, JobPcs

LEMMA StartStepKeeps ==
    ASSUME IInv, StartStep
    PROVE  IInv' /\ Recorded
<1>1. /\ disk.status \in Unfinished /\ mem' = [disk EXCEPT !.status = "running"]
      /\ step' = [NoStep EXCEPT !.base = disk.offset, !.left = StepCalls(disk.status)]
      /\ journal' = journal /\ torn' = torn /\ disk' = disk /\ world' = world /\ pc' = "walk"
  BY DEF StartStep, durable
<1>2. disk \in Cursors /\ disk.offset \in Nat /\ JournalCap \in Nat
  <2>1. disk \in Cursors /\ JournalCap \in Nat
    BY IInvFacts
  <2> QED BY <2>1 DEF Cursors
<1>3. step' \in StepStates /\ step'.end = 0
  <2>1. StepCalls(disk.status) \in Nat
    BY BudgetAssumption DEF StepCalls
  <2> QED BY <1>1, <1>2, <2>1 DEF NoStep, StepStates
<1>4. /\ mem' \in Cursors /\ mem'.offset = disk.offset /\ mem'.stack = disk.stack
      /\ mem'.dir = disk.dir /\ mem'.pending = disk.pending /\ mem'.status = "running"
      /\ mem'.max = disk.max /\ mem'.seen = disk.seen /\ mem'.judged = disk.judged
      /\ mem'.skipped = disk.skipped /\ mem'.listed = disk.listed
  BY <1>1, <1>2 DEF Cursors, Unfinished
<1>5. Ahead(mem') = Ahead(disk) /\ (Distinct(disk) => Distinct(mem'))
  BY <1>4, SameAhead
<1>6. Kept(disk, 0, AssessedFiles, Len(journal)) /\ Whole(disk, Told)
  BY <1>1 DEF IInv, DiskSound, Unfinished
<1>7. Kept(mem', 0, AssessedFiles, Len(journal)) /\ Whole(mem', Told)
  BY <1>4, <1>5, <1>6 DEF Kept, Whole
<1>8. disk.judged <= mem'.judged
  BY <1>2, <1>4 DEF Cursors
<1>9. Carried(mem', 0, Told, AssessedFiles, Len(journal), disk)
  BY <1>1, <1>4, <1>5, <1>7, <1>8 DEF Carried
<1>10. Undecided' = 0 /\ pc' \notin JobPcs /\ torn' \in BOOLEAN /\ step'.end <= Len(journal)
  BY <1>1, <1>3, IInvFacts DEF Undecided, JobPcs, IInv, TypeOK
<1> QED BY <1>1, <1>3, <1>9, <1>10, QuietKeeps

\* The step is over before the walk is: nothing else is done to the cursor.
LEMMA CursorAtWalk ==
    ASSUME IInv, pc = "walk"
    PROVE  /\ Carried(mem, 0, Told, AssessedFiles, Len(journal), disk)
           /\ Undecided = 0 /\ pc \notin JobPcs /\ pc # "idle"
           /\ mem \in Cursors /\ mem.pending \in Seq(Files) /\ mem.stack \in Seq(Dirs)
           /\ mem.dir \in Dirs /\ mem.seen \in Nat /\ mem.max \in Nat /\ mem.seen <= mem.max
           /\ mem.judged \in Nat /\ mem.skipped \in Nat /\ mem.listed \in Nat
           /\ disk.judged \in Nat
           /\ mem.offset \in Nat /\ mem.offset <= Len(journal)
<1>1. Undecided = 0 /\ pc \notin JobPcs /\ pc # "idle"
  BY DEF Undecided, JobPcs
<1>2. Carried(mem, 0, Told, AssessedFiles, Len(journal), disk)
  BY <1>1 DEF IInv, Running
<1>3. mem \in Cursors /\ disk \in Cursors /\ JournalCap \in Nat
  BY IInvFacts
<1>4. mem.seen <= mem.max /\ mem.offset <= Len(journal)
  BY <1>2 DEF Carried, Kept
<1>5. mem.max \in Nat /\ mem.offset \in Nat
  <2>1. mem.max \in {0} \cup MaxFiles /\ mem.offset \in 0 .. JournalCap
    BY ONLY <1>3, Zenon DEF Cursors
  <2>2. MaxFiles \subseteq Nat
    BY ONLY BudgetAssumption
  <2>3. {0} \cup MaxFiles \subseteq Nat
    BY ONLY <2>2
  <2>4. JournalCap \in Nat
    BY <1>3
  <2>5. 0 .. JournalCap \subseteq Nat
    BY ONLY <2>4
  <2> QED BY ONLY <2>1, <2>3, <2>5, Zenon
<1> QED BY <1>1, <1>2, <1>3, <1>4, <1>5 DEF Cursors

\* A step that goes to save with another status or none.
LEMMA StoppedKeeps ==
    ASSUME IInv, pc = "walk",
           NEW st \in {"running", "done", "budget_exhausted", "judge_unavailable"},
           st = "done" => mem.stack = <<>> /\ mem.pending = <<>>,
           NEW n \in Nat, Len(journal) <= n, NEW T, NEW X \in SUBSET Files,
           Carried(mem, 0, T, X, n, disk)
    PROVE  Carried([mem EXCEPT !.status = st], 0, T, X, n, disk)
<1> DEFINE m == [mem EXCEPT !.status = st]
<1>1. mem \in Cursors /\ mem.offset \in Nat /\ mem.offset <= Len(journal)
      /\ mem.seen <= mem.max
  BY CursorAtWalk
<1>2. /\ m \in Cursors /\ m.status = st /\ m.offset = mem.offset /\ m.stack = mem.stack
      /\ m.dir = mem.dir /\ m.pending = mem.pending /\ m.judged = mem.judged
      /\ m.skipped = mem.skipped /\ m.listed = mem.listed /\ m.max = mem.max
      /\ m.seen = mem.seen
  BY <1>1 DEF Cursors, Unfinished
<1>3. m.offset <= n
  BY <1>1, <1>2, IInvFacts
<1>4. m.seen + 0 = mem.seen + 0 /\ m.seen <= m.max
  BY <1>1, <1>2
<1> HIDE DEF m
<1>5. Carried(m, 0, T, X, n, disk)
  BY <1>2, <1>3, <1>4, SameWork
<1> QED BY <1>5 DEF m

LEMMA StopStep ==
    ASSUME IInv, NEW e \in {"none", "full", "store", "rules", "other"},
           step' = [step EXCEPT !.err = e]
    PROVE  step' \in StepStates /\ step'.end = step.end /\ step'.end <= Len(journal)
<1>1. step \in StepStates /\ step.end <= Len(journal)
  BY IInvFacts
<1>2. step' \in StepStates /\ step'.end = step.end
  BY <1>1 DEF StepStates
<1> QED BY <1>1, <1>2

LEMMA FinishedKeeps ==
    ASSUME IInv, Finished
    PROVE  IInv' /\ Recorded
<1>1. /\ pc = "walk" /\ mem.pending = <<>> /\ mem.stack = <<>>
      /\ mem' = [mem EXCEPT !.status = "done"] /\ step' = [step EXCEPT !.err = "none"]
      /\ journal' = journal /\ torn' = torn /\ disk' = disk /\ world' = world /\ pc' = "save"
  BY DEF Finished, Stop, durable
<1>2. Carried(mem, 0, Told, AssessedFiles, Len(journal), disk)
  BY <1>1, CursorAtWalk
<1>3. Carried(mem', 0, Told, AssessedFiles, Len(journal), disk)
  BY <1>1, <1>2, StoppedKeeps, IInvFacts
<1>4. step' \in StepStates /\ step'.end <= Len(journal)
  BY <1>1, StopStep
<1>5. Undecided' = 0 /\ pc' \notin JobPcs /\ torn' \in BOOLEAN
  BY <1>1 DEF Undecided, JobPcs, IInv, TypeOK
<1> QED BY <1>1, <1>3, <1>4, <1>5, QuietKeeps

-----------------------------------------------------------------------------
(* The walk                                                                  *)

LEMMA BudgetCoverageFacts ==
    ASSUME IInv, NEW why \in {"file_budget", "step_budget"}
    PROVE  BudgetCoverage(why) \in Seq(Event) /\ Honest(BudgetCoverage(why))
<1> DEFINE p == mem.pending
           q == mem.stack
           u == [i \in 1 .. Len(p) |-> CoverFile(p[i], 0, "pending")]
           v == [i \in 1 .. Len(q) |-> Boundary(q[i], why)]
<1>1. p \in Seq(Files) /\ q \in Seq(Dirs)
  BY IInvFacts DEF Cursors
<1> HIDE DEF p, q
<1>2. \A i \in 1 .. Len(p) : CoverFile(p[i], 0, "pending") \in Event
  BY <1>1 DEF CoverFile, Event
<1>3. \A i \in 1 .. Len(q) : Boundary(q[i], why) \in Event
  BY <1>1 DEF Boundary, Event, Refs
<1>4. u \in Seq(Event) /\ Len(u) = Len(p) /\ \A i \in 1 .. Len(p) : u[i] = CoverFile(p[i], 0, "pending")
  BY <1>1, <1>2
<1>5. v \in Seq(Event) /\ Len(v) = Len(q) /\ \A i \in 1 .. Len(q) : v[i] = Boundary(q[i], why)
  BY <1>1, <1>3
<1>6. \A i \in 1 .. Len(u) : u[i].disp # "complete"
  BY <1>4 DEF CoverFile
<1>7. \A i \in 1 .. Len(v) : v[i].t # "file"
  BY <1>5 DEF Boundary
<1>8. BudgetCoverage(why) = u \o v
  BY DEF BudgetCoverage, u, v, p, q
<1> HIDE DEF u, v
<1>9. /\ u \o v \in Seq(Event) /\ Len(u \o v) = Len(u) + Len(v)
      /\ \A i \in 1 .. Len(u) : (u \o v)[i] = u[i]
      /\ \A i \in 1 .. Len(v) : (u \o v)[Len(u) + i] = v[i]
  <2>1. u \in Seq(Event) /\ v \in Seq(Event)
    BY <1>4, <1>5
  <2> QED BY ONLY <2>1, ConcatFacts
<1> DEFINE es == u \o v
<1> HIDE DEF es
<1>10. ASSUME NEW i \in 1 .. Len(es), es[i].t = "file" PROVE es[i].disp # "complete"
  <2>1. Len(u) \in Nat /\ Len(v) \in Nat /\ Len(es) = Len(u) + Len(v)
    BY <1>4, <1>5, <1>9 DEF es
  <2>2. CASE i <= Len(u)
    <3>1. i \in 1 .. Len(u) /\ es[i] = u[i]
      BY <1>9, <2>1, <2>2 DEF es
    <3> QED BY <1>6, <3>1
  <2>3. CASE i > Len(u)
    <3>1. i - Len(u) \in 1 .. Len(v) /\ i = Len(u) + (i - Len(u))
      BY <2>1, <2>3
    <3>2. es[i] = v[i - Len(u)]
      BY <1>9, <3>1 DEF es
    <3> QED BY <1>7, <1>10, <3>1, <3>2
  <2> QED BY <2>1, <2>2, <2>3
<1>11. es \in Seq(Event) /\ es = BudgetCoverage(why)
  BY <1>8, <1>9 DEF es
<1>12. Honest(es)
  BY <1>10, <1>11, Plain
<1> QED BY <1>11, <1>12

\* The walk stops with these events, and the step goes to save.
LEMMA StopsWith ==
    ASSUME IInv, pc = "walk", NEW es \in Seq(Event), Honest(es), Emitted(es),
           NEW st \in {"running", "done", "budget_exhausted", "judge_unavailable"},
           st = "done" => mem.stack = <<>> /\ mem.pending = <<>>,
           NEW e \in {"none", "full", "store", "rules", "other"},
           Stop(e, [mem EXCEPT !.status = st]), world' = world
    PROVE  IInv' /\ Recorded
<1>1. /\ mem' = [mem EXCEPT !.status = st] /\ step' = [step EXCEPT !.err = e]
      /\ disk' = disk /\ pc' = "save"
      /\ journal' = journal \o es /\ Len(journal) + Len(es) <= JournalCap
  BY DEF Emitted, Stop
<1>2. /\ Carried(mem, 0, Told', AssessedFiles', Len(journal'), disk)
      /\ Len(journal') \in Nat /\ AssessedFiles' \in SUBSET Files
      /\ Len(journal) <= Len(journal') /\ Len(es) \in Nat
      /\ Len(journal) <= Len(journal) + Len(es)
  <2>1. pc # "idle" /\ Undecided = 0
    BY CursorAtWalk
  <2>2. /\ Carried(mem, Undecided, Told', AssessedFiles', Len(journal'), disk)
        /\ Len(journal') = Len(journal) + Len(es)
        /\ Len(journal') \in Nat /\ AssessedFiles' \in SUBSET Files
    BY <1>1, <2>1, EmittedCarried
  <2>3. Len(es) \in Nat /\ Len(journal) \in Nat
    BY IInvFacts
  <2> QED BY <2>1, <2>2, <2>3
<1>3. Carried(mem', 0, Told', AssessedFiles', Len(journal'), disk)
  BY <1>1, <1>2, StoppedKeeps
<1>4. step' \in StepStates /\ step'.end <= Len(journal)
  BY <1>1, StopStep
<1>5. step'.end <= Len(journal) + Len(es)
  <2>1. step'.end \in Nat /\ Len(journal) \in Nat
    BY <1>4, IInvFacts DEF StepStates
  <2> QED BY <1>2, <1>4, <2>1
<1>6. Undecided' = 0 /\ pc' \notin JobPcs
  BY <1>1 DEF Undecided, JobPcs
<1> QED BY <1>1, <1>3, <1>4, <1>5, <1>6, EmissionKeeps

LEMMA WalkFails ==
    ASSUME IInv, pc = "walk", NEW es \in Seq(Event), Honest(es),
           EmitFull(es, mem) \/ EmitFails(es, mem), world' = world
    PROVE  IInv' /\ Recorded
<1>1. mem = (IF pc \in JobPcs THEN Uncounted ELSE mem) /\ pc # "idle"
  BY CursorAtWalk
<1> QED BY <1>1, FailureKeeps

LEMMA FileBudgetKeeps ==
    ASSUME IInv, FileBudget
    PROVE  IInv' /\ Recorded
<1> DEFINE es == BudgetCoverage("file_budget")
<1>1. es \in Seq(Event) /\ Honest(es)
  BY BudgetCoverageFacts
<1>2. pc = "walk" /\ world' = world
  BY DEF FileBudget
<1>3. \/ Emitted(es) /\ Stop("none", [mem EXCEPT !.status = "budget_exhausted"])
      \/ EmitFull(es, mem) \/ EmitFails(es, mem)
  BY DEF FileBudget
<1> HIDE DEF es
<1>4. CASE Emitted(es) /\ Stop("none", [mem EXCEPT !.status = "budget_exhausted"])
  BY <1>1, <1>2, <1>4, StopsWith
<1>5. CASE EmitFull(es, mem) \/ EmitFails(es, mem)
  BY <1>1, <1>2, <1>5, WalkFails
<1> QED BY <1>3, <1>4, <1>5

LEMMA BudgetEndsKeeps ==
    ASSUME IInv, BudgetEnds
    PROVE  IInv' /\ Recorded
<1> DEFINE es == BudgetCoverage("step_budget")
<1>1. es \in Seq(Event) /\ Honest(es)
  BY BudgetCoverageFacts
<1>2. pc = "walk" /\ world' = world /\ mem.pending # <<>>
  BY DEF BudgetEnds, AtFile, MayWalk
<1>3. \/ Emitted(es) /\ Stop("none", mem)
      \/ EmitFull(es, mem) \/ EmitFails(es, mem)
  BY DEF BudgetEnds
<1> HIDE DEF es
<1>4. CASE Emitted(es) /\ Stop("none", mem)
  <2>1. mem.status \in {"running", "done", "budget_exhausted", "judge_unavailable"}
        /\ (mem.status = "done" => mem.stack = <<>> /\ mem.pending = <<>>)
    BY <1>2, CursorAtWalk DEF Carried
  <2>2. mem = [mem EXCEPT !.status = mem.status]
    BY <1>2, CursorAtWalk DEF Cursors
  <2>3. Stop("none", [mem EXCEPT !.status = mem.status])
    BY <1>4, <2>2
  <2> QED BY <1>1, <1>2, <1>4, <2>1, <2>3, StopsWith
<1>5. CASE EmitFull(es, mem) \/ EmitFails(es, mem)
  BY <1>1, <1>2, <1>5, WalkFails
<1> QED BY <1>3, <1>4, <1>5

\* A step's end after a success.
LEMMA EndsAt ==
    ASSUME IInv, NEW es \in Seq(Event), Len(journal) + Len(es) <= JournalCap,
           NEW x \in Nat, NEW l \in BOOLEAN,
           step' = [step EXCEPT !.loaded = l, !.end = NewEnd(es), !.examined = x]
    PROVE  step' \in StepStates /\ step'.end <= Len(journal) + Len(es)
<1>1. step \in StepStates
  BY IInvFacts
<1>2. NewEnd(es) \in Nat /\ NewEnd(es) <= Len(journal) + Len(es)
  BY NewEndFacts
<1> HIDE DEF NewEnd
<1>3. step' \in StepStates /\ step'.end = NewEnd(es)
  BY <1>1, <1>2 DEF StepStates
<1> QED BY <1>2, <1>3

LEMMA ListDirKeeps ==
    ASSUME IInv, ListDir
    PROVE  IInv' /\ Recorded
<1> DEFINE d == Top(mem.stack)
           es == [i \in 1 .. Len(Barred[d]) |-> Boundary(Barred[d][i], "excluded")]
           e == NewEnd(es)
           m == [Commit(mem, es) EXCEPT !.stack = Popped(mem.stack) \o Reverse(SubDirs[d]),
                                        !.dir = d, !.pending = FilesIn[d],
                                        !.listed = @ + Len(FilesIn[d])]
<1>1. pc = "walk" /\ world' = world /\ mem.pending = <<>> /\ mem.stack # <<>>
  BY DEF ListDir, MayWalk, MoreToDo
<1>2. /\ Carried(mem, 0, Told, AssessedFiles, Len(journal), disk)
      /\ mem \in Cursors /\ mem.stack \in Seq(Dirs) /\ mem.listed \in Nat /\ mem.seen \in Nat
      /\ mem.judged \in Nat /\ pc # "idle" /\ Undecided = 0 /\ mem.seen <= mem.max
  BY <1>1, CursorAtWalk
<1>3. d \in Dirs
  BY <1>1, <1>2, PoppedFacts
<1>4. es \in Seq(Event) /\ Honest(es)
  <2>1. Barred[d] \in Seq(ToSet(Barred[d]))
    BY <1>3, ListingAssumption
  <2>2. ToSet(Barred[d]) \subseteq Refs
    BY <1>3 DEF Refs
  <2>3. \A i \in 1 .. Len(Barred[d]) : Barred[d][i] \in Refs
    BY <2>1, <2>2
  <2>4. \A i \in 1 .. Len(Barred[d]) : Boundary(Barred[d][i], "excluded") \in Event
    BY <2>3 DEF Boundary, Event
  <2>5. es \in Seq(Event) /\ \A i \in 1 .. Len(es) : es[i].t # "file"
    BY <2>1, <2>4 DEF Boundary
  <2> HIDE DEF es
  <2> QED BY <2>5, Plain
<1>5. \/ Emitted(es) /\ mem' = m
         /\ step' = [step EXCEPT !.loaded = TRUE, !.end = e] /\ pc' = pc
      \/ EmitFull(es, mem) \/ EmitFails(es, mem)
  BY DEF ListDir
<1>6. m = [mem EXCEPT !.offset = e, !.stack = Popped(mem.stack) \o Reverse(SubDirs[d]),
                      !.dir = d, !.pending = FilesIn[d],
                      !.listed = mem.listed + Len(FilesIn[d])]
  BY <1>2 DEF Commit, Cursors
<1> HIDE DEF m, e, es, d
<1>7. CASE EmitFull(es, mem) \/ EmitFails(es, mem)
  BY <1>1, <1>4, <1>7, WalkFails
<1>8. CASE Emitted(es) /\ mem' = m
           /\ step' = [step EXCEPT !.loaded = TRUE, !.end = e] /\ pc' = pc
  <2>1. Len(journal) + Len(es) <= JournalCap /\ disk' = disk /\ journal' = journal \o es
    BY <1>8 DEF Emitted
  <2>2. /\ Carried(mem, 0, Told', AssessedFiles', Len(journal'), disk)
        /\ Len(journal') = Len(journal) + Len(es)
        /\ Len(journal') \in Nat /\ AssessedFiles' \in SUBSET Files
    BY <1>2, <1>4, <2>1, EmittedCarried
  <2>3. e \in 0 .. JournalCap /\ e <= Len(journal')
    BY <1>4, <2>1, <2>2, NewEndFacts DEF e
  <2>4. FilesIn[d] \in Seq(Files) /\ Len(FilesIn[d]) \in Nat
    BY <1>3, ListingAssumption
  <2> DEFINE st == Popped(mem.stack) \o Reverse(SubDirs[d])
  <2>5. st \in Seq(Dirs)
    <3> DEFINE c == [stack |-> st, pending |-> FilesIn[d]]
    <3>1. c.stack = st /\ c.pending = FilesIn[d]
      OBVIOUS
    <3> HIDE DEF c, st
    <3>2. /\ c.stack = Popped(mem.stack) \o Reverse(SubDirs[Top(mem.stack)])
          /\ c.pending = FilesIn[Top(mem.stack)] /\ Distinct(mem)
      BY <1>2, <3>1 DEF st, d, Carried, Kept
    <3>3. c.stack \in Seq(Dirs)
      BY <1>1, <1>2, <3>2, TopListed
    <3> QED BY <3>1, <3>3
  <2> HIDE DEF st
  <2>6. /\ m \in Cursors /\ m.stack = st /\ m.dir = d /\ m.pending = FilesIn[d]
        /\ m.offset = e /\ m.listed = mem.listed + Len(FilesIn[d])
        /\ m.seen = mem.seen /\ m.judged = mem.judged /\ m.skipped = mem.skipped
        /\ m.max = mem.max /\ m.status = mem.status
    <3>1. mem.listed + Len(FilesIn[d]) \in Nat
      BY <1>2, <2>4
    <3>2. m = [mem EXCEPT !.offset = e, !.stack = st, !.dir = d, !.pending = FilesIn[d],
                      !.listed = mem.listed + Len(FilesIn[d])]
      BY <1>6 DEF st
    <3> QED BY <1>2, <1>3, <2>3, <2>4, <2>5, <3>1, <3>2 DEF Cursors
  <2>7. Distinct(m) /\ Ahead(m) = Ahead(mem)
    <3>1. m.stack = Popped(mem.stack) \o Reverse(SubDirs[Top(mem.stack)])
          /\ m.pending = FilesIn[Top(mem.stack)] /\ Distinct(mem)
      BY <1>2, <2>6 DEF st, d, Carried, Kept
    <3> QED BY <1>1, <1>2, <3>1, TopListed
  <2>8. m.seen + Len(m.pending) <= m.listed + 0
    <3>1. mem.seen + Len(mem.pending) <= mem.listed + 0 /\ Len(mem.pending) = 0
      BY <1>1, <1>2 DEF Carried, Kept
    <3>2. mem.seen <= mem.listed
      BY <1>2, <3>1
    <3> QED BY <1>2, <2>4, <2>6, <3>2
  <2>9. Kept(m, 0, AssessedFiles', Len(journal'))
    BY <1>2, <2>2, <2>3, <2>6, <2>7, <2>8 DEF Kept, Carried
  <2>10. Carried(m, 0, Told', AssessedFiles', Len(journal'), disk)
    BY <1>1, <2>2, <2>6, <2>7, <2>9 DEF Carried, Whole
  <2>11. step' \in StepStates /\ step'.end <= Len(journal) + Len(es)
    <3>1. step.examined \in Nat /\ step' = [step EXCEPT !.loaded = TRUE, !.end = NewEnd(es), !.examined = step.examined]
      BY <1>8, IInvFacts DEF e, StepStates
    <3> QED BY <1>4, <2>1, <3>1, EndsAt
  <2>12. Undecided' = 0 /\ pc' \notin JobPcs /\ pc' = "walk"
    BY <1>1, <1>8 DEF Undecided, JobPcs
  <2> QED BY <1>1, <1>4, <1>8, <2>10, <2>11, <2>12, EmissionKeeps
<1> QED BY <1>5, <1>7, <1>8

\* The rules of a directory that is in the cursor are read.
LEMMA RulesDirFacts ==
    ASSUME IInv, ReadsRules
    PROVE  /\ pc = "walk" /\ RulesDir \in Dirs
           /\ mem.status # "done"
           /\ ToSet(mem.pending) \subseteq FilesBelow(mem.dir)
<1>1. pc = "walk" /\ (mem.pending # <<>> \/ mem.stack # <<>>)
  BY DEF ReadsRules, MayWalk, MoreToDo
<1>2. /\ Carried(mem, 0, Told, AssessedFiles, Len(journal), disk)
      /\ mem.stack \in Seq(Dirs) /\ mem.dir \in Dirs
  BY <1>1, CursorAtWalk
<1>3. RulesDir \in Dirs
  <2>1. CASE mem.pending = <<>>
    BY <1>1, <1>2, <2>1, PoppedFacts DEF RulesDir
  <2>2. CASE mem.pending # <<>>
    BY <1>2, <2>2 DEF RulesDir
  <2> QED BY <2>1, <2>2
<1>4. ToSet(mem.pending) \subseteq FilesBelow(mem.dir)
  BY <1>2, FilesBelowFacts DEF Carried, Kept
<1> QED BY <1>1, <1>2, <1>3, <1>4 DEF Carried

LEMMA BoundaryFacts ==
    ASSUME NEW d \in Dirs, NEW why \in {"excluded", "rules_error"}
    PROVE  /\ <<Boundary(d, why)>> \in Seq(Event) /\ Len(<<Boundary(d, why)>>) = 1
           /\ <<Boundary(d, why)>>[1] = Boundary(d, why) /\ Honest(<<Boundary(d, why)>>)
<1>1. Boundary(d, why) \in Event /\ Boundary(d, why).t # "file"
  BY DEF Boundary, Event, Refs
<1> QED BY <1>1, OnePlain

LEMMA ScopeExcludedKeeps ==
    ASSUME IInv, ScopeExcluded
    PROVE  IInv' /\ Recorded
<1> DEFINE d == RulesDir
           es == <<Boundary(d, "excluded")>>
           e == NewEnd(es)
           w == IF mem.pending = <<>> THEN [mem EXCEPT !.stack = Popped(mem.stack)]
                ELSE [mem EXCEPT !.pending = <<>>]
           m == Commit(w, es)
<1>1. ReadsRules /\ world' = world
  BY DEF ScopeExcluded
<1>2. /\ pc = "walk" /\ d \in Dirs /\ mem.status # "done"
      /\ ToSet(mem.pending) \subseteq FilesBelow(mem.dir)
      /\ (mem.pending # <<>> \/ mem.stack # <<>>)
  BY <1>1, RulesDirFacts DEF ReadsRules, MayWalk, MoreToDo
<1>3. es \in Seq(Event) /\ Honest(es) /\ Len(es) = 1 /\ es[1] = Boundary(d, "excluded")
  BY <1>2, BoundaryFacts
<1>4. \/ /\ Len(journal) < JournalCap /\ journal' = journal \o es /\ mem' = m
         /\ step' = [step EXCEPT !.end = e] /\ torn' = torn /\ disk' = disk /\ pc' = pc
      \/ EmitFull(es, mem) \/ EmitFails(es, mem)
  BY DEF ScopeExcluded
<1>5. /\ mem \in Cursors /\ mem.stack \in Seq(Dirs) /\ pc # "idle" /\ Undecided = 0
      /\ Carried(mem, 0, Told, AssessedFiles, Len(journal), disk)
  BY <1>2, CursorAtWalk
<1> HIDE DEF m, e, es, d
<1>6. CASE EmitFull(es, mem) \/ EmitFails(es, mem)
  BY <1>1, <1>2, <1>3, <1>6, WalkFails
<1>7. CASE /\ Len(journal) < JournalCap /\ journal' = journal \o es /\ mem' = m
           /\ step' = [step EXCEPT !.end = e] /\ torn' = torn /\ disk' = disk /\ pc' = pc
  <2>1. Len(journal) + Len(es) <= JournalCap /\ 1 \in 1 .. Len(es)
    BY <1>3, <1>7, IInvFacts
  <2>2. /\ Carried(mem, 0, Told', AssessedFiles', Len(journal'), disk)
        /\ Len(journal') = Len(journal) + Len(es)
        /\ Len(journal') \in Nat /\ AssessedFiles' \in SUBSET Files
        /\ Grows(es, Len(es))
    BY <1>3, <1>5, <1>7, <2>1, EmittedCarried
  <2>3. e \in 0 .. JournalCap /\ e <= Len(journal')
    BY <1>3, <2>1, <2>2, NewEndFacts DEF e
  <2>4. Files \cap FilesBelow(d) \subseteq Told'
    <3>1. es[1].t = "subtree" /\ es[1].why = "excluded" /\ es[1].ref = d
      BY <1>3 DEF Boundary
    <3> QED BY <1>2, <1>3, <2>1, <2>2, <3>1, NewlyTold DEF IInv
  <2>5. /\ m \in Cursors /\ m.offset = e /\ m.pending = <<>>
        /\ m.seen = mem.seen /\ m.judged = mem.judged /\ m.skipped = mem.skipped
        /\ m.listed = mem.listed /\ m.max = mem.max /\ m.status = mem.status
        /\ m.dir = mem.dir
        /\ m.stack = IF mem.pending = <<>> THEN Popped(mem.stack) ELSE mem.stack
    <3>1. <<>> \in Seq(Files)
      OBVIOUS
    <3>2. CASE mem.pending = <<>>
      <4>1. Popped(mem.stack) \in Seq(Dirs)
        BY <1>2, <1>5, <3>2, PoppedFacts
      <4>2. m = [mem EXCEPT !.stack = Popped(mem.stack), !.offset = e]
        BY <3>2 DEF m, e, Commit
      <4> QED BY <1>5, <2>3, <3>2, <4>1, <4>2 DEF Cursors
    <3>3. CASE mem.pending # <<>>
      <4>1. m = [mem EXCEPT !.pending = <<>>, !.offset = e]
        BY <3>3 DEF m, e, Commit
      <4> QED BY <1>5, <2>3, <3>1, <3>3, <4>1 DEF Cursors
    <3> QED BY <3>2, <3>3
  <2>6. /\ Distinct(m) /\ Ahead(m) \subseteq Ahead(mem)
        /\ Ahead(mem) \subseteq Ahead(m) \cup FilesBelow(d)
    <3>1. Distinct(mem)
      BY <1>5 DEF Carried, Kept
    <3>2. CASE mem.pending = <<>>
      <4>1. d = Top(mem.stack)
        BY <3>2 DEF d, RulesDir
      <4> QED BY <1>2, <1>5, <2>5, <3>1, <3>2, <4>1, TopDropped
    <3>3. CASE mem.pending # <<>>
      <4>1. d = mem.dir
        BY <3>3 DEF d, RulesDir
      <4> QED BY <1>2, <1>5, <2>5, <3>1, <3>3, <4>1, PendingDropped
    <3> QED BY <3>2, <3>3
  <2>7. Ahead(mem) \subseteq Ahead(m) \cup Told'
    BY <2>4, <2>6 DEF Ahead
  <2>8. Carried(m, 0, Told', AssessedFiles', Len(journal'), disk)
    BY <1>2, <2>2, <2>3, <2>5, <2>6, <2>7, WorkDropped
  <2>9. step' \in StepStates /\ step'.end <= Len(journal) + Len(es)
    <3>1. /\ step.examined \in Nat /\ step.loaded \in BOOLEAN
          /\ step' = [step EXCEPT !.loaded = step.loaded, !.end = NewEnd(es),
                                  !.examined = step.examined]
      BY <1>7, IInvFacts DEF e, StepStates
    <3> QED BY <1>3, <2>1, <3>1, EndsAt
  <2>10. Undecided' = 0 /\ pc' \notin JobPcs /\ pc' = "walk" /\ torn' \in BOOLEAN
    BY <1>2, <1>7 DEF Undecided, JobPcs, IInv, TypeOK
  <2>11. Len(es) \in 0 .. Len(es)
    BY <1>3
  <2> QED BY <1>1, <1>3, <1>7, <2>1, <2>2, <2>8, <2>9, <2>10, <2>11, StepKeeps
<1> QED BY <1>4, <1>6, <1>7

LEMMA ScopeFailsKeeps ==
    ASSUME IInv, ScopeFails
    PROVE  IInv' /\ Recorded
<1>1. ReadsRules /\ world' = world
  BY DEF ScopeFails
<1> PICK d \in UnusableTo(RulesDir) :
        LET e == <<Boundary(d, "rules_error")>>
        IN  (Emitted(e) /\ Stop("rules", mem)) \/ EmitFull(e, mem) \/ EmitFails(e, mem)
  BY DEF ScopeFails
<1> DEFINE es == <<Boundary(d, "rules_error")>>
<1>2. pc = "walk" /\ d \in Dirs
  BY <1>1, RulesDirFacts DEF UnusableTo
<1>3. es \in Seq(Event) /\ Honest(es) /\ Len(es) = 1
  BY <1>2, BoundaryFacts
<1>4. \/ /\ Len(journal) < JournalCap /\ journal' = journal \o es /\ mem' = mem
         /\ step' = [step EXCEPT !.err = "rules"] /\ torn' = torn /\ disk' = disk
         /\ pc' = "save"
      \/ EmitFull(es, mem) \/ EmitFails(es, mem)
  <2>1. Emitted(es) => Len(journal) < JournalCap
    BY <1>3, IInvFacts DEF Emitted
  <2> QED BY <2>1 DEF Emitted, Stop
<1> HIDE DEF es
<1>5. CASE EmitFull(es, mem) \/ EmitFails(es, mem)
  BY <1>1, <1>2, <1>3, <1>5, WalkFails
<1>6. CASE /\ Len(journal) < JournalCap /\ journal' = journal \o es /\ mem' = mem
           /\ step' = [step EXCEPT !.err = "rules"] /\ torn' = torn /\ disk' = disk
           /\ pc' = "save"
  <2>1. Len(journal) + Len(es) <= JournalCap /\ Len(es) \in 0 .. Len(es)
    BY <1>3, <1>6, IInvFacts
  <2>2. pc # "idle" /\ Undecided = 0
    BY <1>2, CursorAtWalk
  <2>3. /\ Carried(mem, 0, Told', AssessedFiles', Len(journal'), disk)
        /\ Grows(es, Len(es))
    BY <1>3, <1>6, <2>1, <2>2, EmittedCarried
  <2>4. step' \in StepStates /\ step'.end <= Len(journal)
    BY <1>6, StopStep
  <2>5. step'.end <= Len(journal) + Len(es)
    <3>1. step'.end \in Nat /\ Len(journal) \in Nat
      BY <2>4, IInvFacts DEF StepStates
    <3> QED BY <1>3, <2>4, <3>1
  <2>6. Undecided' = 0 /\ pc' \notin JobPcs /\ torn' \in BOOLEAN
    BY <1>6 DEF Undecided, JobPcs, IInv, TypeOK
  <2> QED BY <1>1, <1>3, <1>6, <2>1, <2>3, <2>4, <2>5, <2>6, StepKeeps
<1> QED BY <1>4, <1>5, <1>6

LEMMA RulesHoldKeeps ==
    ASSUME IInv, RulesHold
    PROVE  IInv' /\ Recorded
<1>1. /\ pc = "walk" /\ step' = [step EXCEPT !.loaded = TRUE]
      /\ journal' = journal /\ torn' = torn /\ disk' = disk /\ world' = world
      /\ pc' = pc /\ mem' = mem
  BY DEF RulesHold, MayWalk, durable
<1>2. Carried(mem, 0, Told, AssessedFiles, Len(journal), disk)
  BY <1>1, CursorAtWalk
<1>3. step \in StepStates /\ step.end <= Len(journal)
  BY IInvFacts
<1>4. step' \in StepStates /\ step'.end = step.end
  BY <1>1, <1>3 DEF StepStates
<1>5. Undecided' = 0 /\ pc' \notin JobPcs /\ torn' \in BOOLEAN
  BY <1>1 DEF Undecided, JobPcs, IInv, TypeOK
<1> QED BY <1>1, <1>2, <1>3, <1>4, <1>5, QuietKeeps

LEMMA LoadFailsKeeps ==
    ASSUME IInv, LoadFails
    PROVE  IInv' /\ Recorded
<1>1. /\ pc = "walk" /\ step' = [step EXCEPT !.err = "store"]
      /\ journal' = journal /\ torn' = torn /\ disk' = disk /\ world' = world
      /\ pc' = "save" /\ mem' = mem
  BY DEF LoadFails, Begins, AtFile, MayWalk, Stop, durable
<1>2. Carried(mem, 0, Told, AssessedFiles, Len(journal), disk)
  BY <1>1, CursorAtWalk
<1>3. step' \in StepStates /\ step'.end <= Len(journal)
  BY <1>1, StopStep
<1>4. Undecided' = 0 /\ pc' \notin JobPcs /\ torn' \in BOOLEAN
  BY <1>1 DEF Undecided, JobPcs, IInv, TypeOK
<1> QED BY <1>1, <1>2, <1>3, <1>4, QuietKeeps

-----------------------------------------------------------------------------
(* A file is taken                                                           *)

LEMMA CoverFacts ==
    ASSUME NEW f \in Files, NEW x \in Nat, NEW disp \in Closing \cup {"pending"},
           disp # "complete"
    PROVE  LET es == <<CoverFile(f, x, disp)>>
           IN  es \in Seq(Event) /\ Len(es) = 1 /\ es[1] = CoverFile(f, x, disp) /\ Honest(es)
<1>1. CoverFile(f, x, disp) \in Event /\ CoverFile(f, x, disp).disp # "complete"
  BY DEF CoverFile, Event
<1> QED BY <1>1, OnePlain

LEMMA BeginsFacts ==
    ASSUME IInv, NEW f \in Files, Begins(f)
    PROVE  /\ pc = "walk" /\ mem.pending # <<>> /\ f = Head(mem.pending) /\ mem.seen < mem.max
           /\ mem.status # "done"
<1>1. pc = "walk" /\ mem.pending # <<>> /\ f = Head(mem.pending) /\ mem.seen < mem.max
  BY DEF Begins, AtFile, MayWalk
<1> QED BY <1>1, CursorAtWalk DEF Carried

\* A file is closed without an assessment.
LEMMA FileClosed ==
    ASSUME IInv, NEW f \in Files, Begins(f), NEW x \in Nat,
           NEW disp \in {"excluded", "unknown", "stale"},
           NEW es \in Seq(Event), Len(es) = 1, es[1] = CoverFile(f, x, disp), Honest(es),
           Emitted(es), mem' = Close(Counted, es),
           step' = [Examined EXCEPT !.end = NewEnd(es)], pc' = pc, world' = world
    PROVE  IInv' /\ Recorded
<1> DEFINE e == NewEnd(es)
<1>1. /\ pc = "walk" /\ mem.pending # <<>> /\ f = Head(mem.pending) /\ mem.seen < mem.max
      /\ mem.status # "done"
  BY BeginsFacts
<1>2. /\ Carried(mem, 0, Told, AssessedFiles, Len(journal), disk)
      /\ mem \in Cursors /\ pc # "idle" /\ Undecided = 0 /\ mem.pending \in Seq(Files)
      /\ mem.seen \in Nat /\ mem.max \in Nat /\ mem.judged \in Nat /\ mem.skipped \in Nat
      /\ disk.judged \in Nat
  BY <1>1, CursorAtWalk
<1>3. Len(journal) + Len(es) <= JournalCap /\ journal' = journal \o es /\ 1 \in 1 .. Len(es)
  BY DEF Emitted
<1>4. /\ Carried(mem, 0, Told', AssessedFiles', Len(journal'), disk)
      /\ Len(journal') = Len(journal) + Len(es)
      /\ Len(journal') \in Nat /\ AssessedFiles' \in SUBSET Files
      /\ AssessedFiles \subseteq AssessedFiles'
      /\ Grows(es, Len(es))
  BY <1>2, <1>3, EmittedCarried
<1>5. e \in 0 .. JournalCap /\ e <= Len(journal')
  BY <1>3, <1>4, NewEndFacts
<1>6. f \in Told'
  <2>1. es[1].t = "file" /\ es[1].disp \in Closing /\ es[1].ref = f
    BY DEF CoverFile, Closing
  <2> QED BY <1>3, <1>4, <2>1, NewlyTold DEF IInv
<1> HIDE DEF e
<1>7. mem' = [mem EXCEPT !.seen = mem.seen + 1, !.pending = Tail(mem.pending),
                         !.skipped = mem.skipped + 1, !.offset = e]
  <2>1. mem' = Commit([Counted EXCEPT !.pending = Tail(@), !.skipped = @ + 1], es)
    BY DEF Close
  <2> QED BY <1>2, <2>1 DEF Commit, Counted, Cursors, e
<1>8. /\ mem' \in Cursors /\ mem'.offset = e /\ mem'.pending = Tail(mem.pending)
      /\ mem'.stack = mem.stack /\ mem'.dir = mem.dir
      /\ mem'.seen = mem.seen + 1 /\ mem'.judged = mem.judged
      /\ mem'.skipped = mem.skipped + 1
      /\ mem'.listed = mem.listed /\ mem'.max = mem.max /\ mem'.status = mem.status
  <2>1. Tail(mem.pending) \in Seq(Files) /\ mem.seen + 1 \in Nat /\ mem.skipped + 1 \in Nat
    BY <1>1, <1>2
  <2> QED BY <1>2, <1>5, <1>7, <2>1 DEF Cursors
<1>9. mem'.seen + 0 = mem.seen + 1 /\ mem'.seen <= mem'.max
      /\ mem'.judged + mem'.skipped = mem.judged + mem.skipped + 1
      /\ mem.judged <= mem'.judged
  <2>1. \A u, v \in Nat : u + (v + 1) = u + v + 1 /\ u <= u /\ (u < v => u + 1 <= v)
    OBVIOUS
  <2>2. mem.judged + (mem.skipped + 1) = mem.judged + mem.skipped + 1
        /\ mem.judged <= mem.judged /\ mem.seen + 1 <= mem.max
    BY ONLY <1>1, <1>2, <2>1, Zenon
  <2>3. mem'.seen + 0 = mem.seen + 1
    BY <1>2, <1>8
  <2> QED BY ONLY <1>8, <2>2, <2>3, Zenon
<1>10. mem'.judged <= Cardinality(AssessedFiles' \ Ahead(mem'))
  <2>1. Distinct(mem) /\ mem.judged <= Cardinality(AssessedFiles \ Ahead(mem))
    BY <1>2 DEF Carried, Kept
  <2>2. Ahead(mem') \subseteq Ahead(mem)
    <3>1. mem'.stack = mem.stack /\ mem'.pending = Tail(mem.pending)
      BY <1>8
    <3>2. Ahead(mem') = Ahead(mem) \ {Head(mem.pending)}
      BY ONLY <1>1, <1>2, <2>1, <3>1, HeadClosed
    <3> QED BY <3>2
  <2>3. /\ Cardinality(AssessedFiles \ Ahead(mem)) \in Nat
        /\ Cardinality(AssessedFiles' \ Ahead(mem')) \in Nat
        /\ Cardinality(AssessedFiles \ Ahead(mem)) <= Cardinality(AssessedFiles' \ Ahead(mem'))
    BY <1>4, <2>2, FewerAhead, IInvFacts
  <2> QED BY <1>2, <1>8, <2>1, <2>3
<1>11. Carried(mem', 0, Told', AssessedFiles', Len(journal'), disk)
  <2> DEFINE m == mem'  T == Told'  X == AssessedFiles'  n == Len(journal')
  <2>1. /\ Carried(mem, 0, T, X, n, disk) /\ n \in Nat /\ X \in SUBSET Files
        /\ Head(mem.pending) \in T /\ m.offset <= n
    BY <1>1, <1>4, <1>5, <1>6, <1>8
  <2>2. m.judged <= Cardinality(X \ Ahead(m)) /\ 0 \in {0, 1}
    BY <1>10
  <2> HIDE DEF T, X, n
  <2>3. Carried(m, 0, T, X, n, disk)
    BY <1>1, <1>2, <1>8, <1>9, <2>1, <2>2, HeadDecided
  <2> QED BY <2>3 DEF T, X, n
<1>12. step' \in StepStates /\ step'.end <= Len(journal) + Len(es)
  <2>1. step.examined + 1 \in Nat /\ step.loaded \in BOOLEAN /\ step \in StepStates
    BY IInvFacts DEF StepStates
  <2>2. step' = [step EXCEPT !.loaded = step.loaded, !.end = NewEnd(es),
                             !.examined = step.examined + 1]
    BY <2>1 DEF Examined, StepStates
  <2> QED BY <1>3, <2>1, <2>2, EndsAt
<1>13. Undecided' = 0 /\ pc' \notin JobPcs /\ pc' = "walk"
  BY <1>1 DEF Undecided, JobPcs
<1> QED BY <1>11, <1>12, <1>13, EmissionKeeps

LEMMA SkipFileKeeps ==
    ASSUME IInv, SkipFile
    PROVE  IInv' /\ Recorded
<1>1. PICK f \in Files, why \in {"excluded", "unknown"} :
        /\ Begins(f)
        /\ LET es == <<CoverFile(f, 0, why)>>
           IN  \/ /\ Emitted(es)
                  /\ mem' = Close(Counted, es)
                  /\ step' = [Examined EXCEPT !.end = NewEnd(es)]
                  /\ pc' = pc
               \/ EmitFull(es, mem)
               \/ EmitFails(es, mem)
  BY DEF SkipFile
<1> DEFINE es == <<CoverFile(f, 0, why)>>
<1>2. es \in Seq(Event) /\ Len(es) = 1 /\ es[1] = CoverFile(f, 0, why) /\ Honest(es)
  BY CoverFacts DEF Closing
<1>3. world' = world /\ pc = "walk"
  BY <1>1, BeginsFacts DEF SkipFile
<1>4. CASE /\ Emitted(es) /\ mem' = Close(Counted, es)
           /\ step' = [Examined EXCEPT !.end = NewEnd(es)] /\ pc' = pc
  <2> HIDE DEF es
  <2> QED BY <1>1, <1>2, <1>3, <1>4, FileClosed
<1>5. CASE EmitFull(es, mem) \/ EmitFails(es, mem)
  <2> HIDE DEF es
  <2> QED BY <1>2, <1>3, <1>5, WalkFails
<1> QED BY <1>1, <1>4, <1>5

LEMMA StaleFileKeeps ==
    ASSUME IInv, StaleFile
    PROVE  IInv' /\ Recorded
<1>1. PICK f \in Files : Begins(f) /\ \E x \in DigestsSeen(f) :
        LET es == <<CoverFile(f, x, "stale")>>
        IN  \/ /\ Emitted(es)
               /\ mem' = Close(Counted, es)
               /\ step' = [Examined EXCEPT !.end = NewEnd(es)]
               /\ pc' = pc
            \/ EmitFull(es, mem)
            \/ EmitFails(es, mem)
  BY DEF StaleFile
<1>2. PICK x \in DigestsSeen(f) :
        LET es == <<CoverFile(f, x, "stale")>>
        IN  \/ /\ Emitted(es)
               /\ mem' = Close(Counted, es)
               /\ step' = [Examined EXCEPT !.end = NewEnd(es)]
               /\ pc' = pc
            \/ EmitFull(es, mem)
            \/ EmitFails(es, mem)
  BY <1>1
<1>3. x \in Nat
  <2>1. PICK i \in Seen(f) : x = journal[i].dig
    BY DEF DigestsSeen
  <2>2. step.base \in Nat
    BY IInvFacts DEF StepStates
  <2>3. i \in 1 .. Len(journal) /\ journal[i].t = "record"
    BY <2>2, IInvFacts DEF Seen
  <2>4. journal[i] \in Event
    BY <2>3, IInvFacts
  <2> QED BY <2>1, <2>3, <2>4 DEF Event
<1> DEFINE es == <<CoverFile(f, x, "stale")>>
<1>4. es \in Seq(Event) /\ Len(es) = 1 /\ es[1] = CoverFile(f, x, "stale") /\ Honest(es)
  BY <1>3, CoverFacts DEF Closing
<1>5. world' = world /\ pc = "walk"
  BY <1>1, BeginsFacts DEF StaleFile
<1>6. CASE /\ Emitted(es) /\ mem' = Close(Counted, es)
           /\ step' = [Examined EXCEPT !.end = NewEnd(es)] /\ pc' = pc
  <2> HIDE DEF es
  <2> QED BY <1>1, <1>3, <1>4, <1>5, <1>6, FileClosed
<1>7. CASE EmitFull(es, mem) \/ EmitFails(es, mem)
  <2> HIDE DEF es
  <2> QED BY <1>4, <1>5, <1>7, WalkFails
<1> QED BY <1>2, <1>6, <1>7

LEMMA BeginFileKeeps ==
    ASSUME IInv, BeginFile
    PROVE  IInv' /\ Recorded
<1>1. PICK f \in Files :
        /\ Begins(f) /\ mem' = Counted
        /\ step' = [Examined EXCEPT !.end = Len(journal)]
        /\ job' = [f |-> f, dig |-> src[f], prior |-> AnsweredPrior(f, src[f]), b |-> 1,
                   ok |-> FALSE, err |-> "none"]
  BY DEF BeginFile
<1>2. /\ journal' = journal /\ torn' = torn /\ disk' = disk /\ world' = world /\ pc' = "battery"
  BY DEF BeginFile, durable
<1>3. /\ pc = "walk" /\ mem.pending # <<>> /\ f = Head(mem.pending) /\ mem.seen < mem.max
      /\ mem.status # "done"
  BY <1>1, BeginsFacts
<1>4. /\ Carried(mem, 0, Told, AssessedFiles, Len(journal), disk)
      /\ mem \in Cursors /\ mem.seen \in Nat /\ mem.max \in Nat /\ mem.offset <= Len(journal)
  BY <1>3, CursorAtWalk
<1>5. /\ mem' \in Cursors /\ mem'.offset = mem.offset /\ mem'.pending = mem.pending
      /\ mem'.stack = mem.stack /\ mem'.dir = mem.dir
      /\ mem'.seen = mem.seen + 1 /\ mem'.judged = mem.judged
      /\ mem'.skipped = mem.skipped /\ mem'.listed = mem.listed
      /\ mem'.max = mem.max /\ mem'.status = mem.status
  <2>1. mem.seen + 1 \in Nat /\ mem' = [mem EXCEPT !.seen = mem.seen + 1]
    BY <1>1, <1>4 DEF Counted
  <2> QED BY <1>4, <2>1 DEF Cursors
<1>6. mem'.seen + 0 = mem.seen + 1 /\ mem'.seen <= mem'.max
  BY <1>3, <1>4, <1>5
<1>7. Carried(mem', 1, Told, AssessedFiles, Len(journal), disk)
  <2> DEFINE m == mem'
  <2>1. /\ m.status \in {"running", "done", "budget_exhausted", "judge_unavailable"}
        /\ m.status = "done" => m.stack = <<>> /\ m.pending = <<>>
        /\ m.offset <= Len(journal) /\ Len(journal) \in Nat
    BY <1>3, <1>4, <1>5, IInvFacts DEF Carried
  <2> QED BY <1>4, <1>5, <1>6, <2>1, SameWork
<1>8. Undecided' = 1 /\ pc' \in JobPcs /\ torn' \in BOOLEAN
  BY <1>2 DEF Undecided, JobPcs, IInv, TypeOK
<1>9. step' \in StepStates /\ step'.end <= Len(journal)
  <2>1. step \in StepStates /\ Len(journal) \in Nat /\ step.examined + 1 \in Nat
    BY IInvFacts DEF StepStates
  <2>2. step' = [step EXCEPT !.examined = step.examined + 1, !.end = Len(journal)]
    BY <1>1 DEF Examined
  <2>3. step' \in StepStates /\ step'.end = Len(journal)
    BY <2>1, <2>2 DEF StepStates
  <2> QED BY <2>1, <2>3
<1>10. JobSound'
  <2>1. src[f] \in Nat /\ Batteries[f] \in Nat
    BY ListingAssumption DEF IInv, TypeOK
  <2>2. ASSUME NEW q \in AnsweredPrior(f, src[f])
        PROVE  q \in Nat /\ HasRecord(f, src[f], q)
    <3>1. q \in 1 .. Batteries[f] /\ \E i \in Seen(f) : journal[i] = RecordOf(f, src[f], q, TRUE)
      BY DEF AnsweredPrior
    <3>2. PICK i \in Seen(f) : journal[i] = RecordOf(f, src[f], q, TRUE)
      BY <3>1
    <3>3. step.base \in Nat
      BY IInvFacts DEF StepStates
    <3>4. i \in 1 .. Len(journal)
      BY <3>3, IInvFacts DEF Seen
    <3>5. q \in Nat
      BY <2>1, <3>1
    <3>6. HasRecord(f, src[f], q)
      BY <3>2, <3>4 DEF HasRecord
    <3> QED BY <3>5, <3>6
  <2> DEFINE pr == AnsweredPrior(f, src[f])
  <2>3. pr \subseteq Nat /\ \A q \in pr : HasRecord(f, src[f], q)
    BY <2>2
  <2>4. job' = [f |-> f, dig |-> src[f], prior |-> pr, b |-> 1, ok |-> FALSE, err |-> "none"]
    BY <1>1
  <2> HIDE DEF pr
  <2>5. job' \in Jobs
    BY <2>1, <2>3, <2>4 DEF Jobs
  <2>6. (\A q \in job.prior : HasRecord(job.f, job.dig, q))'
    BY <1>2, <2>3, <2>4 DEF HasRecord
  <2>7. (\A q \in 1 .. job.b - 1 : HasRecord(job.f, job.dig, q))'
    BY <2>4
  <2>8. mem'.pending # <<>> /\ job'.f = Head(mem'.pending) /\ job'.err = "none"
    BY <1>3, <1>5, <2>4
  <2> QED BY <1>2, <2>5, <2>6, <2>7, <2>8 DEF JobSound
<1> QED BY <1>2, <1>7, <1>8, <1>9, <1>10, QuietKeeps

-----------------------------------------------------------------------------
(* The batteries of the file under assessment                                *)

Runtimes == {"ok", "wait", "blocked"}

LEMMA JobFacts ==
    ASSUME IInv, pc \in JobPcs
    PROVE  /\ Carried(mem, 1, Told, AssessedFiles, Len(journal), disk)
           /\ Undecided = 1 /\ pc # "idle"
           /\ JobSound /\ job \in Jobs /\ job.b \in Nat /\ Batteries[job.f] \in Nat
           /\ job.f \in Files /\ job.dig \in Nat /\ job.prior \subseteq Nat
           /\ mem \in Cursors /\ mem.pending \in Seq(Files)
<1>1. Undecided = 1 /\ pc # "idle" /\ JobSound /\ job \in Jobs
  BY DEF Undecided, JobPcs, IInv, JobSound
<1>2. Carried(mem, 1, Told, AssessedFiles, Len(journal), disk)
  BY <1>1 DEF IInv, Running
<1>3. job.b \in Nat /\ job.f \in Files /\ job.dig \in Nat /\ job.prior \subseteq Nat
  BY <1>1 DEF Jobs
<1>4. Batteries[job.f] \in Nat
  BY <1>3, ListingAssumption
<1>5. mem \in Cursors /\ mem.pending \in Seq(Files)
  BY IInvFacts DEF Cursors
<1> QED BY <1>1, <1>2, <1>3, <1>4, <1>5

\* The runtime of the cursor in memory is not looked at by the walk.
LEMMA RuntimeKeepsCarried ==
    ASSUME IInv, pc \in JobPcs,
           NEW m \in {mem} \cup {[mem EXCEPT !.runtime = r] : r \in Runtimes}
    PROVE  /\ Carried(m, 1, Told, AssessedFiles, Len(journal), disk)
           /\ m.pending = mem.pending
<1>1. Carried(mem, 1, Told, AssessedFiles, Len(journal), disk) /\ mem \in Cursors
  BY JobFacts
<1>2. /\ m \in Cursors /\ m.offset = mem.offset /\ m.stack = mem.stack
      /\ m.dir = mem.dir /\ m.pending = mem.pending /\ m.status = mem.status
      /\ m.max = mem.max /\ m.seen = mem.seen /\ m.judged = mem.judged
      /\ m.skipped = mem.skipped /\ m.listed = mem.listed
  BY <1>1 DEF Cursors, Runtimes
<1>3. /\ m.status \in {"running", "done", "budget_exhausted", "judge_unavailable"}
      /\ m.status = "done" => m.stack = <<>> /\ m.pending = <<>>
      /\ m.offset <= Len(journal) /\ Len(journal) \in Nat
      /\ m.seen + 1 = mem.seen + 1 /\ m.seen <= m.max
  BY <1>1, <1>2, IInvFacts DEF Carried, Kept
<1> QED BY <1>1, <1>2, <1>3, SameWork

\* Steps within an assessment that append nothing.
LEMMA JobQuiet ==
    ASSUME IInv, pc \in JobPcs, pc' \in JobPcs,
           journal' = journal, torn' = torn, world' = world,
           disk' \in {disk} \cup {[disk EXCEPT !.runtime = r] : r \in Runtimes},
           mem' \in {mem} \cup {[mem EXCEPT !.runtime = r] : r \in Runtimes},
           step' \in StepStates, step'.end = step.end,
           job' \in Jobs, job'.f = job.f, job'.dig = job.dig, job'.prior = job.prior,
           \A q \in 1 .. job'.b - 1 : HasRecord(job.f, job.dig, q),
           pc' \in {"battery", "locate", "located"} => job'.err = "none",
           pc' = "record" => job'.ok = (job'.err = "none"),
           pc' = "cover" /\ job'.err = "none" => job'.b > Batteries[job.f]
    PROVE  IInv' /\ Recorded
<1>1. Carried(mem', 1, Told, AssessedFiles, Len(journal), disk) /\ mem'.pending = mem.pending
  BY RuntimeKeepsCarried
<1>2. Undecided' = 1 /\ torn' \in BOOLEAN
  BY DEF Undecided, IInv, TypeOK
<1>3. step'.end <= Len(journal)
  BY IInvFacts
<1>4. JobSound'
  <2>1. (\A q \in job.prior : HasRecord(job.f, job.dig, q))'
    <3>1. \A q \in job.prior : HasRecord(job.f, job.dig, q)
      BY JobFacts DEF JobSound
    <3> QED BY <3>1 DEF HasRecord, RecordOf
  <2>2. (\A q \in 1 .. job.b - 1 : HasRecord(job.f, job.dig, q))'
    BY DEF HasRecord
  <2>3. mem'.pending # <<>> /\ job'.f = Head(mem'.pending)
    BY <1>1, JobFacts DEF JobSound
  <2> QED BY <2>1, <2>2, <2>3 DEF JobSound
<1> QED BY <1>1, <1>2, <1>3, <1>4, QuietKeeps DEF Runtimes

LEMMA RuntimeOfStep ==
    ASSUME NEW x \in StepStates, NEW r \in Runtimes
    PROVE  [x EXCEPT !.runtime = r] \in StepStates /\ [x EXCEPT !.runtime = r].end = x.end
  BY DEF StepStates, Runtimes

LEMMA NextBattery ==
    ASSUME NEW x \in Jobs, NEW m, m = [x EXCEPT !.b = x.b + 1, !.ok = FALSE]
    PROVE  /\ m \in Jobs /\ m.f = x.f /\ m.dig = x.dig /\ m.prior = x.prior
           /\ m.b = x.b + 1 /\ m.err = x.err
<1>1. x.b + 1 \in Nat
  BY DEF Jobs
<1> DEFINE b == x.b + 1
<1>2. b \in Nat /\ m = [x EXCEPT !.b = b, !.ok = FALSE]
  BY <1>1
<1> HIDE DEF b
<1>3. /\ m \in Jobs /\ m.f = x.f /\ m.dig = x.dig /\ m.prior = x.prior
      /\ m.b = b /\ m.err = x.err
  BY <1>2 DEF Jobs
<1> QED BY <1>3 DEF b

LEMMA OutcomeFacts ==
    ASSUME NEW o \in Outcomes \cup {"answer"}
    PROVE  /\ o # "denied" => RuntimeAfter(o) \in Runtimes
           /\ ErrorOf(o) \in {"none", "judge", "other", "refused"}
<1>1. o \in {"partial", "unavailable", "exhausted", "invalid", "auth", "denied", "answer"}
  BY OutcomesAssumption DEF AllOutcomes
<1>2. ErrorOf(o) \in {"none", "judge", "other", "refused"}
  BY <1>1 DEF ErrorOf
<1>3. o # "denied" => RuntimeAfter(o) \in Runtimes
  BY <1>1 DEF RuntimeAfter, Runtimes
<1> QED BY <1>2, <1>3

LEMMA StepAsIs ==
    ASSUME IInv
    PROVE  /\ step.calls \in Nat /\ step.left \in Nat /\ step.runtime \in Runtimes
           /\ step \in StepStates
  BY IInvFacts DEF StepStates, Runtimes

LEMMA ReplayKeeps ==
    ASSUME IInv, Replay
    PROVE  IInv' /\ Recorded
<1>1. /\ pc = "battery" /\ job.b \in job.prior /\ job' = [job EXCEPT !.b = job.b + 1]
      /\ journal' = journal /\ torn' = torn /\ disk' = disk /\ world' = world
      /\ pc' = pc /\ mem' = mem /\ step' = step
  BY DEF Replay, AtBattery, Answered, durable
<1>2. JobSound /\ job \in Jobs /\ job.b \in Nat /\ pc \in JobPcs
  BY <1>1, JobFacts DEF JobPcs
<1>3. /\ job' \in Jobs /\ job'.f = job.f /\ job'.dig = job.dig /\ job'.prior = job.prior
      /\ job'.err = job.err /\ job'.b = job.b + 1
  BY <1>1, <1>2 DEF Jobs
<1>4. \A q \in 1 .. job'.b - 1 : HasRecord(job.f, job.dig, q)
  <2>1. \A q \in 1 .. (job.b + 1) - 1 : q \in 1 .. job.b - 1 \/ q = job.b
    BY <1>2
  <2> QED BY <1>1, <1>2, <1>3, <2>1 DEF JobSound
<1>5. job'.err = "none" /\ pc' = "battery" /\ step' \in StepStates
  BY <1>1, <1>2, <1>3, IInvFacts DEF JobSound
<1> QED BY <1>1, <1>2, <1>3, <1>4, <1>5, JobQuiet

\* A reply comes back to the battery's assessment.
LEMMA ReplyKeeps ==
    ASSUME IInv, AtBattery, NEW e \in {"none", "judge", "other", "refused", "progress"}, Reply(e),
           journal' = journal, torn' = torn, world' = world,
           disk' \in {disk} \cup {[disk EXCEPT !.runtime = r] : r \in Runtimes},
           mem' \in {mem} \cup {[mem EXCEPT !.runtime = r] : r \in Runtimes},
           step' \in StepStates, step'.end = step.end
    PROVE  IInv' /\ Recorded
<1>1. pc = "battery" /\ pc' = "record" /\ job' = [job EXCEPT !.ok = (e = "none"), !.err = e]
  BY DEF AtBattery, Reply
<1>2. JobSound /\ job \in Jobs /\ pc \in JobPcs /\ pc' \in JobPcs
  BY <1>1, JobFacts DEF JobPcs
<1>3. /\ job' \in Jobs /\ job'.f = job.f /\ job'.dig = job.dig /\ job'.prior = job.prior
      /\ job'.err = e /\ job'.b = job.b
  BY <1>1, <1>2 DEF Jobs
<1>4. job'.ok = (job'.err = "none")
  BY <1>1, <1>2, <1>3 DEF Jobs
<1>5. \A q \in 1 .. job'.b - 1 : HasRecord(job.f, job.dig, q)
  BY <1>2, <1>3 DEF JobSound
<1> QED BY <1>1, <1>2, <1>3, <1>4, <1>5, JobQuiet

LEMMA NotSentKeeps ==
    ASSUME IInv, NotSent
    PROVE  IInv' /\ Recorded
<1>1. /\ AtBattery /\ step' = [step EXCEPT !.calls = step.calls + 1]
      /\ journal' = journal /\ torn' = torn /\ disk' = disk /\ world' = world /\ mem' = mem
  BY DEF NotSent, durable
<1>2. PICK e \in {"judge", "other"} : Reply(e)
  BY DEF NotSent
<1>3. step' \in StepStates /\ step'.end = step.end
  <2>1. step \in StepStates /\ step.calls + 1 \in Nat
    BY StepAsIs
  <2> QED BY <1>1, <2>1 DEF StepStates
<1> QED BY <1>1, <1>2, <1>3, ReplyKeeps

LEMMA CacheHitKeeps ==
    ASSUME IInv, CacheHit
    PROVE  IInv' /\ Recorded
<1>1. /\ AtBattery /\ Reply("none") /\ step' = step
      /\ journal' = journal /\ torn' = torn /\ disk' = disk /\ world' = world /\ mem' = mem
  BY DEF CacheHit, durable
<1> QED BY <1>1, ReplyKeeps, IInvFacts

\* A request was sent and the runtime after it is r.
LEMMA SentStep ==
    ASSUME IInv, step.left > 0, NEW r \in Runtimes, step' \in {Sent, [Sent EXCEPT !.runtime = r]}
    PROVE  step' \in StepStates /\ step'.end = step.end
<1>1. step \in StepStates /\ step.left \in Nat /\ step.calls \in Nat /\ step.runtime \in Runtimes
  BY StepAsIs
<1>2. step.calls + 1 \in Nat /\ step.left - 1 \in Nat
  BY <1>1
<1>3. Sent = [step EXCEPT !.left = step.left - 1, !.calls = step.calls + 1]
  BY DEF Sent
<1>4. Sent \in StepStates /\ Sent.end = step.end
  BY <1>1, <1>2, <1>3 DEF StepStates
<1>5. [Sent EXCEPT !.runtime = r] \in StepStates /\ [Sent EXCEPT !.runtime = r].end = Sent.end
  BY ONLY <1>4, r \in Runtimes, RuntimeOfStep
<1> QED BY <1>4, <1>5

LEMMA AskKeeps ==
    ASSUME IInv, NEW o \in Outcomes \cup {"answer"}, Ask(o)
    PROVE  IInv' /\ Recorded
<1>1. /\ AtBattery /\ step.left > 0 /\ Reply(ErrorOf(o))
      /\ journal' = journal /\ torn' = torn /\ world' = world
  BY DEF Ask, Sends
<1>2. ErrorOf(o) \in {"none", "judge", "other", "refused", "progress"}
  BY OutcomeFacts
<1>3. CASE o = "denied"
  <2>1. step' = Sent /\ mem' = mem /\ disk' = disk
    BY <1>3 DEF Ask
  <2>2. "ok" \in Runtimes
    BY DEF Runtimes
  <2>3. step' \in StepStates /\ step'.end = step.end
    BY <1>1, <2>1, <2>2, SentStep
  <2> QED BY <1>1, <1>2, <2>1, <2>3, ReplyKeeps
<1>4. CASE o # "denied"
  <2> DEFINE r == RuntimeAfter(o)
  <2>1. /\ disk' = [disk EXCEPT !.runtime = r] /\ mem' = [mem EXCEPT !.runtime = r]
        /\ step' = [Sent EXCEPT !.runtime = r]
    BY <1>4 DEF Ask, Persist
  <2>2. r \in Runtimes
    BY <1>4, OutcomeFacts
  <2> HIDE DEF r
  <2>3. step' \in StepStates /\ step'.end = step.end
    BY <1>1, <2>1, <2>2, SentStep
  <2> QED BY <1>1, <1>2, <2>1, <2>2, <2>3, ReplyKeeps
<1> QED BY <1>3, <1>4

LEMMA AskUnsavedKeeps ==
    ASSUME IInv, NEW o \in Outcomes \cup {"answer"}, AskUnsaved(o)
    PROVE  IInv' /\ Recorded
<1> DEFINE r == RuntimeAfter(o)
<1>1. /\ AtBattery /\ step.left > 0 /\ Reply("progress") /\ o # "denied" /\ mem' = mem
      /\ step' = [Sent EXCEPT !.runtime = r]
      /\ journal' = journal /\ torn' = torn /\ world' = world
      /\ disk' \in {disk, [disk EXCEPT !.runtime = r]}
  BY DEF AskUnsaved, Unsaved, Sends
<1>2. r \in Runtimes
  BY <1>1, OutcomeFacts
<1> HIDE DEF r
<1>3. step' \in StepStates /\ step'.end = step.end
  BY <1>1, <1>2, SentStep
<1> QED BY <1>1, <1>2, <1>3, ReplyKeeps

\* The record of the battery is written; with an answer it is evidence.
LEMMA RecordFacts ==
    ASSUME IInv, pc \in JobPcs, NEW ok \in BOOLEAN
    PROVE  LET es == <<RecordOf(job.f, job.dig, job.b, ok)>>
           IN  /\ es \in Seq(Event) /\ Len(es) = 1 /\ Honest(es)
               /\ es[1] = RecordOf(job.f, job.dig, job.b, ok)
<1>1. job.f \in Files /\ job.dig \in Nat /\ job.b \in Nat
  BY JobFacts
<1>2. RecordOf(job.f, job.dig, job.b, ok) \in Event /\ RecordOf(job.f, job.dig, job.b, ok).t # "file"
  BY <1>1 DEF RecordOf, Event
<1> QED BY <1>2, OnePlain

LEMMA JobFails ==
    ASSUME IInv, pc \in JobPcs, NEW es \in Seq(Event), Honest(es),
           EmitFull(es, Uncounted) \/ EmitFails(es, Uncounted), world' = world
    PROVE  IInv' /\ Recorded
<1>1. Uncounted = (IF pc \in JobPcs THEN Uncounted ELSE mem) /\ pc # "idle"
  BY JobFacts
<1> QED BY <1>1, FailureKeeps

\* The record is written and the assessment goes on.
LEMMA RecordedKeeps ==
    ASSUME IInv, pc \in JobPcs, pc' \in JobPcs \ {"record"}, world' = world, NEW ok \in BOOLEAN,
           NEW es \in Seq(Event), Len(es) = 1, Honest(es),
           es[1] = RecordOf(job.f, job.dig, job.b, ok),
           Emitted(es), step' = [step EXCEPT !.end = NewEnd(es)], mem' = mem,
           job' \in Jobs, job'.f = job.f, job'.dig = job.dig, job'.prior = job.prior,
           job'.b = job.b \/ (job'.b = job.b + 1 /\ ok = TRUE),
           pc' \in {"battery", "locate", "located"} => job'.err = "none",
           pc' = "cover" => job'.err # "none"
    PROVE  IInv' /\ Recorded
<1>1. Len(journal) + Len(es) <= JournalCap /\ journal' = journal \o es /\ 1 \in 1 .. Len(es)
  BY DEF Emitted
<1>2. /\ Carried(mem, 1, Told, AssessedFiles, Len(journal), disk)
      /\ Undecided = 1 /\ pc # "idle" /\ JobSound /\ job.b \in Nat
  BY JobFacts
<1>3. /\ Carried(mem, 1, Told', AssessedFiles', Len(journal'), disk)
      /\ Len(journal') = Len(journal) + Len(es) /\ Grows(es, Len(es))
  BY <1>1, <1>2, EmittedCarried
<1>4. /\ \A f, x, q : HasRecord(f, x, q) => HasRecord(f, x, q)'
      /\ ok = TRUE =>
            \E i \in 1 .. Len(journal') : journal'[i] = RecordOf(job.f, job.dig, job.b, TRUE)
  <2>1. Len(es) \in 0 .. Len(es)
    BY <1>1
  <2>2. \A f, x, q : HasRecord(f, x, q) => HasRecord(f, x, q)'
    BY <1>1, <1>3, <2>1, GrowthKeeps DEF IInv
  <2>3. \A f, x, q : es[1] = RecordOf(f, x, q, TRUE) => HasRecord(f, x, q)'
    BY <1>1, <1>3, NewlyTold DEF IInv
  <2>4. ASSUME ok = TRUE
        PROVE  \E i \in 1 .. Len(journal') : journal'[i] = RecordOf(job.f, job.dig, job.b, TRUE)
    BY <2>3, <2>4 DEF HasRecord
  <2> QED BY <2>2, <2>4
<1>5. step' \in StepStates /\ step'.end <= Len(journal) + Len(es)
  <2>1. /\ step.examined \in Nat /\ step.loaded \in BOOLEAN
        /\ step' = [step EXCEPT !.loaded = step.loaded, !.end = NewEnd(es),
                                !.examined = step.examined]
    BY IInvFacts DEF StepStates
  <2> QED BY <1>1, <2>1, EndsAt
<1>6. JobSound'
  <2>1. (\A q \in job.prior : HasRecord(job.f, job.dig, q))'
    <3>1. \A q \in job.prior : HasRecord(job.f, job.dig, q)
      BY <1>2 DEF JobSound
    <3> QED BY <1>4, <3>1 DEF HasRecord, RecordOf
  <2>2. (\A q \in 1 .. job.b - 1 : HasRecord(job.f, job.dig, q))'
    <3>1. \A q \in 1 .. job.b - 1 : HasRecord(job.f, job.dig, q)
      BY <1>2 DEF JobSound
    <3>2. \A q \in 1 .. job'.b - 1 : q \in 1 .. job.b - 1 \/ (q = job.b /\ ok = TRUE)
      BY <1>2
    <3>3. \A q \in 1 .. job'.b - 1 :
             \E i \in 1 .. Len(journal') : journal'[i] = RecordOf(job.f, job.dig, q, TRUE)
      BY <1>4, <3>1, <3>2 DEF HasRecord
    <3> QED BY <3>3 DEF HasRecord
  <2>3. mem'.pending # <<>> /\ job'.f = Head(mem'.pending)
    BY <1>2 DEF JobSound
  <2> QED BY <2>1, <2>2, <2>3 DEF JobSound
<1>7. Undecided' = 1
  BY DEF Undecided
<1> QED BY <1>3, <1>5, <1>6, <1>7, EmissionKeeps

LEMMA SaveRecordKeeps ==
    ASSUME IInv, SaveRecord
    PROVE  IInv' /\ Recorded
<1> DEFINE es == <<RecordOf(job.f, job.dig, job.b, job.ok)>>
<1>1. pc = "record" /\ world' = world
  BY DEF SaveRecord
<1>2. /\ pc \in JobPcs /\ job \in Jobs /\ job.ok = (job.err = "none") /\ job.ok \in BOOLEAN
      /\ job.b \in Nat /\ job.f \in Files
  <2>1. pc \in JobPcs /\ job \in Jobs /\ JobSound
    BY <1>1, JobFacts DEF JobPcs
  <2> QED BY <1>1, <2>1 DEF JobSound, Jobs
<1>3. es \in Seq(Event) /\ Len(es) = 1 /\ Honest(es) /\ es[1] = RecordOf(job.f, job.dig, job.b, job.ok)
  BY <1>2, RecordFacts
<1>4. \/ /\ Emitted(es) /\ step' = [step EXCEPT !.end = NewEnd(es)] /\ mem' = mem
         /\ \/ job.err # "none" /\ pc' = "cover" /\ job' = job
            \/ job.err = "none" /\ pc' = "locate" /\ job' = job
            \/ job.err = "none" /\ pc' = "battery" /\ job' = [job EXCEPT !.b = job.b + 1, !.ok = FALSE]
      \/ EmitFull(es, Uncounted) \/ EmitFails(es, Uncounted)
  BY DEF SaveRecord
<1> HIDE DEF es
<1>5. CASE EmitFull(es, Uncounted) \/ EmitFails(es, Uncounted)
  <2>1. pc \in JobPcs /\ es \in Seq(Event) /\ Honest(es)
    BY <1>2, <1>3
  <2>2. world' = world
    BY <1>1
  <2> QED BY ONLY IInv, <1>5, <2>1, <2>2, JobFails
<1>6. CASE Emitted(es) /\ step' = [step EXCEPT !.end = NewEnd(es)] /\ mem' = mem
  <2>1. CASE job.err # "none" /\ pc' = "cover" /\ job' = job
    <3>1. pc' \in JobPcs \ {"record"}
      BY <2>1 DEF JobPcs
    <3>2. /\ job' \in Jobs /\ job'.f = job.f /\ job'.dig = job.dig /\ job'.prior = job.prior
          /\ job'.b = job.b /\ job'.err # "none" /\ pc' = "cover"
      BY <1>2, <2>1
    <3>3. pc \in JobPcs /\ world' = world /\ job.ok \in BOOLEAN
      BY <1>1, <1>2
    <3> QED BY ONLY IInv, <1>3, <1>6, <3>1, <3>2, <3>3, RecordedKeeps
  <2>2. CASE job.err = "none" /\ pc' = "locate" /\ job' = job
    <3>1. pc' \in JobPcs \ {"record"}
      BY <2>2 DEF JobPcs
    <3> QED BY <1>1, <1>2, <1>3, <1>6, <2>2, <3>1, RecordedKeeps
  <2>3. CASE job.err = "none" /\ pc' = "battery" /\ job' = [job EXCEPT !.b = job.b + 1, !.ok = FALSE]
    <3>1. pc' \in JobPcs \ {"record"}
      BY <2>3 DEF JobPcs
    <3>2. /\ job' \in Jobs /\ job'.f = job.f /\ job'.dig = job.dig /\ job'.prior = job.prior
          /\ job'.b = job.b + 1 /\ job'.err = "none"
      <4>1. job.b + 1 \in Nat /\ job.err = "none"
        BY <1>2, <2>3
      <4> QED BY <1>2, <2>3, <4>1, NextBattery
    <3>3. job.ok = TRUE
      BY <1>2, <2>3
    <3> QED BY <1>1, <1>2, <1>3, <1>6, <2>3, <3>1, <3>2, <3>3, RecordedKeeps
  <2>4. \/ job.err # "none" /\ pc' = "cover" /\ job' = job
        \/ job.err = "none" /\ pc' = "locate" /\ job' = job
        \/ job.err = "none" /\ pc' = "battery" /\ job' = [job EXCEPT !.b = job.b + 1, !.ok = FALSE]
        \/ EmitFull(es, Uncounted) \/ EmitFails(es, Uncounted)
    BY <1>4
  <2> QED BY <1>5, <2>1, <2>2, <2>3, <2>4
<1> QED BY <1>4, <1>5, <1>6

LEMMA SaveLocatedKeeps ==
    ASSUME IInv, SaveLocated
    PROVE  IInv' /\ Recorded
<1> DEFINE es == <<RecordOf(job.f, job.dig, job.b, TRUE)>>
<1>1. pc = "located" /\ world' = world
  BY DEF SaveLocated
<1>2. pc \in JobPcs /\ job \in Jobs /\ job.err = "none" /\ job.b \in Nat
  <2>1. pc \in JobPcs /\ job \in Jobs /\ JobSound /\ job.b \in Nat
    BY <1>1, JobFacts DEF JobPcs
  <2> QED BY <1>1, <2>1 DEF JobSound
<1>3. es \in Seq(Event) /\ Len(es) = 1 /\ Honest(es) /\ es[1] = RecordOf(job.f, job.dig, job.b, TRUE)
  BY <1>2, RecordFacts
<1>4. \/ /\ Emitted(es) /\ step' = [step EXCEPT !.end = NewEnd(es)] /\ mem' = mem
         /\ pc' = "battery" /\ job' = [job EXCEPT !.b = job.b + 1, !.ok = FALSE]
      \/ EmitFull(es, Uncounted) \/ EmitFails(es, Uncounted)
  BY DEF SaveLocated
<1> HIDE DEF es
<1>5. CASE EmitFull(es, Uncounted) \/ EmitFails(es, Uncounted)
  BY <1>1, <1>2, <1>3, <1>5, JobFails
<1>6. CASE /\ Emitted(es) /\ step' = [step EXCEPT !.end = NewEnd(es)] /\ mem' = mem
           /\ pc' = "battery" /\ job' = [job EXCEPT !.b = job.b + 1, !.ok = FALSE]
  <2>1. pc' \in JobPcs \ {"record"} /\ TRUE \in BOOLEAN
    BY <1>6 DEF JobPcs
  <2>2. /\ job' \in Jobs /\ job'.f = job.f /\ job'.dig = job.dig /\ job'.prior = job.prior
        /\ job'.b = job.b + 1 /\ job'.err = "none"
    <3>1. job.b + 1 \in Nat
      BY <1>2
    <3> QED BY <1>2, <1>6, <3>1, NextBattery
  <2>3. pc' \in {"battery", "locate", "located"} => job'.err = "none"
    BY <2>2
  <2>4. pc' = "cover" => job'.err # "none"
    BY <1>6
  <2> QED BY <1>1, <1>2, <1>3, <1>6, <2>1, <2>2, <2>3, <2>4, RecordedKeeps
<1> QED BY <1>4, <1>5, <1>6

LEMMA LocateKeeps ==
    ASSUME IInv, Locate
    PROVE  IInv' /\ Recorded
<1>1. /\ pc = "locate" /\ pc' = "located" /\ job' = job
      /\ journal' = journal /\ torn' = torn /\ world' = world
  BY DEF Locate
<1>2. /\ pc \in JobPcs /\ pc' \in JobPcs /\ JobSound /\ job \in Jobs
  BY <1>1, JobFacts DEF JobPcs
<1>3. job'.err = "none" /\ \A q \in 1 .. job'.b - 1 : HasRecord(job.f, job.dig, q)
  BY <1>1, <1>2 DEF JobSound
<1>4. /\ step' \in StepStates /\ step'.end = step.end
      /\ disk' \in {disk} \cup {[disk EXCEPT !.runtime = r] : r \in Runtimes}
      /\ mem' \in {mem} \cup {[mem EXCEPT !.runtime = r] : r \in Runtimes}
  <2>1. CASE step' = step /\ disk' = disk /\ mem' = mem
    BY <2>1, StepAsIs
  <2>2. CASE step' = [step EXCEPT !.calls = step.calls + 1] /\ disk' = disk /\ mem' = mem
    <3>1. step \in StepStates /\ step.calls + 1 \in Nat
      BY StepAsIs
    <3> QED BY <2>2, <3>1 DEF StepStates
  <2>3. CASE step.left > 0 /\ step' = Sent /\ disk' = disk /\ mem' = mem
    <3>1. "ok" \in Runtimes
      BY DEF Runtimes
    <3> QED BY <2>3, <3>1, SentStep
  <2>4. CASE \E o \in Outcomes \cup {"answer"} :
                /\ o # "denied" /\ step.left > 0
                /\ Persist(RuntimeAfter(o)) /\ step' = [Sent EXCEPT !.runtime = RuntimeAfter(o)]
    <3>1. PICK o \in Outcomes \cup {"answer"} :
                /\ o # "denied" /\ step.left > 0
                /\ Persist(RuntimeAfter(o)) /\ step' = [Sent EXCEPT !.runtime = RuntimeAfter(o)]
      BY <2>4
    <3> DEFINE r == RuntimeAfter(o)
    <3>2. r \in Runtimes
      BY <3>1, OutcomeFacts
    <3>3. /\ disk' = [disk EXCEPT !.runtime = r] /\ mem' = [mem EXCEPT !.runtime = r]
          /\ step' = [Sent EXCEPT !.runtime = r]
      BY <3>1 DEF Persist
    <3> HIDE DEF r
    <3>4. step' \in StepStates /\ step'.end = step.end
      BY <3>1, <3>2, <3>3, SentStep
    <3> QED BY <3>2, <3>3, <3>4
  <2>5. \/ step' = step /\ disk' = disk /\ mem' = mem
        \/ step' = [step EXCEPT !.calls = step.calls + 1] /\ disk' = disk /\ mem' = mem
        \/ step.left > 0 /\ step' = Sent /\ disk' = disk /\ mem' = mem
        \/ \E o \in Outcomes \cup {"answer"} :
              /\ o # "denied" /\ step.left > 0
              /\ Persist(RuntimeAfter(o)) /\ step' = [Sent EXCEPT !.runtime = RuntimeAfter(o)]
    BY DEF Locate
  <2> QED BY <2>1, <2>2, <2>3, <2>4, <2>5
<1>5. pc' = "located"
  BY <1>1
<1> QED BY <1>1, <1>2, <1>3, <1>4, JobQuiet

\* Steps of an assessment that end the step.
LEMMA JobStops ==
    ASSUME IInv, pc \in JobPcs, pc' = "save", mem' = Uncounted,
           journal' = journal, torn' = torn, world' = world,
           disk' \in {disk} \cup {[disk EXCEPT !.runtime = r] : r \in Runtimes},
           step' \in StepStates, step'.end = step.end
    PROVE  IInv' /\ Recorded
<1>1. pc # "idle" /\ mem' = IF pc \in JobPcs THEN Uncounted ELSE mem
  BY JobFacts
<1>2. Carried(mem', 0, Told, AssessedFiles, Len(journal), disk)
  BY <1>1, UncountedCarried
<1>3. Undecided' = 0 /\ pc' \notin JobPcs /\ torn' \in BOOLEAN
  BY DEF Undecided, JobPcs, IInv, TypeOK
<1>4. step'.end <= Len(journal)
  BY IInvFacts
<1> QED BY <1>2, <1>3, <1>4, QuietKeeps DEF Runtimes

LEMMA LocateUnsavedKeeps ==
    ASSUME IInv, NEW o \in Outcomes \cup {"answer"}, LocateUnsaved(o)
    PROVE  IInv' /\ Recorded
<1> DEFINE r == RuntimeAfter(o)
<1>1. /\ pc = "locate" /\ step.left > 0 /\ pc' = "save" /\ mem' = Uncounted /\ o # "denied"
      /\ step' = [Sent EXCEPT !.runtime = r, !.err = "store"]
      /\ journal' = journal /\ torn' = torn /\ world' = world
      /\ disk' \in {disk, [disk EXCEPT !.runtime = r]}
  BY DEF LocateUnsaved, Unsaved
<1>2. r \in Runtimes
  BY <1>1, OutcomeFacts
<1> HIDE DEF r
<1>3. step' \in StepStates /\ step'.end = step.end
  <2>1. step \in StepStates /\ step.left - 1 \in Nat /\ step.calls + 1 \in Nat
    BY <1>1, StepAsIs
  <2>2. Sent \in StepStates /\ Sent.end = step.end
    BY <2>1 DEF Sent, StepStates
  <2> DEFINE z == Sent
  <2>3. z \in StepStates /\ z.end = step.end /\ step' = [z EXCEPT !.runtime = r, !.err = "store"]
    BY <1>1, <2>2
  <2> HIDE DEF z
  <2> QED BY <1>2, <2>3 DEF StepStates, Runtimes
<1>4. pc \in JobPcs
  BY <1>1 DEF JobPcs
<1> QED BY <1>1, <1>2, <1>3, <1>4, JobStops

LEMMA GiveUpKeeps ==
    ASSUME IInv, GiveUp
    PROVE  IInv' /\ Recorded
<1>1. /\ pc = "cover" /\ pc' = "save" /\ mem' = Uncounted
      /\ step' = [step EXCEPT !.err = "store"]
      /\ journal' = journal /\ torn' = torn /\ world' = world /\ disk' = disk
  BY DEF GiveUp, Stop, durable
<1>2. pc \in JobPcs
  BY <1>1 DEF JobPcs
<1>3. step' \in StepStates /\ step'.end = step.end
  BY <1>1, StopStep
<1> QED BY <1>1, <1>2, <1>3, JobStops

LEMMA AssessmentEndsKeeps ==
    ASSUME IInv, AssessmentEnds
    PROVE  IInv' /\ Recorded
<1>1. /\ pc = "battery" /\ job.b > Batteries[job.f] /\ pc' = "cover" /\ job' = job
      /\ journal' = journal /\ torn' = torn /\ disk' = disk /\ world' = world
      /\ mem' = mem /\ step' = step
  BY DEF AssessmentEnds, durable
<1>2. pc \in JobPcs /\ pc' \in JobPcs /\ JobSound /\ job \in Jobs
  BY <1>1, JobFacts DEF JobPcs
<1>3. \A q \in 1 .. job'.b - 1 : HasRecord(job.f, job.dig, q)
  BY <1>1, <1>2 DEF JobSound
<1>4. step' \in StepStates /\ step'.end = step.end
  BY <1>1, StepAsIs
<1> QED BY <1>1, <1>2, <1>3, <1>4, JobQuiet

\* What is written about an assessed file is honest: it is called complete
\* only after the last battery's record.
LEMMA CoverageHonest ==
    ASSUME IInv, pc = "cover"
    PROVE  LET es == <<CoverFile(job.f, job.dig, Disposition(job.err))>>
           IN  /\ es \in Seq(Event) /\ Len(es) = 1 /\ Honest(es)
               /\ es[1].t = "file" /\ es[1].ref = job.f
               /\ es[1].disp = Disposition(job.err)
<1> DEFINE w == Disposition(job.err)
           ev == CoverFile(job.f, job.dig, w)
<1>1. /\ job \in Jobs /\ JobSound /\ job.b \in Nat /\ Batteries[job.f] \in Nat
      /\ job.f \in Files /\ job.dig \in Nat
  <2>1. pc \in JobPcs
    BY DEF JobPcs
  <2> QED BY <2>1, JobFacts
<1>2. w \in {"complete", "unknown", "pending"} /\ (w = "complete" => job.err = "none")
  BY DEF Disposition
<1>3. w = "complete" => \A q \in 1 .. Batteries[job.f] : HasRecord(job.f, job.dig, q)
  <2> SUFFICES ASSUME w = "complete", NEW q \in 1 .. Batteries[job.f]
               PROVE  HasRecord(job.f, job.dig, q)
    OBVIOUS
  <2>1. job.b > Batteries[job.f]
    BY <1>1, <1>2 DEF JobSound
  <2>2. q \in 1 .. job.b - 1
    BY <1>1, <2>1
  <2> QED BY <1>1, <2>2 DEF JobSound
<1> HIDE DEF w
<1>4. ev \in Event /\ ev.t = "file" /\ ev.ref = job.f /\ ev.dig = job.dig /\ ev.disp = w
  BY <1>1, <1>2 DEF CoverFile, Event, Closing
<1> HIDE DEF ev
<1>5. <<ev>> \in Seq(Event) /\ Len(<<ev>>) = 1 /\ <<ev>>[1] = ev
  BY <1>4
<1>6. Honest(<<ev>>)
  <2> SUFFICES ASSUME NEW i \in 1 .. Len(<<ev>>), <<ev>>[i].disp = "complete",
                      NEW q \in 1 .. Batteries[<<ev>>[i].ref]
               PROVE  HasRecord(<<ev>>[i].ref, <<ev>>[i].dig, q)
    BY DEF Honest
  <2>1. <<ev>>[i] = ev
    BY <1>5
  <2>2. w = "complete" /\ q \in 1 .. Batteries[job.f]
    BY <1>4, <2>1
  <2>3. HasRecord(job.f, job.dig, q)
    BY <1>3, <2>2
  <2> QED BY <1>4, <2>1, <2>3
<1> QED BY <1>4, <1>5, <1>6 DEF ev, w

\* The assessed file leaves the cursor, as judged or as refused.
LEMMA AssessedLeaves ==
    ASSUME IInv, pc = "cover", world' = world,
           NEW es \in Seq(Event), Len(es) = 1, Honest(es), Emitted(es),
           es[1].t = "file", es[1].ref = job.f, es[1].disp \in Closing,
           NEW x \in {0, 1}, x = 1 => es[1].disp = "complete",
           mem' = [mem EXCEPT !.pending = Tail(mem.pending), !.judged = mem.judged + x,
                              !.skipped = mem.skipped + (1 - x), !.offset = NewEnd(es)],
           step' = [step EXCEPT !.end = NewEnd(es)], pc' = "walk"
    PROVE  IInv' /\ Recorded
<1> DEFINE e == NewEnd(es)
           f == job.f
<1>1. /\ Carried(mem, 1, Told, AssessedFiles, Len(journal), disk)
      /\ Undecided = 1 /\ pc # "idle" /\ JobSound /\ f \in Files
      /\ mem \in Cursors /\ mem.pending \in Seq(Files)
  <2>1. pc \in JobPcs
    BY DEF JobPcs
  <2> QED BY <2>1, JobFacts
<1>2. mem.pending # <<>> /\ f = Head(mem.pending)
  BY <1>1 DEF JobSound
<1>3. Len(journal) + Len(es) <= JournalCap /\ journal' = journal \o es /\ 1 \in 1 .. Len(es)
  BY DEF Emitted
<1>4. /\ Carried(mem, 1, Told', AssessedFiles', Len(journal'), disk)
      /\ Len(journal') = Len(journal) + Len(es)
      /\ Len(journal') \in Nat /\ AssessedFiles' \in SUBSET Files
      /\ AssessedFiles \subseteq AssessedFiles' /\ AssessedFiles \in SUBSET Files
      /\ Grows(es, Len(es))
  BY <1>1, <1>3, EmittedCarried, IInvFacts
<1>5. e \in 0 .. JournalCap /\ e <= Len(journal')
  BY <1>3, <1>4, NewEndFacts
<1>6. f \in Told' /\ (x = 1 => f \in AssessedFiles')
  <2> DEFINE T == Told'  X == AssessedFiles'
  <2>1. es[1].ref \in T /\ (x = 1 => es[1].ref \in X)
    BY <1>3, <1>4, NewlyTold DEF IInv
  <2> HIDE DEF T, X
  <2>2. f \in T /\ (x = 1 => f \in X)
    BY <2>1
  <2> QED BY <2>2 DEF T, X
<1> HIDE DEF e, f
<1>7. /\ mem.judged \in Nat /\ mem.skipped \in Nat /\ mem.seen \in Nat /\ mem.seen <= mem.max
      /\ disk.judged \in Nat /\ mem.judged + x \in Nat /\ mem.skipped + (1 - x) \in Nat
  <2>1. mem.judged \in Nat /\ mem.skipped \in Nat /\ mem.seen \in Nat /\ disk.judged \in Nat
    BY <1>1, IInvFacts DEF Cursors
  <2>2. mem.seen <= mem.max
    BY <1>1 DEF Carried, Kept
  <2> QED BY <2>1, <2>2
<1>8. /\ mem' \in Cursors /\ mem'.offset = e /\ mem'.pending = Tail(mem.pending)
      /\ mem'.stack = mem.stack /\ mem'.dir = mem.dir
      /\ mem'.seen = mem.seen /\ mem'.judged = mem.judged + x
      /\ mem'.skipped = mem.skipped + (1 - x)
      /\ mem'.listed = mem.listed /\ mem'.max = mem.max /\ mem'.status = mem.status
  <2> DEFINE a == mem.judged + x
             b == mem.skipped + (1 - x)
  <2>1. Tail(mem.pending) \in Seq(Files) /\ a \in Nat /\ b \in Nat
    BY <1>1, <1>2, <1>7
  <2>2. mem' = [mem EXCEPT !.pending = Tail(mem.pending), !.judged = a, !.skipped = b,
                           !.offset = e]
    BY DEF e
  <2> HIDE DEF a, b
  <2>3. /\ mem' \in Cursors /\ mem'.offset = e /\ mem'.pending = Tail(mem.pending)
        /\ mem'.stack = mem.stack /\ mem'.dir = mem.dir
        /\ mem'.seen = mem.seen /\ mem'.judged = a /\ mem'.skipped = b
        /\ mem'.listed = mem.listed /\ mem'.max = mem.max /\ mem'.status = mem.status
    BY <1>1, <1>5, <2>1, <2>2 DEF Cursors
  <2> QED BY <2>3 DEF a, b
<1>9. /\ mem'.judged + mem'.skipped = mem.judged + mem.skipped + 1
      /\ mem.judged <= mem'.judged
      /\ mem'.seen + 1 = mem.seen + 1 /\ mem'.seen <= mem'.max
  <2>1. \A u, v \in Nat : (u + x) + (v + (1 - x)) = u + v + 1 /\ u <= u + x
    OBVIOUS
  <2>2. /\ (mem.judged + x) + (mem.skipped + (1 - x)) = mem.judged + mem.skipped + 1
        /\ mem.judged <= mem.judged + x
    BY ONLY <1>7, <2>1, Zenon
  <2>3. mem'.seen = mem.seen /\ mem'.max = mem.max /\ mem.seen <= mem.max
    BY <1>7, <1>8
  <2>4. mem'.judged = mem.judged + x /\ mem'.skipped = mem.skipped + (1 - x)
    BY <1>8
  <2>5. mem'.seen + 1 = mem.seen + 1 /\ mem'.seen <= mem'.max
    BY ONLY <2>3, Zenon
  <2> QED BY ONLY <2>2, <2>4, <2>5, Zenon
<1>10. mem'.judged <= Cardinality(AssessedFiles' \ Ahead(mem'))
  <2> DEFINE X == AssessedFiles  Y == AssessedFiles'  P == Ahead(mem)
  <2>1. Distinct(mem) /\ mem.judged <= Cardinality(X \ P)
    BY <1>1 DEF Carried, Kept
  <2>2. Ahead(mem') = P \ {f} /\ f \in P
    <3>1. mem'.stack = mem.stack /\ mem'.pending = Tail(mem.pending)
      BY <1>8
    <3>2. Ahead(mem') = Ahead(mem) \ {Head(mem.pending)} /\ Head(mem.pending) \in Ahead(mem)
      BY ONLY <1>1, <1>2, <2>1, <3>1, HeadClosed
    <3> QED BY <1>2, <3>2
  <2>3. /\ Cardinality(X \ P) \in Nat /\ Cardinality(Y \ (P \ {f})) \in Nat
        /\ Cardinality(X \ P) <= Cardinality(Y \ (P \ {f}))
    <3>1. P \ {f} \subseteq P /\ X \in SUBSET Files /\ Y \in SUBSET Files /\ X \subseteq Y
      BY <1>4
    <3> HIDE DEF X, Y, P
    <3> QED BY <3>1, FewerAhead
  <2>4. x = 1 => Cardinality(X \ P) + 1 <= Cardinality(Y \ (P \ {f}))
    <3>1. X \in SUBSET Files /\ Y \in SUBSET Files /\ X \subseteq Y /\ f \in Files
          /\ (x = 1 => f \in Y)
      BY <1>1, <1>4, <1>6
    <3> HIDE DEF X, Y, P
    <3> QED BY <2>2, <3>1, OneMoreAssessed
  <2> DEFINE i == Cardinality(X \ P)
             j == Cardinality(Y \ (P \ {f}))
             k == mem.judged
  <2>5. i \in Nat /\ j \in Nat /\ k \in Nat /\ k <= i /\ i <= j /\ (x = 1 => i + 1 <= j)
    BY <1>7, <2>1, <2>3, <2>4
  <2>6. Cardinality(AssessedFiles' \ Ahead(mem')) = j /\ mem'.judged = k + x
    BY <1>8, <2>2
  <2> HIDE DEF i, j, k
  <2>7. k + x <= j
    BY ONLY <2>5, x \in {0, 1}
  <2> QED BY <2>6, <2>7
<1>11. Carried(mem', 0, Told', AssessedFiles', Len(journal'), disk)
  <2> DEFINE m == mem'  T == Told'  X == AssessedFiles'  n == Len(journal')
  <2>1. /\ Carried(mem, 1, T, X, n, disk) /\ n \in Nat /\ X \in SUBSET Files
        /\ Head(mem.pending) \in T /\ m.offset <= n
    BY <1>2, <1>4, <1>5, <1>6, <1>8
  <2>2. m.judged <= Cardinality(X \ Ahead(m)) /\ 1 \in {0, 1}
    BY <1>10
  <2> HIDE DEF T, X, n
  <2>3. Carried(m, 0, T, X, n, disk)
    BY <1>2, <1>7, <1>8, <1>9, <2>1, <2>2, HeadDecided
  <2> QED BY <2>3 DEF T, X, n
<1>12. step' \in StepStates /\ step'.end <= Len(journal) + Len(es)
  <2>1. /\ step.examined \in Nat /\ step.loaded \in BOOLEAN
        /\ step' = [step EXCEPT !.loaded = step.loaded, !.end = NewEnd(es),
                                !.examined = step.examined]
    BY IInvFacts DEF StepStates
  <2> QED BY <1>3, <2>1, EndsAt
<1>13. Undecided' = 0 /\ pc' \notin JobPcs
  BY DEF Undecided, JobPcs
<1> QED BY <1>11, <1>12, <1>13, EmissionKeeps

\* The assessment was interrupted: the file is taken back, the step ends.
LEMMA InterruptedKeeps ==
    ASSUME IInv, pc = "cover", world' = world,
           NEW es \in Seq(Event), Len(es) = 1, Honest(es), Emitted(es),
           NEW st \in {mem.status, "judge_unavailable"},
           NEW e \in {"none", "full", "store", "rules", "other"},
           Stop(e, [Uncounted EXCEPT !.status = st])
    PROVE  IInv' /\ Recorded
<1>1. /\ mem' = [Uncounted EXCEPT !.status = st] /\ step' = [step EXCEPT !.err = e]
      /\ pc' = "save" /\ journal' = journal \o es /\ Len(journal) + Len(es) <= JournalCap
  BY DEF Stop, Emitted
<1>2. pc \in JobPcs /\ pc # "idle"
  BY DEF JobPcs
<1>3. Carried(Uncounted, 0, Told, AssessedFiles, Len(journal), disk)
  BY <1>2, UncountedCarried
<1>4. Grows(es, Len(es)) /\ Len(es) \in 0 .. Len(es) /\ Len(es) \in Nat
  BY <1>1, EmittedGrows
<1>5. Carried(Uncounted, 0, Told', AssessedFiles', Len(journal'), disk)
  BY <1>1, <1>3, <1>4, CarriedOn
<1>6. Len(journal') \in Nat
  BY <1>1, <1>2, EmittedCarried
<1>7. Carried(mem', 0, Told', AssessedFiles', Len(journal'), disk)
  <2> DEFINE u == Uncounted
             m == mem'
             n == Len(journal')
  <2>1. u \in Cursors /\ u.offset <= n /\ u.seen <= u.max
    BY <1>5 DEF Carried, Kept
  <2>2. st \in {"running", "done", "budget_exhausted", "judge_unavailable"}
        /\ (st = "done" => u.stack = <<>> /\ u.pending = <<>>) /\ st \in {u.status, "judge_unavailable"}
    <3>1. u.status = mem.status
      BY <1>2, JobFacts DEF Uncounted, Cursors
    <3> QED BY <1>5, <3>1 DEF Carried
  <2>3. m = [u EXCEPT !.status = st] /\ Carried(u, 0, Told', AssessedFiles', n, disk)
    BY <1>1, <1>5
  <2> HIDE DEF u, n
  <2>4. /\ m \in Cursors /\ m.status = st /\ m.offset = u.offset /\ m.stack = u.stack
        /\ m.dir = u.dir /\ m.pending = u.pending /\ m.judged = u.judged
        /\ m.skipped = u.skipped /\ m.listed = u.listed /\ m.max = u.max
        /\ m.seen = u.seen
    <3> HIDE DEF m
    <3>1. m = [u EXCEPT !.status = st] /\ u \in Cursors
      BY <2>1, <2>3
    <3>2. st \in Unfinished \cup {"done", "budget_exhausted", "storage_cap", "request_blocked"}
      BY ONLY <2>2 DEF Unfinished
    <3> QED BY ONLY <3>1, <3>2 DEF Cursors
  <2>5. m.offset <= n /\ m.seen + 0 = u.seen + 0 /\ m.seen <= m.max /\ n \in Nat
    BY <1>6, <2>1, <2>4 DEF n
  <2> HIDE DEF m
  <2>6. Carried(m, 0, Told', AssessedFiles', n, disk)
    <3>1. /\ m.status \in {"running", "done", "budget_exhausted", "judge_unavailable"}
          /\ m.status = "done" => m.stack = <<>> /\ m.pending = <<>>
      BY ONLY <2>2, <2>4
    <3>2. 0 \in {0, 1} /\ Carried(u, 0, Told', AssessedFiles', n, disk)
      BY ONLY <2>3
    <3> QED BY ONLY <2>4, <2>5, <3>1, <3>2, SameWork
  <2> QED BY <2>6 DEF n, m
<1>8. step' \in StepStates /\ step'.end <= Len(journal)
  BY <1>1, StopStep
<1>9. step'.end <= Len(journal) + Len(es)
  <2>1. step'.end \in Nat /\ Len(journal) \in Nat
    BY <1>8, IInvFacts DEF StepStates
  <2> QED BY <1>4, <1>8, <2>1
<1>10. Undecided' = 0 /\ pc' \notin JobPcs
  BY <1>1 DEF Undecided, JobPcs
<1> QED BY <1>1, <1>7, <1>8, <1>9, <1>10, EmissionKeeps

LEMMA CoverAssessedKeeps ==
    ASSUME IInv, CoverAssessed
    PROVE  IInv' /\ Recorded
<1> DEFINE es == <<CoverFile(job.f, job.dig, Disposition(job.err))>>
           e == NewEnd(es)
<1>1. pc = "cover" /\ world' = world /\ job.err # "progress"
  BY DEF CoverAssessed
<1>2. /\ es \in Seq(Event) /\ Len(es) = 1 /\ Honest(es)
      /\ es[1].t = "file" /\ es[1].ref = job.f /\ es[1].disp = Disposition(job.err)
  BY <1>1, CoverageHonest
<1>3. \/ /\ Emitted(es)
         /\ \/ /\ job.err = "none"
               /\ mem' = Commit([mem EXCEPT !.pending = Tail(@), !.judged = @ + 1], es)
               /\ step' = [step EXCEPT !.end = e] /\ pc' = "walk"
            \/ /\ job.err = "refused" /\ mem' = Close(mem, es)
               /\ step' = [step EXCEPT !.end = e] /\ pc' = "walk"
            \/ Stop("none", [Uncounted EXCEPT !.status = "judge_unavailable"])
            \/ Stop("other", Uncounted)
      \/ EmitFull(es, Uncounted) \/ EmitFails(es, Uncounted)
  BY DEF CoverAssessed
<1>4. pc \in JobPcs /\ mem \in Cursors /\ mem.judged \in Nat /\ mem.skipped \in Nat
  <2>1. pc \in JobPcs
    BY <1>1 DEF JobPcs
  <2> QED BY <2>1, JobFacts DEF Cursors
<1> HIDE DEF es
<1>5. CASE EmitFull(es, Uncounted) \/ EmitFails(es, Uncounted)
  BY <1>1, <1>2, <1>4, <1>5, JobFails
<1>6. CASE /\ Emitted(es) /\ job.err = "none"
           /\ mem' = Commit([mem EXCEPT !.pending = Tail(@), !.judged = @ + 1], es)
           /\ step' = [step EXCEPT !.end = e] /\ pc' = "walk"
  <2>1. es[1].disp = "complete" /\ es[1].disp \in Closing
    BY <1>2, <1>6 DEF Disposition, Closing
  <2>2. mem.skipped = mem.skipped + (1 - 1)
    BY <1>4
  <2>3. mem' = [mem EXCEPT !.pending = Tail(mem.pending), !.judged = mem.judged + 1,
                           !.offset = e]
    BY <1>4, <1>6 DEF Commit, Cursors
  <2>4. mem' = [mem EXCEPT !.pending = Tail(mem.pending), !.judged = mem.judged + 1,
                           !.skipped = mem.skipped + (1 - 1), !.offset = NewEnd(es)]
    <3> HIDE DEF e
    <3>1. [mem EXCEPT !.pending = Tail(mem.pending), !.judged = mem.judged + 1, !.offset = e]
            = [mem EXCEPT !.pending = Tail(mem.pending), !.judged = mem.judged + 1,
                          !.skipped = mem.skipped, !.offset = e]
      BY <1>4 DEF Cursors
    <3> QED BY <2>2, <2>3, <3>1 DEF e
  <2>5. 1 \in {0, 1}
    OBVIOUS
  <2>6. Emitted(es) /\ step' = [step EXCEPT !.end = NewEnd(es)] /\ pc' = "walk"
    BY <1>6
  <2> QED BY <1>1, <1>2, <2>1, <2>4, <2>5, <2>6, AssessedLeaves
<1>7. CASE /\ Emitted(es) /\ job.err = "refused" /\ mem' = Close(mem, es)
           /\ step' = [step EXCEPT !.end = e] /\ pc' = "walk"
  <2>1. es[1].disp = "unknown" /\ es[1].disp \in Closing
    BY <1>2, <1>7 DEF Disposition, Closing
  <2>2. mem.judged = mem.judged + 0 /\ 1 = 1 - 0
    BY <1>4
  <2>3. mem' = [mem EXCEPT !.pending = Tail(mem.pending), !.skipped = mem.skipped + 1,
                           !.offset = e]
    BY <1>4, <1>7 DEF Close, Commit, Cursors
  <2>4. mem' = [mem EXCEPT !.pending = Tail(mem.pending), !.judged = mem.judged + 0,
                           !.skipped = mem.skipped + (1 - 0), !.offset = NewEnd(es)]
    <3> HIDE DEF e
    <3>1. [mem EXCEPT !.pending = Tail(mem.pending), !.skipped = mem.skipped + 1, !.offset = e]
            = [mem EXCEPT !.pending = Tail(mem.pending), !.judged = mem.judged,
                          !.skipped = mem.skipped + 1, !.offset = e]
      BY <1>4 DEF Cursors
    <3> QED BY <2>2, <2>3, <3>1 DEF e
  <2>5. 0 \in {0, 1} /\ 0 # 1
    OBVIOUS
  <2>6. Emitted(es) /\ step' = [step EXCEPT !.end = NewEnd(es)] /\ pc' = "walk"
    BY <1>7
  <2> QED BY <1>1, <1>2, <2>1, <2>4, <2>5, <2>6, AssessedLeaves
<1>8. CASE Emitted(es) /\ Stop("none", [Uncounted EXCEPT !.status = "judge_unavailable"])
  BY <1>1, <1>2, <1>8, InterruptedKeeps
<1>9. CASE Emitted(es) /\ Stop("other", Uncounted)
  <2>1. Uncounted = [Uncounted EXCEPT !.status = mem.status]
    BY <1>4 DEF Uncounted, Cursors
  <2>2. Stop("other", [Uncounted EXCEPT !.status = mem.status])
    BY <1>9, <2>1
  <2> QED BY <1>1, <1>2, <1>9, <2>2, InterruptedKeeps
<1> QED BY <1>3, <1>5, <1>6, <1>7, <1>8, <1>9

-----------------------------------------------------------------------------
(* The end of a step, and what happens from outside                          *)

\* What saveScan saves.
LEMMA SavedFacts ==
    ASSUME IInv, pc = "save"
    PROVE  /\ Kept(Saved, 0, AssessedFiles, Len(journal))
           /\ Saved.status # "storage_cap" => Whole(Saved, Told)
           /\ disk.status \in Unfinished
           /\ Ahead(Saved) \subseteq Ahead(disk)
           /\ disk.judged <= Saved.judged
           /\ Saved.status = "done" => Ahead(Saved) = {}
<1> DEFINE m == [mem EXCEPT !.status = StatusSaved]
           X == AssessedFiles
           n == Len(journal)
           w == [m EXCEPT !.status = "storage_cap", !.stack = <<>>, !.pending = <<>>]
<1>1. /\ Carried(mem, 0, Told, X, n, disk)
      /\ mem \in Cursors /\ X \in SUBSET Files
  <2>1. pc # "idle" /\ Undecided = 0
    BY DEF Undecided, JobPcs
  <2> QED BY <2>1, IInvFacts DEF IInv, Running
<1>2. Kept(mem, 0, X, n) /\ Whole(mem, Told)
  BY <1>1 DEF Carried
<1>3. StatusSaved \in {"storage_cap", "request_blocked", mem.status}
  BY DEF StatusSaved
<1> HIDE DEF X, n
<1>4. /\ m \in Cursors /\ m.status = StatusSaved /\ m.offset = mem.offset
      /\ m.stack = mem.stack /\ m.dir = mem.dir /\ m.pending = mem.pending
      /\ m.judged = mem.judged /\ m.skipped = mem.skipped /\ m.listed = mem.listed
      /\ m.max = mem.max /\ m.seen = mem.seen
  <2> DEFINE st == StatusSaved
  <2>1. st \in Unfinished \cup {"done", "budget_exhausted", "storage_cap", "request_blocked"}
    BY <1>1, <1>3 DEF Cursors
  <2>2. m = [mem EXCEPT !.status = st]
    OBVIOUS
  <2> HIDE DEF st, m
  <2>3. /\ m \in Cursors /\ m.status = st /\ m.offset = mem.offset
        /\ m.stack = mem.stack /\ m.dir = mem.dir /\ m.pending = mem.pending
        /\ m.judged = mem.judged /\ m.skipped = mem.skipped /\ m.listed = mem.listed
        /\ m.max = mem.max /\ m.seen = mem.seen
    BY <1>1, <2>1, <2>2 DEF Cursors
  <2> QED BY <2>3 DEF st
<1> HIDE DEF m
<1>5. Ahead(m) = Ahead(mem) /\ Distinct(m)
  BY <1>2, <1>4, SameAhead DEF Kept
<1>6. Kept(m, 0, X, n) /\ Whole(m, Told)
  BY <1>2, <1>4, <1>5 DEF Kept, Whole
<1>7. /\ w \in Cursors /\ w.status = "storage_cap" /\ w.offset = mem.offset
      /\ w.stack = <<>> /\ w.dir = mem.dir /\ w.pending = <<>>
      /\ w.judged = mem.judged /\ w.skipped = mem.skipped /\ w.listed = mem.listed
      /\ w.max = mem.max /\ w.seen = mem.seen
  <2>1. <<>> \in Seq(Dirs) /\ <<>> \in Seq(Files)
    OBVIOUS
  <2> QED BY <1>4, <2>1 DEF Cursors
<1> HIDE DEF w
<1>8. Ahead(w) = {} /\ Distinct(w) /\ ToSet(w.pending) = {} /\ Len(w.pending) = 0
  BY <1>7 DEF Ahead, InCursor, Distinct, ToSet
<1>9. mem.judged \in Nat /\ mem.seen \in Nat /\ mem.listed \in Nat /\ mem.pending \in Seq(Files)
  BY <1>1 DEF Cursors
<1>10. Kept(w, 0, X, n)
  <2>1. /\ Cardinality(X \ Ahead(mem)) \in Nat /\ Cardinality(X \ Ahead(w)) \in Nat
        /\ Cardinality(X \ Ahead(mem)) <= Cardinality(X \ Ahead(w))
    BY <1>1, <1>8, FewerAhead
  <2>2. w.judged <= Cardinality(X \ Ahead(w))
    BY <1>2, <1>7, <1>9, <2>1 DEF Kept
  <2>3. w.seen + Len(w.pending) <= w.listed + 0
    <3>1. mem.seen + Len(mem.pending) <= mem.listed + 0
      BY <1>2 DEF Kept
    <3>2. mem.seen <= mem.listed
      BY <1>9, <3>1
    <3> QED BY <1>7, <1>8, <1>9, <3>2
  <2> QED BY <1>2, <1>7, <1>8, <2>2, <2>3 DEF Kept
<1>11. disk.judged <= mem.judged /\ Ahead(mem) \subseteq Ahead(disk) /\ disk.status \in Unfinished
  BY <1>1 DEF Carried
<1>12. m.status = "done" => Ahead(m) = {}
  <2> SUFFICES ASSUME m.status = "done" PROVE Ahead(m) = {}
    OBVIOUS
  <2>1. mem.stack = <<>> /\ mem.pending = <<>>
    BY <1>1, <1>3, <1>4 DEF Carried
  <2> QED BY <1>4, <2>1 DEF Ahead, InCursor, ToSet
<1>13. Saved = IF TooWide(m) THEN w ELSE m
  BY DEF Saved, m, w
<1>14. CASE TooWide(m)
  <2>1. Saved = w
    BY <1>13, <1>14
  <2> QED BY <1>7, <1>8, <1>10, <1>11, <2>1 DEF X, n
<1>15. CASE ~ TooWide(m)
  <2>1. Saved = m
    BY <1>13, <1>15
  <2> QED BY <1>4, <1>5, <1>6, <1>11, <1>12, <2>1 DEF X, n
<1> QED BY <1>14, <1>15

\* The process is idle again; what is on disk is sound.
LEMMA IdleKeeps ==
    ASSUME IInv, pc' = "idle", mem' = NoScan, step' = NoStep,
           journal' = journal, torn' = torn, world' = world,
           Kept(disk', 0, AssessedFiles, Len(journal)),
           disk'.status # "storage_cap" => Whole(disk', Told)
    PROVE  IInv'
<1>1. Told' = Told /\ AssessedFiles' = AssessedFiles /\ Len(journal') = Len(journal)
  BY DEF Told, Accounted, AssessedFiles
<1>2. DiskSound'
  BY <1>1 DEF DiskSound
<1>3. mem' \in Cursors
  <2>1. Root \in Dirs /\ <<Root>> \in Seq(Dirs) /\ <<>> \in Seq(Files) /\ JournalCap \in Nat
    BY ListingAssumption, BudgetAssumption
  <2> QED BY <2>1 DEF NoScan, NewScan, Cursors, Unfinished
<1>4. step' \in StepStates /\ step'.end = 0
  BY DEF NoStep, StepStates
<1>5. TypeOK'
  <2>1. disk' \in Cursors /\ disk'.offset <= Len(journal')
    BY <1>1 DEF Kept
  <2>2. step'.end <= Len(journal')
    BY <1>1, <1>4, IInvFacts
  <2>3. src' \in [Files -> Nat] /\ unusable' \subseteq Dirs
    BY DEF IInv, TypeOK, world
  <2> QED BY <1>3, <2>1, <2>2, <2>3 DEF IInv, TypeOK
<1>6. Log'
  BY DEF IInv, Log, CompleteHasEvidence
<1> QED BY <1>2, <1>4, <1>5, <1>6 DEF IInv, Running, JobPcs

LEMMA DiskSoundFacts ==
    ASSUME IInv
    PROVE  /\ Kept(disk, 0, AssessedFiles, Len(journal))
           /\ disk.status # "storage_cap" => Whole(disk, Told)
  BY DEF IInv, DiskSound

\* The saved progress follows what the journal says.
Advanced ==
    /\ disk.status \in Unfinished
    /\ Ahead(disk') \subseteq Ahead(disk)
    /\ disk'.status # "storage_cap" => Ahead(disk) \ Ahead(disk') \subseteq Told
    /\ disk'.status = "done" => Ahead(disk') = {}
    /\ disk'.judged \in disk.judged .. Cardinality(AssessedFiles)
    /\ Told' = Told /\ AssessedFiles' = AssessedFiles

LEMMA SaveScanKeeps ==
    ASSUME IInv, SaveScan \/ SaveScanFails
    PROVE  IInv' /\ (Recorded \/ Advanced)
<1>1. /\ pc = "save" /\ pc' = "idle" /\ mem' = NoScan /\ step' = NoStep
      /\ journal' = journal /\ torn' = torn /\ world' = world /\ disk' \in {disk, Saved}
  BY DEF SaveScan, SaveScanFails
<1>2. Told' = Told /\ AssessedFiles' = AssessedFiles
  BY <1>1 DEF Told, Accounted, AssessedFiles
<1>3. CASE disk' = disk
  <2>1. Recorded
    BY <1>2, <1>3 DEF Recorded
  <2> QED BY <1>1, <1>3, <2>1, DiskSoundFacts, IdleKeeps
<1>4. CASE disk' = Saved
  <2>1. /\ Kept(Saved, 0, AssessedFiles, Len(journal))
        /\ Saved.status # "storage_cap" => Whole(Saved, Told)
        /\ disk.status \in Unfinished /\ Ahead(Saved) \subseteq Ahead(disk)
        /\ disk.judged <= Saved.judged
        /\ Saved.status = "done" => Ahead(Saved) = {}
    BY <1>1, SavedFacts
  <2>2. IInv'
    BY <1>1, <1>4, <2>1, IdleKeeps
  <2>3. Saved.judged \in disk.judged .. Cardinality(AssessedFiles)
    <3>1. Saved.judged <= Cardinality(AssessedFiles \ Ahead(Saved)) /\ Saved.judged \in Nat
      BY <2>1 DEF Kept, Cursors
    <3>2. /\ Cardinality(AssessedFiles \ Ahead(Saved)) \in Nat
          /\ Cardinality(AssessedFiles \ {}) \in Nat
          /\ Cardinality(AssessedFiles \ Ahead(Saved)) <= Cardinality(AssessedFiles \ {})
      <4>1. AssessedFiles \in SUBSET Files /\ {} \subseteq Ahead(Saved)
        BY IInvFacts
      <4> QED BY <4>1, FewerAhead
    <3>3. AssessedFiles \ {} = AssessedFiles /\ disk.judged \in Nat
      BY IInvFacts DEF Cursors
    <3> QED BY <2>1, <3>1, <3>2, <3>3
  <2>4. Saved.status # "storage_cap" => Ahead(disk) \ Ahead(Saved) \subseteq Told
    BY <2>1 DEF Whole, Ahead
  <2>5. Advanced
    BY <1>2, <1>4, <2>1, <2>3, <2>4 DEF Advanced
  <2> QED BY <2>2, <2>5
<1> QED BY <1>1, <1>3, <1>4

LEMMA CrashKeeps ==
    ASSUME IInv, Crash
    PROVE  IInv' /\ Recorded
<1>1. /\ pc' = "idle" /\ mem' = NoScan /\ step' = NoStep
      /\ journal' = journal /\ torn' = torn /\ world' = world /\ disk' = disk
  BY DEF Crash, durable
<1>2. Recorded
  BY <1>1 DEF Recorded, Told, Accounted, AssessedFiles
<1> QED BY <1>1, <1>2, DiskSoundFacts, IdleKeeps

\* A source is edited, a directory spoilt or repaired, or nothing happens.
LEMMA SourceKeeps ==
    ASSUME IInv, UNCHANGED <<durable, local>>, src' \in [Files -> Nat], unusable' \subseteq Dirs
    PROVE  IInv' /\ Recorded
<1>1. /\ journal' = journal /\ torn' = torn /\ disk' = disk
      /\ pc' = pc /\ mem' = mem /\ step' = step /\ job' = job
  BY DEF durable, local
<1>2. Told' = Told /\ AssessedFiles' = AssessedFiles /\ Len(journal') = Len(journal)
      /\ Undecided' = Undecided
  BY <1>1 DEF Told, Accounted, AssessedFiles, Undecided
<1>3. TypeOK'
  BY <1>1 DEF IInv, TypeOK
<1>4. Log' /\ DiskSound' /\ Running'
  BY <1>1, <1>2 DEF IInv, Log, CompleteHasEvidence, DiskSound, Running
<1>5. ASSUME pc' \in JobPcs PROVE JobSound'
  <2>1. JobSound
    BY <1>1, <1>5 DEF IInv
  <2> QED BY <1>1, <2>1 DEF JobSound, HasRecord, RecordOf
<1>6. Recorded
  BY <1>1, <1>2 DEF Recorded
<1> QED BY <1>1, <1>3, <1>4, <1>5, <1>6 DEF IInv

LEMMA EditSourceKeeps ==
    ASSUME IInv, NEW f \in Files, EditSource(f)
    PROVE  IInv' /\ Recorded
<1>1. /\ src' = [src EXCEPT ![f] = src[f] + 1] /\ unusable' = unusable
      /\ UNCHANGED <<durable, local>>
  BY DEF EditSource
<1>2. src \in [Files -> Nat] /\ unusable \subseteq Dirs
  BY DEF IInv, TypeOK
<1> QED BY <1>1, <1>2, SourceKeeps

LEMMA SpoilRepairKeeps ==
    ASSUME IInv, NEW d \in Dirs, Spoil(d) \/ Repair(d)
    PROVE  IInv' /\ Recorded
<1>1. src' = src /\ unusable' \subseteq unusable \cup {d} /\ UNCHANGED <<durable, local>>
  BY DEF Spoil, Repair
<1>2. src \in [Files -> Nat] /\ unusable \subseteq Dirs
  BY DEF IInv, TypeOK
<1> QED BY <1>1, <1>2, SourceKeeps

LEMMA NextHolds == IInv /\ [Next]_vars => IInv' /\ (Recorded \/ Advanced)
<1> SUFFICES ASSUME IInv, [Next]_vars PROVE IInv' /\ (Recorded \/ Advanced)
  OBVIOUS
<1>1. CASE Work
  <2>1. CASE Finished
    BY <2>1, FinishedKeeps
  <2>2. CASE FileBudget
    BY <2>2, FileBudgetKeeps
  <2>3. CASE ListDir
    BY <2>3, ListDirKeeps
  <2>4. CASE RulesHold
    BY <2>4, RulesHoldKeeps
  <2>5. CASE BudgetEnds
    BY <2>5, BudgetEndsKeeps
  <2>6. CASE SkipFile
    BY <2>6, SkipFileKeeps
  <2>7. CASE StaleFile
    BY <2>7, StaleFileKeeps
  <2>8. CASE BeginFile
    BY <2>8, BeginFileKeeps
  <2>9. CASE Replay
    BY <2>9, ReplayKeeps
  <2>10. CASE NotSent
    BY <2>10, NotSentKeeps
  <2>11. CASE CacheHit
    BY <2>11, CacheHitKeeps
  <2>12. CASE Ask("answer")
    BY <2>12, AskKeeps
  <2>13. CASE SaveRecord
    BY <2>13, SaveRecordKeeps
  <2>14. CASE Locate
    BY <2>14, LocateKeeps
  <2>15. CASE SaveLocated
    BY <2>15, SaveLocatedKeeps
  <2>16. CASE AssessmentEnds
    BY <2>16, AssessmentEndsKeeps
  <2>17. CASE CoverAssessed
    BY <2>17, CoverAssessedKeeps
  <2>18. CASE GiveUp
    BY <2>18, GiveUpKeeps
  <2>19. CASE SaveScan
    BY <2>19, SaveScanKeeps
  <2>20. CASE StartStep
    BY <2>20, StartStepKeeps
  <2>21. CASE ScopeFails
    BY <2>21, ScopeFailsKeeps
  <2> QED
    BY <1>1, <2>1, <2>2, <2>3, <2>4, <2>5, <2>6, <2>7, <2>8, <2>9, <2>10, <2>11, <2>12,
       <2>13, <2>14, <2>15, <2>16, <2>17, <2>18, <2>19, <2>20, <2>21 DEF Work
<1>2. CASE ScopeExcluded
  BY <1>2, ScopeExcludedKeeps
<1>3. CASE \E d \in Dirs : Spoil(d) \/ Repair(d)
  BY <1>3, SpoilRepairKeeps
<1>4. CASE \E o \in Outcomes : Ask(o)
  BY <1>4, AskKeeps
<1>5. CASE \E o \in Outcomes \cup {"answer"} : AskUnsaved(o)
  BY <1>5, AskUnsavedKeeps
<1>6. CASE \E o \in (Outcomes \ {"partial", "invalid"}) \cup {"answer"} : LocateUnsaved(o)
  BY <1>6, LocateUnsavedKeeps
<1>7. CASE LoadFails
  BY <1>7, LoadFailsKeeps
<1>8. CASE SaveScanFails
  BY <1>8, SaveScanKeeps
<1>9. CASE Crash
  BY <1>9, CrashKeeps
<1>10. CASE \E f \in Files : EditSource(f)
  BY <1>10, EditSourceKeeps
<1>11. CASE UNCHANGED vars
  <2>1. UNCHANGED <<durable, local>> /\ src' = src /\ unusable' = unusable
    BY <1>11 DEF vars, world
  <2>2. src' \in [Files -> Nat] /\ unusable' \subseteq Dirs
    BY <2>1 DEF IInv, TypeOK
  <2> QED BY <2>1, <2>2, SourceKeeps
<1> QED
  BY <1>1, <1>2, <1>3, <1>4, <1>5, <1>6, <1>7, <1>8, <1>9, <1>10, <1>11 DEF Next

-----------------------------------------------------------------------------
(* What a scan guarantees                                                    *)

(* The inductive invariant: in every reachable state the saved cursor and    *)
(* the running step's cursor agree with the journal, and the assessment      *)
(* under way has the records of the batteries it has passed.                 *)
THEOREM Invariance == Spec => []IInv
<1>1. IInv /\ [Next]_vars => IInv'
  BY NextHolds
<1> QED BY <1>1, InitHolds, PTL DEF Spec

(* Both cursors stay well formed, and the offset a scan is saved with, from  *)
(* which the next step reads its records, never points beyond the journal.   *)
THEOREM TypeCorrect == Spec => []TypeOK
<1>1. IInv => TypeOK
  BY DEF IInv
<1> QED BY <1>1, Invariance, PTL

(* A file is called complete only after an answered record of every battery  *)
(* of that very content was appended, whatever failed, was cut short or was  *)
(* retried in between.                                                       *)
THEOREM EvidenceIsComplete == Spec => []CompleteHasEvidence
<1>1. IInv => CompleteHasEvidence
  BY DEF IInv, Log
<1> QED BY <1>1, Invariance, PTL

(* The saved counters agree through every error path that takes a file back. *)
THEOREM CountersStayRight == Spec => []CountersAgree
<1>1. IInv => CountersAgree
  <2> SUFFICES ASSUME IInv PROVE CountersAgree
    OBVIOUS
  <2>1. /\ disk.seen = disk.judged + disk.skipped + 0
        /\ disk.seen + Len(disk.pending) <= disk.listed + 0
        /\ disk.seen <= disk.max
    BY DiskSoundFacts DEF Kept
  <2>2. disk.judged \in Nat /\ disk.skipped \in Nat /\ disk.listed \in Nat
    BY IInvFacts DEF Cursors
  <2>3. \A a, b \in Nat : a + b + 0 = a + b /\ a + 0 = a
    OBVIOUS
  <2>4. disk.judged + disk.skipped + 0 = disk.judged + disk.skipped
        /\ disk.listed + 0 = disk.listed
    BY ONLY <2>2, <2>3, Zenon
  <2> QED BY ONLY <2>1, <2>4, Zenon DEF CountersAgree
<1> QED BY <1>1, Invariance, PTL

(* A file of the folder is ahead of the saved cursor or accounted for in the *)
(* journal, unless the scan says that it ended at the storage cap.           *)
THEOREM NoFileIsLost == Spec => []NothingLost
<1>1. IInv => NothingLost
  <2> SUFFICES ASSUME IInv, disk.status # "storage_cap", NEW f \in Files
               PROVE  InCursor(disk, f) \/ Accounted(f)
    BY DEF NothingLost
  <2>1. f \in Ahead(disk) \cup Told
    BY DiskSoundFacts DEF Whole
  <2> QED BY <2>1 DEF Ahead, Told
<1> QED BY <1>1, Invariance, PTL

-----------------------------------------------------------------------------
(* The scan implements Assessment                                            *)

LEMMA AssessmentBegins == Init => A!Init
<1> SUFFICES ASSUME Init PROVE A!Init
  OBVIOUS
<1>1. PICK max \in MaxFiles : disk = NewScan(max)
  BY DEF Init
<1>2. journal = <<>> /\ Len(journal) = 0
  BY DEF Init
<1>3. disk.judged = 0 /\ disk.status = "running" /\ disk.stack = <<Root>>
  BY <1>1 DEF NewScan
<1>4. {f \in Files : Accounted(f)} = {} /\ AssessedFiles = {}
  BY <1>2 DEF Accounted, AssessedFiles
<1>5. {f \in Files : InCursor(disk, f)} = Files
  <2>1. Root \in ToSet(disk.stack)
    BY <1>3 DEF ToSet
  <2> QED BY <2>1, TreeAssumption DEF InCursor
<1> QED BY <1>3, <1>4, <1>5 DEF A!Init

LEMMA AssessmentGoesOn == IInv /\ IInv' /\ (Recorded \/ Advanced) => [A!Next]_(A!vars)
<1> SUFFICES ASSUME IInv, IInv', Recorded \/ Advanced PROVE [A!Next]_(A!vars)
  OBVIOUS
<1>1. /\ {f \in Files : Accounted(f)} = Told /\ {f \in Files : Accounted(f)}' = Told'
      /\ {f \in Files : InCursor(disk, f)} = Ahead(disk)
      /\ {f \in Files : InCursor(disk, f)}' = Ahead(disk')
  BY DEF Told, Ahead, InCursor
<1>2. CASE Recorded /\ disk.status \in Unfinished
  <2>1. AssessedFiles' \subseteq Told' /\ Told' \subseteq Files
    BY DEF AssessedFiles, Told, Accounted, Closing
  <2>2. A!Record
    BY <1>1, <1>2, <2>1 DEF Recorded, A!Record, A!Resumable, Unfinished
  <2> QED BY <2>2 DEF A!Next
<1>3. CASE Recorded /\ disk.status \notin Unfinished
  <2>1. UNCHANGED A!vars
    BY <1>1, <1>3 DEF Recorded, A!vars
  <2> QED BY <2>1
<1>4. CASE Advanced
  <2>1. disk'.status \in A!Statuses
    BY DEF IInv, TypeOK, Cursors, Unfinished, A!Statuses, A!Resumable
  <2>2. /\ {f \in Files : InCursor(disk, f)}' \in SUBSET {f \in Files : InCursor(disk, f)}
        /\ disk'.status # "storage_cap" =>
              {f \in Files : InCursor(disk, f)} \ {f \in Files : InCursor(disk, f)}'
                \subseteq {f \in Files : Accounted(f)}
        /\ disk'.status = "done" => {f \in Files : InCursor(disk, f)}' = {}
        /\ UNCHANGED <<{f \in Files : Accounted(f)}, AssessedFiles>>
    BY <1>1, <1>4 DEF Advanced
  <2>3. /\ disk.status \in A!Resumable
        /\ disk'.judged \in disk.judged .. Cardinality(AssessedFiles)
    BY <1>4 DEF Advanced, A!Resumable, Unfinished
  <2>4. A!Advance
    <3>1. A!Cardinality(AssessedFiles) = Cardinality(AssessedFiles)
      BY DEF A!Cardinality, Cardinality
    <3> QED BY <2>1, <2>2, <2>3, <3>1 DEF A!Advance
  <2> QED BY <2>4 DEF A!Next
<1> QED BY <1>2, <1>3, <1>4

(* The scan implements Assessment: every step of it, every crash, failed     *)
(* write and retry included, adds evidence while the scan is not ended, lets *)
(* the saved progress follow the evidence, or changes neither.               *)
THEOREM Implements == Spec => ImplementsAssessment
<1>1. IInv /\ [Next]_vars => IInv' /\ (Recorded \/ Advanced)
  BY NextHolds
<1>2. IInv /\ [Next]_vars => [A!Next]_(A!vars)
  BY <1>1, AssessmentGoesOn
<1> QED BY <1>2, AssessmentBegins, Invariance, PTL DEF Spec, ImplementsAssessment, A!Spec

\* What every implementation of Assessment keeps.
Promised ==
    /\ A!NothingLost
    /\ disk.status = "done" => {f \in Files : InCursor(disk, f)} = {}

LEMMA PromiseBegins == A!Init => Promised
  BY DEF A!Init, Promised, A!NothingLost

LEMMA PromiseGoesOn == Promised /\ [A!Next]_(A!vars) => Promised'
<1> SUFFICES ASSUME Promised, [A!Next]_(A!vars) PROVE Promised'
  OBVIOUS
<1> DEFINE closed == {f \in Files : Accounted(f)}
           ahead == {f \in Files : InCursor(disk, f)}
           ended == disk.status = "storage_cap"
<1>1. ended \/ Files \subseteq ahead \cup closed
  BY DEF Promised, A!NothingLost
<1>2. CASE A!Record
  <2>1. closed \subseteq closed' /\ ahead' = ahead /\ disk'.status = disk.status
    BY <1>2 DEF A!Record
  <2>2. (disk.status = "done" => ahead = {}) /\ (ended' <=> ended)
    BY <2>1 DEF Promised
  <2> HIDE DEF closed, ahead, ended
  <2>3. ended' \/ Files \subseteq ahead' \cup closed'
    BY <1>1, <2>1, <2>2
  <2> QED BY <2>1, <2>2, <2>3 DEF Promised, A!NothingLost, closed, ahead, ended
<1>3. CASE A!Advance
  <2>1. /\ closed' = closed /\ disk.status \in A!Resumable
        /\ disk'.status # "storage_cap" => ahead \ ahead' \subseteq closed
        /\ disk'.status = "done" => ahead' = {}
    BY <1>3 DEF A!Advance
  <2>2. ~ ended
    BY <2>1 DEF A!Resumable
  <2>3. ~ ended' => ahead \ ahead' \subseteq closed
    BY <2>1
  <2> HIDE DEF closed, ahead, ended
  <2>4. ended' \/ Files \subseteq ahead' \cup closed'
    BY <1>1, <2>1, <2>2, <2>3
  <2> QED BY <2>1, <2>4 DEF Promised, A!NothingLost, closed, ahead, ended
<1>4. CASE UNCHANGED A!vars
  BY <1>4 DEF A!vars, Promised, A!NothingLost
<1> QED BY <1>2, <1>3, <1>4 DEF A!Next

(* A scan saved as done has evidence about every file of the folder.         *)
THEOREM DoneIsWholeAlways == Spec => []A!DoneIsWhole
<1>1. Promised => A!DoneIsWhole
  BY DEF Promised, A!NothingLost, A!DoneIsWhole
<1> QED BY <1>1, PromiseBegins, PromiseGoesOn, Implements, PTL DEF ImplementsAssessment, A!Spec

(* A scan that ended takes nothing back and adds nothing: the step guard of  *)
(* stepScan, seen from outside.                                              *)
THEOREM EndIsFinal == Spec => [][disk.status \notin A!Resumable => UNCHANGED A!vars]_(A!vars)
<1>1. [A!Next]_(A!vars) => [disk.status \notin A!Resumable => UNCHANGED A!vars]_(A!vars)
  BY DEF A!Next, A!Record, A!Advance
<1> QED BY <1>1, Implements, PTL DEF ImplementsAssessment, A!Spec

-----------------------------------------------------------------------------
(* Nothing is asked twice while nothing has failed                           *)

\* The records of files ahead of a cursor are behind its offset ...
Late(jn, c) ==
    \A i \in 1 .. Len(jn) :
        jn[i].t = "record" /\ jn[i].ref \in Ahead(c) => c.offset < i

\* ... and are all of the file that comes next.
Unasked(jn, c) ==
    \A i \in 1 .. Len(jn) :
        jn[i].t = "record" /\ jn[i].ref \in Ahead(c) =>
            c.offset < i /\ c.pending # <<>> /\ jn[i].ref = Head(c.pending)

\* An answered record is never followed by an unanswered version of it.
Steady(jn) ==
    \A i, l \in 1 .. Len(jn) :
        i < l /\ jn[i].t = "record" /\ jn[i].ok =>
            jn[l] # RecordOf(jn[i].ref, jn[i].dig, jn[i].b, FALSE)

\* The batteries from b on that have an answer are replayed.
Known(b) ==
    \A q \in Nat :
        b <= q /\ q <= Batteries[job.f] /\ HasRecord(job.f, job.dig, q) => q \in job.prior

ToCome ==
    /\ pc \in {"battery", "record"} => Known(job.b)
    /\ pc \in {"locate", "located"} => Known(job.b + 1)
    /\ pc = "record" => job.b <= Batteries[job.f] /\ job.b \notin job.prior

Calm ==
    /\ Steady(journal) /\ Late(journal, disk) /\ ToCome
    /\ pc = "idle" => Unasked(journal, disk)
    /\ pc # "idle" => Unasked(journal, mem) /\ step.base = disk.offset

CInv == faults \in Nat /\ (faults = 0 => Calm)

SamePlace(c, m) == m.stack = c.stack /\ m.pending = c.pending /\ m.offset = c.offset

LEMMA SamePlaceFacts ==
    ASSUME NEW jn, NEW c, NEW m, SamePlace(c, m)
    PROVE  /\ Late(jn, c) => Late(jn, m)
           /\ Unasked(jn, c) => Unasked(jn, m) /\ Late(jn, m)
<1>1. Ahead(m) = Ahead(c) /\ m.offset = c.offset /\ m.pending = c.pending
  BY SameAhead DEF SamePlace
<1> QED BY <1>1 DEF Late, Unasked

\* Only events that are no records are appended.
NoNewRecord ==
    \A i \in 1 .. Len(journal') :
        journal'[i].t = "record" => i \in 1 .. Len(journal) /\ journal'[i] = journal[i]

LEMMA NoNewRecordFacts ==
    ASSUME NoNewRecord
    PROVE  /\ Steady(journal) => Steady(journal')
           /\ \A c : Late(journal, c) => Late(journal', c)
           /\ \A c : Unasked(journal, c) => Unasked(journal', c)
           /\ \A f, d, q : HasRecord(f, d, q)' => HasRecord(f, d, q)
<1>1. ASSUME Steady(journal), NEW i \in 1 .. Len(journal'), NEW l \in 1 .. Len(journal'),
             i < l, journal'[i].t = "record", journal'[i].ok,
             journal'[l] = RecordOf(journal'[i].ref, journal'[i].dig, journal'[i].b, FALSE)
      PROVE  FALSE
  <2>1. journal'[l].t = "record"
    BY <1>1 DEF RecordOf
  <2>2. /\ i \in 1 .. Len(journal) /\ journal'[i] = journal[i]
        /\ l \in 1 .. Len(journal) /\ journal'[l] = journal[l]
    BY <1>1, <2>1 DEF NoNewRecord
  <2> QED BY <1>1, <2>2 DEF Steady
<1>2. Steady(journal) => Steady(journal')
  BY <1>1 DEF Steady
<1>3. ASSUME NEW c PROVE Late(journal, c) => Late(journal', c)
  BY DEF NoNewRecord, Late
<1>4. ASSUME NEW c PROVE Unasked(journal, c) => Unasked(journal', c)
  BY DEF NoNewRecord, Unasked
<1>5. ASSUME NEW f, NEW d, NEW q, HasRecord(f, d, q)' PROVE HasRecord(f, d, q)
  <2>1. PICK i \in 1 .. Len(journal') : journal'[i] = RecordOf(f, d, q, TRUE)
    BY <1>5 DEF HasRecord
  <2>2. journal'[i].t = "record"
    BY <2>1 DEF RecordOf
  <2> QED BY <2>1, <2>2 DEF NoNewRecord, HasRecord
<1> QED BY <1>2, <1>3, <1>4, <1>5

LEMMA GrowthNoRecord ==
    ASSUME Log, NEW es \in Seq(Event), NEW k \in 0 .. Len(es), Grows(es, k),
           \A i \in 1 .. k : es[i].t # "record"
    PROVE  NoNewRecord
<1>1. /\ Len(journal) \in Nat /\ k \in Nat /\ Len(journal') = Len(journal) + k
      /\ \A i \in 1 .. Len(journal) : journal'[i] = journal[i]
      /\ \A i \in 1 .. k : journal'[Len(journal) + i] = es[i]
  BY DEF Log, Grows
<1>2. ASSUME NEW i \in 1 .. Len(journal'), journal'[i].t = "record"
      PROVE  i \in 1 .. Len(journal) /\ journal'[i] = journal[i]
  <2>1. CASE i > Len(journal)
    <3> DEFINE n == i - Len(journal)
    <3>1. n \in 1 .. k /\ i = Len(journal) + n
      BY <1>1, <2>1
    <3>2. journal'[i] = es[n]
      BY <1>1, <3>1
    <3> QED BY <1>2, <3>1, <3>2
  <2>2. CASE ~ (i > Len(journal))
    BY <1>1, <2>2
  <2> QED BY <2>1, <2>2
<1> QED BY <1>2 DEF NoNewRecord

LEMMA SameJournal ==
    ASSUME journal' = journal
    PROVE  NoNewRecord
  BY DEF NoNewRecord

\* A running step goes on, at the same place or past the next file.
LEMMA CalmGoesOn ==
    ASSUME Calm, pc # "idle", pc' # "idle", NoNewRecord, SamePlace(disk, disk'),
           step'.base = step.base, SamePlace(mem, mem') \/ Unasked(journal', mem'), ToCome'
    PROVE  Calm'
<1>1. /\ Steady(journal) /\ Late(journal, disk)
      /\ Unasked(journal, mem) /\ step.base = disk.offset
  BY DEF Calm
<1>2. Steady(journal') /\ Late(journal', disk) /\ Unasked(journal', mem)
  BY <1>1, NoNewRecordFacts
<1>3. Late(journal', disk') /\ Unasked(journal', mem')
  BY <1>2, SamePlaceFacts
<1>4. step'.base = disk'.offset
  BY <1>1 DEF SamePlace
<1> QED BY <1>2, <1>3, <1>4 DEF Calm

\* Nothing of the files ahead of m was asked: the next file was closed.
LEMMA NextClosed ==
    ASSUME NEW jn, NEW c, Unasked(jn, c), NEW m, Ahead(m) \subseteq Ahead(c),
           c.pending # <<>> => Head(c.pending) \notin Ahead(m)
    PROVE  Unasked(jn, m)
  BY DEF Unasked

LEMMA WalkingIsQuiet == pc' \in {"walk", "save", "cover"} => ToCome'
  BY DEF ToCome

LEMMA CalmAt ==
    ASSUME IInv, pc # "idle"
    PROVE  /\ mem \in Cursors /\ mem.pending \in Seq(Files) /\ mem.stack \in Seq(Dirs)
           /\ Distinct(mem) /\ mem.offset \in Nat /\ mem.offset <= Len(journal)
           /\ disk.offset \in Nat /\ disk.offset <= Len(journal)
           /\ Ahead(mem) \subseteq Ahead(disk)
<1>1. Kept(mem, Undecided, AssessedFiles, Len(journal)) /\ Ahead(mem) \subseteq Ahead(disk)
  BY DEF IInv, Running, Carried
<1>2. mem \in Cursors /\ Distinct(mem) /\ mem.offset <= Len(journal)
  BY <1>1 DEF Kept
<1>3. mem.pending \in Seq(Files) /\ mem.stack \in Seq(Dirs) /\ mem.offset \in Nat
  BY <1>2, IInvFacts DEF Cursors
<1>4. disk \in Cursors /\ disk.offset <= Len(journal)
  BY DiskSoundFacts DEF Kept
<1>5. disk.offset \in Nat
  BY <1>4, IInvFacts DEF Cursors
<1> QED BY <1>1, <1>2, <1>3, <1>4, <1>5

-----------------------------------------------------------------------------
(* Emissions that are no records                                             *)

\* The journal is full in the middle of an emission.
LEMMA CalmFull ==
    ASSUME IInv, Calm, pc # "idle", NEW es \in Seq(Event),
           NEW m, m.stack = mem.stack, m.pending = mem.pending, m.offset = mem.offset,
           EmitFull(es, m),
           Len(es) = 1 \/ \A i \in 1 .. Len(es) : es[i].t # "record"
    PROVE  Calm'
<1> DEFINE k == JournalCap - Len(journal)
<1>1. /\ Len(journal) + Len(es) > JournalCap
      /\ journal' = journal \o SubSeq(es, 1, k)
      /\ disk' = disk /\ pc' = "save" /\ mem' = m /\ step' = [step EXCEPT !.err = "full"]
  BY DEF EmitFull, Stop
<1>2. journal \in Seq(Event) /\ Len(journal) \in Nat /\ JournalCap \in Nat
      /\ Len(journal) <= JournalCap /\ Log
  BY IInvFacts DEF IInv
<1>3. Len(es) \in Nat /\ k \in 0 .. Len(es) /\ (Len(es) = 1 => k = 0)
  <2> DEFINE l == Len(journal)  n == Len(es)
  <2>1. l \in Nat /\ n \in Nat /\ JournalCap \in Nat /\ l <= JournalCap /\ l + n > JournalCap
    BY <1>1, <1>2
  <2> HIDE DEF l, n
  <2>2. JournalCap - l \in 0 .. n /\ (n = 1 => JournalCap - l = 0)
    BY ONLY <2>1
  <2> QED BY <2>1, <2>2 DEF l, n
<1>4. Grows(es, k)
  <2> HIDE DEF k
  <2> QED BY <1>1, <1>2, <1>3, PartAppended
<1>5. \A i \in 1 .. k : es[i].t # "record"
  BY <1>3
<1>6. NoNewRecord
  <2> HIDE DEF k
  <2> QED BY <1>2, <1>3, <1>4, <1>5, GrowthNoRecord
<1>7. SamePlace(mem, mem') /\ SamePlace(disk, disk')
  BY <1>1 DEF SamePlace
<1>8. step'.base = step.base
  BY <1>1, IInvFacts DEF StepStates
<1>9. pc' # "idle" /\ ToCome'
  BY <1>1, WalkingIsQuiet
<1> QED BY <1>6, <1>7, <1>8, <1>9, CalmGoesOn

LEMMA CalmEmitted ==
    ASSUME IInv, Calm, pc # "idle", NEW es \in Seq(Event), Emitted(es) \/ journal' = journal \o es,
           \A i \in 1 .. Len(es) : es[i].t # "record",
           disk' = disk, pc' \in {"walk", "save"}, step'.base = step.base,
           SamePlace(mem, mem') \/ Unasked(journal, mem')
    PROVE  Calm'
<1>1. journal' = journal \o es
  BY DEF Emitted
<1>2. NoNewRecord
  <2>1. Grows(es, Len(es)) /\ Len(es) \in 0 .. Len(es)
    BY <1>1, EmittedGrows
  <2>2. Log
    BY DEF IInv
  <2> QED BY <2>1, <2>2, GrowthNoRecord
<1>3. SamePlace(mem, mem') \/ Unasked(journal', mem')
  BY <1>2, NoNewRecordFacts
<1>4. SamePlace(disk, disk') /\ pc' # "idle" /\ ToCome'
  BY WalkingIsQuiet DEF SamePlace
<1> QED BY <1>2, <1>3, <1>4, CalmGoesOn

NoFault == faults \in Nat /\ faults' = faults

LEMMA NoEmitFails ==
    ASSUME NoFault, NEW es, NEW m
    PROVE  ~ EmitFails(es, m)
<1>1. EmitFails(es, m) => faults' = faults + 1
  BY DEF EmitFails
<1> QED BY <1>1 DEF NoFault

\* The events are appended, or the step ends at a full journal.
LEMMA CalmEmits ==
    ASSUME IInv, Calm, NoFault, pc # "idle", NEW es \in Seq(Event),
           \A i \in 1 .. Len(es) : es[i].t # "record",
           NEW u, u.stack = mem.stack, u.pending = mem.pending, u.offset = mem.offset,
           \/ /\ journal' = journal \o es /\ disk' = disk /\ pc' \in {"walk", "save"}
              /\ step'.base = step.base /\ (SamePlace(mem, mem') \/ Unasked(journal, mem'))
           \/ EmitFull(es, u) \/ EmitFails(es, u)
    PROVE  Calm'
<1>1. CASE /\ journal' = journal \o es /\ disk' = disk /\ pc' \in {"walk", "save"}
           /\ step'.base = step.base /\ (SamePlace(mem, mem') \/ Unasked(journal, mem'))
  BY <1>1, CalmEmitted
<1>2. CASE EmitFull(es, u)
  BY <1>2, CalmFull
<1>3. ~ EmitFails(es, u)
  BY NoEmitFails
<1> QED BY <1>1, <1>2, <1>3

LEMMA CalmQuiet ==
    ASSUME IInv, Calm, pc # "idle", pc' # "idle", journal' = journal, SamePlace(disk, disk'),
           SamePlace(mem, mem'), step'.base = step.base, ToCome'
    PROVE  Calm'
  BY SameJournal, CalmGoesOn

\* The next file is closed: its records are behind every cursor after it.
LEMMA PastHead ==
    ASSUME IInv, Calm, pc # "idle", mem.pending # <<>>,
           NEW m, m.stack = mem.stack, m.pending = Tail(mem.pending)
    PROVE  Unasked(journal, m)
<1>1. Ahead(m) = Ahead(mem) \ {Head(mem.pending)}
  BY CalmAt, HeadClosed
<1>2. Unasked(journal, mem)
  BY DEF Calm
<1> QED BY <1>1, <1>2, NextClosed

-----------------------------------------------------------------------------
(* The walk                                                                  *)

LEMMA OnlyStops ==
    ASSUME IInv, NEW e, NEW m, Stop(e, m)
    PROVE  pc' = "save" /\ mem' = m /\ step'.base = step.base
  BY IInvFacts DEF Stop, StepStates

LEMMA FinishedCalm ==
    ASSUME IInv, Calm, Finished
    PROVE  Calm'
<1>1. /\ pc = "walk" /\ Stop("none", [mem EXCEPT !.status = "done"])
      /\ journal' = journal /\ disk' = disk
  BY DEF Finished, durable
<1>2. pc # "idle" /\ mem \in Cursors
  BY <1>1, IInvFacts
<1>3. SamePlace(mem, mem') /\ SamePlace(disk, disk')
  BY <1>1, <1>2, OnlyStops DEF SamePlace, Cursors
<1> QED BY <1>1, <1>2, <1>3, OnlyStops, WalkingIsQuiet, CalmQuiet

LEMMA RulesHoldCalm ==
    ASSUME IInv, Calm, RulesHold
    PROVE  Calm'
<1>1. /\ pc = "walk" /\ pc' = "walk" /\ step' = [step EXCEPT !.loaded = TRUE]
      /\ journal' = journal /\ disk' = disk /\ mem' = mem
  BY DEF RulesHold, MayWalk, durable
<1>2. step'.base = step.base
  BY <1>1, IInvFacts DEF StepStates
<1>3. SamePlace(mem, mem') /\ SamePlace(disk, disk')
  BY <1>1 DEF SamePlace
<1> QED BY <1>1, <1>2, <1>3, WalkingIsQuiet, CalmQuiet

LEMMA BudgetCoverageNoRecord ==
    ASSUME IInv, NEW why \in {"file_budget", "step_budget"}
    PROVE  /\ BudgetCoverage(why) \in Seq(Event)
           /\ \A i \in 1 .. Len(BudgetCoverage(why)) : BudgetCoverage(why)[i].t # "record"
<1> DEFINE p == mem.pending
           q == mem.stack
           u == [i \in 1 .. Len(p) |-> CoverFile(p[i], 0, "pending")]
           v == [i \in 1 .. Len(q) |-> Boundary(q[i], why)]
           Other == {e \in Event : e.t # "record"}
<1>1. p \in Seq(Files) /\ q \in Seq(Dirs)
  BY IInvFacts DEF Cursors
<1>2. BudgetCoverage(why) = u \o v
  BY DEF BudgetCoverage
<1> HIDE DEF p, q
<1>3. \A i \in 1 .. Len(p) : CoverFile(p[i], 0, "pending") \in Other
  BY <1>1 DEF CoverFile, Event
<1>4. \A i \in 1 .. Len(q) : Boundary(q[i], why) \in Other
  BY <1>1 DEF Boundary, Event, Refs
<1> HIDE DEF Other
<1>5. u \in Seq(Other) /\ v \in Seq(Other)
  BY <1>1, <1>3, <1>4
<1> HIDE DEF u, v
<1> DEFINE es == u \o v
<1>6. es \in Seq(Other)
  BY <1>5
<1> HIDE DEF es
<1>7. \A i \in 1 .. Len(es) : es[i].t # "record"
  BY <1>6 DEF Other
<1>8. es \in Seq(Event)
  BY <1>2, BudgetCoverageFacts DEF es
<1> QED BY <1>2, <1>7, <1>8 DEF es

LEMMA FileBudgetCalm ==
    ASSUME IInv, Calm, NoFault, FileBudget
    PROVE  Calm'
<1> DEFINE es == BudgetCoverage("file_budget")
<1>1. /\ pc = "walk"
      /\ \/ Emitted(es) /\ Stop("none", [mem EXCEPT !.status = "budget_exhausted"])
         \/ EmitFull(es, mem) \/ EmitFails(es, mem)
  BY DEF FileBudget
<1>2. es \in Seq(Event) /\ \A i \in 1 .. Len(es) : es[i].t # "record"
  BY BudgetCoverageNoRecord
<1> HIDE DEF es
<1>3. pc # "idle" /\ mem \in Cursors
  BY <1>1, IInvFacts
<1>4. CASE Emitted(es) /\ Stop("none", [mem EXCEPT !.status = "budget_exhausted"])
  <2>1. journal' = journal \o es /\ disk' = disk
    BY <1>4 DEF Emitted
  <2>2. SamePlace(mem, mem')
    BY <1>3, <1>4, OnlyStops DEF SamePlace, Cursors
  <2> QED BY <1>2, <1>3, <1>4, <2>1, <2>2, OnlyStops, CalmEmits
<1>5. CASE EmitFull(es, mem) \/ EmitFails(es, mem)
  BY <1>2, <1>3, <1>5, CalmEmits
<1> QED BY <1>1, <1>4, <1>5

LEMMA BudgetEndsCalm ==
    ASSUME IInv, Calm, NoFault, BudgetEnds
    PROVE  Calm'
<1> DEFINE es == BudgetCoverage("step_budget")
<1>1. /\ pc = "walk"
      /\ \/ Emitted(es) /\ Stop("none", mem)
         \/ EmitFull(es, mem) \/ EmitFails(es, mem)
  BY DEF BudgetEnds, AtFile, MayWalk
<1>2. es \in Seq(Event) /\ \A i \in 1 .. Len(es) : es[i].t # "record"
  BY BudgetCoverageNoRecord
<1> HIDE DEF es
<1>3. CASE Emitted(es) /\ Stop("none", mem)
  <2>1. journal' = journal \o es /\ disk' = disk
    BY <1>3 DEF Emitted
  <2>2. SamePlace(mem, mem')
    BY <1>3, OnlyStops DEF SamePlace
  <2> QED BY <1>1, <1>2, <1>3, <2>1, <2>2, OnlyStops, CalmEmits
<1>4. CASE EmitFull(es, mem) \/ EmitFails(es, mem)
  BY <1>1, <1>2, <1>4, CalmEmits
<1> QED BY <1>1, <1>3, <1>4

LEMMA ListDirCalm ==
    ASSUME IInv, Calm, NoFault, ListDir
    PROVE  Calm'
<1> DEFINE d == Top(mem.stack)
           es == [i \in 1 .. Len(Barred[d]) |-> Boundary(Barred[d][i], "excluded")]
           m == [Commit(mem, es) EXCEPT !.stack = Popped(mem.stack) \o Reverse(SubDirs[d]),
                                        !.dir = d, !.pending = FilesIn[d],
                                        !.listed = @ + Len(FilesIn[d])]
<1>1. pc = "walk" /\ mem.pending = <<>> /\ mem.stack # <<>>
  BY DEF ListDir, MayWalk, MoreToDo
<1>2. \/ Emitted(es) /\ mem' = m /\ step' = [step EXCEPT !.loaded = TRUE, !.end = NewEnd(es)]
         /\ pc' = pc
      \/ EmitFull(es, mem) \/ EmitFails(es, mem)
  BY DEF ListDir
<1>3. mem \in Cursors /\ pc # "idle" /\ Distinct(mem) /\ mem.stack \in Seq(Dirs)
  BY <1>1, CalmAt
<1>4. d \in Dirs
  BY <1>1, <1>3, PoppedFacts
<1>5. es \in Seq(Event) /\ \A i \in 1 .. Len(es) : es[i].t # "record"
  <2>1. Barred[d] \in Seq(ToSet(Barred[d])) /\ ToSet(Barred[d]) \subseteq Refs
    BY <1>4, ListingAssumption DEF Refs
  <2>2. \A i \in 1 .. Len(Barred[d]) : Boundary(Barred[d][i], "excluded") \in Event
    <3>1. \A i \in 1 .. Len(Barred[d]) : Barred[d][i] \in Refs
      BY <2>1
    <3> QED BY <3>1 DEF Boundary, Event
  <2> QED BY <2>1, <2>2 DEF Boundary
<1>6. /\ m.stack = Popped(mem.stack) \o Reverse(SubDirs[d]) /\ m.pending = FilesIn[d]
  BY <1>3 DEF Commit, Cursors
<1> HIDE DEF m, es
<1>7. Unasked(journal, m)
  <2>1. Ahead(m) = Ahead(mem)
    BY <1>1, <1>3, <1>6, TopListed
  <2>2. Unasked(journal, mem)
    BY <1>3 DEF Calm
  <2> QED BY <1>1, <2>1, <2>2, NextClosed
<1>8. CASE Emitted(es) /\ mem' = m /\ pc' = pc
           /\ step' = [step EXCEPT !.loaded = TRUE, !.end = NewEnd(es)]
  <2>1. journal' = journal \o es /\ disk' = disk
    BY <1>8 DEF Emitted
  <2>2. step'.base = step.base
    BY <1>8, IInvFacts DEF StepStates
  <2>3. pc' \in {"walk", "save"} /\ Unasked(journal, mem')
    BY <1>1, <1>7, <1>8
  <2> QED BY <1>3, <1>5, <2>1, <2>2, <2>3, CalmEmits
<1>9. CASE EmitFull(es, mem) \/ EmitFails(es, mem)
  BY <1>3, <1>5, <1>9, CalmEmits
<1> QED BY <1>2, <1>8, <1>9

LEMMA ScopeExcludedCalm ==
    ASSUME IInv, Calm, NoFault, ScopeExcluded
    PROVE  Calm'
<1> DEFINE es == <<Boundary(RulesDir, "excluded")>>
           w == IF mem.pending = <<>> THEN [mem EXCEPT !.stack = Popped(mem.stack)]
                ELSE [mem EXCEPT !.pending = <<>>]
           m == Commit(w, es)
<1>1. /\ ReadsRules
      /\ \/ /\ journal' = journal \o es /\ mem' = m
            /\ step' = [step EXCEPT !.end = NewEnd(es)] /\ disk' = disk /\ pc' = pc
         \/ EmitFull(es, mem) \/ EmitFails(es, mem)
  BY DEF ScopeExcluded
<1>2. /\ pc = "walk" /\ RulesDir \in Dirs /\ (mem.pending # <<>> \/ mem.stack # <<>>)
      /\ ToSet(mem.pending) \subseteq FilesBelow(mem.dir)
  BY <1>1, RulesDirFacts DEF ReadsRules, MayWalk, MoreToDo
<1>3. /\ mem \in Cursors /\ pc # "idle" /\ Distinct(mem) /\ mem.pending \in Seq(Files)
      /\ mem.stack \in Seq(Dirs)
  BY <1>2, CalmAt
<1>4. es \in Seq(Event) /\ \A i \in 1 .. Len(es) : es[i].t # "record"
  <2>1. es \in Seq(Event) /\ Len(es) = 1 /\ es[1] = Boundary(RulesDir, "excluded")
    BY <1>2, BoundaryFacts
  <2> QED BY <2>1 DEF Boundary
<1>5. /\ m.pending = <<>>
      /\ m.stack = IF mem.pending = <<>> THEN Popped(mem.stack) ELSE mem.stack
  BY <1>3 DEF Commit, Cursors
<1> HIDE DEF m, es
<1>6. Unasked(journal, m)
  <2>1. Unasked(journal, mem)
    BY <1>3 DEF Calm
  <2>2. CASE mem.pending = <<>>
    <3>1. Ahead(m) \subseteq Ahead(mem)
      BY <1>2, <1>3, <1>5, <2>2, TopDropped
    <3> QED BY <2>1, <2>2, <3>1, NextClosed
  <2>3. CASE mem.pending # <<>>
    <3>1. Ahead(m) \subseteq Ahead(mem)
      BY <1>2, <1>3, <1>5, <2>3, PendingDropped
    <3>2. Head(mem.pending) \in ToSet(mem.pending)
      BY <1>3, <2>3, TailFacts
    <3>3. Head(mem.pending) \notin Ahead(m)
      <4>1. \A i \in 1 .. Len(mem.stack) : Head(mem.pending) \notin FilesBelow(mem.stack[i])
        BY <1>3, <3>2 DEF Distinct
      <4>2. ToSet(m.pending) = {} /\ m.stack = mem.stack
        BY <1>5, <2>3 DEF ToSet
      <4> QED BY <1>3, <4>1, <4>2, AheadIs
    <3> QED BY <2>1, <3>1, <3>3, NextClosed
  <2> QED BY <2>2, <2>3
<1>7. CASE /\ journal' = journal \o es /\ mem' = m
           /\ step' = [step EXCEPT !.end = NewEnd(es)] /\ disk' = disk /\ pc' = pc
  <2>1. step'.base = step.base
    BY <1>7, IInvFacts DEF StepStates
  <2>2. pc' \in {"walk", "save"} /\ Unasked(journal, mem')
    BY <1>2, <1>6, <1>7
  <2> QED BY <1>3, <1>4, <1>7, <2>1, <2>2, CalmEmits
<1>8. CASE EmitFull(es, mem) \/ EmitFails(es, mem)
  BY <1>3, <1>4, <1>8, CalmEmits
<1> QED BY <1>1, <1>7, <1>8

LEMMA ScopeFailsCalm ==
    ASSUME IInv, Calm, NoFault, ScopeFails
    PROVE  Calm'
<1> PICK d \in UnusableTo(RulesDir) :
        LET e == <<Boundary(d, "rules_error")>>
        IN  (Emitted(e) /\ Stop("rules", mem)) \/ EmitFull(e, mem) \/ EmitFails(e, mem)
  BY DEF ScopeFails
<1> DEFINE es == <<Boundary(d, "rules_error")>>
<1>1. /\ ReadsRules
      /\ \/ journal' = journal \o es /\ disk' = disk /\ Stop("rules", mem)
         \/ EmitFull(es, mem) \/ EmitFails(es, mem)
  BY DEF ScopeFails, Emitted
<1>2. pc = "walk" /\ d \in Dirs
  BY <1>1, RulesDirFacts DEF UnusableTo
<1>3. es \in Seq(Event) /\ \A i \in 1 .. Len(es) : es[i].t # "record"
  <2>1. es \in Seq(Event) /\ Len(es) = 1 /\ es[1] = Boundary(d, "rules_error")
    BY <1>2, BoundaryFacts
  <2> QED BY <2>1 DEF Boundary
<1> HIDE DEF es
<1>4. CASE journal' = journal \o es /\ disk' = disk /\ Stop("rules", mem)
  <2>1. SamePlace(mem, mem')
    BY <1>4, OnlyStops DEF SamePlace
  <2> QED BY <1>2, <1>3, <1>4, <2>1, OnlyStops, CalmEmits
<1>5. CASE EmitFull(es, mem) \/ EmitFails(es, mem)
  BY <1>2, <1>3, <1>5, CalmEmits
<1> QED BY <1>1, <1>4, <1>5

LEMMA FileClosedCalm ==
    ASSUME IInv, Calm, NoFault, NEW f \in Files, Begins(f), NEW x \in Nat,
           NEW disp \in Closing, disp # "complete",
           \/ /\ Emitted(<<CoverFile(f, x, disp)>>)
              /\ mem' = Close(Counted, <<CoverFile(f, x, disp)>>)
              /\ step' = [Examined EXCEPT !.end = NewEnd(<<CoverFile(f, x, disp)>>)] /\ pc' = pc
           \/ EmitFull(<<CoverFile(f, x, disp)>>, mem)
           \/ EmitFails(<<CoverFile(f, x, disp)>>, mem)
    PROVE  Calm'
<1> DEFINE es == <<CoverFile(f, x, disp)>>
<1>1. pc = "walk" /\ pc # "idle" /\ mem.pending # <<>> /\ mem \in Cursors
  BY BeginsFacts, IInvFacts
<1>2. es \in Seq(Event) /\ \A i \in 1 .. Len(es) : es[i].t # "record"
  <2>1. es \in Seq(Event) /\ Len(es) = 1 /\ es[1] = CoverFile(f, x, disp)
    BY CoverFacts
  <2> QED BY <2>1 DEF CoverFile
<1>3. \/ /\ Emitted(es) /\ mem' = Close(Counted, es)
         /\ step' = [Examined EXCEPT !.end = NewEnd(es)] /\ pc' = pc
      \/ EmitFull(es, mem) \/ EmitFails(es, mem)
  OBVIOUS
<1> HIDE DEF es
<1>4. CASE /\ Emitted(es) /\ mem' = Close(Counted, es)
           /\ step' = [Examined EXCEPT !.end = NewEnd(es)] /\ pc' = pc
  <2>1. journal' = journal \o es /\ disk' = disk /\ pc' \in {"walk", "save"}
    BY <1>1, <1>4 DEF Emitted
  <2>2. step'.base = step.base
    BY <1>4, IInvFacts DEF StepStates, Examined
  <2>3. mem'.stack = mem.stack /\ mem'.pending = Tail(mem.pending)
    BY <1>1, <1>4 DEF Close, Counted, Commit, Cursors
  <2>4. Unasked(journal, mem')
    BY <1>1, <2>3, PastHead
  <2> QED BY <1>1, <1>2, <2>1, <2>2, <2>4, CalmEmits
<1>5. CASE EmitFull(es, mem) \/ EmitFails(es, mem)
  BY <1>1, <1>2, <1>5, CalmEmits
<1> QED BY <1>3, <1>4, <1>5

LEMMA SkipFileCalm ==
    ASSUME IInv, Calm, NoFault, SkipFile
    PROVE  Calm'
<1>1. PICK f \in Files, why \in {"excluded", "unknown"} :
        /\ Begins(f)
        /\ \/ /\ Emitted(<<CoverFile(f, 0, why)>>)
              /\ mem' = Close(Counted, <<CoverFile(f, 0, why)>>)
              /\ step' = [Examined EXCEPT !.end = NewEnd(<<CoverFile(f, 0, why)>>)] /\ pc' = pc
           \/ EmitFull(<<CoverFile(f, 0, why)>>, mem)
           \/ EmitFails(<<CoverFile(f, 0, why)>>, mem)
  BY DEF SkipFile
<1>2. why \in Closing /\ why # "complete" /\ 0 \in Nat
  BY DEF Closing
<1> QED BY <1>1, <1>2, FileClosedCalm

LEMMA StaleFileCalm ==
    ASSUME IInv, Calm, NoFault, StaleFile
    PROVE  Calm'
<1>1. PICK f \in Files : Begins(f) /\ \E x \in DigestsSeen(f) :
        \/ /\ Emitted(<<CoverFile(f, x, "stale")>>)
           /\ mem' = Close(Counted, <<CoverFile(f, x, "stale")>>)
           /\ step' = [Examined EXCEPT !.end = NewEnd(<<CoverFile(f, x, "stale")>>)] /\ pc' = pc
        \/ EmitFull(<<CoverFile(f, x, "stale")>>, mem)
        \/ EmitFails(<<CoverFile(f, x, "stale")>>, mem)
  BY DEF StaleFile
<1>2. PICK x \in DigestsSeen(f) :
        \/ /\ Emitted(<<CoverFile(f, x, "stale")>>)
           /\ mem' = Close(Counted, <<CoverFile(f, x, "stale")>>)
           /\ step' = [Examined EXCEPT !.end = NewEnd(<<CoverFile(f, x, "stale")>>)] /\ pc' = pc
        \/ EmitFull(<<CoverFile(f, x, "stale")>>, mem)
        \/ EmitFails(<<CoverFile(f, x, "stale")>>, mem)
  BY <1>1
<1>3. x \in Nat
  <2>1. PICK i \in Seen(f) : x = journal[i].dig
    BY DEF DigestsSeen
  <2>2. step.base \in Nat
    BY IInvFacts DEF StepStates
  <2>3. i \in 1 .. Len(journal) /\ journal[i].t = "record"
    BY <2>2, IInvFacts DEF Seen
  <2>4. journal[i] \in Event
    BY <2>3, IInvFacts
  <2> QED BY <2>1, <2>3, <2>4 DEF Event
<1>4. "stale" \in Closing /\ "stale" # "complete"
  BY DEF Closing
<1> QED BY <1>1, <1>2, <1>3, <1>4, FileClosedCalm

\* The file begun has its answered batteries replayed: its records are all
\* behind the offset the step started from, and none takes an answer back.
LEMMA BeginFileCalm ==
    ASSUME IInv, Calm, BeginFile
    PROVE  Calm'
<1>1. PICK f \in Files :
        /\ Begins(f) /\ mem' = Counted
        /\ step' = [Examined EXCEPT !.end = Len(journal)]
        /\ job' = [f |-> f, dig |-> src[f], prior |-> AnsweredPrior(f, src[f]), b |-> 1,
                   ok |-> FALSE, err |-> "none"]
  BY DEF BeginFile
<1>2. journal' = journal /\ disk' = disk /\ pc' = "battery"
  BY DEF BeginFile, durable
<1>3. pc = "walk" /\ pc # "idle" /\ mem.pending # <<>> /\ f = Head(mem.pending)
  BY <1>1, BeginsFacts
<1>4. mem \in Cursors /\ Distinct(mem) /\ Ahead(mem) \subseteq Ahead(disk)
  BY <1>3, CalmAt
<1>5. f \in Ahead(disk)
  <2> DEFINE m == [mem EXCEPT !.pending = Tail(mem.pending)]
  <2>1. m.stack = mem.stack /\ m.pending = Tail(mem.pending)
    BY <1>4 DEF Cursors
  <2> HIDE DEF m
  <2> QED BY <1>3, <1>4, <2>1, HeadClosed
<1>6. Steady(journal) /\ Late(journal, disk) /\ step.base = disk.offset
  BY <1>3 DEF Calm
<1>7. ASSUME NEW q \in Nat, 1 <= q, q <= Batteries[f], HasRecord(f, src[f], q)
      PROVE  q \in AnsweredPrior(f, src[f])
  <2>1. PICK i \in 1 .. Len(journal) : journal[i] = RecordOf(f, src[f], q, TRUE)
    BY <1>7 DEF HasRecord
  <2>2. /\ journal[i].t = "record" /\ journal[i].ref = f /\ journal[i].ok
        /\ journal[i].dig = src[f] /\ journal[i].b = q
    BY <2>1 DEF RecordOf
  <2>3. disk.offset < i /\ disk.offset \in Nat
    BY <1>3, <1>5, <1>6, <2>2, CalmAt DEF Late
  <2>4. i \in Seen(f)
    BY <1>6, <2>2, <2>3, IInvFacts DEF Seen
  <2>5. ASSUME NEW l \in Seen(f), l > i PROVE journal[l] # RecordOf(f, src[f], q, FALSE)
    <3>1. l \in 1 .. Len(journal) /\ i < l
      BY <1>6, <2>3, <2>5, IInvFacts DEF Seen
    <3> QED BY <1>6, <2>2, <3>1 DEF Steady
  <2>6. q \in 1 .. Batteries[f]
    BY <1>7, ListingAssumption
  <2> QED BY <2>1, <2>4, <2>5, <2>6 DEF AnsweredPrior
<1>8. ToCome'
  <2>1. job'.f = f /\ job'.dig = src[f] /\ job'.prior = AnsweredPrior(f, src[f]) /\ job'.b = 1
    BY <1>1
  <2>2. Known(job.b)'
    BY <1>2, <1>7, <2>1 DEF Known, HasRecord
  <2> QED BY <1>2, <2>2 DEF ToCome
<1>9. SamePlace(mem, mem') /\ SamePlace(disk, disk') /\ step'.base = step.base
  BY <1>1, <1>2, <1>4, IInvFacts DEF SamePlace, Counted, Examined, Cursors, StepStates
<1> QED BY <1>2, <1>3, <1>8, <1>9, CalmQuiet

-----------------------------------------------------------------------------
(* The assessment                                                            *)

LEMMA KnownOn ==
    ASSUME job'.f = job.f, job'.dig = job.dig, job'.prior = job.prior, job'.b \in Nat,
           NEW k \in Nat, Known(k),
           \A f, d : \A q \in Nat : k <= q /\ HasRecord(f, d, q)' => HasRecord(f, d, q),
           pc' \in {"battery", "record"} => k <= job'.b,
           pc' \in {"locate", "located"} => k <= job'.b + 1,
           pc' = "record" => job'.b <= Batteries[job.f] /\ job'.b \notin job.prior
    PROVE  ToCome'
<1>1. ASSUME NEW l \in Nat, k <= l, NEW q \in Nat, l <= q, q <= Batteries[job.f],
             HasRecord(job.f, job.dig, q)'
      PROVE  q \in job.prior
  <2>1. k <= q
    BY <1>1
  <2>2. PICK i \in 1 .. Len(journal') : journal'[i] = RecordOf(job.f, job.dig, q, TRUE)
    BY <1>1 DEF HasRecord
  <2>3. HasRecord(job.f, job.dig, q)
    <3> DEFINE f == job.f  d == job.dig
    <3>1. journal'[i] = RecordOf(f, d, q, TRUE)
      BY <2>2
    <3> HIDE DEF f, d
    <3>2. HasRecord(f, d, q)
      BY <2>1, <3>1 DEF HasRecord
    <3> QED BY <3>2 DEF f, d
  <2> QED BY <1>1, <2>1, <2>3 DEF Known
<1> QED BY <1>1 DEF ToCome, Known

LEMMA RuntimeSamePlace ==
    ASSUME NEW c \in Cursors, NEW r
    PROVE  SamePlace(c, c) /\ SamePlace(c, [c EXCEPT !.runtime = r])
  BY DEF SamePlace, Cursors

LEMMA SentBase ==
    ASSUME IInv, NEW r, step' \in {Sent, [Sent EXCEPT !.runtime = r]}
    PROVE  step'.base = step.base
  BY IInvFacts DEF Sent, StepStates

\* A step of the assessment that appends nothing.
LEMMA JobCalm ==
    ASSUME IInv, Calm, pc \in JobPcs, journal' = journal,
           SamePlace(disk, disk'), SamePlace(mem, mem'), step'.base = step.base,
           job'.f = job.f, job'.dig = job.dig, job'.prior = job.prior, job'.b \in Nat,
           NEW k \in Nat, Known(k), pc' # "idle",
           pc' \in {"battery", "record"} => k <= job'.b,
           pc' \in {"locate", "located"} => k <= job'.b + 1,
           pc' = "record" => job'.b <= Batteries[job.f] /\ job'.b \notin job.prior
    PROVE  Calm'
<1>1. pc # "idle"
  BY JobFacts
<1>2. \A f, d, q : HasRecord(f, d, q)' => HasRecord(f, d, q)
  BY SameJournal, NoNewRecordFacts
<1>3. ToCome'
  BY <1>2, KnownOn
<1> QED BY <1>1, <1>3, CalmQuiet

LEMMA ReplayCalm ==
    ASSUME IInv, Calm, Replay
    PROVE  Calm'
<1>1. /\ pc = "battery" /\ job' = [job EXCEPT !.b = job.b + 1]
      /\ journal' = journal /\ disk' = disk /\ pc' = pc /\ mem' = mem /\ step' = step
  BY DEF Replay, AtBattery, durable
<1>2. job \in Jobs /\ job.b \in Nat /\ pc \in JobPcs /\ Known(job.b)
  BY <1>1, JobFacts DEF JobPcs, Calm, ToCome
<1>3. /\ job'.f = job.f /\ job'.dig = job.dig /\ job'.prior = job.prior
      /\ job'.b \in Nat /\ job.b <= job'.b
  BY <1>1, <1>2 DEF Jobs
<1>4. SamePlace(disk, disk') /\ SamePlace(mem, mem') /\ step'.base = step.base
  BY <1>1 DEF SamePlace
<1> QED BY <1>1, <1>2, <1>3, <1>4, JobCalm

LEMMA ReplyCalm ==
    ASSUME IInv, Calm, AtBattery, ~ Answered, NEW e, Reply(e), journal' = journal,
           SamePlace(disk, disk'), SamePlace(mem, mem'), step'.base = step.base
    PROVE  Calm'
<1>1. /\ pc = "battery" /\ pc' = "record" /\ job' = [job EXCEPT !.ok = (e = "none"), !.err = e]
      /\ job.b <= Batteries[job.f] /\ job.b \notin job.prior
  BY DEF AtBattery, Answered, Reply
<1>2. job \in Jobs /\ job.b \in Nat /\ pc \in JobPcs /\ Known(job.b)
  BY <1>1, JobFacts DEF JobPcs, Calm, ToCome
<1>3. /\ job'.f = job.f /\ job'.dig = job.dig /\ job'.prior = job.prior
      /\ job'.b = job.b /\ job.b <= job'.b
  BY <1>1, <1>2 DEF Jobs
<1> QED BY <1>1, <1>2, <1>3, JobCalm

LEMMA NotSentCalm ==
    ASSUME IInv, Calm, NotSent
    PROVE  Calm'
<1>1. /\ AtBattery /\ ~ Answered /\ step' = [step EXCEPT !.calls = step.calls + 1]
      /\ journal' = journal /\ disk' = disk /\ mem' = mem
  BY DEF NotSent, durable
<1>2. PICK e \in {"judge", "other"} : Reply(e)
  BY DEF NotSent
<1>3. SamePlace(disk, disk') /\ SamePlace(mem, mem') /\ step'.base = step.base
  BY <1>1, IInvFacts DEF SamePlace, StepStates
<1> QED BY <1>1, <1>2, <1>3, ReplyCalm

LEMMA CacheHitCalm ==
    ASSUME IInv, Calm, CacheHit
    PROVE  Calm'
<1>1. /\ AtBattery /\ ~ Answered /\ Reply("none") /\ step' = step
      /\ journal' = journal /\ disk' = disk /\ mem' = mem
  BY DEF CacheHit, durable
<1>2. SamePlace(disk, disk') /\ SamePlace(mem, mem') /\ step'.base = step.base
  BY <1>1 DEF SamePlace
<1> QED BY <1>1, <1>2, ReplyCalm

LEMMA PersistSamePlace ==
    ASSUME IInv, NEW r, Persist(r)
    PROVE  SamePlace(disk, disk') /\ SamePlace(mem, mem')
<1>1. disk \in Cursors /\ mem \in Cursors
  BY IInvFacts
<1>2. disk' = [disk EXCEPT !.runtime = r] /\ mem' = [mem EXCEPT !.runtime = r]
  BY DEF Persist
<1> QED BY <1>1, <1>2, RuntimeSamePlace

LEMMA AskCalm ==
    ASSUME IInv, Calm, NEW o, Ask(o)
    PROVE  Calm'
<1>1. /\ AtBattery /\ ~ Answered /\ Reply(ErrorOf(o)) /\ journal' = journal
  BY DEF Ask, Sends
<1>2. SamePlace(disk, disk') /\ SamePlace(mem, mem') /\ step'.base = step.base
  <2>1. CASE o = "denied"
    <3>1. step' = Sent /\ mem' = mem /\ disk' = disk
      BY <2>1 DEF Ask
    <3> QED BY <3>1, SentBase DEF SamePlace
  <2>2. CASE o # "denied"
    <3>1. Persist(RuntimeAfter(o)) /\ step' = [Sent EXCEPT !.runtime = RuntimeAfter(o)]
      BY <2>2 DEF Ask
    <3> QED BY <3>1, PersistSamePlace, SentBase
  <2> QED BY <2>1, <2>2
<1> QED BY <1>1, <1>2, ReplyCalm

LEMMA LocateCalm ==
    ASSUME IInv, Calm, Locate
    PROVE  Calm'
<1>1. pc = "locate" /\ pc' = "located" /\ job' = job /\ journal' = journal
  BY DEF Locate
<1>2. SamePlace(disk, disk') /\ SamePlace(mem, mem') /\ step'.base = step.base
  <2>1. CASE step' \in {step, [step EXCEPT !.calls = step.calls + 1]} /\ disk' = disk /\ mem' = mem
    BY <2>1, IInvFacts DEF SamePlace, StepStates
  <2>2. CASE step' = Sent /\ disk' = disk /\ mem' = mem
    BY <2>2, SentBase DEF SamePlace
  <2>3. CASE \E r : Persist(r) /\ step' = [Sent EXCEPT !.runtime = r]
    BY <2>3, PersistSamePlace, SentBase
  <2> QED BY <2>1, <2>2, <2>3 DEF Locate
<1>3. job \in Jobs /\ job.b \in Nat /\ pc \in JobPcs /\ Known(job.b + 1)
  BY <1>1, JobFacts DEF JobPcs, Calm, ToCome
<1>4. job.b + 1 \in Nat /\ job.b + 1 <= job.b + 1
  BY <1>3
<1> QED BY <1>1, <1>2, <1>3, <1>4, JobCalm

LEMMA AssessmentEndsCalm ==
    ASSUME IInv, Calm, AssessmentEnds
    PROVE  Calm'
<1>1. /\ pc = "battery" /\ pc' = "cover"
      /\ journal' = journal /\ disk' = disk /\ mem' = mem /\ step' = step
  BY DEF AssessmentEnds, durable
<1>2. SamePlace(disk, disk') /\ SamePlace(mem, mem') /\ step'.base = step.base
  BY <1>1 DEF SamePlace
<1> QED BY <1>1, <1>2, WalkingIsQuiet, CalmQuiet

LEMMA UncountedSamePlace ==
    ASSUME IInv
    PROVE  /\ Uncounted.stack = mem.stack /\ Uncounted.pending = mem.pending
           /\ Uncounted.offset = mem.offset
           /\ \A s : SamePlace(mem, [Uncounted EXCEPT !.status = s])
  BY IInvFacts DEF Uncounted, SamePlace, Cursors

LEMMA GiveUpCalm ==
    ASSUME IInv, Calm, GiveUp
    PROVE  Calm'
<1>1. pc = "cover" /\ Stop("store", Uncounted) /\ journal' = journal /\ disk' = disk
  BY DEF GiveUp, durable
<1>2. SamePlace(disk, disk') /\ SamePlace(mem, mem')
  BY <1>1, OnlyStops, UncountedSamePlace DEF SamePlace
<1> QED BY <1>1, <1>2, OnlyStops, WalkingIsQuiet, CalmQuiet

\* The record of a battery is appended; an unanswered one only where there
\* is no answer yet.
LEMMA RecordCalm ==
    ASSUME IInv, Calm, pc \in JobPcs, NEW ok \in BOOLEAN,
           ok = FALSE => ~ HasRecord(job.f, job.dig, job.b),
           journal' = journal \o <<RecordOf(job.f, job.dig, job.b, ok)>>,
           disk' = disk, mem' = mem, step'.base = step.base, pc' # "idle",
           job'.f = job.f, job'.dig = job.dig, job'.prior = job.prior, job'.b \in Nat,
           Known(job.b + 1),
           pc' \in {"battery", "record"} => job.b + 1 <= job'.b,
           pc' \in {"locate", "located"} => job.b <= job'.b,
           pc' # "record"
    PROVE  Calm'
<1> DEFINE n == Len(journal)
           e == RecordOf(job.f, job.dig, job.b, ok)
<1>1. /\ pc # "idle" /\ JobSound /\ job \in Jobs /\ job.b \in Nat
      /\ journal \in Seq(Event) /\ n \in Nat
  BY JobFacts, IInvFacts
<1>2. /\ Steady(journal) /\ Late(journal, disk) /\ Unasked(journal, mem)
      /\ step.base = disk.offset
  BY <1>1 DEF Calm
<1>3. e \in Event /\ e.t = "record" /\ e.ref = job.f /\ e.dig = job.dig /\ e.b = job.b /\ e.ok = ok
  BY <1>1 DEF Event, RecordOf, Jobs
<1> HIDE DEF e
<1>4. /\ Len(journal') = n + 1 /\ journal'[n + 1] = e
      /\ \A i \in 1 .. n : journal'[i] = journal[i]
  BY <1>1, <1>3 DEF e
<1> HIDE DEF n
<1>5. \A i \in 1 .. Len(journal') : i \in 1 .. n \/ i = n + 1
  BY <1>1, <1>4
<1>6. /\ disk.offset \in Nat /\ disk.offset < n + 1 /\ mem.offset \in Nat /\ mem.offset < n + 1
  BY <1>1, CalmAt DEF n
<1>7. Late(journal', disk)
  <2> SUFFICES ASSUME NEW i \in 1 .. Len(journal'), journal'[i].t = "record",
                      journal'[i].ref \in Ahead(disk)
               PROVE  disk.offset < i
    BY DEF Late
  <2>1. CASE i \in 1 .. n
    BY <1>2, <1>4, <2>1 DEF Late, n
  <2>2. CASE i = n + 1
    BY <1>6, <2>2
  <2> QED BY <1>5, <2>1, <2>2
<1>8. Unasked(journal', mem)
  <2> SUFFICES ASSUME NEW i \in 1 .. Len(journal'), journal'[i].t = "record",
                      journal'[i].ref \in Ahead(mem)
               PROVE  mem.offset < i /\ mem.pending # <<>> /\ journal'[i].ref = Head(mem.pending)
    BY DEF Unasked
  <2>1. CASE i \in 1 .. n
    BY <1>2, <1>4, <2>1 DEF Unasked, n
  <2>2. CASE i = n + 1
    BY <1>1, <1>3, <1>4, <1>6, <2>2 DEF JobSound
  <2> QED BY <1>5, <2>1, <2>2
<1>9. Steady(journal')
  <2> SUFFICES ASSUME NEW i \in 1 .. Len(journal'), NEW l \in 1 .. Len(journal'), i < l,
                      journal'[i].t = "record", journal'[i].ok,
                      journal'[l] = RecordOf(journal'[i].ref, journal'[i].dig, journal'[i].b, FALSE)
               PROVE  FALSE
    BY DEF Steady
  <2>1. i \in 1 .. n /\ journal'[i] = journal[i]
    BY <1>1, <1>4
  <2>2. CASE l \in 1 .. n
    <3>1. journal[l] = RecordOf(journal[i].ref, journal[i].dig, journal[i].b, FALSE)
      BY <1>4, <2>1, <2>2
    <3>2. journal[i].t = "record" /\ journal[i].ok
      BY <2>1
    <3> QED BY <1>2, <2>1, <2>2, <3>1, <3>2 DEF Steady, n
  <2>3. CASE l = n + 1
    <3>1. e = RecordOf(journal[i].ref, journal[i].dig, journal[i].b, FALSE)
      BY <1>4, <2>1, <2>3
    <3>2. /\ journal[i].ref = job.f /\ journal[i].dig = job.dig /\ journal[i].b = job.b
          /\ ok = FALSE
      BY <1>3, <3>1 DEF RecordOf
    <3>3. journal[i] \in Event /\ journal[i].t = "record" /\ journal[i].ok
      BY <1>1, <2>1 DEF n
    <3>4. journal[i] = RecordOf(job.f, job.dig, job.b, TRUE)
      <4>1. journal[i] \in [t : {"record"}, ref : Files, dig : Nat, b : Nat, ok : BOOLEAN]
        BY <3>3 DEF Event
      <4>2. journal[i].ok = TRUE
        BY <3>3, <4>1
      <4> QED BY <3>2, <4>1, <4>2 DEF RecordOf
    <3>5. HasRecord(job.f, job.dig, job.b)
      BY <2>1, <3>4 DEF HasRecord, n
    <3> QED BY <3>2, <3>5
  <2> QED BY <1>5, <2>2, <2>3
<1>10. ASSUME NEW f, NEW d, NEW q \in Nat, job.b + 1 <= q, HasRecord(f, d, q)'
       PROVE  HasRecord(f, d, q)
  <2>1. PICK i \in 1 .. Len(journal') : journal'[i] = RecordOf(f, d, q, TRUE)
    BY <1>10 DEF HasRecord
  <2>2. i # n + 1
    <3>1. journal'[i].b = q
      BY <2>1 DEF RecordOf
    <3>2. job.b # q
      BY <1>1, <1>10
    <3> QED BY <1>3, <1>4, <3>1, <3>2
  <2> QED BY <1>4, <1>5, <2>1, <2>2 DEF HasRecord, n
<1>11. ToCome'
  <2>1. job.b + 1 \in Nat
    BY <1>1
  <2>2. pc' \in {"locate", "located"} => job.b + 1 <= job'.b + 1
    BY <1>1
  <2> QED BY <1>10, <2>1, <2>2, KnownOn
<1> QED BY <1>2, <1>7, <1>8, <1>9, <1>11 DEF Calm

LEMMA SaveRecordCalm ==
    ASSUME IInv, Calm, NoFault, SaveRecord
    PROVE  Calm'
<1> DEFINE es == <<RecordOf(job.f, job.dig, job.b, job.ok)>>
<1>1. pc = "record" /\ pc \in JobPcs /\ pc # "idle"
  BY DEF SaveRecord, JobPcs
<1>2. JobSound /\ job \in Jobs /\ job.b \in Nat /\ job.ok \in BOOLEAN /\ Batteries[job.f] \in Nat
  BY <1>1, JobFacts DEF Jobs
<1>3. es \in Seq(Event) /\ Len(es) = 1
  BY <1>1, <1>2, RecordFacts
<1>4. \/ /\ Emitted(es) /\ step' = [step EXCEPT !.end = NewEnd(es)] /\ mem' = mem
         /\ \/ pc' = "cover" /\ job' = job
            \/ pc' = "locate" /\ job' = job
            \/ pc' = "battery" /\ job' = [job EXCEPT !.b = job.b + 1, !.ok = FALSE]
      \/ EmitFull(es, Uncounted) \/ EmitFails(es, Uncounted)
  BY DEF SaveRecord
<1>5. Known(job.b) /\ job.b <= Batteries[job.f] /\ job.b \notin job.prior
  BY <1>1 DEF Calm, ToCome
<1>6. ~ HasRecord(job.f, job.dig, job.b)
  BY <1>2, <1>5 DEF Known
<1>7. Known(job.b + 1)
  BY <1>2, <1>5 DEF Known
<1>8. CASE /\ Emitted(es) /\ step' = [step EXCEPT !.end = NewEnd(es)] /\ mem' = mem
           /\ \/ pc' = "cover" /\ job' = job
              \/ pc' = "locate" /\ job' = job
              \/ pc' = "battery" /\ job' = [job EXCEPT !.b = job.b + 1, !.ok = FALSE]
  <2>1. journal' = journal \o <<RecordOf(job.f, job.dig, job.b, job.ok)>> /\ disk' = disk
    BY <1>8 DEF Emitted
  <2>2. step'.base = step.base
    BY <1>8, IInvFacts DEF StepStates
  <2>3. /\ job'.f = job.f /\ job'.dig = job.dig /\ job'.prior = job.prior /\ job'.b \in Nat
        /\ pc' \in {"battery", "record"} => job.b + 1 <= job'.b
        /\ pc' \in {"locate", "located"} => job.b <= job'.b
        /\ pc' # "record" /\ pc' # "idle"
    <3>1. CASE job' = job /\ pc' \in {"cover", "locate"}
      BY <1>2, <3>1
    <3>2. CASE pc' = "battery" /\ job' = [job EXCEPT !.b = job.b + 1, !.ok = FALSE]
      BY <1>2, <3>2 DEF Jobs
    <3> QED BY <1>8, <3>1, <3>2
  <2> HIDE DEF es
  <2> QED BY <1>1, <1>2, <1>6, <1>7, <1>8, <2>1, <2>2, <2>3, RecordCalm
<1>9. CASE EmitFull(es, Uncounted)
  <2> HIDE DEF es
  <2> QED BY <1>1, <1>3, <1>9, UncountedSamePlace, CalmFull
<1>10. ~ EmitFails(es, Uncounted)
  BY NoEmitFails
<1> QED BY <1>4, <1>8, <1>9, <1>10

LEMMA SaveLocatedCalm ==
    ASSUME IInv, Calm, NoFault, SaveLocated
    PROVE  Calm'
<1> DEFINE es == <<RecordOf(job.f, job.dig, job.b, TRUE)>>
<1>1. pc = "located" /\ pc \in JobPcs /\ pc # "idle"
  BY DEF SaveLocated, JobPcs
<1>2. job \in Jobs /\ job.b \in Nat /\ Known(job.b + 1)
  BY <1>1, JobFacts DEF Calm, ToCome
<1>3. es \in Seq(Event) /\ Len(es) = 1
  BY <1>1, RecordFacts
<1>4. \/ /\ Emitted(es) /\ step' = [step EXCEPT !.end = NewEnd(es)] /\ mem' = mem
         /\ pc' = "battery" /\ job' = [job EXCEPT !.b = job.b + 1, !.ok = FALSE]
      \/ EmitFull(es, Uncounted) \/ EmitFails(es, Uncounted)
  BY DEF SaveLocated
<1>5. CASE /\ Emitted(es) /\ step' = [step EXCEPT !.end = NewEnd(es)] /\ mem' = mem
           /\ pc' = "battery" /\ job' = [job EXCEPT !.b = job.b + 1, !.ok = FALSE]
  <2>1. journal' = journal \o <<RecordOf(job.f, job.dig, job.b, TRUE)>> /\ disk' = disk
    BY <1>5 DEF Emitted
  <2>2. step'.base = step.base
    BY <1>5, IInvFacts DEF StepStates
  <2>3. /\ job'.f = job.f /\ job'.dig = job.dig /\ job'.prior = job.prior /\ job'.b \in Nat
        /\ job.b + 1 <= job'.b
    BY <1>2, <1>5 DEF Jobs
  <2>4. pc' = "battery" /\ mem' = mem /\ TRUE \in BOOLEAN
    BY <1>5
  <2> HIDE DEF es
  <2> QED BY <1>1, <1>2, <2>1, <2>2, <2>3, <2>4, RecordCalm
<1>6. CASE EmitFull(es, Uncounted)
  <2> HIDE DEF es
  <2> QED BY <1>1, <1>3, <1>6, UncountedSamePlace, CalmFull
<1>7. ~ EmitFails(es, Uncounted)
  BY NoEmitFails
<1> QED BY <1>4, <1>5, <1>6, <1>7

LEMMA CoverAssessedCalm ==
    ASSUME IInv, Calm, NoFault, CoverAssessed
    PROVE  Calm'
<1> DEFINE es == <<CoverFile(job.f, job.dig, Disposition(job.err))>>
<1>1. pc = "cover" /\ pc \in JobPcs /\ pc # "idle"
  BY DEF CoverAssessed, JobPcs
<1>2. mem.pending # <<>> /\ mem \in Cursors
  BY <1>1, JobFacts DEF JobSound
<1>3. es \in Seq(Event) /\ \A i \in 1 .. Len(es) : es[i].t # "record"
  <2>1. es \in Seq(Event) /\ Len(es) = 1 /\ es[1].t = "file"
    BY <1>1, CoverageHonest
  <2> QED BY <2>1
<1>4. \/ /\ Emitted(es)
         /\ \/ /\ mem' = Commit([mem EXCEPT !.pending = Tail(@), !.judged = @ + 1], es)
               /\ step' = [step EXCEPT !.end = NewEnd(es)] /\ pc' = "walk"
            \/ /\ mem' = Close(mem, es)
               /\ step' = [step EXCEPT !.end = NewEnd(es)] /\ pc' = "walk"
            \/ Stop("none", [Uncounted EXCEPT !.status = "judge_unavailable"])
            \/ Stop("other", Uncounted)
      \/ EmitFull(es, Uncounted) \/ EmitFails(es, Uncounted)
  BY DEF CoverAssessed
<1> HIDE DEF es
<1>5. CASE EmitFull(es, Uncounted) \/ EmitFails(es, Uncounted)
  BY <1>1, <1>3, <1>5, UncountedSamePlace, CalmEmits
<1>6. CASE /\ Emitted(es)
           /\ \/ mem' = Commit([mem EXCEPT !.pending = Tail(@), !.judged = @ + 1], es)
              \/ mem' = Close(mem, es)
           /\ step' = [step EXCEPT !.end = NewEnd(es)] /\ pc' = "walk"
  <2>1. journal' = journal \o es /\ disk' = disk
    BY <1>6 DEF Emitted
  <2>2. step'.base = step.base
    BY <1>6, IInvFacts DEF StepStates
  <2>3. mem'.stack = mem.stack /\ mem'.pending = Tail(mem.pending)
    BY <1>2, <1>6 DEF Close, Commit, Cursors
  <2>4. Unasked(journal, mem') /\ pc' \in {"walk", "save"}
    BY <1>1, <1>2, <1>6, <2>3, PastHead
  <2> QED BY <1>1, <1>3, <2>1, <2>2, <2>4, UncountedSamePlace, CalmEmits
<1>7. CASE /\ Emitted(es)
           /\ \/ Stop("none", [Uncounted EXCEPT !.status = "judge_unavailable"])
              \/ Stop("other", Uncounted)
  <2>1. journal' = journal \o es /\ disk' = disk
    BY <1>7 DEF Emitted
  <2>2. SamePlace(mem, mem') /\ pc' \in {"walk", "save"} /\ step'.base = step.base
    <3>1. CASE Stop("none", [Uncounted EXCEPT !.status = "judge_unavailable"])
      BY <3>1, OnlyStops, UncountedSamePlace
    <3>2. CASE Stop("other", Uncounted)
      BY <3>2, OnlyStops, UncountedSamePlace DEF SamePlace
    <3> QED BY <1>7, <3>1, <3>2
  <2> QED BY <1>1, <1>3, <2>1, <2>2, UncountedSamePlace, CalmEmits
<1> QED BY <1>4, <1>5, <1>6, <1>7

-----------------------------------------------------------------------------
(* Between steps                                                             *)

LEMMA StartStepCalm ==
    ASSUME IInv, Calm, StartStep
    PROVE  Calm'
<1>1. /\ pc = "idle" /\ pc' = "walk" /\ journal' = journal /\ disk' = disk
      /\ mem' = [disk EXCEPT !.status = "running"]
      /\ step' = [NoStep EXCEPT !.base = disk.offset, !.left = StepCalls(disk.status)]
  BY DEF StartStep, durable
<1>2. disk \in Cursors
  BY IInvFacts
<1>3. SamePlace(disk, mem') /\ step'.base = disk.offset
  BY <1>1, <1>2 DEF SamePlace, NoStep, Cursors
<1>4. Steady(journal) /\ Late(journal, disk) /\ Unasked(journal, disk)
  BY <1>1 DEF Calm
<1>5. Unasked(journal, mem')
  BY <1>3, <1>4, SamePlaceFacts
<1>6. ToCome'
  BY <1>1, WalkingIsQuiet
<1> QED BY <1>1, <1>3, <1>4, <1>5, <1>6 DEF Calm

\* Saved progress is that of the step, or nothing is ahead of it any more.
LEMMA SaveScanCalm ==
    ASSUME IInv, Calm, SaveScan
    PROVE  Calm'
<1>1. pc = "save" /\ pc # "idle" /\ disk' = Saved /\ pc' = "idle" /\ journal' = journal
  BY DEF SaveScan
<1>2. mem \in Cursors /\ Steady(journal) /\ Unasked(journal, mem)
  BY <1>1, IInvFacts DEF Calm
<1> DEFINE m == [mem EXCEPT !.status = StatusSaved]
           w == [m EXCEPT !.status = "storage_cap", !.stack = <<>>, !.pending = <<>>]
<1>3. Saved = IF TooWide(m) THEN w ELSE m
  BY DEF Saved
<1>4. Unasked(journal, m) /\ Late(journal, m)
  <2>1. SamePlace(mem, m)
    BY <1>2 DEF SamePlace, Cursors
  <2> HIDE DEF m
  <2> QED BY <1>2, <2>1, SamePlaceFacts
<1>5. Unasked(journal, w) /\ Late(journal, w)
  <2>1. w.stack = <<>> /\ w.pending = <<>>
    BY <1>2 DEF Cursors
  <2> HIDE DEF w
  <2>2. Ahead(w) = {}
    BY <2>1 DEF Ahead, InCursor, ToSet
  <2> QED BY <2>2 DEF Unasked, Late
<1> HIDE DEF m, w
<1>6. Unasked(journal, disk') /\ Late(journal, disk')
  BY <1>1, <1>3, <1>4, <1>5
<1>7. ToCome'
  BY <1>1 DEF ToCome
<1> QED BY <1>1, <1>2, <1>6, <1>7 DEF Calm

LEMMA SourceCalm ==
    ASSUME Calm, UNCHANGED <<durable, local>>
    PROVE  Calm'
<1>1. /\ journal' = journal /\ disk' = disk /\ pc' = pc /\ mem' = mem /\ step' = step /\ job' = job
  BY DEF durable, local
<1>2. ToCome'
  BY <1>1 DEF Calm, ToCome, Known, HasRecord
<1> QED BY <1>1, <1>2 DEF Calm

LEMMA InitCalm == Init => CInv
<1> SUFFICES ASSUME Init PROVE CInv
  OBVIOUS
<1>1. journal = <<>> /\ Len(journal) = 0 /\ pc = "idle" /\ faults = 0
  BY DEF Init
<1>2. Steady(journal) /\ Late(journal, disk) /\ Unasked(journal, disk)
  BY <1>1 DEF Steady, Late, Unasked
<1>3. ToCome
  BY <1>1 DEF ToCome
<1> QED BY <1>1, <1>2, <1>3 DEF CInv, Calm

\* A failure is counted.
LEMMA FaultCounted ==
    ASSUME [Next]_vars
    PROVE  faults' \in {faults, faults + 1}
<1>1. ASSUME NEW es, NEW m, Emitted(es) \/ EmitFull(es, m) \/ EmitFails(es, m)
      PROVE  faults' \in {faults, faults + 1}
  BY <1>1 DEF Emitted, EmitFull, EmitFails, bounds
<1>2. CASE FileBudget \/ ListDir \/ BudgetEnds \/ SkipFile \/ StaleFile \/ SaveRecord
           \/ SaveLocated \/ CoverAssessed \/ ScopeExcluded \/ ScopeFails
  BY <1>1, <1>2
     DEF FileBudget, ListDir, BudgetEnds, SkipFile, StaleFile, SaveRecord, SaveLocated,
         CoverAssessed, ScopeExcluded, ScopeFails
<1>3. CASE StartStep \/ Finished \/ RulesHold \/ BeginFile \/ Replay \/ NotSent \/ CacheHit
           \/ AssessmentEnds \/ GiveUp \/ SaveScan \/ UNCHANGED vars
  BY <1>3
     DEF StartStep, Finished, RulesHold, BeginFile, Replay, NotSent, CacheHit, AssessmentEnds,
         GiveUp, SaveScan, vars, bounds
<1>4. CASE (\E o : Ask(o)) \/ Locate \/ LoadFails \/ SaveScanFails \/ Crash
           \/ (\E f \in Files : EditSource(f)) \/ (\E d \in Dirs : Spoil(d) \/ Repair(d))
           \/ (\E o : AskUnsaved(o)) \/ (\E o : LocateUnsaved(o))
  BY <1>4
     DEF Ask, Locate, LoadFails, SaveScanFails, Crash, EditSource, Spoil, Repair, AskUnsaved,
         LocateUnsaved, Unsaved, bounds
<1> QED BY <1>2, <1>3, <1>4 DEF Next, Work

LEMMA CalmKept ==
    ASSUME IInv, CInv, [Next]_vars
    PROVE  CInv'
<1>1. faults \in Nat /\ faults' \in Nat
  BY FaultCounted DEF CInv
<1> SUFFICES ASSUME faults' = 0 PROVE Calm'
  BY <1>1 DEF CInv
<1>2. NoFault /\ Calm
  BY <1>1, FaultCounted DEF CInv, NoFault
<1>3. CASE Work
  <2>1. CASE StartStep
    BY <1>2, <2>1, StartStepCalm
  <2>2. CASE Finished
    BY <1>2, <2>2, FinishedCalm
  <2>3. CASE FileBudget
    BY <1>2, <2>3, FileBudgetCalm
  <2>4. CASE ListDir
    BY <1>2, <2>4, ListDirCalm
  <2>5. CASE RulesHold
    BY <1>2, <2>5, RulesHoldCalm
  <2>6. CASE BudgetEnds
    BY <1>2, <2>6, BudgetEndsCalm
  <2>7. CASE SkipFile
    BY <1>2, <2>7, SkipFileCalm
  <2>8. CASE StaleFile
    BY <1>2, <2>8, StaleFileCalm
  <2>9. CASE BeginFile
    BY <1>2, <2>9, BeginFileCalm
  <2>10. CASE Replay
    BY <1>2, <2>10, ReplayCalm
  <2>11. CASE NotSent
    BY <1>2, <2>11, NotSentCalm
  <2>12. CASE CacheHit
    BY <1>2, <2>12, CacheHitCalm
  <2>13. CASE Ask("answer")
    BY <1>2, <2>13, AskCalm
  <2>14. CASE SaveRecord
    BY <1>2, <2>14, SaveRecordCalm
  <2>15. CASE Locate
    BY <1>2, <2>15, LocateCalm
  <2>16. CASE SaveLocated
    BY <1>2, <2>16, SaveLocatedCalm
  <2>17. CASE AssessmentEnds
    BY <1>2, <2>17, AssessmentEndsCalm
  <2>18. CASE CoverAssessed
    BY <1>2, <2>18, CoverAssessedCalm
  <2>19. CASE GiveUp
    BY <1>2, <2>19, GiveUpCalm
  <2>20. CASE SaveScan
    BY <1>2, <2>20, SaveScanCalm
  <2>21. CASE ScopeFails
    BY <1>2, <2>21, ScopeFailsCalm
  <2> QED
    BY <1>3, <2>1, <2>2, <2>3, <2>4, <2>5, <2>6, <2>7, <2>8, <2>9, <2>10, <2>11, <2>12,
       <2>13, <2>14, <2>15, <2>16, <2>17, <2>18, <2>19, <2>20, <2>21 DEF Work
<1>4. CASE ScopeExcluded
  BY <1>2, <1>4, ScopeExcludedCalm
<1>5. CASE \E d \in Dirs : Spoil(d) \/ Repair(d)
  BY <1>2, <1>5, SourceCalm DEF Spoil, Repair
<1>6. CASE \E o \in Outcomes : Ask(o)
  BY <1>2, <1>6, AskCalm
<1>7. CASE \/ (\E o : AskUnsaved(o)) \/ (\E o : LocateUnsaved(o))
           \/ LoadFails \/ SaveScanFails \/ Crash
  <2>1. faults' = faults + 1
    BY <1>7 DEF AskUnsaved, LocateUnsaved, Unsaved, LoadFails, SaveScanFails, Crash
  <2> QED BY <1>2, <2>1 DEF NoFault
<1>8. CASE \E f \in Files : EditSource(f)
  BY <1>2, <1>8, SourceCalm DEF EditSource
<1>9. CASE UNCHANGED vars
  BY <1>2, <1>9, SourceCalm DEF vars
<1> QED BY <1>3, <1>4, <1>5, <1>6, <1>7, <1>8, <1>9 DEF Next

(* As long as nothing has failed and the process has not died, a battery     *)
(* whose answer is in the journal is not asked again: steps that end at      *)
(* their budget, judges that do not answer, edits and full journals make no  *)
(* difference. A crash does (scan_blended).                                  *)
THEOREM NotAskedTwice == Spec => [](faults = 0 => AnsweredOnce)
<1>1. IInv /\ CInv => (faults = 0 => AnsweredOnce)
  <2> SUFFICES ASSUME IInv, CInv, faults = 0, AtBattery,
                      \E i \in 1 .. Len(journal) :
                          journal[i] = RecordOf(job.f, job.dig, job.b, TRUE)
               PROVE  Answered
    BY DEF AnsweredOnce
  <2>1. pc = "battery" /\ pc \in JobPcs /\ job.b <= Batteries[job.f]
    BY DEF AtBattery, JobPcs
  <2>2. Known(job.b) /\ job.b \in Nat
    BY <2>1, JobFacts DEF CInv, Calm, ToCome
  <2>3. HasRecord(job.f, job.dig, job.b)
    BY DEF HasRecord
  <2> QED BY <2>1, <2>2, <2>3 DEF Known, Answered
<1>2. IInv /\ CInv /\ [Next]_vars => CInv'
  BY CalmKept
<1> QED BY <1>1, <1>2, InitCalm, Invariance, PTL DEF Spec
=============================================================================
