----------------------------- MODULE Text_proofs -----------------------------
(* How files are prepared: the windows tile every source and tell the truth  *)
(* about it, whatever its length, the sizes and the declarations; the units  *)
(* of every text partition it; and the walk obeys every set of rules,        *)
(* whatever the tree and the edits.                                          *)
EXTENDS Windows, WalkRules, Units, FiniteSetTheorems, SequenceTheorems, WellFoundedInduction, TLAPS

(* A set of positions that is bounded and not empty has a greatest element:  *)
(* the loops of ContextWindows that walk back from a limit find a place.     *)
LEMMA GreatestExists ==
    ASSUME NEW n \in Nat, NEW S, S \subseteq 0 .. n, S # {}
    PROVE  Greatest(S) \in S /\ \A r \in S : r <= Greatest(S)
<1> DEFINE Less == {ss \in Nat \X Nat : ss[1] < ss[2]}
           T == {n - r : r \in S}
<1>1. \A r \in S : n - r \in Nat
  OBVIOUS
<1>2. T \subseteq Nat
  BY <1>1
<1>3. T # {}
  OBVIOUS
<1>4. IsWellFoundedOn(Less, Nat)
  BY NatLessThanWellFounded, Zenon DEF OpToRel
<1>5. PICK x \in T : \A y \in T : ~ (<<y, x>> \in Less)
  <2> HIDE DEF T, Less
  <2> QED BY <1>2, <1>3, <1>4, WFMin
<1>6. \A y \in T : x <= y
  <2> SUFFICES ASSUME NEW y \in T PROVE x <= y
    OBVIOUS
  <2>1. x \in Nat /\ y \in Nat
    BY <1>2
  <2>2. ~ (<<y, x>> \in Less)
    BY <1>5
  <2> QED BY <2>1, <2>2
<1>7. PICK q \in S : x = n - q
  BY <1>5
<1>8. \A r \in S : r <= q
  <2> SUFFICES ASSUME NEW r \in S PROVE r <= q
    OBVIOUS
  <2>1. x <= n - r
    BY <1>6
  <2> QED BY <2>1, <1>7, <1>1
<1> QED BY <1>8 DEF Greatest

-----------------------------------------------------------------------------
(* A rune never goes on behind a newline or at the beginning of the text.    *)
LEMMA NoRestAfterNewline ==
    ASSUME text \in Texts, NEW q \in 0 .. Len(text) - 1, q = 0 \/ ByteAt(q - 1) = "newline"
    PROVE  ByteAt(q) # "rest"
<1> SUFFICES ASSUME ByteAt(q) = "rest" PROVE FALSE
  OBVIOUS
<1>1. text \in Seq(Bytes) /\ ValidString(text)
  BY TextsAssumption
<1>2. q + 1 \in 1 .. Len(text) /\ text[q + 1] = "rest"
  BY <1>1 DEF ByteAt
<1>3. PICK j \in 1 .. q : text[j] = "x" /\ \A k \in j + 1 .. q + 1 : text[k] = "rest"
  BY <1>1, <1>2 DEF ValidString
<1>4. q # 0 /\ text[q] = "newline"
  BY <1>1, <1>3 DEF ByteAt
<1>5. CASE j = q
  BY <1>3, <1>4, <1>5
<1>6. CASE j < q
  <2>1. q \in j + 1 .. q + 1
    BY <1>6
  <2> QED BY <2>1, <1>3, <1>4
<1> QED BY <1>5, <1>6

\* A place where a window may end.
CleanAt(p) == p \in 0 .. Len(text) /\ (p < Len(text) => ByteAt(p) # "rest")

(* Every cut between units is such a place.                                  *)
LEMMA CutsAreClean == ASSUME text \in Texts, NEW c \in Cuts PROVE CleanAt(c)
<1>1. Len(text) \in Nat
  BY TextsAssumption
<1>2. CASE c \in {0, Len(text)}
  BY <1>1, <1>2, NoRestAfterNewline DEF CleanAt
<1>3. CASE c \in UnitStarts
  <2>1. c \in 0 .. Len(text) /\ (c = 0 \/ ByteAt(c - 1) = "newline")
    BY <1>3 DEF UnitStarts, IsLineStart
  <2> QED BY <1>1, <2>1, NoRestAfterNewline DEF CleanAt
<1> QED BY <1>2, <1>3 DEF Cuts

(* A window that is not the last of its unit still takes something, no more  *)
(* than its size, and ends before a rune.                                    *)
LEMMA StopIsClean ==
    ASSUME text \in Texts, size \in Nat, size >= MinSize,
           CleanAt(end), start \in Nat, start < end
    PROVE  /\ Stop \in start + 1 .. end
           /\ Stop <= start + size
           /\ Stop < Len(text) => ByteAt(Stop) # "rest"
<1>1. /\ text \in Seq(Bytes) /\ ValidString(text) /\ Len(text) \in Nat
      /\ MinSize \in Nat /\ MinSize >= 1
  BY TextsAssumption, SizesAssumption
<1>2. end \in 0 .. Len(text) /\ (end < Len(text) => ByteAt(end) # "rest")
  BY DEF CleanAt
<1>3. CASE end - start <= size
  BY <1>1, <1>2, <1>3 DEF Stop
<1>4. CASE ~ (end - start <= size)
  <2> DEFINE p == start + size
             rune == Greatest(Fitting)
             ends == {q \in start + 1 .. rune : ByteAt(q - 1) = "newline"}
  <2>1. p \in 0 .. Len(text) - 1 /\ p < end /\ start < p
    BY <1>1, <1>2, <1>4
  <2>2. PICK q \in start + 1 .. p : ByteAt(q) # "rest"
    <3>1. CASE ByteAt(p) # "rest"
      BY <2>1, <3>1
    <3>2. CASE ByteAt(p) = "rest"
      <4>1. p + 1 \in 1 .. Len(text) /\ text[p + 1] = "rest"
        BY <1>1, <2>1, <3>2 DEF ByteAt
      <4>2. PICK j \in 1 .. p : p + 1 - j < MinSize /\ text[j] = "x"
        BY <1>1, <2>1, <4>1 DEF ValidString
      <4>3. j - 1 \in start + 1 .. p /\ ByteAt(j - 1) = "x"
        BY <1>1, <2>1, <4>2 DEF ByteAt
      <4> QED BY <4>3
    <3> QED BY <3>1, <3>2
  <2>3. Fitting \subseteq 0 .. p /\ q \in Fitting
    BY <2>1, <2>2 DEF Fitting
  <2>4. rune \in Fitting /\ q <= rune
    <3>1. p \in Nat /\ Fitting # {}
      BY <2>1, <2>3
    <3> HIDE DEF p
    <3>2. Greatest(Fitting) \in Fitting /\ \A r \in Fitting : r <= Greatest(Fitting)
      BY <2>3, <3>1, GreatestExists
    <3> QED BY <2>3, <3>2
  <2>5. rune \in start + 1 .. p /\ ByteAt(rune) # "rest"
    BY <2>1, <2>2, <2>4 DEF Fitting
  <2>6. CASE ends = {}
    <3>1. Stop = rune
      BY <1>4, <2>6 DEF Stop
    <3> QED BY <1>2, <2>1, <2>5, <3>1
  <2>7. CASE ends # {}
    <3>1. Stop = Greatest(ends)
      BY <1>4, <2>7 DEF Stop
    <3>2. ends \subseteq 0 .. p
      BY <2>1, <2>5
    <3>3. Greatest(ends) \in ends
      <4>1. p \in Nat
        BY <2>1
      <4> HIDE DEF ends, p
      <4> QED BY <2>7, <3>2, <4>1, GreatestExists
    <3>4. Stop \in start + 1 .. p /\ ByteAt(Stop - 1) = "newline"
      BY <2>1, <2>5, <3>1, <3>3
    <3>5. Stop \in 0 .. Len(text) - 1
      BY <1>1, <2>1, <3>4
    <3>6. ByteAt(Stop) # "rest"
      BY <3>4, <3>5, NoRestAfterNewline
    <3> QED BY <1>2, <2>1, <3>4, <3>6
  <2> QED BY <2>6, <2>7
<1> QED BY <1>3, <1>4

-----------------------------------------------------------------------------
(* Where the loop stands: behind the last window, between two cuts.          *)
InPlace ==
    /\ text \in Texts
    /\ size \in Nat /\ size >= MinSize
    /\ CleanAt(end)
    /\ start \in 0 .. end
    /\ out \in Seq(ToSet(out))
    /\ start = (IF out = <<>> THEN 0 ELSE out[Len(out)].to)
    /\ result # "working" => start = Len(text)

\* The first half of WindowsTile, for windows of a given size.
EndToEnd(ws, n) ==
    \A i \in 1 .. Len(ws) :
        /\ ws[i].from = (IF i = 1 THEN 0 ELSE ws[i - 1].to)
        /\ ws[i].to \in ws[i].from + 1 .. ws[i].from + n
        /\ ws[i].to < Len(text) => ByteAt(ws[i].to) # "rest"

IInv == InPlace /\ EndToEnd(out, size)

(* What a window added to the windows leaves, and what it adds.              *)
LEMMA AppendIsSeq ==
    ASSUME NEW s, NEW w, s \in Seq(ToSet(s))
    PROVE  /\ Append(s, w) \in Seq(ToSet(Append(s, w)))
           /\ Len(s) \in Nat /\ Len(Append(s, w)) = Len(s) + 1
           /\ Append(s, w) # <<>>
           /\ Append(s, w)[Len(s) + 1] = w
           /\ \A i \in 1 .. Len(s) : Append(s, w)[i] = s[i]
           /\ s = <<>> <=> Len(s) = 0
<1> DEFINE S == ToSet(s) \cup {w}
           t == Append(s, w)
<1>1. s \in Seq(S)
  <2> HIDE DEF S
  <2>1. ToSet(s) \subseteq S
    BY DEF S
  <2> QED BY <2>1
<1>2. w \in S
  OBVIOUS
<1>3. /\ t \in Seq(S) /\ Len(s) \in Nat /\ Len(t) = Len(s) + 1 /\ t # <<>>
      /\ t[Len(s) + 1] = w /\ \A i \in 1 .. Len(s) : t[i] = s[i]
      /\ s = <<>> <=> Len(s) = 0
  <2> HIDE DEF S
  <2>1. t \in Seq(S) /\ Len(s) \in Nat /\ Len(t) = Len(s) + 1
    BY <1>1, <1>2
  <2>2. t[Len(s) + 1] = w /\ \A i \in 1 .. Len(s) : t[i] = s[i]
    BY <1>1, <1>2
  <2>3. t # <<>>
    BY <2>1
  <2>4. s = <<>> <=> Len(s) = 0
    BY <1>1
  <2> QED BY <2>1, <2>2, <2>3, <2>4
<1>4. \A i \in 1 .. Len(t) : t[i] \in ToSet(t)
  BY <1>3 DEF ToSet
<1>5. t \in Seq(ToSet(t))
  <2> HIDE DEF S, t
  <2> QED BY <1>3, <1>4
<1> QED BY <1>3, <1>5

(* The loop begins in place.                                                 *)
LEMMA InitHolds == Init => IInv
<1> SUFFICES ASSUME Init PROVE IInv
  OBVIOUS
<1>1. text \in Texts /\ Len(text) \in Nat /\ size \in Nat /\ size >= MinSize
  BY TextsAssumption, SizesAssumption DEF Init
<1>2. CleanAt(0)
  BY CutsAreClean, <1>1 DEF Cuts
<1>3. out = <<>> /\ start = 0 /\ end = 0 /\ result = "working"
  BY DEF Init
<1> QED BY <1>1, <1>2, <1>3 DEF IInv, InPlace, EndToEnd

(* Every pass of it leaves it in place.                                      *)
LEMMA NextHolds == IInv /\ [Next]_vars => IInv'
<1> SUFFICES ASSUME IInv, [Next]_vars PROVE IInv'
  OBVIOUS
<1>1. text' = text
  BY DEF Next, NextUnits, Window, Accept, Refuse, Shrink, vars
<1>2. ASSUME NEW p, CleanAt(p), end' = p PROVE CleanAt(end)'
  BY <1>1, <1>2 DEF CleanAt, ByteAt
<1>3. /\ Len(text) \in Nat /\ end \in 0 .. Len(text)
      /\ MinSize \in Nat /\ MinSize >= 1
  BY TextsAssumption, SizesAssumption DEF IInv, InPlace, CleanAt
<1>4. CASE NextUnits
  <2>1. PICK c \in Cuts : end < c /\ end' = c
    BY <1>4 DEF NextUnits
  <2>2. CleanAt(c) /\ c \in 0 .. Len(text)
    BY CutsAreClean DEF IInv, InPlace, CleanAt
  <2>3. UNCHANGED <<text, size, result, start, out>>
    BY <1>4 DEF NextUnits
  <2>4. InPlace'
    BY <1>2, <1>3, <2>1, <2>2, <2>3 DEF IInv, InPlace
  <2>5. EndToEnd(out, size)'
    BY <2>3 DEF IInv, EndToEnd, ByteAt
  <2> QED BY <2>4, <2>5 DEF IInv
<1>5. CASE Window
  <2>1. PICK w : /\ out' = Append(out, w) /\ w.from = start /\ w.to = Stop
                 /\ start' = Stop
    BY <1>5 DEF Window
  <2>2. /\ UNCHANGED <<text, size, result, end>> /\ result = "working" /\ start < end
    BY <1>5 DEF Window
  <2>3. /\ Stop \in start + 1 .. end /\ Stop <= start + size
        /\ Stop < Len(text) => ByteAt(Stop) # "rest"
    BY <1>3, <2>2, StopIsClean DEF IInv, InPlace
  <2>4. /\ out' \in Seq(ToSet(out')) /\ Len(out) \in Nat /\ Len(out') = Len(out) + 1
        /\ out' # <<>> /\ out'[Len(out) + 1] = w
        /\ \A i \in 1 .. Len(out) : out'[i] = out[i]
        /\ out = <<>> <=> Len(out) = 0
    BY <2>1, AppendIsSeq DEF IInv, InPlace
  <2>5. InPlace'
    <3>1. CleanAt(end)'
      BY <1>2, <2>2 DEF IInv, InPlace
    <3>2. start' \in 0 .. end' /\ start' = out'[Len(out')].to
      BY <1>3, <2>1, <2>2, <2>3, <2>4 DEF IInv, InPlace
    <3>3. /\ text' \in Texts /\ size' \in Nat /\ size' >= MinSize
          /\ result' = "working"
      BY <2>2 DEF IInv, InPlace
    <3> QED BY <2>4, <3>1, <3>2, <3>3 DEF InPlace
  <2>6. EndToEnd(out, size)'
    <3> SUFFICES ASSUME NEW i \in 1 .. Len(out) + 1
                 PROVE  /\ out'[i].from = (IF i = 1 THEN 0 ELSE out'[i - 1].to)
                        /\ out'[i].to \in out'[i].from + 1 .. out'[i].from + size
                        /\ out'[i].to < Len(text) => ByteAt(out'[i].to) # "rest"
      BY <2>2, <2>4 DEF EndToEnd, ByteAt
    <3>1. CASE i \in 1 .. Len(out)
      <4>1. out'[i] = out[i] /\ (i # 1 => out'[i - 1] = out[i - 1])
        BY <2>4, <3>1
      <4> QED BY <3>1, <4>1 DEF IInv, EndToEnd
    <3>2. CASE i = Len(out) + 1
      <4>1. start = (IF i = 1 THEN 0 ELSE out'[i - 1].to)
        BY <2>4, <3>2 DEF IInv, InPlace
      <4> QED BY <2>1, <2>3, <2>4, <3>2, <4>1
    <3> QED BY <2>4, <3>1, <3>2
  <2> QED BY <2>5, <2>6 DEF IInv
<1>6. CASE Accept \/ Refuse
  <2>1. UNCHANGED <<text, size, start, end, out>> /\ start = Len(text)
    BY <1>6 DEF Accept, Refuse, Cut, cutting
  <2>2. InPlace'
    BY <1>2, <2>1 DEF IInv, InPlace
  <2>3. EndToEnd(out, size)'
    BY <2>1 DEF IInv, EndToEnd, ByteAt
  <2> QED BY <2>2, <2>3 DEF IInv
<1>7. CASE Shrink
  <2>1. /\ text' = text /\ result' = result /\ result = "working"
        /\ start' = 0 /\ end' = 0 /\ out' = <<>>
        /\ size' = AtLeast(MinSize, size \div 2)
    BY <1>7 DEF Shrink, CutAgain, Cut
  <2>2. size' \in Nat /\ size' >= MinSize
    BY <1>3, <2>1 DEF IInv, InPlace, AtLeast
  <2>3. CleanAt(0)
    BY CutsAreClean DEF Cuts, IInv, InPlace
  <2>4. InPlace'
    BY <1>2, <2>1, <2>2, <2>3 DEF IInv, InPlace
  <2>5. EndToEnd(out, size)'
    BY <2>1 DEF EndToEnd
  <2> QED BY <2>4, <2>5 DEF IInv
<1>8. CASE UNCHANGED vars
  <2>1. UNCHANGED <<text, size, result, start, end, out>>
    BY <1>8 DEF vars, cutting
  <2>2. InPlace'
    BY <1>2, <2>1 DEF IInv, InPlace
  <2>3. EndToEnd(out, size)'
    BY <2>1 DEF IInv, EndToEnd, ByteAt
  <2> QED BY <2>2, <2>3 DEF IInv
<1> QED BY <1>4, <1>5, <1>6, <1>7, <1>8 DEF Next

(* The loop always stands behind its last window and between two cuts, and   *)
(* what it has cut so far lies end to end.                                   *)
THEOREM Invariance == Spec => []IInv
<1> QED BY InitHolds, NextHolds, PTL DEF Spec

(* ContextWindows skips nothing, sends nothing twice and tears no rune, for  *)
(* every source, every declared structure and every size.                    *)
THEOREM WindowsTileAlways == Spec => []WindowsTile
<1>1. IInv => WindowsTile
  BY DEF IInv, InPlace, EndToEnd, WindowsTile
<1> QED BY <1>1, Invariance, PTL

-----------------------------------------------------------------------------
(* Sorted sets                                                               *)

(* The places of a finite set of numbers in ascending order.                 *)
LEMMA SortedFacts ==
    ASSUME NEW S \in SUBSET Nat, IsFiniteSet(S)
    PROVE  /\ Sorted(S) \in Seq(S) /\ Len(Sorted(S)) = Cardinality(S) /\ Cardinality(S) \in Nat
           /\ \A m, n \in 1 .. Len(Sorted(S)) : m < n => Sorted(S)[m] < Sorted(S)[n]
           /\ \A x \in S : \E n \in 1 .. Len(Sorted(S)) : Sorted(S)[n] = x
<1> DEFINE c == Cardinality(S)
           below(x) == {y \in S : y < x}
           r == [x \in S |-> 1 + Cardinality(below(x))]
<1>1. c \in Nat
  BY FS_CardinalityType
<1>2. ASSUME NEW x \in S
      PROVE  IsFiniteSet(below(x)) /\ Cardinality(below(x)) \in 0 .. c - 1
  <2>1. below(x) \in SUBSET S /\ x \notin below(x)
    OBVIOUS
  <2> HIDE DEF below
  <2>2. IsFiniteSet(below(x)) /\ Cardinality(below(x)) <= c /\ below(x) # S
    BY <2>1, FS_Subset
  <2>3. Cardinality(below(x)) \in Nat /\ Cardinality(below(x)) # c
    BY <2>1, <2>2, FS_CardinalityType, FS_Subset
  <2> QED BY <1>1, <2>2, <2>3
<1>3. ASSUME NEW x \in S, NEW y \in S, x < y PROVE r[x] < r[y]
  <2>1. below(x) \in SUBSET below(y) /\ x \in below(y) /\ x \notin below(x)
    <3>1. x \in Nat /\ y \in Nat /\ \A z \in S : z \in Nat
      OBVIOUS
    <3>2. \A u, v, w \in Nat : u < v => (w < u => w < v) /\ ~ (u < u)
      OBVIOUS
    <3> QED BY <1>3, <3>1, <3>2, Zenon
  <2> HIDE DEF below
  <2>2. IsFiniteSet(below(y)) /\ below(x) # below(y)
    BY <1>2, <2>1
  <2>3. Cardinality(below(x)) <= Cardinality(below(y)) /\ Cardinality(below(x)) # Cardinality(below(y))
    BY <2>1, <2>2, FS_Subset
  <2> QED BY <1>1, <1>2, <2>3
<1>4. r \in [S -> 1 .. c]
  <2> HIDE DEF below
  <2>1. \A x \in S : 1 + Cardinality(below(x)) \in 1 .. c
    BY <1>1, <1>2
  <2> QED BY <2>1
<1>5. \A x \in S : r[x] = 1 + Cardinality(below(x)) /\ Cardinality(below(x)) \in Nat
  BY <1>1, <1>2
<1> HIDE DEF r
<1>6. \A x, y \in S : r[x] <= r[y] => x <= y
  BY <1>1, <1>3, <1>4
<1>7. \A x, y \in S : r[x] = r[y] => x = y
  BY <1>1, <1>4, <1>6
<1>8. r \in Injection(S, 1 .. c)
  BY <1>4, <1>7 DEF Injection, IsInjective
<1>9. IsFiniteSet(1 .. c) /\ Cardinality(1 .. c) = c
  BY <1>1, FS_Interval
<1>10. r \in Surjection(S, 1 .. c)
  BY <1>8, <1>9, FS_Injection
<1>11. \A n \in 1 .. c : \E x \in S : r[x] = n
  BY <1>10 DEF Surjection
<1> DEFINE s == Sorted(S)
           place(x, i) == Cardinality({y \in S : y < x}) = i - 1
<1>12. s = [i \in 1 .. c |-> CHOOSE x \in S : place(x, i)]
  BY DEF Sorted
<1>13. \A x \in S, i \in 1 .. c : place(x, i) <=> r[x] = i
  <2> SUFFICES ASSUME NEW x \in S, NEW i \in 1 .. c PROVE place(x, i) <=> r[x] = i
    OBVIOUS
  <2>1. place(x, i) <=> Cardinality(below(x)) = i - 1
    OBVIOUS
  <2> HIDE DEF below, place
  <2> QED BY <1>1, <1>5, <2>1
<1> HIDE DEF place, s
<1>14. \A n \in 1 .. c : s[n] \in S /\ r[s[n]] = n
  <2> SUFFICES ASSUME NEW n \in 1 .. c PROVE s[n] \in S /\ r[s[n]] = n
    OBVIOUS
  <2>1. s[n] = CHOOSE x \in S : place(x, n)
    BY <1>12
  <2>2. s[n] \in S /\ place(s[n], n)
    BY <1>11, <1>13, <2>1
  <2> QED BY <1>13, <2>2
<1>15. s \in [1 .. c -> S]
  BY <1>12, <1>14
<1>16. s \in Seq(S) /\ Len(s) = c
  BY <1>1, <1>15
<1>17. ASSUME NEW m \in 1 .. c, NEW n \in 1 .. c, m < n PROVE s[m] < s[n]
  <2>1. s[m] \in S /\ s[n] \in S /\ s[m] \in Nat /\ s[n] \in Nat /\ r[s[m]] = m /\ r[s[n]] = n
    BY <1>14
  <2>2. s[n] # s[m]
    BY <1>17, <2>1
  <2>3. s[m] <= s[n]
    BY <1>1, <1>6, <1>17, <2>1
  <2> QED BY <2>1, <2>2, <2>3
<1>18. ASSUME NEW x \in S PROVE \E n \in 1 .. c : s[n] = x
  <2>1. r[x] \in 1 .. c
    BY <1>4
  <2>2. s[r[x]] \in S /\ r[s[r[x]]] = r[x]
    BY <1>14, <2>1
  <2> QED BY <1>7, <2>1, <2>2
<1> QED BY <1>1, <1>16, <1>17, <1>18 DEF s, c

(* As many places of the sorted set as elements lie below a bound.           *)
LEMMA CountBelow ==
    ASSUME NEW S \in SUBSET Nat, IsFiniteSet(S), NEW p
    PROVE  Cardinality({i \in 1 .. Len(Sorted(S)) : Sorted(S)[i] < p})
             = Cardinality({x \in S : x < p})
<1> DEFINE s == Sorted(S)
           I == {i \in 1 .. Len(s) : s[i] < p}
           X == {x \in S : x < p}
           f == [i \in I |-> s[i]]
<1>1. /\ s \in Seq(S) /\ Len(s) \in Nat
      /\ \A m, n \in 1 .. Len(s) : m < n => s[m] < s[n]
      /\ \A x \in S : \E n \in 1 .. Len(s) : s[n] = x
  BY SortedFacts
<1> HIDE DEF s
<1>2. \A i \in 1 .. Len(s) : s[i] \in S /\ s[i] \in Nat
  <2>1. \A i \in 1 .. Len(s) : s[i] \in S
    BY <1>1
  <2> QED BY <2>1
<1>3. f \in [I -> X]
  BY <1>2
<1>4. \A i, j \in I : f[i] = f[j] => i = j
  <2> SUFFICES ASSUME NEW i \in I, NEW j \in I, s[i] = s[j] PROVE i = j
    OBVIOUS
  <2>1. i \in 1 .. Len(s) /\ j \in 1 .. Len(s)
    OBVIOUS
  <2>2. ~ (i < j) /\ ~ (j < i)
    BY <1>1, <1>2, <2>1
  <2> QED BY <1>1, <2>1, <2>2
<1>5. \A x \in X : \E i \in I : f[i] = x
  BY <1>1
<1>6. f \in Bijection(I, X)
  BY <1>3, <1>4, <1>5 DEF Bijection, Injection, IsInjective, Surjection
<1>7. IsFiniteSet(X) /\ IsFiniteSet(I)
  <2>1. IsFiniteSet(1 .. Len(s))
    BY <1>1, FS_Interval
  <2>2. X \in SUBSET S /\ I \in SUBSET (1 .. Len(s))
    OBVIOUS
  <2> HIDE DEF X, I
  <2> QED BY <2>1, <2>2, FS_Subset
<1>8. Cardinality(I) = Cardinality(X)
  <2> HIDE DEF I, X, f
  <2>1. ExistsBijection(I, X)
    BY <1>6 DEF ExistsBijection
  <2> QED BY <1>7, <2>1, FS_Bijection
<1> QED BY <1>8 DEF s

-----------------------------------------------------------------------------
(* What the windows say of themselves                                        *)
(* The elements of S from a to below b.                                      *)
Within(S, a, b) == Cardinality({p \in a .. b - 1 : p \in S})

(* Counts over neighbouring stretches add up.                                *)
LEMMA WithinAdds ==
    ASSUME NEW S, NEW a \in Nat, NEW b \in Nat, NEW c \in Nat, a <= b, b <= c
    PROVE  /\ Within(S, a, b) \in Nat /\ Within(S, b, c) \in Nat
           /\ Within(S, a, c) = Within(S, a, b) + Within(S, b, c)
<1> DEFINE X == {p \in a .. b - 1 : p \in S}
           Y == {p \in b .. c - 1 : p \in S}
           Z == {p \in a .. c - 1 : p \in S}
<1>1. IsFiniteSet(a .. b - 1) /\ IsFiniteSet(b .. c - 1)
  BY FS_Interval
<1>2. X \in SUBSET (a .. b - 1) /\ Y \in SUBSET (b .. c - 1) /\ X \cup Y = Z /\ X \cap Y = {}
  OBVIOUS
<1>3. Within(S, a, b) = Cardinality(X) /\ Within(S, b, c) = Cardinality(Y)
      /\ Within(S, a, c) = Cardinality(Z)
  BY DEF Within
<1> HIDE DEF X, Y, Z
<1>4. IsFiniteSet(X) /\ IsFiniteSet(Y)
  BY <1>1, <1>2, FS_Subset
<1>5. Cardinality(X) \in Nat /\ Cardinality(Y) \in Nat
  BY <1>4, FS_CardinalityType
<1>6. Cardinality(X \cup Y) = Cardinality(X) + Cardinality(Y) - Cardinality(X \cap Y)
  BY <1>4, FS_Union
<1>7. Cardinality(X \cap Y) = 0
  BY <1>2, FS_EmptySet
<1>8. Cardinality(Z) = Cardinality(X) + Cardinality(Y)
  <2>1. Cardinality(Z) = Cardinality(X) + Cardinality(Y) - 0
    BY <1>2, <1>6, <1>7, Zenon
  <2> QED BY <1>5, <2>1
<1> QED BY <1>3, <1>5, <1>8

(* The count over a single position, and over none.                          *)
LEMMA WithinOne ==
    ASSUME NEW S, NEW p \in Nat
    PROVE  Within(S, p, p + 1) = (IF p \in S THEN 1 ELSE 0) /\ Within(S, p, p) = 0
<1>3. Within(S, p, p) = 0
  <2>1. {q \in p .. p - 1 : q \in S} = {}
    OBVIOUS
  <2>2. Within(S, p, p) = Cardinality({})
    BY <2>1 DEF Within
  <2> QED BY <2>2, FS_EmptySet
<1>1. CASE p \in S
  <2>1. {q \in p .. p + 1 - 1 : q \in S} = {p}
    BY <1>1
  <2>2. Within(S, p, p + 1) = Cardinality({p})
    BY <2>1 DEF Within
  <2> QED BY <1>1, <1>3, <2>2, FS_Singleton
<1>2. CASE p \notin S
  <2>1. {q \in p .. p + 1 - 1 : q \in S} = {}
    BY <1>2
  <2>2. Within(S, p, p + 1) = Cardinality({})
    BY <2>1 DEF Within
  <2> QED BY <1>2, <1>3, <2>2, FS_EmptySet
<1> QED BY <1>1, <1>2

(* WithinAdds for stretches that begin with the text.                        *)
LEMMA WithinFromZero ==
    ASSUME NEW S, NEW a \in Nat, NEW b \in Nat, a <= b
    PROVE  /\ Within(S, 0, a) \in Nat /\ Within(S, a, b) \in Nat
           /\ Within(S, 0, b) = Within(S, 0, a) + Within(S, a, b)
<1> DEFINE z == 0
<1>1. z \in Nat /\ z <= a
  OBVIOUS
<1> HIDE DEF z
<1>2. /\ Within(S, z, a) \in Nat /\ Within(S, a, b) \in Nat
      /\ Within(S, z, b) = Within(S, z, a) + Within(S, a, b)
  BY <1>1, WithinAdds
<1> QED BY <1>2 DEF z

(* One position more counts itself.                                          *)
LEMMA WithinNext ==
    ASSUME NEW S, NEW k \in Nat, NEW b \in Nat, b = k + 1
    PROVE  /\ Within(S, 0, k) \in Nat
           /\ Within(S, 0, b) = Within(S, 0, k) + (IF k \in S THEN 1 ELSE 0)
<1>1. Within(S, k, b) = IF k \in S THEN 1 ELSE 0
  BY WithinOne
<1>2. k <= b
  OBVIOUS
<1>3. Within(S, 0, k) \in Nat /\ Within(S, 0, b) = Within(S, 0, k) + Within(S, k, b)
  BY <1>2, WithinFromZero
<1> QED BY <1>1, <1>3

(* Counting below a bound is counting from the beginning.                    *)
LEMMA WithinCountsBelow ==
    ASSUME NEW S \in SUBSET Nat, NEW p \in Nat
    PROVE  Cardinality({x \in S : x < p}) = Within(S, 0, p)
<1>1. {x \in S : x < p} = {x \in 0 .. p - 1 : x \in S}
  <2>1. \A x \in S : x \in Nat
    OBVIOUS
  <2>2. \A x \in S : x < p <=> x \in 0 .. p - 1
    BY <2>1
  <2> QED BY <2>2, Zenon
<1> QED BY <1>1 DEF Within

(* The positions of a kind of byte are finitely many, and lie in the text.   *)
LEMMA PositionsFinite ==
    ASSUME text \in Texts, NEW b
    PROVE  /\ Positions(b) \in SUBSET Nat /\ IsFiniteSet(Positions(b))
           /\ Positions(b) \subseteq 0 .. Len(text) - 1
<1>1. Len(text) \in Nat
  BY TextsAssumption
<1>2. Positions(b) \in SUBSET (0 .. Len(text) - 1)
  BY DEF Positions
<1>3. IsFiniteSet(0 .. Len(text) - 1)
  BY <1>1, FS_Interval
<1>4. IsFiniteSet(Positions(b))
  BY <1>2, <1>3, FS_Subset
<1> QED BY <1>1, <1>2, <1>4

(* Counting lines along with the windows numbers them as they are.           *)
LEMMA LinesFacts ==
    ASSUME text \in Texts, NEW p \in Nat, NEW q \in 1 .. Len(text), p < q
    PROVE  /\ NewlinesIn(p, q) \in Nat /\ LineOf(p) \in Nat
           /\ LineOf(q) = LineOf(p) + NewlinesIn(p, q)
           /\ LineOf(q - 1) = LineOf(q) - (IF ByteAt(q - 1) = "newline" THEN 1 ELSE 0)
<1> DEFINE k == q - 1
<1>1. k \in Nat /\ q = k + 1 /\ k \in 0 .. Len(text) - 1 /\ p <= k
  BY TextsAssumption
<1>2. k \in Positions("newline") <=> ByteAt(k) = "newline"
  BY <1>1 DEF Positions
<1>3. ASSUME NEW S
      PROVE  /\ Within(S, 0, p) \in Nat /\ Within(S, 0, k) \in Nat /\ Within(S, p, q) \in Nat
             /\ Within(S, 0, q) = Within(S, 0, p) + Within(S, p, q)
             /\ Within(S, 0, q) = Within(S, 0, k) + (IF k \in S THEN 1 ELSE 0)
  <2>1. q \in Nat /\ p <= q
    BY <1>1
  <2> HIDE DEF k
  <2>2. /\ Within(S, 0, p) \in Nat /\ Within(S, p, q) \in Nat
        /\ Within(S, 0, q) = Within(S, 0, p) + Within(S, p, q)
    BY <2>1, WithinFromZero
  <2>3. Within(S, 0, k) \in Nat /\ Within(S, 0, q) = Within(S, 0, k) + (IF k \in S THEN 1 ELSE 0)
    BY <1>1, <2>1, WithinNext
  <2> QED BY <2>2, <2>3
<1>4. \A x, y : NewlinesIn(x, y) = Within(Positions("newline"), x, y)
  BY DEF NewlinesIn, Within
<1> HIDE DEF k
<1>5. \A x : LineOf(x) = 1 + Within(Positions("newline"), 0, x)
  BY <1>4 DEF LineOf
<1>6. /\ NewlinesIn(p, q) \in Nat /\ LineOf(p) \in Nat
      /\ LineOf(q) = LineOf(p) + NewlinesIn(p, q)
  BY <1>3, <1>4, <1>5
<1>7. LineOf(k) = LineOf(q) - (IF ByteAt(k) = "newline" THEN 1 ELSE 0)
  BY <1>2, <1>3, <1>5
<1> QED BY <1>6, <1>7 DEF k

(* The secrets counted before a place are those there are.                   *)
LEMMA SecretsFacts ==
    ASSUME text \in Texts, NEW a \in Nat, NEW b \in Nat, a <= b
    PROVE  /\ SecretsBefore(a) \in Nat /\ SecretsBefore(b) \in Nat /\ SecretsBefore(a) <= SecretsBefore(b)
           /\ SecretsBefore(b) - SecretsBefore(a) = Cardinality(Positions("secret") \cap (a .. b - 1))
           /\ SecretsBefore(0) = 0
<1> DEFINE S == Positions("secret")
<1>1. S \in SUBSET Nat /\ IsFiniteSet(S)
  BY PositionsFinite
<1>2. \A p \in Nat : SecretsBefore(p) = Within(S, 0, p)
  <2> SUFFICES ASSUME NEW p \in Nat PROVE SecretsBefore(p) = Within(S, 0, p)
    OBVIOUS
  <2>1. SecretsBefore(p) = Cardinality({i \in 1 .. Len(Sorted(S)) : Sorted(S)[i] < p})
    BY DEF SecretsBefore, Secrets
  <2> HIDE DEF S
  <2> QED BY <1>1, <2>1, CountBelow, WithinCountsBelow
<1>3. S \cap (a .. b - 1) = {p \in a .. b - 1 : p \in S}
  OBVIOUS
<1> HIDE DEF S
<1>4. Cardinality(S \cap (a .. b - 1)) = Within(S, a, b)
  BY <1>3 DEF Within
<1>6. /\ Within(S, 0, a) \in Nat /\ Within(S, a, b) \in Nat
      /\ Within(S, 0, b) = Within(S, 0, a) + Within(S, a, b)
  BY WithinFromZero
<1>7. Within(S, 0, 0) = 0
  BY WithinOne
<1>8. SecretsBefore(a) = Within(S, 0, a) /\ SecretsBefore(b) = Within(S, 0, b) /\ SecretsBefore(0) = Within(S, 0, 0)
  BY <1>2
<1>9. Cardinality(Positions("secret") \cap (a .. b - 1)) = Within(S, a, b)
  BY <1>4 DEF S
<1> QED BY <1>6, <1>7, <1>8, <1>9

\* Where the runs of comment bytes begin.
CommentStarts == {p \in Positions("comment") : p = 0 \/ ByteAt(p - 1) # "comment"}

(* Where a run of comment bytes ends.                                        *)
LEMMA RunEnds ==
    ASSUME text \in Texts, NEW p \in Positions("comment")
    PROVE  \E q \in p + 1 .. Len(text) :
              /\ q = Len(text) \/ ByteAt(q) # "comment"
              /\ \A r \in p .. q - 1 : ByteAt(r) = "comment"
<1> DEFINE n == Len(text)
           All(q) == \A r \in p .. q - 1 : ByteAt(r) = "comment"
           Q == {q \in p + 1 .. n : All(q)}
<1>1. n \in Nat /\ p \in 0 .. n - 1 /\ ByteAt(p) = "comment"
  BY TextsAssumption DEF Positions
<1>2. p + 1 \in Q
  BY <1>1
<1>3. Q \subseteq 0 .. n
  BY <1>1
<1>4. PICK q \in Q : \A r \in Q : r <= q
  <2> HIDE DEF Q, n
  <2>1. Greatest(Q) \in Q /\ \A r \in Q : r <= Greatest(Q)
    BY <1>1, <1>2, <1>3, GreatestExists
  <2> QED BY <2>1
<1>5. ASSUME q # n PROVE ByteAt(q) # "comment"
  <2> SUFFICES ASSUME ByteAt(q) = "comment" PROVE FALSE
    OBVIOUS
  <2>1. q + 1 \in p + 1 .. n /\ q \in p + 1 .. n
    BY <1>1, <1>5
  <2>2. \A r \in p .. q + 1 - 1 : r \in p .. q - 1 \/ r = q
    BY <1>1, <2>1
  <2>3. q + 1 \in Q
    BY <2>1, <2>2
  <2> QED BY <1>1, <1>4, <2>1, <2>3
<1> QED BY <1>4, <1>5

(* Where it begins.                                                          *)
LEMMA RunBegins ==
    ASSUME text \in Texts, NEW p \in Positions("comment")
    PROVE  \E f \in CommentStarts : f <= p /\ \A r \in f .. p : ByteAt(r) = "comment"
<1> DEFINE n == Len(text)
           B == {f \in 0 .. p : ByteAt(f) # "comment"}
<1>1. n \in Nat /\ p \in 0 .. n - 1 /\ ByteAt(p) = "comment" /\ p \in Nat
  BY TextsAssumption DEF Positions
<1>2. CASE B = {}
  <2>1. \A r \in 0 .. p : ByteAt(r) = "comment"
    BY <1>2
  <2>2. 0 \in CommentStarts
    BY <1>1, <2>1 DEF CommentStarts, Positions
  <2> QED BY <1>1, <2>1, <2>2
<1>3. CASE B # {}
  <2>1. PICK b \in B : \A r \in B : r <= b
    <3>1. B \subseteq 0 .. p
      OBVIOUS
    <3> HIDE DEF B
    <3>2. Greatest(B) \in B /\ \A r \in B : r <= Greatest(B)
      BY <1>1, <1>3, <3>1, GreatestExists
    <3> QED BY <3>2
  <2> DEFINE f == b + 1
  <2>2. b \in 0 .. p - 1 /\ f \in 0 .. p /\ f - 1 = b
    BY <1>1, <2>1
  <2>3. \A r \in f .. p : ByteAt(r) = "comment"
    <3> SUFFICES ASSUME NEW r \in f .. p, ByteAt(r) # "comment" PROVE FALSE
      OBVIOUS
    <3>1. r \in B
      BY <1>1, <2>2
    <3> QED BY <2>1, <2>2, <3>1
  <2>4. f \in Positions("comment") /\ ByteAt(f - 1) # "comment"
    <3>1. ByteAt(f - 1) # "comment"
      BY <2>1, <2>2
    <3>2. f \in 0 .. n - 1 /\ ByteAt(f) = "comment"
      BY <1>1, <2>2, <2>3
    <3> QED BY <3>1, <3>2 DEF Positions
  <2>5. f \in CommentStarts
    BY <2>4 DEF CommentStarts
  <2> QED BY <1>1, <2>2, <2>3, <2>5
<1> QED BY <1>2, <1>3

(* The comments are apart, in order, and hold all comment bytes.             *)
LEMMA CommentsFacts ==
    ASSUME text \in Texts
    PROVE  /\ Len(Comments) \in Nat
           /\ \A i \in 1 .. Len(Comments) :
                /\ Comments[i][1] \in 0 .. Len(text) - 1
                /\ Comments[i][2] \in Comments[i][1] + 1 .. Len(text)
                /\ \A r \in Comments[i][1] .. Comments[i][2] - 1 : ByteAt(r) = "comment"
           /\ \A i, j \in 1 .. Len(Comments) : i < j => Comments[i][2] <= Comments[j][1]
           /\ \A p \in Positions("comment") : \E i \in 1 .. Len(Comments) :
                Comments[i][1] <= p /\ p < Comments[i][2]
<1> DEFINE s == Sorted(CommentStarts)
           n == Len(s)
           Ends(p, q) == /\ q = Len(text) \/ ByteAt(q) # "comment"
                         /\ \A r \in p .. q - 1 : ByteAt(r) = "comment"
           To(p) == CHOOSE q \in p + 1 .. Len(text) : Ends(p, q)
<1>1. CommentStarts \in SUBSET Positions("comment")
  BY DEF CommentStarts
<1>2. CommentStarts \in SUBSET Nat /\ IsFiniteSet(CommentStarts)
  BY <1>1, PositionsFinite, FS_Subset
<1>3. /\ s \in Seq(CommentStarts) /\ n \in Nat
      /\ \A i, j \in 1 .. n : i < j => s[i] < s[j]
      /\ \A x \in CommentStarts : \E i \in 1 .. n : s[i] = x
  BY <1>2, SortedFacts
<1>4. Comments = [i \in 1 .. n |-> <<s[i], To(s[i])>>]
  BY DEF Comments, CommentStarts
<1>5. \A p \in Positions("comment") : To(p) \in p + 1 .. Len(text) /\ Ends(p, To(p))
  BY RunEnds
<1>6. Len(text) \in Nat /\ \A p \in Positions("comment") : p \in 0 .. Len(text) - 1
  BY TextsAssumption DEF Positions
<1> HIDE DEF s, To
<1>7. \A i \in 1 .. n : s[i] \in CommentStarts /\ s[i] \in Positions("comment")
  BY <1>1, <1>3
<1> HIDE DEF n
<1>8. Len(Comments) = n /\ \A i \in 1 .. n : Comments[i][1] = s[i] /\ Comments[i][2] = To(s[i])
  <2>1. \A i \in 1 .. n : Comments[i] = <<s[i], To(s[i])>>
    BY <1>4
  <2>2. Len(Comments) = n
    BY <1>3, <1>4
  <2> QED BY <2>1, <2>2
<1>9. ASSUME NEW i \in 1 .. n
      PROVE  /\ s[i] \in 0 .. Len(text) - 1 /\ To(s[i]) \in s[i] + 1 .. Len(text)
             /\ \A r \in s[i] .. To(s[i]) - 1 : ByteAt(r) = "comment"
  BY <1>5, <1>6, <1>7
<1>10. ASSUME NEW i \in 1 .. n, NEW j \in 1 .. n, i < j PROVE To(s[i]) <= s[j]
  <2> SUFFICES ASSUME s[j] < To(s[i]) PROVE FALSE
    BY <1>6, <1>9
  <2>1. s[i] < s[j] /\ s[i] \in Nat /\ s[j] \in Nat
    <3>1. s[i] < s[j]
      BY <1>3, <1>10
    <3>2. s[i] \in 0 .. Len(text) - 1 /\ s[j] \in 0 .. Len(text) - 1
      BY <1>9
    <3> QED BY <3>1, <3>2
  <2>2. s[j] - 1 \in s[i] .. To(s[i]) - 1 /\ s[j] # 0
    <3>1. To(s[i]) \in s[i] + 1 .. Len(text) /\ Len(text) \in Nat
      BY <1>6, <1>9
    <3>2. To(s[i]) \in Int /\ s[j] < To(s[i])
      BY ONLY <2>1, <3>1, s[j] < To(s[i])
    <3> QED BY ONLY <2>1, <3>2
  <2>3. ByteAt(s[j] - 1) = "comment"
    BY <1>9, <2>2
  <2> QED BY <1>7, <2>2, <2>3 DEF CommentStarts
<1>11. ASSUME NEW p \in Positions("comment")
       PROVE  \E i \in 1 .. n : s[i] <= p /\ p < To(s[i])
  <2>1. PICK f \in CommentStarts : f <= p /\ \A r \in f .. p : ByteAt(r) = "comment"
    BY RunBegins
  <2>2. PICK i \in 1 .. n : s[i] = f
    BY <1>3
  <2>3. p < To(f)
    <3> SUFFICES ASSUME ~ (p < To(f)) PROVE FALSE
      OBVIOUS
    <3>1. To(f) \in f .. p /\ To(f) # Len(text)
      BY <1>6, <1>9, <2>1, <2>2
    <3>2. ByteAt(To(f)) # "comment"
      BY <1>5, <1>7, <2>2, <3>1
    <3> QED BY <2>1, <3>1, <3>2
  <2> QED BY <2>1, <2>2, <2>3
<1>12. \A i \in 1 .. n :
         /\ Comments[i][1] \in 0 .. Len(text) - 1
         /\ Comments[i][2] \in Comments[i][1] + 1 .. Len(text)
         /\ \A r \in Comments[i][1] .. Comments[i][2] - 1 : ByteAt(r) = "comment"
  BY <1>8, <1>9
<1>13. \A i, j \in 1 .. n : i < j => Comments[i][2] <= Comments[j][1]
  BY <1>8, <1>10
<1>14. \A p \in Positions("comment") : \E i \in 1 .. n : Comments[i][1] <= p /\ p < Comments[i][2]
  BY <1>8, <1>11
<1> QED BY <1>3, <1>8, <1>12, <1>13, <1>14

(* An initial part of 1 .. n is counted by its last element.                 *)
LEMMA InitialPart ==
    ASSUME NEW n \in Nat, NEW I \in SUBSET (1 .. n),
           \A i \in I : \A j \in 1 .. i : j \in I
    PROVE  Cardinality(I) \in 0 .. n /\ I = 1 .. Cardinality(I)
<1>1. CASE I = {}
  BY <1>1, FS_EmptySet
<1>2. CASE I # {}
  <2>1. I \subseteq 0 .. n
    OBVIOUS
  <2>2. PICK g \in I : \A r \in I : r <= g
    <3>1. Greatest(I) \in I /\ \A r \in I : r <= Greatest(I)
      BY <1>2, <2>1, GreatestExists
    <3> QED BY <3>1
  <2>3. g \in 1 .. n /\ g \in Nat
    OBVIOUS
  <2>4. \A i : i \in I <=> i \in 1 .. g
    <3>1. \A i \in I : i \in 1 .. g
      BY <2>2, <2>3
    <3>2. \A i \in 1 .. g : i \in I
      OBVIOUS
    <3> QED BY <3>1, <3>2
  <2>5. Cardinality(1 .. g) = g
    BY <2>3, FS_Interval
  <2>6. I = 1 .. g
    BY <2>4, Zenon
  <2> QED BY <2>3, <2>5, <2>6
<1> QED BY <1>1, <1>2

(* The comments passed at a place are the first ones, and the next one tells *)
(* whether a window that begins there touches a comment.                     *)
LEMMA PassedFacts ==
    ASSUME text \in Texts, NEW a \in Nat
    PROVE  /\ Passed(a) \in 0 .. Len(Comments)
           /\ \A i \in 1 .. Len(Comments) : Comments[i][2] <= a <=> i <= Passed(a)
<1> DEFINE n == Len(Comments)
           I == {i \in 1 .. n : Comments[i][2] <= a}
<1>1. /\ n \in Nat
      /\ \A i \in 1 .. n : Comments[i][1] \in Nat /\ Comments[i][2] \in Nat /\ Comments[i][1] < Comments[i][2]
      /\ \A i, j \in 1 .. n : i < j => Comments[i][2] <= Comments[j][1]
  <2>1. Len(text) \in Nat
    BY TextsAssumption
  <2> QED BY <2>1, CommentsFacts
<1>2. \A i \in I : \A j \in 1 .. i : j \in I
  <2> SUFFICES ASSUME NEW i \in I, NEW j \in 1 .. i, j # i PROVE j \in I
    OBVIOUS
  <2>1. i \in 1 .. n /\ j \in 1 .. n /\ j < i
    BY <1>1
  <2> QED BY <1>1, <2>1
<1>3. I \in SUBSET (1 .. n) /\ Passed(a) = Cardinality(I)
  BY DEF Passed
<1> HIDE DEF I
<1>4. Cardinality(I) \in 0 .. n /\ I = 1 .. Cardinality(I)
  <2> HIDE DEF n
  <2> QED BY <1>1, <1>2, <1>3, InitialPart
<1>5. \A i \in 1 .. n : i \in I <=> i <= Passed(a)
  BY <1>1, <1>3, <1>4
<1> QED BY <1>3, <1>4, <1>5 DEF I

(* Comments that were passed stay passed.                                    *)
LEMMA PassedGrows ==
    ASSUME text \in Texts, NEW a \in Nat, NEW b \in Nat, a <= b
    PROVE  Passed(a) <= Passed(b)
<1> DEFINE n == Len(Comments)
<1>1. \A i \in 1 .. n : Comments[i][2] \in Nat
  <2>1. Len(text) \in Nat
    BY TextsAssumption
  <2> QED BY <2>1, CommentsFacts
<1>2. Passed(a) \in 0 .. n /\ Passed(b) \in 0 .. n /\ n \in Nat
  BY PassedFacts, CommentsFacts
<1>3. /\ \A i \in 1 .. n : Comments[i][2] <= a <=> i <= Passed(a)
      /\ \A i \in 1 .. n : Comments[i][2] <= b <=> i <= Passed(b)
  BY PassedFacts
<1> HIDE DEF n
<1>4. \A i \in 1 .. n : i <= Passed(a) => i <= Passed(b)
  BY <1>1, <1>3
<1> QED BY <1>2, <1>4

(* The one look ContextWindows takes, at the first comment not passed, tells *)
(* whether a window touches any.                                             *)
LEMMA CommentTouched ==
    ASSUME text \in Texts, NEW a \in Nat, NEW b \in 1 .. Len(text), a < b
    PROVE  (Passed(a) < Len(Comments) /\ Comments[Passed(a) + 1][1] < b)
             <=> \E p \in a .. b - 1 : ByteAt(p) = "comment"
<1> DEFINE n == Len(Comments)
           k == Passed(a)
           i == k + 1
<1>1. n \in Nat /\ k \in 0 .. n /\ Len(text) \in Nat
  <2>1. n \in Nat
    BY CommentsFacts
  <2>2. k \in 0 .. n
    BY PassedFacts
  <2>3. Len(text) \in Nat
    BY TextsAssumption
  <2> QED BY <2>1, <2>2, <2>3
<1>2. \A m \in 1 .. n : Comments[m][2] <= a <=> m <= k
  BY PassedFacts
<1>3. \A m \in 1 .. n : /\ Comments[m][1] \in Nat /\ Comments[m][2] \in Nat
                        /\ Comments[m][1] < Comments[m][2]
  BY <1>1, CommentsFacts
<1>4. \A m \in 1 .. n : \A r \in Comments[m][1] .. Comments[m][2] - 1 : ByteAt(r) = "comment"
  BY CommentsFacts
<1>5. \A l, m \in 1 .. n : l < m => Comments[l][2] <= Comments[m][1]
  BY CommentsFacts
<1>6. \A p \in Positions("comment") : \E m \in 1 .. n : Comments[m][1] <= p /\ p < Comments[m][2]
  BY CommentsFacts
<1>7. i \in Nat /\ (k < n => i \in 1 .. n) /\ ~ (i <= k) /\ i = k + 1
  BY <1>1
<1> HIDE DEF n, k, i
<1>8. ASSUME k < n, Comments[i][1] < b PROVE \E p \in a .. b - 1 : ByteAt(p) = "comment"
  <2>1. i \in 1 .. n /\ ~ (i <= k)
    BY <1>7, <1>8
  <2>2. a < Comments[i][2] /\ Comments[i][1] \in Nat /\ Comments[i][2] \in Nat
    BY <1>2, <1>3, <2>1
  <2> DEFINE p == IF a <= Comments[i][1] THEN Comments[i][1] ELSE a
  <2>3. p \in a .. b - 1 /\ p \in Comments[i][1] .. Comments[i][2] - 1
    BY <1>1, <1>3, <1>8, <2>1, <2>2
  <2> HIDE DEF p
  <2> QED BY <1>4, <2>1, <2>3
<1>9. ASSUME NEW p \in a .. b - 1, ByteAt(p) = "comment" PROVE k < n /\ Comments[i][1] < b
  <2>1. p \in Positions("comment")
    BY <1>1, <1>9 DEF Positions
  <2>2. PICK m \in 1 .. n : Comments[m][1] <= p /\ p < Comments[m][2]
    BY <1>6, <2>1
  <2>3. ~ (m <= k)
    BY <1>2, <1>3, <2>2
  <2>4. i \in 1 .. n /\ i <= m /\ k < n
    BY <1>1, <1>7, <2>2, <2>3
  <2>5. Comments[i][1] <= Comments[m][1]
    <3>1. i = m \/ i < m
      BY <1>1, <2>2, <2>4
    <3>2. i = m => Comments[i][1] <= Comments[m][1]
      BY <1>3, <2>4
    <3>3. i < m => Comments[i][2] <= Comments[m][1] /\ Comments[i][1] < Comments[i][2]
      BY <1>3, <1>5, <2>2, <2>4
    <3> QED BY <1>3, <2>2, <2>4, <3>1, <3>2, <3>3
  <2> QED BY <1>1, <1>3, <2>2, <2>4, <2>5
<1> QED BY <1>7, <1>8, <1>9 DEF n, k, i

(* A declaration has a last byte that is no newline.                         *)
LEMMA DeclarationEnds ==
    ASSUME text \in Texts, NEW f \in Positions("decl"), NEW m \in Nat, f < m
    PROVE  \E p \in f .. m - 1 :
              /\ ByteAt(p) # "newline"
              /\ \A q \in p + 1 .. m - 1 : ByteAt(q) = "newline"
<1> DEFINE Q == {p \in f .. m - 1 : ByteAt(p) # "newline"}
<1>1. f \in Nat /\ ByteAt(f) = "decl"
  <2>1. Positions("decl") \in SUBSET Nat
    BY PositionsFinite
  <2> QED BY <2>1 DEF Positions
<1>2. f \in Q /\ Q \subseteq 0 .. m
  BY <1>1
<1> HIDE DEF Q
<1>3. Greatest(Q) \in Q /\ \A r \in Q : r <= Greatest(Q)
  BY <1>2, GreatestExists
<1>4. PICK p \in Q : \A r \in Q : r <= p
  BY <1>3
<1>5. p \in f .. m - 1 /\ ByteAt(p) # "newline"
  BY DEF Q
<1>6. ASSUME NEW q \in p + 1 .. m - 1, ByteAt(q) # "newline" PROVE FALSE
  <2>1. q \in Q
    BY <1>1, <1>5, <1>6 DEF Q
  <2> QED BY <1>1, <1>4, <1>5, <2>1
<1> QED BY <1>5, <1>6

(* Declarations are apart and in order.                                      *)
LEMMA DeclarationsFacts ==
    ASSUME text \in Texts
    PROVE  /\ Len(Declarations) \in Nat /\ DOMAIN Declarations = 1 .. Len(Declarations)
           /\ \A i \in 1 .. Len(Declarations) :
                /\ Declarations[i].from \in 0 .. Len(text) - 1
                /\ Declarations[i].to \in Declarations[i].from + 1 .. Len(text)
           /\ \A i, j \in 1 .. Len(Declarations) :
                i < j => Declarations[i].to <= Declarations[j].from
<1> DEFINE s == Sorted(Positions("decl"))
           n == Len(s)
           nxt(i) == IF i < n THEN s[i + 1] ELSE Len(text)
           Ends(p, m) == /\ ByteAt(p) # "newline"
                         /\ \A q \in p + 1 .. m - 1 : ByteAt(q) = "newline"
           final(f, m) == CHOOSE p \in f .. m - 1 : Ends(p, m)
<1>1. /\ s \in Seq(Positions("decl")) /\ n \in Nat
      /\ \A i, j \in 1 .. n : i < j => s[i] < s[j]
  BY PositionsFinite, SortedFacts
<1>2. Declarations = [i \in 1 .. n |-> [from |-> s[i], to |-> 1 + final(s[i], nxt(i))]]
  BY DEF Declarations
<1>3. \A f \in Positions("decl") : \A m \in Nat : f < m => final(f, m) \in f .. m - 1
  BY DeclarationEnds
<1>4. Len(text) \in Nat /\ \A p \in Positions("decl") : p \in 0 .. Len(text) - 1
  BY TextsAssumption DEF Positions
<1> HIDE DEF s, final
<1>5. \A i \in 1 .. n : s[i] \in Positions("decl") /\ s[i] \in 0 .. Len(text) - 1
  BY <1>1, <1>4
<1> HIDE DEF n
<1>6. \A i \in 1 .. n : nxt(i) \in s[i] + 1 .. Len(text)
  <2> SUFFICES ASSUME NEW i \in 1 .. n PROVE nxt(i) \in s[i] + 1 .. Len(text)
    OBVIOUS
  <2>1. CASE i < n
    <3>1. i + 1 \in 1 .. n /\ i < i + 1
      BY <1>1, <2>1
    <3>2. s[i] < s[i + 1] /\ s[i + 1] \in 0 .. Len(text) - 1 /\ s[i] \in 0 .. Len(text) - 1
      BY <1>1, <1>5, <3>1
    <3> QED BY <1>4, <2>1, <3>2
  <2>2. CASE ~ (i < n)
    BY <1>4, <1>5, <2>2
  <2> QED BY <2>1, <2>2
<1>7. \A i, j \in 1 .. n : i < j => nxt(i) <= s[j]
  <2> SUFFICES ASSUME NEW i \in 1 .. n, NEW j \in 1 .. n, i < j PROVE nxt(i) <= s[j]
    OBVIOUS
  <2>1. i + 1 \in 1 .. n /\ nxt(i) = s[i + 1] /\ (i + 1 = j \/ i + 1 < j)
    BY <1>1
  <2>2. s[i + 1] \in Nat /\ s[j] \in Nat
    BY <1>4, <1>5, <2>1
  <2>3. i + 1 < j => s[i + 1] < s[j]
    BY <1>1, <2>1
  <2> QED BY <2>1, <2>2, <2>3
<1> HIDE DEF nxt
<1>8. \A i \in 1 .. n : final(s[i], nxt(i)) \in s[i] .. nxt(i) - 1
  <2> SUFFICES ASSUME NEW i \in 1 .. n PROVE final(s[i], nxt(i)) \in s[i] .. nxt(i) - 1
    OBVIOUS
  <2>1. s[i] \in Positions("decl") /\ nxt(i) \in Nat /\ s[i] < nxt(i)
    BY <1>4, <1>5, <1>6
  <2> QED BY <1>3, <2>1
<1>9. Len(Declarations) = n /\ DOMAIN Declarations = 1 .. n
  BY <1>1, <1>2
<1>10. \A i \in 1 .. n : Declarations[i].from = s[i] /\ Declarations[i].to = 1 + final(s[i], nxt(i))
  <2> SUFFICES ASSUME NEW i \in 1 .. n
               PROVE  Declarations[i].from = s[i] /\ Declarations[i].to = 1 + final(s[i], nxt(i))
    OBVIOUS
  <2>1. Declarations[i] = [from |-> s[i], to |-> 1 + final(s[i], nxt(i))]
    BY <1>2
  <2> QED BY <2>1
<1>11. ASSUME NEW i \in 1 .. n
       PROVE  /\ Declarations[i].from \in 0 .. Len(text) - 1
              /\ Declarations[i].to \in Declarations[i].from + 1 .. Len(text)
              /\ Declarations[i].to <= nxt(i)
  <2>1. /\ final(s[i], nxt(i)) \in s[i] .. nxt(i) - 1
        /\ nxt(i) \in s[i] + 1 .. Len(text)
        /\ s[i] \in 0 .. Len(text) - 1
    BY <1>5, <1>6, <1>8
  <2> QED BY <1>4, <1>10, <2>1
<1>12. ASSUME NEW i \in 1 .. n, NEW j \in 1 .. n, i < j
       PROVE  Declarations[i].to <= Declarations[j].from
  <2>1. nxt(i) \in Nat /\ s[j] \in Nat /\ nxt(i) <= s[j] /\ Declarations[j].from = s[j]
    <3>1. nxt(i) <= s[j] /\ Declarations[j].from = s[j]
      BY <1>7, <1>10, <1>12
    <3>2. nxt(i) \in Nat /\ s[j] \in Nat
      BY <1>4, <1>5, <1>6
    <3> QED BY <3>1, <3>2
  <2>2. Declarations[i].to \in Nat /\ Declarations[i].to <= nxt(i)
    BY <1>4, <1>11
  <2> QED BY <2>1, <2>2
<1> QED BY <1>1, <1>9, <1>11, <1>12

(* A unit begins behind the declaration before it.                           *)
LEMMA UnitStartAfter ==
    ASSUME text \in Texts, NEW j \in 2 .. Len(Declarations), NEW c \in 0 .. Len(text),
           IsLineStart(c, Declarations[j].from),
           LineOf(Declarations[j].from) > LineOf(Declarations[j - 1].to)
    PROVE  Declarations[j - 1].to <= c
<1> DEFINE D == Declarations
           n == Len(D)
           N == Positions("newline")
<1>1. /\ n \in Nat
      /\ \A k, m \in 1 .. n : k < m => D[k].to <= D[m].from
  BY DeclarationsFacts
<1>2. Len(text) \in Nat /\ \A k \in 1 .. n : D[k].from \in 0 .. Len(text) - 1 /\ D[k].to \in D[k].from + 1 .. Len(text)
  BY TextsAssumption, DeclarationsFacts
<1>3. c <= D[j].from /\ NewlinesIn(c, D[j].from) = 0 /\ LineOf(D[j].from) > LineOf(D[j - 1].to)
  BY DEF IsLineStart
<1>4. \A x, y : NewlinesIn(x, y) = Within(N, x, y)
  BY DEF NewlinesIn, Within
<1> HIDE DEF N
<1>5. \A x : LineOf(x) = 1 + Within(N, 0, x)
  BY <1>4 DEF LineOf
<1>6. j \in 1 .. n /\ j - 1 \in 1 .. n /\ j - 1 < j
  BY <1>1
<1> HIDE DEF D, n
<1> DEFINE a == D[j - 1].to
           b == D[j].from
<1>7. a \in Nat /\ b \in Nat /\ c \in Nat /\ a <= b /\ c <= b
  <2>1. a <= b /\ c <= b
    BY <1>1, <1>6, <1>3
  <2>2. a \in Nat /\ b \in Nat
    <3>1. D[j - 1].from \in Nat /\ D[j - 1].to \in D[j - 1].from + 1 .. Len(text) /\ D[j].from \in Nat
      BY <1>2, <1>6
    <3>2. Len(text) \in Nat
      BY <1>2
    <3> QED BY ONLY <3>1, <3>2
  <2> QED BY <1>2, <1>3, <2>1, <2>2
<1>8. Within(N, c, b) = 0 /\ 1 + Within(N, 0, b) > 1 + Within(N, 0, a)
  BY <1>4, <1>5, <1>3
<1> HIDE DEF a, b
<1>9. a <= c
  <2> SUFFICES ASSUME c < a PROVE FALSE
    BY <1>7
  <2>1. c <= a
    BY <1>7
  <2>2. /\ Within(N, c, a) \in Nat /\ Within(N, a, b) \in Nat
        /\ Within(N, c, b) = Within(N, c, a) + Within(N, a, b)
    BY <1>7, <2>1, WithinAdds
  <2>3. /\ Within(N, 0, a) \in Nat /\ Within(N, 0, b) = Within(N, 0, a) + Within(N, a, b)
    BY <1>7, WithinFromZero
  <2> QED BY <1>8, <2>2, <2>3
<1> QED BY <1>9 DEF a, D

(* No cut lies within a declaration.                                         *)
LEMMA CutOutside ==
    ASSUME text \in Texts, NEW c \in Cuts, NEW i \in 1 .. Len(Declarations)
    PROVE  c <= Declarations[i].from \/ Declarations[i].to <= c
<1> DEFINE D == Declarations
           n == Len(D)
           N == Positions("newline")
<1>1. /\ n \in Nat
      /\ \A j, k \in 1 .. n : j < k => D[j].to <= D[k].from
  BY DeclarationsFacts
<1>2. Len(text) \in Nat /\ \A j \in 1 .. n : D[j].from \in 0 .. Len(text) - 1 /\ D[j].to \in D[j].from + 1 .. Len(text)
  BY TextsAssumption, DeclarationsFacts
<1>3. i \in 1 .. n
  OBVIOUS
<1>4. CASE c \in {0, Len(text)}
  <2> HIDE DEF D, n
  <2>1. c <= D[i].from \/ D[i].to <= c
    BY <1>2, <1>3, <1>4
  <2> QED BY <2>1 DEF D
<1>5. CASE c \in UnitStarts
  <2>1. PICK j \in 2 .. n : IsLineStart(c, D[j].from) /\ LineOf(D[j].from) > LineOf(D[j - 1].to)
    BY <1>5 DEF UnitStarts
  <2>2. c \in 0 .. Len(text) /\ c <= D[j].from /\ NewlinesIn(c, D[j].from) = 0
    BY <1>5, <2>1 DEF UnitStarts, IsLineStart
  <2> HIDE DEF D, n
  <2> DEFINE a == D[j - 1].to
             b == D[j].from
  <2>5. j \in 1 .. n /\ j - 1 \in 1 .. n /\ j - 1 < j
    BY <1>1
  <2>6. a \in Nat /\ b \in Nat /\ c \in Nat /\ a <= b /\ c <= b
    <3>1. a <= b /\ c <= b
      BY <1>1, <2>2, <2>5
    <3>2. a \in Nat /\ b \in Nat
      <4>1. D[j - 1].from \in Nat /\ D[j - 1].to \in D[j - 1].from + 1 .. Len(text) /\ D[j].from \in Nat
        BY <1>2, <2>5
      <4>2. Len(text) \in Nat
        BY <1>2
      <4> QED BY ONLY <4>1, <4>2
    <3> QED BY <1>2, <2>2, <3>1, <3>2
  <2>8. a <= c
    BY <2>1, <2>2, UnitStartAfter DEF D, n
  <2> HIDE DEF a, b
  <2>9. CASE i < j
    <3>1. i = j - 1 \/ i < j - 1
      BY <1>1, <1>3, <2>5, <2>9
    <3>2. i = j - 1 => D[i].to <= c
      BY <2>8 DEF a
    <3>3. i < j - 1 => D[i].to <= D[j - 1].from /\ D[j - 1].from < a
      BY <1>1, <1>2, <1>3, <2>5 DEF a
    <3>4. D[i].to \in Nat /\ D[j - 1].from \in Nat
      <4>1. /\ D[i].from \in Nat /\ D[i].to \in D[i].from + 1 .. Len(text)
            /\ D[j - 1].from \in Nat
        BY <1>2, <1>3, <2>5
      <4> QED BY <1>2, <4>1
    <3>5. D[i].to <= c
      BY <2>6, <2>8, <3>1, <3>2, <3>3, <3>4
    <3> QED BY <3>5 DEF D
  <2>10. CASE ~ (i < j)
    <3>1. i = j \/ j < i
      BY <1>1, <1>3, <2>5, <2>10
    <3>2. j < i => D[j].from < D[j].to /\ D[j].to <= D[i].from
      BY <1>1, <1>2, <1>3, <2>5
    <3>3. D[j].to \in Nat /\ D[i].from \in Nat
      <4>1. /\ D[j].from \in Nat /\ D[j].to \in D[j].from + 1 .. Len(text)
            /\ D[i].from \in Nat
        BY <1>2, <1>3, <2>5
      <4> QED BY <1>2, <4>1
    <3>4. c <= D[i].from
      BY <2>6, <3>1, <3>2, <3>3 DEF b
    <3> QED BY <3>4 DEF D
  <2> QED BY <2>9, <2>10
<1> QED BY <1>4, <1>5 DEF Cuts

\* No cut lies between two places.
NoCut(b, c) == \A a \in Cuts : ~ (b < a /\ a < c)

(* Before every place there is a beginning of its line.                      *)
LEMMA LineStartExists ==
    ASSUME text \in Texts, NEW p \in 0 .. Len(text)
    PROVE  \E q \in 0 .. Len(text) : IsLineStart(q, p)
<1> DEFINE S == {q \in 0 .. p : q = 0 \/ ByteAt(q - 1) = "newline"}
           g == Greatest(S)
           L == Len(text)
<1>1. L \in Nat /\ p \in Nat /\ p <= L
  BY TextsAssumption
<1>2. S \subseteq 0 .. p /\ 0 \in S
  BY <1>1
<1>3. \A q \in S : q \in 0 .. p /\ (q = 0 \/ ByteAt(q - 1) = "newline")
  OBVIOUS
<1>4. \A r \in Nat : r + 1 <= p /\ ByteAt(r) = "newline" => r + 1 \in S
  BY <1>1
<1> HIDE DEF S, L
<1>5. g \in S /\ \A r \in S : r <= g
  BY <1>1, <1>2, GreatestExists
<1> HIDE DEF g
<1>6. g \in 0 .. p
  BY <1>3, <1>5
<1>7. ASSUME NEW r \in g .. p - 1, r \in Positions("newline")
      PROVE  FALSE
  <2>1. r \in Nat /\ r + 1 <= p /\ ~ (r + 1 <= g)
    BY ONLY <1>1, <1>6, r \in g .. p - 1
  <2>2. ByteAt(r) = "newline"
    BY <1>7 DEF Positions
  <2> QED BY <1>4, <1>5, <2>1, <2>2
<1>8. NewlinesIn(g, p) = 0
  <2>1. {r \in g .. p - 1 : r \in Positions("newline")} = {}
    BY <1>7
  <2> QED BY <2>1, FS_EmptySet DEF NewlinesIn
<1>9. g <= p /\ (g = 0 \/ ByteAt(g - 1) = "newline")
  BY <1>3, <1>5, <1>6
<1>10. g \in 0 .. L
  BY ONLY <1>1, <1>6
<1> QED BY <1>8, <1>9, <1>10 DEF IsLineStart, L

(* Between two cuts that follow each other every declaration begins on the   *)
(* line where the one before it ends.                                        *)
LEMMA UnitIsChain ==
    ASSUME text \in Texts, NEW b \in Cuts, NEW c \in Cuts, NoCut(b, c),
           NEW k \in 2 .. Len(Declarations),
           b <= Declarations[k - 1].from, Declarations[k].from < c
    PROVE  LineOf(Declarations[k].from) <= LineOf(Declarations[k - 1].to)
<1> DEFINE f == Declarations[k].from
           p == Declarations[k - 1].from
           e == Declarations[k - 1].to
           L == Len(text)
<1>1. L \in Nat /\ f \in 0 .. L - 1 /\ p \in 0 .. L - 1 /\ e \in p + 1 .. L
  <2>1. k \in 1 .. Len(Declarations) /\ k - 1 \in 1 .. Len(Declarations)
    BY DeclarationsFacts
  <2> QED BY <2>1, DeclarationsFacts, TextsAssumption
<1>2. b \in Nat /\ c \in Nat
  BY TextsAssumption DEF Cuts, UnitStarts
<1>3. LineOf(f) \in Nat /\ LineOf(e) \in Nat
  <2>1. ASSUME NEW x \in Nat PROVE LineOf(x) \in Nat
    <3> DEFINE w == Within(Positions("newline"), 0, x)
    <3>1. w \in Nat
      BY WithinFromZero
    <3>2. LineOf(x) = 1 + w
      BY DEF LineOf, NewlinesIn, Within
    <3> HIDE DEF w
    <3> QED BY ONLY <3>1, <3>2
  <2> HIDE DEF f, e, p, L
  <2>2. f \in Nat /\ e \in Nat
    BY ONLY <1>1
  <2> QED BY ONLY <2>1, <2>2
<1>4. SUFFICES ASSUME LineOf(f) > LineOf(e) PROVE FALSE
  BY <1>3
<1>5. f \in 0 .. Len(text)
  BY <1>1
<1>6. PICK q \in 0 .. Len(text) : IsLineStart(q, f)
  <2> HIDE DEF f
  <2> QED BY <1>5, LineStartExists
<1>7. q \in UnitStarts /\ e <= q
  BY <1>4, <1>6, UnitStartAfter DEF UnitStarts
<1>8. q <= f
  BY <1>6 DEF IsLineStart
<1>9. b <= p /\ f < c
  OBVIOUS
<1>10. q \in 0 .. L
  OBVIOUS
<1> HIDE DEF f, p, e, L
<1>11. b < q /\ q < c
  BY ONLY <1>1, <1>2, <1>7, <1>8, <1>9, <1>10
<1> QED BY <1>7, <1>11 DEF NoCut, Cuts

\* What WindowsDescribe says of one window, and of the declarations at its end.
Described(w) ==
    /\ w.first = LineOf(w.from) /\ w.last = LineOf(w.to - 1)
    /\ w.comment = (\E p \in w.from .. w.to - 1 : ByteAt(p) = "comment")
    /\ w.redacted = Cardinality(Positions("secret") \cap (w.from .. w.to - 1))
EndsWell(w) ==
    \/ w.to \in Cuts
    \/ w.split /\ \E b, c \in Cuts : b < w.to /\ w.to < c /\ c - b > size /\ NoCut(b, c)

\* What is counted along the way is what lies before the place of the loop, and
\* the units being cut began at a cut.
Counted ==
    /\ line = LineOf(start)
    /\ ci \in Nat /\ ci <= Passed(start)
    /\ si = SecretsBefore(start)
Cutting ==
    /\ end \in Cuts
    /\ \E e \in Cuts :
        /\ e <= start
        /\ IF split THEN end - e > size /\ NoCut(e, end) ELSE end - e <= size
AllDescribed == \A i \in 1 .. Len(out) : Described(out[i]) /\ EndsWell(out[i])

DescInv == Counted /\ Cutting /\ AllDescribed

(* The text stays what it is, and all that is said of it.                    *)
LEMMA TextKept ==
    ASSUME text' = text
    PROVE  /\ Cuts' = Cuts
           /\ \A w : Described(w)' <=> Described(w)
           /\ \A p : /\ LineOf(p)' = LineOf(p)
                     /\ Passed(p)' = Passed(p)
                     /\ SecretsBefore(p)' = SecretsBefore(p)
<1>1. \A p : ByteAt(p)' = ByteAt(p)
  BY DEF ByteAt
<1>2. \A b : Positions(b)' = Positions(b)
  BY DEF Positions, ByteAt
<1>3. \A a, b : NewlinesIn(a, b)' = NewlinesIn(a, b)
  BY <1>2, Zenon DEF NewlinesIn
<1>4. \A p : LineOf(p)' = LineOf(p)
  BY <1>3, Zenon DEF LineOf
<1>5. Declarations' = Declarations
  BY <1>1, <1>2, Zenon DEF Declarations
<1>6. Comments' = Comments
  <2> DEFINE Of(t) ==
               LET From == Sorted({p \in {p \in 0 .. Len(t) - 1 : t[p + 1] = "comment"} :
                                     p = 0 \/ t[p - 1 + 1] # "comment"})
                   To(p) == CHOOSE q \in p + 1 .. Len(t) :
                               /\ q = Len(t) \/ t[q + 1] # "comment"
                               /\ \A r \in p .. q - 1 : t[r + 1] = "comment"
               IN  [i \in 1 .. Len(From) |-> <<From[i], To(From[i])>>]
  <2>1. Comments = Of(text)
    BY DEF Comments, Positions, ByteAt
  <2>2. Comments' = Of(text')
    BY DEF Comments, Positions, ByteAt
  <2> HIDE DEF Of
  <2> QED BY <2>1, <2>2
<1>7. \A q, p : IsLineStart(q, p)' <=> IsLineStart(q, p)
  BY <1>1, <1>3 DEF IsLineStart
<1>8. UnitStarts' = UnitStarts
  BY <1>4, <1>5, <1>7 DEF UnitStarts
<1>9. Cuts' = Cuts
  BY <1>8 DEF Cuts
<1>10. \A p : SecretsBefore(p)' = SecretsBefore(p)
  BY <1>2, Zenon DEF SecretsBefore, Secrets
<1>11. \A p : Passed(p)' = Passed(p)
  BY <1>6, Zenon DEF Passed
<1>12. \A w : Described(w)' <=> Described(w)
  BY <1>1, <1>2, <1>4 DEF Described
<1> QED BY <1>4, <1>9, <1>10, <1>11, <1>12

\* Windows that are well described stay so.
LEMMA StillDescribed ==
    ASSUME text' = text, size' = size, NEW w
    PROVE  (Described(w) => Described(w)') /\ (EndsWell(w) => EndsWell(w)')
<1>1. Cuts' = Cuts /\ (Described(w)' <=> Described(w))
  BY TextKept
<1>2. \A b, c : NoCut(b, c)' <=> NoCut(b, c)
  BY <1>1 DEF NoCut
<1>3. EndsWell(w) => EndsWell(w)'
  BY <1>1, <1>2 DEF EndsWell
<1> QED BY <1>1, <1>3

(* Nothing is counted before the first window.                               *)
LEMMA DescInitHolds == Init => DescInv
<1> SUFFICES ASSUME Init PROVE DescInv
  OBVIOUS
<1>1. /\ text \in Texts /\ start = 0 /\ end = 0 /\ split = FALSE
      /\ line = 1 /\ ci = 0 /\ si = 0 /\ out = <<>> /\ size \in Nat
  BY SizesAssumption DEF Init
<1>2. NewlinesIn(0, 0) = 0
  <2>1. NewlinesIn(0, 0) = Within(Positions("newline"), 0, 0)
    BY DEF NewlinesIn, Within
  <2> QED BY <2>1, WithinOne
<1>3. Counted
  <2>1. SecretsBefore(0) = 0
    BY <1>1, SecretsFacts
  <2>2. Passed(0) \in 0 .. Len(Comments)
    BY <1>1, PassedFacts
  <2>3. Len(Comments) \in Nat
    BY <1>1, CommentsFacts
  <2> QED BY <1>1, <1>2, <2>1, <2>2, <2>3 DEF Counted, LineOf
<1>4. Cutting
  <2>1. 0 \in Cuts
    BY DEF Cuts
  <2> QED BY <1>1, <2>1 DEF Cutting
<1>5. AllDescribed
  BY <1>1 DEF AllDescribed
<1> QED BY <1>3, <1>4, <1>5 DEF DescInv

(* A pass that adds no window leaves those there are described.              *)
LEMMA SameDescribed ==
    ASSUME AllDescribed, UNCHANGED <<text, size, out>> PROVE AllDescribed'
<1>1. \A i \in 1 .. Len(out) : Described(out[i])' /\ EndsWell(out[i])'
  <2> SUFFICES ASSUME NEW i \in 1 .. Len(out) PROVE Described(out[i])' /\ EndsWell(out[i])'
    OBVIOUS
  <2> PICK w : w = out[i]
    OBVIOUS
  <2>1. out'[i] = w
    OBVIOUS
  <2>2. Described(w)' /\ EndsWell(w)'
    BY StillDescribed DEF AllDescribed
  <2> QED BY <2>1, <2>2
<1> QED BY <1>1 DEF AllDescribed

(* A window that is added describes itself, and the counts move with it.     *)
LEMMA WindowDescribes ==
    ASSUME IInv, DescInv, Window PROVE DescInv'
<1> DEFINE stop == Stop
           gone == NewlinesIn(start, stop)
           passed == AtLeast(ci, Passed(start))
           secrets == AtLeast(si, SecretsBefore(stop))
           last == line + gone - (IF ByteAt(stop - 1) = "newline" THEN 1 ELSE 0)
           comment == passed < Len(Comments) /\ Comments[passed + 1][1] < stop
           w == [from |-> start, to |-> stop, first |-> line, last |-> last,
                 split |-> split, comment |-> comment, redacted |-> secrets - si]
<1>1. /\ out' = Append(out, w)
      /\ line' = line + gone /\ ci' = passed /\ si' = secrets /\ start' = stop
      /\ UNCHANGED <<text, size, end, split>> /\ start < end
  BY DEF Window
<1>2. /\ text \in Texts /\ Len(text) \in Nat /\ start \in Nat /\ end \in 0 .. Len(text)
      /\ size \in Nat /\ out \in Seq(ToSet(out))
  BY TextsAssumption DEF IInv, InPlace, CleanAt
<1>3. stop \in start + 1 .. end /\ stop <= start + size
  BY <1>1, <1>2, StopIsClean DEF IInv, InPlace
<1>4. (end - start <= size => stop = end)
  BY DEF Stop
<1>5. /\ w.from = start /\ w.to = stop /\ w.first = line /\ w.last = last
      /\ w.split = split /\ w.comment = comment /\ w.redacted = secrets - si
  OBVIOUS
<1> HIDE DEF stop, w, last, comment, passed, secrets
<1>6. start < stop /\ stop \in 1 .. Len(text) /\ stop \in Nat /\ start <= stop
  BY <1>2, <1>3
<1>7. /\ gone \in Nat /\ LineOf(start) \in Nat /\ LineOf(stop) = LineOf(start) + gone
      /\ LineOf(stop - 1) = LineOf(stop) - (IF ByteAt(stop - 1) = "newline" THEN 1 ELSE 0)
  BY <1>2, <1>6, LinesFacts
<1> HIDE DEF gone
<1>8. line = LineOf(start) /\ line' = LineOf(stop) /\ last = LineOf(stop - 1)
  BY <1>1, <1>7 DEF DescInv, Counted, last
<1>9. passed = Passed(start) /\ passed \in Nat /\ passed <= Passed(stop)
  <2>1. Passed(start) \in 0 .. Len(Comments) /\ Len(Comments) \in Nat
    BY <1>2, PassedFacts, CommentsFacts
  <2>2. passed = Passed(start)
    BY <2>1 DEF DescInv, Counted, passed, AtLeast
  <2> QED BY <1>2, <1>6, <2>1, <2>2, PassedGrows
<1>10. comment <=> \E p \in start .. stop - 1 : ByteAt(p) = "comment"
  <2>1. (Passed(start) < Len(Comments) /\ Comments[Passed(start) + 1][1] < stop)
          <=> \E p \in start .. stop - 1 : ByteAt(p) = "comment"
    BY <1>2, <1>6, CommentTouched
  <2> QED BY <1>9, <2>1 DEF comment
<1>11. /\ secrets = SecretsBefore(stop)
       /\ secrets - si = Cardinality(Positions("secret") \cap (start .. stop - 1))
  <2>1. /\ SecretsBefore(start) \in Nat /\ SecretsBefore(stop) \in Nat
        /\ SecretsBefore(start) <= SecretsBefore(stop)
        /\ SecretsBefore(stop) - SecretsBefore(start)
             = Cardinality(Positions("secret") \cap (start .. stop - 1))
    BY <1>2, <1>6, SecretsFacts
  <2>2. secrets = SecretsBefore(stop)
    BY <2>1 DEF DescInv, Counted, secrets, AtLeast
  <2> QED BY <2>1, <2>2 DEF DescInv, Counted
<1>12. Described(w)
  <2>1. w.first = LineOf(w.from) /\ w.last = LineOf(w.to - 1)
    BY <1>5, <1>8
  <2>2. w.comment = (\E p \in w.from .. w.to - 1 : ByteAt(p) = "comment")
    <3>1. comment \in BOOLEAN
      BY DEF comment
    <3> QED BY <1>5, <1>10, <3>1
  <2>3. w.redacted = Cardinality(Positions("secret") \cap (w.from .. w.to - 1))
    BY <1>5, <1>11, Zenon
  <2> QED BY <2>1, <2>2, <2>3 DEF Described
<1>13. PICK e \in Cuts :
          /\ e <= start
          /\ IF split THEN end - e > size /\ NoCut(e, end) ELSE end - e <= size
  BY DEF DescInv, Cutting
<1>14. \A c \in Cuts : c \in 0 .. Len(text)
  BY <1>2 DEF Cuts, UnitStarts
<1>15. EndsWell(w)
  <2>1. CASE stop = end
    BY <1>5, <2>1 DEF EndsWell, DescInv, Cutting
  <2>2. CASE stop # end
    <3>1. e < stop /\ stop < end /\ e \in Nat /\ end - start > size
      BY <1>2, <1>3, <1>4, <1>6, <1>13, <1>14, <2>2
    <3>2. split /\ end - e > size /\ NoCut(e, end)
      BY <1>2, <1>13, <3>1
    <3> QED BY <1>5, <1>13, <3>1, <3>2 DEF EndsWell, DescInv, Cutting
  <2> QED BY <2>1, <2>2
<1>16. PICK v : v = w
  OBVIOUS
<1>17. Described(v)' /\ EndsWell(v)'
  BY <1>1, <1>12, <1>15, <1>16, StillDescribed
<1>18. Counted'
  <2> PICK p : p = stop
    OBVIOUS
  <2>1. LineOf(p)' = LineOf(stop) /\ Passed(p)' = Passed(stop) /\ SecretsBefore(p)' = SecretsBefore(stop)
    BY <1>1, TextKept
  <2>2. start' = p
    BY <1>1
  <2>3. LineOf(start)' = LineOf(stop) /\ Passed(start)' = Passed(stop) /\ SecretsBefore(start)' = SecretsBefore(stop)
    BY <2>1, <2>2
  <2> QED BY <1>1, <1>8, <1>9, <1>11, <2>3 DEF Counted
<1>19. Cutting'
  <2>1. Cuts' = Cuts
    BY <1>1, TextKept
  <2>2. \A b, c : NoCut(b, c)' <=> NoCut(b, c)
    BY <2>1 DEF NoCut
  <2>3. e <= stop /\ end \in Cuts
    BY <1>2, <1>6, <1>13, <1>14 DEF DescInv, Cutting
  <2> QED BY <1>1, <1>13, <2>1, <2>2, <2>3 DEF Cutting
<1>20. AllDescribed'
  <2>1. /\ Len(out) \in Nat /\ Len(out') = Len(out) + 1 /\ out'[Len(out) + 1] = w
        /\ \A i \in 1 .. Len(out) : out'[i] = out[i]
    BY <1>1, <1>2, AppendIsSeq
  <2>2. ASSUME NEW i \in 1 .. Len(out), NEW u, u = out[i] PROVE Described(u)' /\ EndsWell(u)'
    BY <1>1, <2>2, StillDescribed DEF DescInv, AllDescribed
  <2>3. ASSUME NEW i \in 1 .. Len(out') PROVE Described(out[i])' /\ EndsWell(out[i])'
    <3> PICK u : u = out'[i]
      OBVIOUS
    <3>1. i \in 1 .. Len(out) \/ i = Len(out) + 1
      BY <2>1, <2>3
    <3>2. Described(u)' /\ EndsWell(u)'
      BY <1>16, <1>17, <2>1, <2>2, <3>1
    <3> QED BY <3>2
  <2> QED BY <2>3 DEF AllDescribed
<1> QED BY <1>18, <1>19, <1>20 DEF DescInv

(* No other pass disturbs the counts, the cuts or the windows.               *)
LEMMA DescNextHolds == IInv /\ DescInv /\ [Next]_vars => DescInv'
<1> SUFFICES ASSUME IInv, DescInv, [Next]_vars PROVE DescInv'
  OBVIOUS
<1>1. text' = text
  BY DEF Next, NextUnits, Window, Accept, Refuse, Shrink, vars
<1>2. Cuts' = Cuts /\ \A b, c : NoCut(b, c)' <=> NoCut(b, c)
  <2>1. Cuts' = Cuts
    BY <1>1, TextKept
  <2> QED BY <2>1 DEF NoCut
<1>3. ASSUME UNCHANGED <<start, line, ci, si>> PROVE Counted'
  <2> PICK p : p = start
    OBVIOUS
  <2>1. /\ LineOf(p)' = LineOf(p) /\ Passed(p)' = Passed(p)
        /\ SecretsBefore(p)' = SecretsBefore(p)
    BY <1>1, TextKept
  <2>2. start' = p
    BY <1>3
  <2>3. /\ LineOf(start)' = LineOf(start) /\ Passed(start)' = Passed(start)
        /\ SecretsBefore(start)' = SecretsBefore(start)
    BY <2>1, <2>2
  <2> QED BY <1>3, <2>3 DEF DescInv, Counted
<1>4. CASE NextUnits
  <2>1. PICK c \in Cuts :
          /\ end < c
          /\ \A b \in Cuts : (end < b /\ b < c) => c - end <= size
          /\ end' = c /\ split' = (c - end > size)
    BY <1>4 DEF NextUnits
  <2>2. start = end /\ UNCHANGED <<text, size, result, start, line, ci, si, out>>
    BY <1>4 DEF NextUnits
  <2>3. Cutting'
    <3>1. end \in Cuts /\ end \in Nat /\ c \in Nat /\ size \in Nat
      <4>1. Len(text) \in Nat
        BY TextsAssumption DEF IInv, InPlace
      <4>2. \A b \in Cuts : b \in Nat
        BY <4>1 DEF Cuts, UnitStarts
      <4> QED BY <4>2 DEF DescInv, Cutting, IInv, InPlace
    <3>2. c - end > size => NoCut(end, c)
      BY <2>1, <3>1 DEF NoCut
    <3>3. IF split' THEN c - end > size /\ NoCut(end, c) ELSE c - end <= size
      <4>1. CASE c - end > size
        BY <2>1, <3>2, <4>1
      <4>2. CASE ~ (c - end > size)
        <5>1. \A b \in BOOLEAN : ~ b => b = FALSE
          OBVIOUS
        <5>2. (c - end > size) \in BOOLEAN
          OBVIOUS
        <5>3. split' = FALSE
          BY <2>1, <4>2, <5>1, <5>2, Zenon
        <5> QED BY <3>1, <4>2, <5>3
      <4> QED BY <4>1, <4>2
    <3> PICK e : e = end
      OBVIOUS
    <3>4. IF split' THEN end' - e > size' /\ NoCut(e, end)' ELSE end' - e <= size'
      <4>1. NoCut(e, c) <=> NoCut(e, end)'
        BY <1>2, <2>1 DEF NoCut
      <4> QED BY <2>1, <2>2, <3>3, <4>1
    <3>5. e \in Cuts' /\ e <= start' /\ end' \in Cuts'
      BY <1>2, <2>1, <2>2, <3>1
    <3> QED BY <3>4, <3>5 DEF Cutting
  <2> QED BY <1>3, <2>2, <2>3, SameDescribed DEF DescInv
<1>5. CASE Window
  BY <1>5, WindowDescribes
<1>6. ASSUME UNCHANGED <<size, cutting>> PROVE DescInv'
  <2>1. UNCHANGED <<start, end, split, line, ci, si, out, size>>
    BY <1>6 DEF cutting
  <2>2. Cutting'
    <3>1. PICK e \in Cuts :
            /\ e <= start
            /\ IF split THEN end - e > size /\ NoCut(e, end) ELSE end - e <= size
      BY DEF DescInv, Cutting
    <3>2. NoCut(e, end)' <=> NoCut(e, end)
      BY <1>2, <2>1 DEF NoCut
    <3> QED BY <1>2, <2>1, <3>1, <3>2 DEF DescInv, Cutting
  <2> QED BY <1>1, <1>3, <2>1, <2>2, SameDescribed DEF DescInv
<1>7. CASE Accept \/ Refuse
  BY <1>6, <1>7 DEF Accept, Refuse
<1>8. CASE Shrink
  <2>1. /\ start' = 0 /\ end' = 0 /\ split' = FALSE
        /\ line' = 1 /\ ci' = 0 /\ si' = 0 /\ out' = <<>>
        /\ size' = AtLeast(MinSize, size \div 2) /\ text \in Texts
    BY <1>8 DEF Shrink, CutAgain, IInv, InPlace
  <2>2. size' \in Nat
    BY <2>1, SizesAssumption DEF IInv, InPlace, AtLeast
  <2>3. Counted'
    <3>1. PICK z : z = 0
      OBVIOUS
    <3>2. /\ LineOf(z)' = LineOf(z) /\ Passed(z)' = Passed(z)
          /\ SecretsBefore(z)' = SecretsBefore(z)
      BY <1>1, TextKept
    <3>3. LineOf(z) = 1
      <4>1. NewlinesIn(0, 0) = Within(Positions("newline"), 0, 0)
        BY DEF NewlinesIn, Within
      <4>2. NewlinesIn(0, 0) = 0
        BY <4>1, WithinOne
      <4> QED BY <3>1, <4>2 DEF LineOf
    <3>4. SecretsBefore(z) = 0
      BY <2>1, <3>1, SecretsFacts
    <3>5. Passed(z) \in 0 .. Len(Comments) /\ Len(Comments) \in Nat
      BY <2>1, <3>1, PassedFacts, CommentsFacts
    <3>6. start' = z
      BY <2>1, <3>1
    <3>7. /\ LineOf(start)' = 1 /\ SecretsBefore(start)' = 0
          /\ Passed(start)' = Passed(z)
      BY <3>2, <3>3, <3>4, <3>6
    <3> QED BY <2>1, <3>5, <3>7 DEF Counted
  <2>4. Cutting'
    <3>1. 0 \in Cuts'
      BY <1>2 DEF Cuts
    <3> QED BY <2>1, <2>2, <3>1 DEF Cutting
  <2>5. AllDescribed'
    BY <2>1 DEF AllDescribed
  <2> QED BY <2>3, <2>4, <2>5 DEF DescInv
<1>9. CASE UNCHANGED vars
  BY <1>6, <1>9 DEF vars
<1> QED BY <1>4, <1>5, <1>7, <1>8, <1>9 DEF Next

(* No cut lies in a declaration, so a window that ends in one says so.       *)
LEMMA DescribesAll == IInv /\ DescInv => WindowsDescribe
<1> SUFFICES ASSUME IInv, DescInv PROVE WindowsDescribe
  OBVIOUS
<1>1. text \in Texts /\ Len(text) \in Nat /\ size \in Nat
  BY TextsAssumption DEF IInv, InPlace
<1>2. DeclarationsWhole
  <2> SUFFICES ASSUME NEW i \in 1 .. Len(out), NEW d \in ToSet(Declarations),
                      d.from < out[i].to, out[i].to < d.to
               PROVE  /\ out[i].split
                      /\ \E b, c \in Cuts :
                          /\ b <= d.from /\ d.to <= c /\ c - b > size
                          /\ \A a \in Cuts : ~ (b < a /\ a < c)
                          /\ \A m \in 2 .. Len(Declarations) :
                              (b <= Declarations[m - 1].from /\ Declarations[m].from < c) =>
                                  LineOf(Declarations[m].from) <= LineOf(Declarations[m - 1].to)
    BY DEF DeclarationsWhole
  <2>1. PICK k \in 1 .. Len(Declarations) : d = Declarations[k]
    <3>1. DOMAIN Declarations = 1 .. Len(Declarations)
      BY <1>1, DeclarationsFacts
    <3> QED BY <3>1 DEF ToSet
  <2>2. \A c \in Cuts : c <= d.from \/ d.to <= c
    BY <1>1, <2>1, CutOutside
  <2>3. d.from \in Nat /\ d.to \in Nat /\ \A c \in Cuts : c \in Nat
    <3>1. Declarations[k].from \in 0 .. Len(text) - 1 /\ Declarations[k].to \in Declarations[k].from + 1 .. Len(text)
      BY <1>1, DeclarationsFacts
    <3>2. \A c \in Cuts : c \in Nat
      BY <1>1 DEF Cuts, UnitStarts
    <3> QED BY <1>1, <2>1, <3>1, <3>2
  <2>4. EndsWell(out[i])
    BY DEF DescInv, AllDescribed
  <2>5. out[i].to \in Int
    BY DEF EndToEnd, IInv
  <2>6. out[i].to \notin Cuts
    BY <2>2, <2>3, <2>5
  <2>7. PICK b \in Cuts, c \in Cuts :
          out[i].split /\ b < out[i].to /\ out[i].to < c /\ c - b > size /\ NoCut(b, c)
    BY <2>4, <2>6 DEF EndsWell
  <2>8. b <= d.from /\ d.to <= c
    BY <2>2, <2>3, <2>5, <2>7
  <2>9. \A m \in 2 .. Len(Declarations) :
          (b <= Declarations[m - 1].from /\ Declarations[m].from < c) =>
              LineOf(Declarations[m].from) <= LineOf(Declarations[m - 1].to)
    BY <1>1, <2>7, UnitIsChain
  <2> QED BY <2>7, <2>8, <2>9 DEF NoCut
<1>3. \A i \in 1 .. Len(out) : Described(out[i])
  BY DEF DescInv, AllDescribed
<1> QED BY <1>2, <1>3 DEF WindowsDescribe, Described

(* What ContextWindows counts along the way (lines, comments, secrets) is at *)
(* every pass what a fresh count of the source would give.                   *)
THEOREM DescInvariance == Spec => []DescInv
<1> QED BY DescInitHolds, DescNextHolds, Invariance, PTL DEF Spec

(* Whatever the windows say of themselves is true of the source.             *)
THEOREM WindowsDescribeAlways == Spec => []WindowsDescribe
<1> QED BY DescribesAll, Invariance, DescInvariance, PTL

-----------------------------------------------------------------------------
(* The walk and its rules                                                    *)

Above(d) == ToSet(Chain(d))

(* The beginnings of a sequence.                                             *)
LEMMA PrefixFacts ==
    ASSUME NEW S, NEW d \in Seq(S), NEW i \in 0 .. Len(d)
    PROVE  /\ SubSeq(d, 1, i) \in Seq(S) /\ Len(SubSeq(d, 1, i)) = i
           /\ \A j \in 1 .. i : SubSeq(d, 1, i)[j] = d[j]
<1>1. Len(d) \in Nat /\ i \in Int /\ 1 \in Int /\ i \in Nat
      /\ \A j \in 1 .. i : j \in 1 .. Len(d)
  OBVIOUS
<1>2. \A j \in 1 .. Len(d) : d[j] \in S
  OBVIOUS
<1>3. \A j \in 1 .. i : d[j] \in S
  BY <1>1, <1>2
<1>4. /\ SubSeq(d, 1, i) \in Seq(S)
      /\ Len(SubSeq(d, 1, i)) = IF 1 <= i THEN i - 1 + 1 ELSE 0
      /\ \A j \in 1 .. i - 1 + 1 : SubSeq(d, 1, i)[j] = d[1 + j - 1]
  BY ONLY <1>1, <1>3, SubSeqProperties
<1>5. i - 1 + 1 = i /\ (~ (1 <= i) => i = 0) /\ \A j \in 1 .. i : 1 + j - 1 = j
  BY <1>1
<1> QED BY <1>4, <1>5

(* A beginning of a beginning is a beginning.                                *)
LEMMA PrefixOfPrefix ==
    ASSUME NEW S, NEW d \in Seq(S), NEW i \in 0 .. Len(d), NEW k \in 0 .. i
    PROVE  SubSeq(SubSeq(d, 1, i), 1, k) = SubSeq(d, 1, k)
<1> DEFINE p == SubSeq(d, 1, i)
<1>1. p \in Seq(S) /\ Len(p) = i /\ \A j \in 1 .. i : p[j] = d[j]
  BY PrefixFacts
<1>2. k \in 0 .. Len(d) /\ k \in 0 .. Len(p) /\ \A j \in 1 .. k : j \in 1 .. i
  BY <1>1
<1> HIDE DEF p
<1>3. SubSeq(p, 1, k) \in Seq(S) /\ Len(SubSeq(p, 1, k)) = k
      /\ \A j \in 1 .. k : SubSeq(p, 1, k)[j] = p[j]
  BY <1>1, <1>2, PrefixFacts
<1>4. SubSeq(d, 1, k) \in Seq(S) /\ Len(SubSeq(d, 1, k)) = k
      /\ \A j \in 1 .. k : SubSeq(d, 1, k)[j] = d[j]
  BY <1>2, PrefixFacts
<1>5. \A j \in 1 .. k : SubSeq(p, 1, k)[j] = SubSeq(d, 1, k)[j]
  BY <1>1, <1>2, <1>3, <1>4
<1>6. SubSeq(p, 1, k) = SubSeq(d, 1, k)
  BY <1>3, <1>4, <1>5, SeqEqual
<1> QED BY <1>6 DEF p

(* What is above a directory is a directory, and what is above that as well; *)
(* between a directory and one above it there is a next one.                 *)
LEMMA AboveFacts ==
    ASSUME NEW d \in Dirs
    PROVE  /\ d \in Seq(ToSet(d)) /\ Len(d) \in Nat /\ d \in Above(d) /\ <<>> \in Above(d)
           /\ Above(d) = {SubSeq(d, 1, i) : i \in 0 .. Len(d)}
           /\ Above(d) \subseteq Dirs
           /\ \A c \in Above(d) :
                 /\ Above(c) \subseteq Above(d)
                 /\ c = d \/ \E s \in Above(d) : s # <<>> /\ Front(s) = c
<1> DEFINE S == ToSet(d)
           n == Len(d)
<1>1. d \in Seq(S) /\ \A i \in 0 .. n : SubSeq(d, 1, i) \in Dirs
  BY DirsAssumption
<1> HIDE DEF S
<1>2. n \in Nat
  BY <1>1
<1>3. \A e \in Dirs : Above(e) = {SubSeq(e, 1, i) : i \in 0 .. Len(e)}
  <2> SUFFICES ASSUME NEW e \in Dirs
               PROVE  Above(e) = {SubSeq(e, 1, i) : i \in 0 .. Len(e)}
    OBVIOUS
  <2>1. Len(e) \in Nat
    BY DirsAssumption
  <2>2. Chain(e) = [i \in 1 .. Len(e) + 1 |-> SubSeq(e, 1, i - 1)]
    BY DEF Chain
  <2> DEFINE m == Len(e)
             pre(i) == SubSeq(e, 1, i)
  <2>3. Above(e) = {pre(i - 1) : i \in 1 .. m + 1}
    BY <2>2 DEF Above, ToSet
  <2> HIDE DEF m, pre
  <2>4. m \in Nat
    BY <2>1 DEF m
  <2>5. (\A i \in 1 .. m + 1 : i - 1 \in 0 .. m)
        /\ \A i \in 0 .. m : i + 1 \in 1 .. m + 1 /\ i + 1 - 1 = i
    BY <2>4
  <2>6. {pre(i - 1) : i \in 1 .. m + 1} = {pre(i) : i \in 0 .. m}
    <3>1. \A x \in {pre(i - 1) : i \in 1 .. m + 1} : x \in {pre(i) : i \in 0 .. m}
      BY <2>5
    <3>2. ASSUME NEW i \in 0 .. m PROVE pre(i) \in {pre(k - 1) : k \in 1 .. m + 1}
      BY <2>5
    <3> QED BY <3>1, <3>2
  <2> QED BY <2>3, <2>6 DEF m, pre
<1>4. Above(d) = {SubSeq(d, 1, i) : i \in 0 .. n}
  BY <1>3
<1>5. Above(d) \subseteq Dirs
  BY <1>1, <1>4
<1>6. SubSeq(d, 1, n) = d /\ SubSeq(d, 1, 0) = <<>> /\ n \in 0 .. n /\ 0 \in 0 .. n
  <2>1. n \in 0 .. n /\ 0 \in 0 .. n
    BY <1>2
  <2>2. SubSeq(d, 1, n) = d
    <3>1. SubSeq(d, 1, n) \in Seq(S) /\ Len(SubSeq(d, 1, n)) = Len(d)
          /\ \A j \in 1 .. Len(d) : SubSeq(d, 1, n)[j] = d[j]
      BY <1>1, <2>1, PrefixFacts
    <3> QED BY <1>1, <3>1, SeqEqual
  <2> QED BY <2>1, <2>2
<1>7. d \in Above(d) /\ <<>> \in Above(d)
  BY <1>4, <1>6
<1>8. ASSUME NEW c \in Above(d)
      PROVE  /\ Above(c) \subseteq Above(d)
             /\ c = d \/ \E s \in Above(d) : s # <<>> /\ Front(s) = c
  <2>1. PICK i \in 0 .. n : c = SubSeq(d, 1, i)
    BY <1>4
  <2>2. c \in Dirs /\ Len(c) = i
    BY <1>1, <1>5, <2>1, PrefixFacts
  <2>3. Above(c) = {SubSeq(c, 1, k) : k \in 0 .. i}
    BY <1>3, <2>2
  <2>4. \A k \in 0 .. i : SubSeq(c, 1, k) = SubSeq(d, 1, k) /\ k \in 0 .. n
    BY <1>1, <1>2, <2>1, PrefixOfPrefix
  <2>5. Above(c) \subseteq Above(d)
    BY <1>4, <2>3, <2>4
  <2>6. CASE i = n
    BY <1>6, <2>1, <2>5, <2>6
  <2>7. CASE i # n
    <3> DEFINE k == i + 1
               s == SubSeq(d, 1, k)
    <3>1. k \in 0 .. n /\ k - 1 = i /\ i \in 0 .. k /\ k # 0
      BY <1>2, <2>7
    <3> HIDE DEF k
    <3>2. Len(s) = k /\ s \in Seq(S)
      BY <1>1, <3>1, PrefixFacts
    <3>3. SubSeq(s, 1, i) = SubSeq(d, 1, i)
      BY <1>1, <3>1, PrefixOfPrefix
    <3>4. Front(s) = c
      BY <2>1, <3>1, <3>2, <3>3 DEF Front
    <3>5. s # <<>> /\ s \in Above(d)
      BY <1>4, <3>1, <3>2
    <3> QED BY <2>5, <3>4, <3>5
  <2> QED BY <2>6, <2>7
<1> QED BY <1>1, <1>2, <1>4, <1>5, <1>7, <1>8 DEF S

(* SetToSeq lists every element of a finite set.                             *)
LEMMA SetToSeqFacts ==
    ASSUME NEW S, IsFiniteSet(S)
    PROVE  /\ SetToSeq(S) \in Seq(S)
           /\ \A x \in S : \E i \in 1 .. Len(SetToSeq(S)) : SetToSeq(S)[i] = x
<1> DEFINE c == Cardinality(S)
           s == SetToSeq(S)
<1>1. c \in Nat /\ ExistsBijection(1 .. c, S)
  BY FS_CardinalityType
<1>2. \E f \in [1 .. c -> S] : IsInjective(f)
  BY <1>1 DEF ExistsBijection, Bijection, Injection
<1>3. s \in [1 .. c -> S] /\ IsInjective(s)
  BY <1>2 DEF SetToSeq
<1> HIDE DEF s
<1>4. IsFiniteSet(1 .. c) /\ Cardinality(1 .. c) = c
  <2>1. c \in Int /\ 1 \in Int /\ (1 > c => c = 0) /\ c - 1 + 1 = c
    BY <1>1
  <2> QED BY <2>1, FS_Interval
<1>5. s \in Injection(1 .. c, S)
  BY <1>3 DEF Injection
<1>6. s \in Surjection(1 .. c, S)
  BY <1>4, <1>5, FS_Injection
<1>7. s \in Seq(S) /\ Len(s) = c
  BY <1>1, <1>3
<1> QED BY <1>6, <1>7 DEF Surjection, s
\* The rules and directories that scope sc was read from let the walk into d.
Passable(sc, d) ==
    \A c \in Above(d) :
        /\ sc.rules[c].ok
        /\ c # <<>> => /\ sc.kind[c] = "dir"
                       /\ ~ ExcludedIn(sc, c, "ign", TRUE) /\ ~ CallerExcluded(c, TRUE)

(* walkRules names a directory on the way, and gives no reason only when     *)
(* nothing bars the way.                                                     *)
LEMMA WalkFacts ==
    ASSUME NEW d \in Dirs, kind \in [Dirs -> Kinds]
    PROVE  /\ Walk(d).ref \in Above(d)
           /\ Walk(d).reason = "" => Passable(ScopeOf(d), d)
<1> DEFINE n == Len(d) + 1
           bad == {i \in 1 .. n :
                     /\ Problem(Chain(d)[i]) # ""
                     /\ \A j \in 1 .. i - 1 : Problem(Chain(d)[j]) = ""}
           first == CHOOSE i \in bad : TRUE
           all == {i \in 1 .. n : Problem(Chain(d)[i]) # ""}
<1>1. Len(d) \in Nat /\ d \in Above(d) /\ Above(d) \subseteq Dirs
  BY AboveFacts
<1>2. Walk(d) = IF bad = {} THEN [reason |-> "", ref |-> d]
                ELSE [reason |-> Problem(Chain(d)[first]), ref |-> Chain(d)[first]]
  BY DEF Walk
<1>3. n \in Nat /\ DOMAIN Chain(d) = 1 .. n /\ Above(d) = {Chain(d)[i] : i \in 1 .. n}
  BY <1>1 DEF Chain, Above, ToSet
<1>4. bad # {} => first \in 1 .. n /\ Problem(Chain(d)[first]) # ""
  BY <1>3
<1>5. Walk(d).ref \in Above(d)
  <2>1. CASE bad = {}
    <3> HIDE DEF bad, first, n
    <3>1. Walk(d) = [reason |-> "", ref |-> d]
      BY <1>2, <2>1
    <3>2. \A r : [reason |-> r, ref |-> d].ref = d
      OBVIOUS
    <3>3. Walk(d).ref = d
      BY <3>1, <3>2, Zenon
    <3> QED BY <1>1, <3>3
  <2>2. CASE bad # {}
    <3> HIDE DEF bad, first, n
    <3>1. Walk(d) = [reason |-> Problem(Chain(d)[first]), ref |-> Chain(d)[first]]
      BY <1>2, <2>2
    <3>2. Walk(d).ref = Chain(d)[first]
      BY <3>1
    <3> QED BY <1>3, <1>4, <2>2, <3>2
  <2> QED BY <2>1, <2>2
<1>6. ASSUME Walk(d).reason = "" PROVE all = {}
  <2>1. bad = {}
    <3> SUFFICES ASSUME bad # {} PROVE FALSE
      OBVIOUS
    <3> HIDE DEF bad, first
    <3>1. Walk(d) = [reason |-> Problem(Chain(d)[first]), ref |-> Chain(d)[first]]
      BY <1>2
    <3>2. Walk(d).reason = Problem(Chain(d)[first])
      BY <3>1
    <3> QED BY <1>4, <1>6, <3>2
  <2>2. SUFFICES ASSUME all # {} PROVE FALSE
    OBVIOUS
  <2>3. \A i \in all : i \in 1 .. n
    OBVIOUS
  <2>4. \A i \in 1 .. n : i \in all <=> Problem(Chain(d)[i]) # ""
    OBVIOUS
  <2> HIDE DEF all
  <2> DEFINE T == {n - r : r \in all}
  <2>5. T \subseteq 0 .. n /\ T # {}
    <3>1. \A r \in all : n - r \in 0 .. n
      BY <1>3, <2>3
    <3> QED BY <2>2, <3>1
  <2>6. PICK t \in T : \A u \in T : u <= t
    <3> HIDE DEF T, n
    <3>1. Greatest(T) \in T /\ \A u \in T : u <= Greatest(T)
      BY <1>3, <2>5, GreatestExists
    <3> QED BY <3>1
  <2>7. PICK i \in all : t = n - i
    BY <2>6
  <2>8. \A j \in all : i <= j
    <3> SUFFICES ASSUME NEW j \in all PROVE i <= j
      OBVIOUS
    <3>1. n - j <= n - i
      BY <2>6, <2>7
    <3>2. i \in 1 .. n /\ j \in 1 .. n
      BY <2>3
    <3> QED BY <1>3, <3>1, <3>2
  <2>9. \A j \in 1 .. i - 1 : j \in 1 .. n /\ j \notin all
    BY <1>3, <2>3, <2>8
  <2>10. i \in bad
    BY <2>3, <2>4, <2>9
  <2> QED BY <2>1, <2>10
<1>7. ASSUME NEW c \in Dirs, Problem(c) = ""
      PROVE  /\ rules[c].ok
             /\ c # <<>> => kind[c] = "dir" /\ ~ DirExcluded(c)
  <2>1. kind[c] \in Kinds /\ "" \notin Kinds
    BY DEF Kinds
  <2>2. c # <<>> => ~ DirExcluded(c)
    BY <1>7 DEF Problem
  <2>3. c # <<>> => kind[c] = "dir"
    BY <1>7, <2>1, <2>2 DEF Problem
  <2>4. rules[c].ok
    BY <1>7, <2>1, <2>2, <2>3 DEF Problem
  <2> QED BY <2>2, <2>3, <2>4
<1>8. ASSUME Walk(d).reason = "" PROVE Passable(ScopeOf(d), d)
  <2>1. ASSUME NEW c \in Above(d) PROVE Problem(c) = "" /\ c \in Dirs
    <3>1. PICK i \in 1 .. n : c = Chain(d)[i]
      BY <1>3
    <3>2. i \notin all
      BY <1>6, <1>8
    <3> QED BY <1>1, <3>1, <3>2
  <2>2. ScopeOf(d).rules = rules /\ ScopeOf(d).kind = kind
    BY DEF ScopeOf
  <2>3. \A c \in Above(d) : c # <<>> =>
          ~ ExcludedIn(ScopeOf(d), c, "ign", TRUE) /\ ~ CallerExcluded(c, TRUE)
    <3> SUFFICES ASSUME NEW c \in Above(d), c # <<>>
                 PROVE  ~ ExcludedIn(ScopeOf(d), c, "ign", TRUE) /\ ~ CallerExcluded(c, TRUE)
      OBVIOUS
    <3>1. ~ DirExcluded(c)
      BY <1>7, <2>1
    <3> QED BY <2>2, <3>1 DEF DirExcluded, ExcludedIn, Scoped
  <2> QED BY <1>7, <2>1, <2>2, <2>3 DEF Passable
<1> QED BY <1>5, <1>8

-----------------------------------------------------------------------------

FilesOf(d) == {Append(d, n) : n \in Names}

WalkTypes ==
    /\ kind \in [Dirs -> Kinds] /\ dir \in Dirs /\ stack \in Seq(Dirs)
    /\ pending \subseteq FilesOf(dir)

\* Loaded rules are those of the current directory, which they let pass.
ScopeSound ==
    scope.loaded =>
        /\ scope.ign = ScopedIn(scope.rules, dir, "ign")
        /\ scope.attrs = ScopedIn(scope.rules, dir, "attrs")
        /\ Passable(scope, dir)

\* File n of d was sent, reported or went away, or the walk comes to it.
Settled(d, n) ==
    \/ \E s \in sent : s.file = Append(d, n)
    \/ Append(d, n) \in told \/ \E c \in Above(d) : c \in told
    \/ \E c \in Above(d) : kind[c] = "absent"
Waiting(d, n) ==
    \/ Append(d, n) \in pending
    \/ \E i \in 1 .. Len(stack) : stack[i] \in Above(d)

OnItsWay == \A d \in Dirs, n \in Names : Settled(d, n) \/ Waiting(d, n)

RulesInv == WalkTypes /\ ScopeSound /\ SubmittedAllowed /\ OnItsWay

(* The walk begins with nothing scoped and nothing submitted.                *)
LEMMA RulesInitHolds == RulesInit => RulesInv
<1> SUFFICES ASSUME RulesInit PROVE RulesInv
  OBVIOUS
<1>1. <<>> \in Dirs
  BY DirsAssumption
<1>2. stack \in Seq(Dirs) /\ Len(stack) = 1 /\ stack[1] = <<>>
  BY <1>1 DEF RulesInit
<1>3. kind \in [Dirs -> Kinds]
  BY DEF RulesInit, Kinds
<1>4. WalkTypes
  BY <1>1, <1>2, <1>3 DEF RulesInit, WalkTypes
<1>5. ScopeSound /\ SubmittedAllowed
  BY DEF RulesInit, ScopeSound, SubmittedAllowed, NoScope
<1>6. \A d \in Dirs, n \in Names : Waiting(d, n)
  BY <1>2, AboveFacts DEF Waiting
<1> QED BY <1>4, <1>5, <1>6 DEF RulesInv, OnItsWay

\* What is settled stays settled.
Onward ==
    /\ sent \subseteq sent' /\ told \subseteq told'
    /\ \A d \in Dirs : kind[d] = "absent" => kind'[d] = "absent"

(* A file that was dealt with stays so in a step that undoes nothing.        *)
LEMMA SettledStays ==
    ASSUME Onward, NEW d \in Dirs, NEW n, Settled(d, n)
    PROVE  Settled(d, n)'
<1>1. Above(d) \subseteq Dirs
  BY AboveFacts
<1>2. CASE \E s \in sent : s.file = Append(d, n)
  BY <1>2 DEF Onward, Settled
<1>3. CASE Append(d, n) \in told \/ \E c \in Above(d) : c \in told
  BY <1>3 DEF Onward, Settled
<1>4. CASE \E c \in Above(d) : kind[c] = "absent"
  BY <1>1, <1>4 DEF Onward, Settled
<1> QED BY <1>2, <1>3, <1>4 DEF Settled

(* What a step keeps that leaves the cursor alone.                           *)
LEMMA CursorAlone ==
    ASSUME RulesInv, Onward, UNCHANGED <<excl, stack, dir, pending>>
    PROVE  OnItsWay' /\ (kind' \in [Dirs -> Kinds] => WalkTypes')
           /\ (scope' = scope => ScopeSound')
           /\ (sent' = sent => SubmittedAllowed')
<1>1. ASSUME NEW d \in Dirs, NEW n \in Names PROVE Settled(d, n)' \/ Waiting(d, n)'
  <2>1. CASE Settled(d, n)
    BY <2>1, SettledStays
  <2>2. CASE Waiting(d, n)
    BY <2>2 DEF Waiting
  <2> QED BY <2>1, <2>2 DEF RulesInv, OnItsWay
<1>2. OnItsWay'
  BY <1>1 DEF OnItsWay
<1>3. kind' \in [Dirs -> Kinds] => WalkTypes'
  BY DEF RulesInv, WalkTypes
<1>4. scope' = scope => ScopeSound'
  BY DEF RulesInv, ScopeSound, Passable, CallerExcluded
<1>5. sent' = sent => SubmittedAllowed'
  BY DEF RulesInv, SubmittedAllowed, CallerExcluded
<1> QED BY <1>2, <1>3, <1>4, <1>5

(* A step that starts keeps the rules.                                       *)
LEMMA StartStepKeeps == RulesInv /\ StartStep => RulesInv'
<1> SUFFICES ASSUME RulesInv, StartStep PROVE RulesInv'
  OBVIOUS
<1>1. Onward /\ UNCHANGED <<excl, stack, dir, pending, kind, sent>>
  BY DEF StartStep, world, Onward
<1>2. ScopeSound'
  BY DEF StartStep, NoScope, ScopeSound
<1>3. kind' \in [Dirs -> Kinds]
  BY <1>1 DEF RulesInv, WalkTypes
<1> QED BY <1>1, <1>2, <1>3, CursorAlone DEF RulesInv

(* A step that ends keeps the rules.                                         *)
LEMMA StepEndsKeeps == RulesInv /\ (ScopeFails \/ EndStep) => RulesInv'
<1> SUFFICES ASSUME RulesInv, ScopeFails \/ EndStep PROVE RulesInv'
  OBVIOUS
<1>1. Onward /\ UNCHANGED <<excl, stack, dir, pending, kind, scope, sent>>
  BY DEF ScopeFails, EndStep, Boundary, world, Onward
<1>2. kind' \in [Dirs -> Kinds]
  BY <1>1 DEF RulesInv, WalkTypes
<1> QED BY <1>1, <1>2, CursorAlone DEF RulesInv

(* An edit after the rules were read changes nothing about what they were.   *)
LEMMA EditKeeps == RulesInv /\ Edit => RulesInv'
<1> SUFFICES ASSUME RulesInv, Edit PROVE RulesInv'
  OBVIOUS
<1>1. UNCHANGED <<excl, stack, dir, pending, scope, sent, told>>
  BY DEF Edit
<1>2. kind' \in [Dirs -> Kinds] /\ \A d \in Dirs : kind[d] = "absent" => kind'[d] = "absent"
  <2>1. CASE UNCHANGED kind
    BY <2>1 DEF RulesInv, WalkTypes
  <2>2. CASE \E d \in Dirs \ {<<>>}, k \in Kinds :
                kind[d] # "absent" /\ kind' = [kind EXCEPT ![d] = k]
    BY <2>2 DEF RulesInv, WalkTypes
  <2> QED BY <2>1, <2>2 DEF Edit
<1>3. Onward
  BY <1>1, <1>2 DEF Onward
<1> QED BY <1>1, <1>2, <1>3, CursorAlone DEF RulesInv

(* Compiling the scope of the directory again keeps the rules.               *)
LEMMA ReloadKeeps == RulesInv /\ Reload => RulesInv'
<1> SUFFICES ASSUME RulesInv, Reload PROVE RulesInv'
  OBVIOUS
<1>1. Onward /\ UNCHANGED <<excl, stack, dir, pending, kind, sent>>
  BY DEF Reload, world, Onward
<1>2. kind' \in [Dirs -> Kinds] /\ kind \in [Dirs -> Kinds] /\ dir \in Dirs
  BY <1>1 DEF RulesInv, WalkTypes
<1>3. scope' = ScopeOf(dir) /\ Passable(ScopeOf(dir), dir)
  BY <1>2, WalkFacts DEF Reload
<1>4. ScopeSound'
  BY <1>1, <1>3 DEF ScopeSound, ScopeOf, Scoped, Passable, CallerExcluded
<1> QED BY <1>1, <1>2, <1>4, CursorAlone DEF RulesInv

(* A file's directory is what is left of its path.                           *)
LEMMA FrontOfFile == ASSUME NEW d \in Dirs, NEW n PROVE Front(Append(d, n)) = d
<1> DEFINE S == ToSet(d) \cup {n}
           f == Append(d, n)
           k == Len(d)
<1>1. d \in Seq(ToSet(d)) /\ k \in Nat
  BY AboveFacts
<1>2. d \in Seq(S) /\ n \in S
  <2>1. ToSet(d) \subseteq S /\ n \in S
    OBVIOUS
  <2> HIDE DEF S
  <2> QED BY <1>1, <2>1
<1> HIDE DEF S
<1>3. f \in Seq(S) /\ Len(f) = k + 1 /\ \A j \in 1 .. k : f[j] = d[j]
  BY <1>2, AppendProperties
<1>4. k \in 0 .. Len(f) /\ Len(f) - 1 = k
  BY <1>1, <1>3
<1> HIDE DEF f
<1>5. SubSeq(f, 1, k) \in Seq(S) /\ Len(SubSeq(f, 1, k)) = k
      /\ \A j \in 1 .. k : SubSeq(f, 1, k)[j] = f[j]
  <2> HIDE DEF k
  <2> QED BY <1>3, <1>4, PrefixFacts
<1>6. SubSeq(f, 1, k) = d
  BY <1>2, <1>3, <1>5, SeqEqual
<1> QED BY <1>4, <1>6 DEF Front, f

(* A submitted file was let pass by the loaded rules, as was its directory.  *)
LEMMA ExamineKeeps == RulesInv /\ Examine => RulesInv'
<1> SUFFICES ASSUME RulesInv, Examine PROVE RulesInv'
  OBVIOUS
<1>1. UNCHANGED <<kind, excl, stack, dir, active, scope>> /\ scope.loaded
  BY DEF Examine, world
<1>2. PICK f \in pending :
        /\ pending' = pending \ {f}
        /\ IF Skipped(f)
           THEN told' = told \cup {f} /\ UNCHANGED sent
           ELSE /\ sent' = sent \cup {[file |-> f, rules |-> scope.rules, kind |-> scope.kind]}
                /\ UNCHANGED told
  BY DEF Examine
<1>3. Onward
  BY <1>1, <1>2 DEF Onward
<1>4. WalkTypes'
  BY <1>1, <1>2 DEF RulesInv, WalkTypes
<1>5. ScopeSound'
  BY <1>1 DEF RulesInv, ScopeSound, Passable, CallerExcluded
<1>6. SubmittedAllowed'
  <2>1. CASE Skipped(f)
    BY <1>1, <1>2, <2>1 DEF RulesInv, SubmittedAllowed, CallerExcluded
  <2>2. CASE ~ Skipped(f)
    <3> DEFINE s == [file |-> f, rules |-> scope.rules, kind |-> scope.kind]
    <3>1. Front(f) = dir
      BY FrontOfFile DEF RulesInv, WalkTypes, FilesOf
    <3>2. ~ ExcludedIn(s, f, "ign", FALSE) /\ ~ ExcludedIn(s, f, "attrs", FALSE)
          /\ ~ CallerExcluded(f, FALSE)
      BY <1>1, <2>2, <3>1 DEF Skipped, RulesInv, ScopeSound, ExcludedIn
    <3>3. s.file = f /\ s.rules = scope.rules /\ s.kind = scope.kind
      OBVIOUS
    <3> HIDE DEF s
    <3>4. \A c \in Above(dir) :
            /\ s.rules[c].ok
            /\ c # <<>> => /\ s.kind[c] = "dir"
                           /\ ~ ExcludedIn(s, c, "ign", TRUE) /\ ~ CallerExcluded(c, TRUE)
      BY <1>1, <3>3 DEF RulesInv, ScopeSound, Passable, ExcludedIn
    <3>5. sent' = sent \cup {s}
      BY <1>2, <2>2 DEF s
    <3>6. \A p, b : CallerExcluded(p, b)' <=> CallerExcluded(p, b)
      BY <1>1 DEF CallerExcluded
    <3> QED BY <3>1, <3>2, <3>3, <3>4, <3>5, <3>6 DEF RulesInv, SubmittedAllowed, Above
  <2> QED BY <2>1, <2>2
<1>7. ASSUME NEW d \in Dirs, NEW n \in Names PROVE Settled(d, n)' \/ Waiting(d, n)'
  <2>1. CASE Settled(d, n)
    BY <1>3, <2>1, SettledStays
  <2>2. CASE Waiting(d, n)
    <3>1. CASE Append(d, n) = f
      <4> DEFINE s == [file |-> f, rules |-> scope.rules, kind |-> scope.kind]
      <4>1. s.file = f
        OBVIOUS
      <4> HIDE DEF s
      <4>2. f \in told' \/ s \in sent'
        BY <1>2 DEF s
      <4> QED BY <3>1, <4>1, <4>2 DEF Settled
    <3>2. CASE Append(d, n) # f
      BY <1>1, <1>2, <2>2, <3>2 DEF Waiting
    <3> QED BY <3>1, <3>2
  <2> QED BY <2>1, <2>2 DEF RulesInv, OnItsWay
<1>8. OnItsWay'
  BY <1>7 DEF OnItsWay
<1> QED BY <1>4, <1>5, <1>6, <1>8 DEF RulesInv

(* A sequence without its last element.                                      *)
LEMMA FrontFacts ==
    ASSUME NEW S, NEW s \in Seq(S), s # <<>>
    PROVE  /\ Front(s) \in Seq(S) /\ Len(s) \in Nat \ {0} /\ Len(Front(s)) = Len(s) - 1
           /\ \A i \in 1 .. Len(s) - 1 : Front(s)[i] = s[i]
           /\ Last(s) = s[Len(s)] /\ Last(s) \in S
<1> DEFINE k == Len(s) - 1
<1>1. Len(s) \in Nat \ {0} /\ k \in 0 .. Len(s)
  <2>1. Len(s) \in Nat /\ Len(s) # 0
    BY EmptySeq
  <2> QED BY <2>1
<1>2. Front(s) = SubSeq(s, 1, k) /\ Last(s) = s[Len(s)] /\ Last(s) \in S
  BY <1>1 DEF Front, Last
<1> HIDE DEF k
<1>3. SubSeq(s, 1, k) \in Seq(S) /\ Len(SubSeq(s, 1, k)) = k
      /\ \A i \in 1 .. k : SubSeq(s, 1, k)[i] = s[i]
  BY <1>1, PrefixFacts
<1> QED BY <1>1, <1>2, <1>3 DEF k

(* A file given up with its directory is reported with what barred the way.  *)
LEMMA ScopeExcludedKeeps == RulesInv /\ ScopeExcluded => RulesInv'
<1> SUFFICES ASSUME RulesInv, ScopeExcluded PROVE RulesInv'
  OBVIOUS
<1> DEFINE at == IF pending = {} THEN Last(stack) ELSE dir
           ref == Walk(at).ref
<1>1. /\ UNCHANGED <<kind, excl, dir, scope, sent>> /\ told' = told \cup {ref}
      /\ IF pending = {} THEN stack' = Front(stack) /\ UNCHANGED pending
         ELSE pending' = {} /\ UNCHANGED stack
  BY DEF ScopeExcluded, Boundary, world
<1>2. Onward
  BY <1>1 DEF Onward
<1>3. pending = {} => stack # <<>>
  BY DEF ScopeExcluded, Done
<1>4. /\ kind \in [Dirs -> Kinds] /\ dir \in Dirs /\ stack \in Seq(Dirs)
      /\ pending \subseteq FilesOf(dir)
  BY DEF RulesInv, WalkTypes
<1>5. stack # <<>> => /\ Front(stack) \in Seq(Dirs) /\ Len(stack) \in Nat \ {0}
                      /\ Len(Front(stack)) = Len(stack) - 1
                      /\ \A i \in 1 .. Len(stack) - 1 : Front(stack)[i] = stack[i]
                      /\ Last(stack) = stack[Len(stack)]
  BY <1>4, FrontFacts
<1>6. at \in Dirs
  BY <1>3, <1>4, <1>5
<1>7. ref \in Above(at) /\ ref \in told'
  BY <1>1, <1>4, <1>6, WalkFacts
<1> HIDE DEF ref
<1>8. WalkTypes'
  BY <1>1, <1>3, <1>4, <1>5 DEF WalkTypes
<1>9. ScopeSound' /\ SubmittedAllowed'
  BY <1>1 DEF RulesInv, ScopeSound, Passable, SubmittedAllowed, CallerExcluded
<1>10. ASSUME NEW d \in Dirs, NEW n \in Names PROVE Settled(d, n)' \/ Waiting(d, n)'
  <2>1. CASE Settled(d, n)
    BY <1>2, <2>1, SettledStays
  <2>2. ASSUME at \in Above(d) PROVE Settled(d, n)'
    <3>1. Above(at) \subseteq Above(d)
      BY <2>2, AboveFacts
    <3> QED BY <1>7, <3>1 DEF Settled
  <2>3. CASE Append(d, n) \in pending
    <3>1. Front(Append(d, n)) = dir
      BY <1>4, <2>3, FrontOfFile DEF FilesOf
    <3>2. at = d
      BY <2>3, <3>1, FrontOfFile
    <3> QED BY <2>2, <3>2, AboveFacts
  <2>4. CASE pending = {} /\ \E i \in 1 .. Len(stack) : stack[i] \in Above(d)
    <3>1. PICK i \in 1 .. Len(stack) : stack[i] \in Above(d)
      BY <2>4
    <3>2. CASE i = Len(stack)
      BY <1>3, <1>5, <2>2, <2>4, <3>1, <3>2
    <3>3. CASE i # Len(stack)
      <4>1. i \in 1 .. Len(stack') /\ stack'[i] = stack[i]
        BY <1>1, <1>3, <1>5, <2>4, <3>1, <3>3
      <4> QED BY <3>1, <4>1 DEF Waiting
    <3> QED BY <3>2, <3>3
  <2>5. CASE pending # {} /\ \E i \in 1 .. Len(stack) : stack[i] \in Above(d)
    BY <1>1, <2>5 DEF Waiting
  <2> QED BY <2>1, <2>3, <2>4, <2>5 DEF RulesInv, OnItsWay, Waiting
<1>11. OnItsWay'
  BY <1>10 DEF OnItsWay
<1> QED BY <1>8, <1>9, <1>11 DEF RulesInv

(* A directory left the stack: its own files are pending, and of those       *)
(* further below each waits behind the next directory on its way.            *)
LEMMA ListDirKeeps == RulesInv /\ ListDir => RulesInv'
<1> SUFFICES ASSUME RulesInv, ListDir PROVE RulesInv'
  OBVIOUS
<1> DEFINE s == Last(stack)
           below == {c \in Dirs : c # <<>> /\ Front(c) = s /\ kind[c] # "absent"}
           barred == {c \in below : kind[c] = "symlink" \/ DirExcluded(c)}
           next == SetToSeq(below \ barred)
<1>1. /\ UNCHANGED <<kind, excl, sent>> /\ pending = {} /\ stack # <<>>
      /\ Walk(s).reason = "" /\ dir' = s /\ pending' = FilesOf(s)
      /\ stack' = Front(stack) \o next
      /\ told' = told \cup barred /\ scope' = ScopeOf(s)
  BY DEF ListDir, world, FilesOf
<1>2. Onward
  BY <1>1 DEF Onward
<1>3. kind \in [Dirs -> Kinds] /\ stack \in Seq(Dirs)
  BY DEF RulesInv, WalkTypes
<1>4. /\ Front(stack) \in Seq(Dirs) /\ Len(stack) \in Nat \ {0}
      /\ Len(Front(stack)) = Len(stack) - 1
      /\ \A i \in 1 .. Len(stack) - 1 : Front(stack)[i] = stack[i]
      /\ s = stack[Len(stack)] /\ s \in Dirs
  BY <1>1, <1>3, FrontFacts
<1>5. /\ next \in Seq(Dirs) /\ Len(next) \in Nat
      /\ \A x \in below \ barred : \E i \in 1 .. Len(next) : next[i] = x
  <2> DEFINE S == below \ barred
  <2>1. S \subseteq Dirs /\ IsFiniteSet(Dirs)
    BY DirsAssumption
  <2> HIDE DEF S
  <2>2. IsFiniteSet(S)
    BY <2>1, FS_Subset
  <2>3. SetToSeq(S) \in Seq(S) /\ \A x \in S : \E i \in 1 .. Len(SetToSeq(S)) : SetToSeq(S)[i] = x
    BY <2>2, SetToSeqFacts
  <2>4. SetToSeq(S) \in Seq(Dirs) /\ Len(SetToSeq(S)) \in Nat
    BY <2>1, <2>3
  <2> QED BY <2>3, <2>4 DEF S
<1> HIDE DEF next
<1>6. /\ stack' \in Seq(Dirs) /\ Len(stack') = Len(stack) - 1 + Len(next)
      /\ \A i \in 1 .. Len(stack) - 1 : stack'[i] = stack[i]
      /\ \A i \in 1 .. Len(next) : stack'[Len(stack) - 1 + i] = next[i]
  <2> DEFINE f == Front(stack)
  <2>1. f \in Seq(Dirs) /\ Len(f) = Len(stack) - 1 /\ stack' = f \o next
    BY <1>1, <1>4
  <2>2. \A i \in 1 .. Len(stack) - 1 : f[i] = stack[i]
    BY <1>4
  <2> HIDE DEF f
  <2>3. /\ stack' \in Seq(Dirs) /\ Len(stack') = Len(f) + Len(next)
        /\ \A i \in 1 .. Len(f) + Len(next) :
              stack'[i] = IF i <= Len(f) THEN f[i] ELSE next[i - Len(f)]
    BY <1>5, <2>1, ConcatProperties
  <2>4. ASSUME NEW i \in 1 .. Len(stack) - 1 PROVE stack'[i] = stack[i]
    <3>1. i \in 1 .. Len(f) + Len(next) /\ i <= Len(f)
      BY <1>4, <1>5, <2>1
    <3> QED BY <2>2, <2>3, <3>1
  <2>5. ASSUME NEW i \in 1 .. Len(next) PROVE stack'[Len(stack) - 1 + i] = next[i]
    <3> DEFINE k == Len(f) + i
    <3>1. k \in 1 .. Len(f) + Len(next) /\ ~ (k <= Len(f)) /\ k - Len(f) = i
      BY <1>4, <1>5, <2>1
    <3>2. k = Len(stack) - 1 + i
      BY <2>1
    <3> HIDE DEF k
    <3> QED BY <2>3, <3>1, <3>2
  <2> QED BY <2>1, <2>3, <2>4, <2>5
<1>7. WalkTypes'
  BY <1>1, <1>3, <1>4, <1>6 DEF WalkTypes
<1>8. Passable(ScopeOf(s), s)
  BY <1>1, <1>3, <1>4, WalkFacts
<1>9. ScopeSound'
  BY <1>1, <1>8 DEF ScopeSound, ScopeOf, Scoped, Passable, CallerExcluded
<1>10. SubmittedAllowed'
  BY <1>1 DEF RulesInv, SubmittedAllowed, CallerExcluded
<1> HIDE DEF s
<1>11. ASSUME NEW d \in Dirs, NEW n \in Names, s \in Above(d)
       PROVE  Settled(d, n)' \/ Waiting(d, n)'
  <2>1. CASE s = d
    BY <1>1, <2>1 DEF FilesOf, Waiting
  <2>2. CASE s # d
    <3>1. PICK c \in Above(d) : c # <<>> /\ Front(c) = s
      BY <1>11, <2>2, AboveFacts
    <3>2. c \in Dirs
      BY AboveFacts
    <3>3. CASE kind[c] = "absent"
      BY <1>1, <3>3 DEF Settled
    <3>4. CASE c \in barred
      <4> HIDE DEF barred
      <4> QED BY <1>1, <3>4 DEF Settled
    <3>5. CASE c \in below \ barred
      <4> HIDE DEF below, barred
      <4>1. PICK i \in 1 .. Len(next) : next[i] = c
        BY <1>5, <3>5
      <4> DEFINE k == Len(stack) - 1 + i
      <4>2. k \in 1 .. Len(stack')
        BY <1>4, <1>5, <1>6
      <4>3. stack'[k] = c
        BY <1>6, <4>1
      <4> HIDE DEF k
      <4> QED BY <4>2, <4>3 DEF Waiting
    <3>6. c \in below \/ kind[c] = "absent"
      BY <3>1, <3>2
    <3> HIDE DEF below, barred
    <3> QED BY <3>3, <3>4, <3>5, <3>6
  <2> QED BY <2>1, <2>2
<1>12. ASSUME NEW d \in Dirs, NEW n \in Names PROVE Settled(d, n)' \/ Waiting(d, n)'
  <2>1. CASE Settled(d, n)
    BY <1>2, <2>1, SettledStays
  <2>2. CASE Waiting(d, n)
    <3>1. PICK i \in 1 .. Len(stack) : stack[i] \in Above(d)
      BY <1>1, <2>2 DEF Waiting
    <3>2. CASE i = Len(stack)
      BY <1>4, <1>11, <3>1, <3>2
    <3>3. CASE i # Len(stack)
      <4>1. i \in 1 .. Len(stack') /\ stack'[i] = stack[i]
        BY <1>4, <1>5, <1>6, <3>1, <3>3
      <4> QED BY <3>1, <4>1 DEF Waiting
    <3> QED BY <3>2, <3>3
  <2> QED BY <2>1, <2>2 DEF RulesInv, OnItsWay
<1>13. OnItsWay'
  BY <1>12 DEF OnItsWay
<1> QED BY <1>7, <1>9, <1>10, <1>13 DEF RulesInv

(* Whatever is edited between the steps, loaded rules let their directory    *)
(* pass and every file is settled or still on the walk's way.                *)
THEOREM WalkInvariance == RulesSpec => []RulesInv
<1>1. RulesInv /\ [RulesNext]_rulesVars => RulesInv'
  <2> SUFFICES ASSUME RulesInv, [RulesNext]_rulesVars PROVE RulesInv'
    OBVIOUS
  <2>1. CASE UNCHANGED rulesVars
    <3>1. Onward /\ UNCHANGED <<excl, stack, dir, pending, kind, scope, sent>>
      BY <2>1 DEF rulesVars, world, Onward
    <3>2. kind' \in [Dirs -> Kinds]
      BY <3>1 DEF RulesInv, WalkTypes
    <3> QED BY <3>1, <3>2, CursorAlone DEF RulesInv
  <2> QED BY <2>1, StartStepKeeps, StepEndsKeeps, ScopeExcludedKeeps, ListDirKeeps,
             ReloadKeeps, ExamineKeeps, EditKeeps DEF RulesNext
<1> QED BY <1>1, RulesInitHolds, PTL DEF RulesSpec

(* No file is sent that the rules read for it exclude, or that lies below    *)
(* what they exclude, and at the end none was passed over in silence: for    *)
(* every tree, every rules and every edit between the steps.                 *)
THEOREM RulesObeyedAlways == RulesSpec => []RulesObeyed
<1>1. RulesInv => RulesObeyed
  <2> SUFFICES ASSUME RulesInv PROVE RulesObeyed
    OBVIOUS
  <2>1. ASSUME Done, NEW d \in Dirs, NEW n \in Names PROVE Settled(d, n)
    BY <2>1 DEF Done, Waiting, RulesInv, OnItsWay
  <2>2. NothingUntold
    BY <2>1 DEF NothingUntold, Settled, Above
  <2> QED BY <2>2 DEF RulesInv, RulesObeyed
<1> QED BY <1>1, WalkInvariance, PTL

-----------------------------------------------------------------------------
(* The units of a window                                                     *)

\* Spans that lie end to end from a to b, and each hold something.
Tiled(spans, a, b) ==
    /\ spans \in Seq(Nat \X Nat) /\ Len(spans) >= 1
    /\ spans[1][1] = a /\ spans[Len(spans)][2] = b
    /\ \A k \in 1 .. Len(spans) : spans[k][1] < spans[k][2]
    /\ \A k, l \in 1 .. Len(spans) : l = k + 1 => spans[k][2] = spans[l][1]
    /\ \A k, l \in 1 .. Len(spans) : k < l => spans[k][2] <= spans[l][1]

(* The ends of spans are numbers.                                            *)
LEMMA TiledTypes ==
    ASSUME NEW s, NEW a, NEW b, Tiled(s, a, b)
    PROVE  /\ Len(s) \in Nat /\ Len(s) >= 1
           /\ \A k \in 1 .. Len(s) : s[k] \in Nat \X Nat /\ s[k][1] \in Nat /\ s[k][2] \in Nat
<1>1. s \in Seq(Nat \X Nat) /\ Len(s) >= 1
  BY DEF Tiled
<1>2. Len(s) \in Nat /\ \A k \in 1 .. Len(s) : s[k] \in Nat \X Nat
  BY <1>1
<1>3. \A u \in Nat \X Nat : u[1] \in Nat /\ u[2] \in Nat
  OBVIOUS
<1> QED BY <1>1, <1>2, <1>3

\* A span with a line that opens something.
HoldsOpening(span) == \E i \in span[1] .. span[2] - 1 : Opens(i)

(* A text has at least one line, and every line has a depth.                 *)
LEMMA LinesAreThere ==
    ASSUME lines \in LineTexts
    PROVE  /\ Len(lines) \in Nat \ {0} /\ lines \in Seq(Line)
           /\ \A i \in 0 .. Len(lines) - 1 :
                /\ lines[i + 1] \in Line /\ Depth(i) \in Nat /\ Opens(i) \in BOOLEAN
                /\ (Opens(i) => lines[i + 1].kind # "blank")
<1>1. lines \in Seq(Line) /\ lines # <<>>
  BY LineTextsAssumption
<1>2. Len(lines) \in Nat \ {0}
  BY <1>1
<1>3. \A i \in 0 .. Len(lines) - 1 : lines[i + 1] \in Line
  BY <1>1, <1>2
<1>4. \A l \in Line : l.depth \in Nat
  BY DEF Line
<1>5. \A i \in 0 .. Len(lines) - 1 : Depth(i) \in Nat
  BY <1>3, <1>4 DEF Depth
<1> QED BY <1>1, <1>2, <1>3, <1>5 DEF Opens

(* split cuts end to end, each cut but the first at a sibling, and each part *)
(* of several holds the sibling it is cut for.                               *)
LEMMA SplitFacts ==
    ASSUME lines \in LineTexts, NEW a \in Nat, NEW b, b = Len(lines), a < b
    PROVE  LET spans == Split(a, b) IN
           /\ Tiled(spans, a, b)
           /\ \A k \in 1 .. Len(spans) : k >= 2 => spans[k][1] \in Siblings(a, b)
           /\ Len(spans) >= 2 => \A k \in 1 .. Len(spans) : HoldsOpening(spans[k])
           /\ IF Len(spans) >= 2 THEN \E s, t \in Siblings(a, b) : s # t
              ELSE \A s, t \in Siblings(a, b) : s = t
<1> DEFINE S == Siblings(a, b)
           starts == Sorted(S)
           n == Len(starts)
           spans == Split(a, b)
           lo(k) == IF k = 1 THEN a ELSE starts[k]
           hi(k) == IF k < n THEN starts[k + 1] ELSE b
<1>1. b \in Nat /\ a \in Nat /\ a < b
  BY LinesAreThere
<1>2. S \in SUBSET (a .. b - 1) /\ \A i \in S : Opens(i)
  BY DEF Siblings
<1>3. S \in SUBSET Nat /\ IsFiniteSet(S)
  <2>1. IsFiniteSet(a .. b - 1)
    BY <1>1, FS_Interval
  <2> HIDE DEF S
  <2>2. IsFiniteSet(S)
    BY <1>2, <2>1, FS_Subset
  <2> QED BY <1>1, <1>2, <2>2
<1> HIDE DEF S
<1>4. /\ starts \in Seq(S) /\ n \in Nat
      /\ \A k, l \in 1 .. n : k < l => starts[k] < starts[l]
      /\ \A x \in S : \E k \in 1 .. n : starts[k] = x
  BY <1>3, SortedFacts
<1>5. spans = IF n = 0 THEN << <<a, b>> >> ELSE [k \in 1 .. n |-> <<lo(k), hi(k)>>]
  BY DEF Split, S
<1> HIDE DEF starts, spans
<1>6. \A k \in 1 .. n : starts[k] \in S /\ starts[k] \in a .. b - 1 /\ Opens(starts[k])
  <2>1. \A k \in 1 .. n : starts[k] \in S
    BY <1>4
  <2> QED BY <1>2, <2>1
<1>7. CASE n = 0
  <2>1. Len(spans) = 1 /\ spans[1] = <<a, b>> /\ spans \in Seq(Nat \X Nat)
    BY <1>1, <1>5, <1>7
  <2>2. Tiled(spans, a, b)
    BY <1>1, <2>1 DEF Tiled
  <2>3. \A s, t \in S : s = t
    BY <1>4, <1>7
  <2> QED BY <2>1, <2>2, <2>3 DEF S, spans
<1>8. CASE n # 0
  <2> HIDE DEF n
  <2>1. Len(spans) = n /\ \A k \in 1 .. n : spans[k] = <<lo(k), hi(k)>>
    BY <1>4, <1>5, <1>8
  <2>2. \A k \in 1 .. n : starts[k] \in Nat /\ a <= starts[k] /\ starts[k] < b
    BY <1>1, <1>6
  <2>3. \A k, l \in 1 .. n : k < l => starts[k] < starts[l]
    BY <1>4
  <2>4. \A k \in 1 .. n : /\ lo(k) \in Nat /\ a <= lo(k) /\ lo(k) <= starts[k]
                          /\ hi(k) \in Nat /\ starts[k] < hi(k) /\ hi(k) <= b
    <3> SUFFICES ASSUME NEW k \in 1 .. n
                 PROVE  /\ lo(k) \in Nat /\ a <= lo(k) /\ lo(k) <= starts[k]
                        /\ hi(k) \in Nat /\ starts[k] < hi(k) /\ hi(k) <= b
      OBVIOUS
    <3>1. lo(k) \in Nat /\ a <= lo(k) /\ lo(k) <= starts[k]
      BY <1>1, <2>2
    <3>2. CASE k < n
      <4>1. k + 1 \in 1 .. n /\ k < k + 1 /\ hi(k) = starts[k + 1]
        BY <1>4, <3>2
      <4>2. starts[k] < starts[k + 1]
        BY <2>3, <4>1
      <4> QED BY <1>1, <2>2, <3>1, <4>1, <4>2
    <3>3. CASE ~ (k < n)
      BY <1>1, <2>2, <3>1, <3>3
    <3> QED BY <3>2, <3>3
  <2>5. \A k, l \in 1 .. n : l = k + 1 => hi(k) = lo(l)
    BY <1>4
  <2>6. \A k, l \in 1 .. n : k < l => hi(k) <= lo(l)
    <3> SUFFICES ASSUME NEW k \in 1 .. n, NEW l \in 1 .. n, k < l PROVE hi(k) <= lo(l)
      OBVIOUS
    <3>1. k + 1 \in 1 .. n /\ hi(k) = starts[k + 1] /\ lo(l) = starts[l] /\ (k + 1 = l \/ k + 1 < l)
      BY <1>4
    <3>2. starts[k + 1] \in Nat /\ starts[l] \in Nat
      BY <2>2, <3>1
    <3>3. k + 1 < l => starts[k + 1] < starts[l]
      BY <2>3, <3>1
    <3> QED BY <3>1, <3>2, <3>3
  <2>7. lo(1) = a /\ hi(n) = b /\ 1 \in 1 .. n /\ n \in 1 .. n
    BY <1>4, <1>8
  <2>8. \A k \in 1 .. n : spans[k][1] = lo(k) /\ spans[k][2] = hi(k)
    BY <2>1
  <2> HIDE DEF lo, hi
  <2>9. Tiled(spans, a, b)
    <3>1. \A k \in 1 .. n : <<lo(k), hi(k)>> \in Nat \X Nat
      BY <2>4
    <3>2. spans \in Seq(Nat \X Nat)
      BY <1>4, <1>5, <1>8, <3>1
    <3>3. \A k \in 1 .. n : spans[k][1] < spans[k][2]
      <4> SUFFICES ASSUME NEW k \in 1 .. n PROVE lo(k) < hi(k)
        BY <2>8
      <4> QED BY <2>2, <2>4
    <3>4. \A k, l \in 1 .. n : l = k + 1 => spans[k][2] = spans[l][1]
      BY <2>5, <2>8
    <3>5. \A k, l \in 1 .. n : k < l => spans[k][2] <= spans[l][1]
      BY <2>6, <2>8
    <3>6. spans[1][1] = a /\ spans[n][2] = b
      BY <2>7, <2>8
    <3>7. n >= 1
      BY <1>4, <1>8
    <3> QED BY <2>1, <3>2, <3>3, <3>4, <3>5, <3>6, <3>7 DEF Tiled
  <2>10. \A k \in 1 .. n : k >= 2 => spans[k][1] \in S
    BY <1>4, <1>6, <2>8 DEF lo
  <2>11. \A k \in 1 .. n : HoldsOpening(spans[k])
    <3> SUFFICES ASSUME NEW k \in 1 .. n PROVE HoldsOpening(spans[k])
      OBVIOUS
    <3>1. starts[k] \in lo(k) .. hi(k) - 1
      BY <2>2, <2>4
    <3>2. starts[k] \in spans[k][1] .. spans[k][2] - 1 /\ Opens(starts[k])
      BY <1>6, <2>8, <3>1
    <3> QED BY <3>2 DEF HoldsOpening
  <2>12. n >= 2 => \E s, t \in S : s # t
    <3> SUFFICES ASSUME n >= 2 PROVE \E s, t \in S : s # t
      OBVIOUS
    <3>1. 1 \in 1 .. n /\ 2 \in 1 .. n
      BY <1>4
    <3>2. starts[1] \in S /\ starts[2] \in S /\ starts[1] # starts[2]
      BY <1>6, <2>2, <2>3, <3>1
    <3> QED BY <3>2
  <2>13. ~ (n >= 2) => \A s, t \in S : s = t
    <3>1. ~ (n >= 2) => \A k, l \in 1 .. n : k = l
      BY <1>4
    <3> QED BY <1>4, <3>1
  <2> QED BY <2>1, <2>9, <2>10, <2>11, <2>12, <2>13 DEF S, spans
<1> QED BY <1>7, <1>8

\* A line where units may begin: none of those below the header that open
\* something is shallower.
Sibling(i) == Opens(i) /\ \A j \in 1 .. Len(lines) - 1 : Opens(j) => Depth(i) <= Depth(j)

\* The spans that are merged.
Outline ==
    LET outer == Split(0, Len(lines))
        inner == Split(1, Len(lines))
    IN  IF Len(outer) = 1 /\ Len(inner) > 1 THEN << <<0, 1>> >> \o inner ELSE outer

\* Where a unit may begin, other than the first.
Begins(i) == Sibling(i) \/ (i = 1 /\ HeaderCut)

\* From the second span on one begins where it may, and where there is more
\* than one each holds a line that opens something.
WellBegun(spans) ==
    /\ \A k \in 1 .. Len(spans) : k >= 2 => Begins(spans[k][1])
    /\ Len(spans) >= 2 => \A k \in 1 .. Len(spans) : HoldsOpening(spans[k])

(* With the header of a single declaration cut off, the spans still lie end  *)
(* to end. The header opens something: otherwise the text and what is below  *)
(* its first line would have the same siblings, so one of both or more than  *)
(* one of both.                                                              *)
LEMMA OutlineFacts ==
    ASSUME lines \in LineTexts, NEW n, n = Len(lines)
    PROVE  Tiled(Outline, 0, n) /\ WellBegun(Outline)
<1> DEFINE outer == Split(0, n)
           inner == Split(1, n)
<1>1. n \in Nat /\ n # 0
  BY LinesAreThere
<1>2. \A i \in Siblings(0, n) \cup Siblings(1, n) : Sibling(i)
  BY <1>1 DEF Siblings, Sibling
<1>3. Outline = IF Len(outer) = 1 /\ Len(inner) > 1 THEN << <<0, 1>> >> \o inner ELSE outer
  BY DEF Outline
<1>4. /\ Tiled(outer, 0, n)
      /\ \A k \in 1 .. Len(outer) : k >= 2 => outer[k][1] \in Siblings(0, n)
      /\ Len(outer) >= 2 => \A k \in 1 .. Len(outer) : HoldsOpening(outer[k])
      /\ ~ (Len(outer) >= 2) => \A s, t \in Siblings(0, n) : s = t
  <2> DEFINE z == 0
  <2>1. z \in Nat /\ z < n
    BY <1>1
  <2> HIDE DEF z
  <2>2. /\ Tiled(Split(z, n), z, n)
        /\ \A k \in 1 .. Len(Split(z, n)) : k >= 2 => Split(z, n)[k][1] \in Siblings(z, n)
        /\ Len(Split(z, n)) >= 2 => \A k \in 1 .. Len(Split(z, n)) : HoldsOpening(Split(z, n)[k])
        /\ ~ (Len(Split(z, n)) >= 2) => \A s, t \in Siblings(z, n) : s = t
    BY <2>1, SplitFacts
  <2> QED BY <2>2 DEF z
<1> HIDE DEF outer
<1>5. Len(outer) \in Nat /\ Len(outer) >= 1
  BY <1>4, TiledTypes
<1>6. CASE ~ (Len(outer) = 1 /\ Len(inner) > 1)
  <2>1. Outline = outer
    BY <1>6, <1>3
  <2>2. WellBegun(outer)
    BY <1>2, <1>4 DEF WellBegun, Begins
  <2> QED BY <1>4, <2>1, <2>2
<1>7. CASE Len(outer) = 1 /\ Len(inner) > 1
  <2>1. Outline = << <<0, 1>> >> \o inner
    BY <1>7, <1>3
  <2>2. n > 1
    <3> SUFFICES ASSUME n = 1 PROVE FALSE
      <4>1. n # 1 => n > 1
        BY <1>1
      <4> QED BY <4>1, Zenon
    <3>1. Siblings(1, n) = {}
      BY DEF Siblings
    <3> DEFINE S == Siblings(1, n)
    <3>2. S = {} /\ S \in SUBSET Nat /\ IsFiniteSet(S) /\ Cardinality(S) = 0
      BY <3>1, FS_EmptySet
    <3>3. inner = LET starts == Sorted(S)
                  IN  IF Len(starts) = 0 THEN << <<1, n>> >>
                      ELSE [k \in 1 .. Len(starts) |->
                              <<IF k = 1 THEN 1 ELSE starts[k],
                                IF k < Len(starts) THEN starts[k + 1] ELSE n>>]
      BY DEF Split
    <3> HIDE DEF S, inner
    <3>4. Len(Sorted(S)) = 0
      BY <3>2, SortedFacts
    <3>5. inner = << <<1, n>> >>
      BY <3>3, <3>4
    <3> QED BY <1>7, <3>5
  <2>3. /\ Tiled(inner, 1, n)
        /\ \A k \in 1 .. Len(inner) : k >= 2 => inner[k][1] \in Siblings(1, n)
        /\ Len(inner) >= 2 => \A k \in 1 .. Len(inner) : HoldsOpening(inner[k])
        /\ Len(inner) >= 2 => \E s, t \in Siblings(1, n) : s # t
    <3> DEFINE z == 1
    <3>1. z \in Nat /\ z < n
      BY <2>2
    <3> HIDE DEF z
    <3>2. /\ Tiled(Split(z, n), z, n)
          /\ \A k \in 1 .. Len(Split(z, n)) : k >= 2 => Split(z, n)[k][1] \in Siblings(z, n)
          /\ Len(Split(z, n)) >= 2 => \A k \in 1 .. Len(Split(z, n)) : HoldsOpening(Split(z, n)[k])
          /\ Len(Split(z, n)) >= 2 => \E s, t \in Siblings(z, n) : s # t
      BY <3>1, SplitFacts
    <3> QED BY <3>2 DEF z
  <2> HIDE DEF inner
  <2>4. Opens(0)
    <3> SUFFICES ASSUME ~ Opens(0) PROVE FALSE
      OBVIOUS
    <3>1. \A i \in 0 .. n - 1 : Opens(i) => i \in 1 .. n - 1
      BY <1>1
    <3>2. \A i \in Siblings(1, n) : i \in Siblings(0, n)
      BY <1>1, <3>1 DEF Siblings
    <3>3. Len(inner) >= 2 /\ ~ (Len(outer) >= 2)
      <4>1. Len(inner) \in Nat
        BY <2>3, TiledTypes
      <4> QED BY <1>7, <4>1
    <3> QED BY <1>4, <2>3, <3>2, <3>3
  <2> DEFINE s == Outline
             m == Len(inner)
  <2>5. /\ m \in Nat /\ m >= 2
        /\ \A k \in 1 .. m : inner[k] \in Nat \X Nat /\ inner[k][1] \in Nat /\ inner[k][2] \in Nat
    BY <1>7, <2>3, TiledTypes
  <2>6. /\ inner \in Seq(Nat \X Nat) /\ m \in Nat /\ m >= 2
        /\ inner[1][1] = 1 /\ inner[m][2] = n
        /\ \A k \in 1 .. m : inner[k][1] < inner[k][2]
        /\ \A k, l \in 1 .. m : l = k + 1 => inner[k][2] = inner[l][1]
        /\ \A k, l \in 1 .. m : k < l => inner[k][2] <= inner[l][1]
    BY <2>3, <2>5 DEF Tiled
  <2>7. s \in Seq(Nat \X Nat) /\ Len(s) = m + 1 /\ s[1] = <<0, 1>>
        /\ \A k \in 1 .. m + 1 : k # 1 => s[k] = inner[k - 1]
    <3>1. <<0, 1>> \in Nat \X Nat
      OBVIOUS
    <3>2. << <<0, 1>> >> \in Seq(Nat \X Nat)
      BY <3>1
    <3> DEFINE h == <<0, 1>>
    <3> HIDE DEF h
    <3>3. << h >> \o inner \in Seq(Nat \X Nat) /\ Len(<< h >> \o inner) = m + 1
          /\ (<< h >> \o inner)[1] = h
      BY <2>6, <3>2 DEF h
    <3>4. \A k \in 1 .. m + 1 : k # 1 => (<< h >> \o inner)[k] = inner[k - 1]
      BY <2>6, <3>2 DEF h
    <3> QED BY <2>1, <3>3, <3>4 DEF h
  <2> HIDE DEF s, m
  <2>8. m \in Nat /\ m >= 2
    BY <2>5
  <2>9. \A k \in 1 .. m + 1 : k # 1 => \E i \in 1 .. m : k = i + 1 /\ s[k] = inner[i]
    <3> SUFFICES ASSUME NEW k \in 1 .. m + 1, k # 1
                 PROVE  \E i \in 1 .. m : k = i + 1 /\ s[k] = inner[i]
      OBVIOUS
    <3>1. k - 1 \in 1 .. m /\ k = (k - 1) + 1
      BY ONLY <2>8, k \in 1 .. m + 1, k # 1
    <3> QED BY <2>7, <3>1
  <2>10. s[1][1] = 0 /\ s[1][2] = 1 /\ \A k \in 1 .. m : inner[k][1] >= 1
    <3>1. ASSUME NEW k \in 1 .. m PROVE inner[k][1] >= 1
      <4>1. 1 \in 1 .. m /\ (k = 1 \/ 1 < k)
        BY <2>8
      <4>2. k # 1 => inner[1][2] <= inner[k][1] /\ inner[1][1] < inner[1][2]
        BY <2>6, <4>1
      <4>3. inner[1][1] = 1 /\ inner[1][2] \in Nat /\ inner[k][1] \in Nat
        BY <2>6, <2>5, <4>1
      <4> QED BY <4>1, <4>2, <4>3
    <3> QED BY <2>7, <3>1
  <2>11. ASSUME NEW k \in 1 .. m + 1, NEW l \in 1 .. m + 1
        PROVE  /\ s[k][1] < s[k][2]
               /\ l = k + 1 => s[k][2] = s[l][1]
               /\ k < l => s[k][2] <= s[l][1]
    <3>1. CASE k = 1
      <4>1. ASSUME k < l PROVE s[k][2] <= s[l][1] /\ (l = k + 1 => s[k][2] = s[l][1])
        <5>1. PICK j \in 1 .. m : l = j + 1 /\ s[l] = inner[j]
          BY <2>8, <2>9, <3>1, <4>1
        <5>2. l = k + 1 => j = 1
          BY <2>8, <3>1, <5>1
        <5> QED BY <2>6, <2>10, <3>1, <5>1, <5>2
      <4> QED BY <2>10, <2>8, <3>1, <4>1
    <3>2. CASE k # 1
      <4>1. PICK i \in 1 .. m : k = i + 1 /\ s[k] = inner[i]
        BY <2>9, <3>2
      <4>2. ASSUME k < l PROVE s[k][2] <= s[l][1] /\ (l = k + 1 => s[k][2] = s[l][1])
        <5>1. l # 1
          BY <2>8, <4>2
        <5>2. PICK j \in 1 .. m : l = j + 1 /\ s[l] = inner[j]
          BY <2>9, <5>1
        <5>3. i < j /\ (l = k + 1 => j = i + 1)
          BY <2>8, <4>1, <4>2, <5>2
        <5> QED BY <2>6, <4>1, <5>2, <5>3
      <4>3. s[k][1] < s[k][2]
        BY <2>6, <4>1
      <4>4. l = k + 1 => k < l
        BY <2>8
      <4> QED BY <4>2, <4>3, <4>4
    <3> QED BY <3>1, <3>2
  <2>12. Tiled(s, 0, n)
    <3>1. s[m + 1][2] = n
      <4> DEFINE k == m + 1
      <4>1. k \in 1 .. m + 1 /\ k # 1
        BY <2>8
      <4> HIDE DEF k
      <4>2. PICK i \in 1 .. m : k = i + 1 /\ s[k] = inner[i]
        BY <2>9, <4>1
      <4>3. i = m
        BY <2>8, <4>2 DEF k
      <4> QED BY <2>6, <4>2, <4>3 DEF k
    <3>2. Len(s) >= 1
      BY <2>7, <2>8
    <3>3. \A k \in 1 .. Len(s) : s[k][1] < s[k][2]
      BY <2>7, <2>11
    <3>4. \A k, l \in 1 .. Len(s) : l = k + 1 => s[k][2] = s[l][1]
      BY <2>7, <2>11
    <3>5. \A k, l \in 1 .. Len(s) : k < l => s[k][2] <= s[l][1]
      BY <2>7, <2>11
    <3>6. s \in Seq(Nat \X Nat) /\ s[1][1] = 0 /\ s[Len(s)][2] = n
      BY <2>7, <2>10, <3>1
    <3> QED BY <3>2, <3>3, <3>4, <3>5, <3>6 DEF Tiled
  <2>13. HeaderCut
    <3> DEFINE S == Siblings(0, n)
    <3>1. \A x, y \in S : x = y
      BY <1>4, <1>7
    <3>2. S = Siblings(0, Len(lines))
      OBVIOUS
    <3> HIDE DEF S
    <3>3. S = {} \/ \E x : S = {x}
      BY <3>1
    <3>4. Cardinality(S) = 0 \/ Cardinality(S) = 1
      BY <3>3, FS_EmptySet, FS_Singleton
    <3>5. Cardinality(S) <= 1
      BY <3>4
    <3> QED BY <3>2, <3>5 DEF HeaderCut
  <2>14. WellBegun(s)
    <3>1. ASSUME NEW k \in 1 .. m + 1, k >= 2 PROVE Begins(s[k][1])
      <4>1. k # 1
        BY <2>8, <3>1
      <4>2. PICK i \in 1 .. m : k = i + 1 /\ s[k] = inner[i]
        BY <2>9, <4>1
      <4>3. CASE i = 1
        BY <2>6, <2>13, <4>2, <4>3 DEF Begins
      <4>4. CASE i # 1
        <5>1. i >= 2
          BY <2>8, <4>2, <4>4
        <5> QED BY <1>2, <2>3, <4>2, <5>1 DEF m, Begins
      <4> QED BY <4>3, <4>4
    <3>2. ASSUME NEW k \in 1 .. m + 1 PROVE HoldsOpening(s[k])
      <4>1. CASE k = 1
        <5>1. 0 \in s[k][1] .. s[k][2] - 1
          BY <2>10, <4>1
        <5> QED BY <2>4, <5>1 DEF HoldsOpening
      <4>2. CASE k # 1
        <5>1. PICK i \in 1 .. m : s[k] = inner[i]
          BY <2>9, <4>2
        <5> QED BY <2>3, <2>8, <5>1 DEF m
      <4> QED BY <4>1, <4>2
    <3> QED BY <2>7, <3>1, <3>2 DEF WellBegun
  <2> QED BY <2>12, <2>14 DEF s
<1> QED BY <1>6, <1>7

(* mergeShort keeps spans end to end, and each begins where one of the old   *)
(* spans began.                                                              *)
LEMMA MergeFacts ==
    ASSUME NEW s, NEW a, NEW b, Tiled(s, a, b)
    PROVE  /\ Tiled(MergeShort(s), a, b)
           /\ Len(MergeShort(s)) >= 2 => Len(s) >= 2
           /\ \A m \in 1 .. Len(MergeShort(s)) : \E h \in 1 .. Len(s) :
                /\ MergeShort(s)[m][1] = s[h][1] /\ s[h][2] <= MergeShort(s)[m][2]
                /\ m >= 2 => h >= 2
<1> DEFINE n == Len(s)
           One(k) == CodeLines(s[k]) = 1
           H == {k \in 1 .. n : k = 1 \/ ~ (One(k - 1) /\ One(k))}
           heads == Sorted(H)
           c == Len(heads)
           tail(m) == IF m < c THEN heads[m + 1] - 1 ELSE n
           M == MergeShort(s)
<1>1. n \in Nat /\ n >= 1 /\ \A k \in 1 .. n : s[k][1] \in Nat /\ s[k][2] \in Nat
  BY TiledTypes
<1>2. /\ s[1][1] = a /\ s[n][2] = b
      /\ \A k \in 1 .. n : s[k][1] < s[k][2]
      /\ \A k, l \in 1 .. n : l = k + 1 => s[k][2] = s[l][1]
      /\ \A k, l \in 1 .. n : k < l => s[k][2] <= s[l][1]
  BY DEF Tiled
<1>3. M = [m \in 1 .. c |-> <<s[heads[m]][1], s[tail(m)][2]>>]
  BY DEF MergeShort
<1>4. H \in SUBSET (1 .. n) /\ 1 \in H
  BY <1>1
<1> HIDE DEF H, M, n
<1>5. H \in SUBSET Nat /\ IsFiniteSet(H)
  <2>1. IsFiniteSet(1 .. n)
    BY <1>1, FS_Interval
  <2>2. IsFiniteSet(H)
    BY <1>4, <2>1, FS_Subset
  <2> QED BY <1>4, <2>2
<1>6. /\ heads \in Seq(H) /\ c \in Nat
      /\ \A k, l \in 1 .. c : k < l => heads[k] < heads[l]
      /\ \A x \in H : \E k \in 1 .. c : heads[k] = x
  BY <1>5, SortedFacts
<1> HIDE DEF heads
<1>7. \A m \in 1 .. c : heads[m] \in 1 .. n /\ heads[m] \in Nat
  <2>1. \A m \in 1 .. c : heads[m] \in H
    BY <1>6
  <2> QED BY <1>4, <1>5, <2>1
<1> HIDE DEF c
<1>8. c >= 1 /\ heads[1] = 1
  <2>1. PICK k \in 1 .. c : heads[k] = 1
    BY <1>4, <1>6
  <2>2. 1 \in 1 .. c /\ (k = 1 \/ 1 < k) /\ c >= 1
    BY <1>6
  <2>3. 1 < k => heads[1] < heads[k]
    BY <1>6, <2>2
  <2>4. heads[1] \in 1 .. n
    BY <1>7, <2>2
  <2> QED BY <1>1, <2>1, <2>2, <2>3, <2>4
<1>9. \A m \in 1 .. c : tail(m) \in 1 .. n /\ heads[m] <= tail(m)
  <2> SUFFICES ASSUME NEW m \in 1 .. c PROVE tail(m) \in 1 .. n /\ heads[m] <= tail(m)
    OBVIOUS
  <2>1. CASE m < c
    <3>1. PICK l : l = m + 1
      OBVIOUS
    <3>2. l \in 1 .. c /\ m < l /\ tail(m) = heads[l] - 1
      BY <1>6, <2>1, <3>1
    <3>3. heads[m] < heads[l] /\ heads[m] \in 1 .. n /\ heads[l] \in 1 .. n
      BY <1>6, <1>7, <3>2
    <3> QED BY <1>1, <3>2, <3>3
  <2>2. CASE ~ (m < c)
    BY <1>1, <1>7, <2>2
  <2> QED BY <2>1, <2>2
<1>10. \A m, l \in 1 .. c : m < l => tail(m) < heads[l]
  <2> SUFFICES ASSUME NEW m \in 1 .. c, NEW l \in 1 .. c, m < l PROVE tail(m) < heads[l]
    OBVIOUS
  <2>1. PICK k : k = m + 1
    OBVIOUS
  <2>2. k \in 1 .. c /\ tail(m) = heads[k] - 1 /\ (k = l \/ k < l)
    BY <1>6, <2>1
  <2>3. heads[k] \in Nat /\ heads[l] \in Nat /\ (k < l => heads[k] < heads[l])
    BY <1>6, <1>7, <2>2
  <2> QED BY <2>2, <2>3
<1>11. \A m, l \in 1 .. c : l = m + 1 => heads[l] = tail(m) + 1
  <2> SUFFICES ASSUME NEW m \in 1 .. c, NEW l \in 1 .. c, l = m + 1 PROVE heads[l] = tail(m) + 1
    OBVIOUS
  <2>1. tail(m) = heads[l] - 1 /\ heads[l] \in Nat
    BY <1>6, <1>7
  <2> QED BY <2>1
<1>12. tail(c) = n
  BY <1>6
<1> HIDE DEF tail
<1>13. Len(M) = c /\ \A m \in 1 .. c : M[m][1] = s[heads[m]][1] /\ M[m][2] = s[tail(m)][2]
  <2>1. \A m \in 1 .. c : M[m] = <<s[heads[m]][1], s[tail(m)][2]>>
    BY <1>3
  <2>2. Len(M) = c
    BY <1>3, <1>6
  <2> QED BY <2>1, <2>2
<1>14. M \in Seq(Nat \X Nat)
  <2>1. \A m \in 1 .. c : <<s[heads[m]][1], s[tail(m)][2]>> \in Nat \X Nat
    BY <1>1, <1>7, <1>9
  <2> QED BY <1>3, <1>6, <2>1
<1>15. ASSUME NEW m \in 1 .. c PROVE M[m][1] < M[m][2] /\ s[heads[m]][2] <= M[m][2]
  <2>1. heads[m] \in 1 .. n /\ tail(m) \in 1 .. n /\ (heads[m] = tail(m) \/ heads[m] < tail(m))
    BY <1>1, <1>7, <1>9
  <2>2. PICK h \in 1 .. n, t \in 1 .. n : h = heads[m] /\ t = tail(m) /\ (h = t \/ h < t)
    BY <2>1
  <2>3. h < t => s[h][2] <= s[t][1]
    BY <1>2
  <2>4. /\ s[h][1] < s[h][2] /\ s[t][1] < s[t][2]
        /\ s[h][1] \in Nat /\ s[h][2] \in Nat /\ s[t][1] \in Nat /\ s[t][2] \in Nat
    BY <1>1, <1>2
  <2>5. M[m][1] = s[h][1] /\ M[m][2] = s[t][2]
    BY <1>13, <2>2
  <2> QED BY <2>2, <2>3, <2>4, <2>5
<1>16. ASSUME NEW m \in 1 .. c, NEW l \in 1 .. c
       PROVE  /\ l = m + 1 => M[m][2] = M[l][1]
              /\ m < l => M[m][2] <= M[l][1]
  <2>1. PICK t \in 1 .. n, h \in 1 .. n : t = tail(m) /\ h = heads[l]
    BY <1>7, <1>9
  <2>2. M[m][2] = s[t][2] /\ M[l][1] = s[h][1]
    BY <1>13, <2>1
  <2>3. l = m + 1 => h = t + 1
    BY <1>11, <2>1
  <2>4. m < l => t < h
    BY <1>10, <2>1
  <2> QED BY <1>2, <2>2, <2>3, <2>4
<1>17. Tiled(M, a, b)
  <2>1. M[1][1] = a /\ M[c][2] = b
    <3>1. 1 \in 1 .. c /\ c \in 1 .. c
      BY <1>6, <1>8
    <3> QED BY <1>2, <1>8, <1>12, <1>13, <3>1
  <2> QED BY <1>8, <1>13, <1>14, <1>15, <1>16, <2>1 DEF Tiled
<1>18. c >= 2 => n >= 2
  <2> SUFFICES ASSUME c >= 2 PROVE n >= 2
    OBVIOUS
  <2>1. 1 \in 1 .. c /\ 2 \in 1 .. c
    BY <1>6
  <2>2. heads[1] < heads[2] /\ heads[2] \in 1 .. n
    BY <1>6, <1>7, <2>1
  <2> QED BY <1>1, <1>8, <2>2
<1>19. ASSUME NEW m \in 1 .. c, m >= 2 PROVE heads[m] >= 2
  <2>1. 1 \in 1 .. c /\ 1 < m
    BY <1>6, <1>19
  <2>2. heads[1] < heads[m] /\ heads[m] \in Nat
    BY <1>6, <1>7, <2>1
  <2> QED BY <1>8, <2>2
<1>20. \A m \in 1 .. c : \E h \in 1 .. n :
         M[m][1] = s[h][1] /\ s[h][2] <= M[m][2] /\ (m >= 2 => h >= 2)
  BY <1>7, <1>13, <1>15, <1>19
<1> QED BY <1>13, <1>17, <1>18, <1>20 DEF M, n

\* The spans of the units.
LEMMA SpansFacts ==
    ASSUME lines \in LineTexts, NEW n, n = Len(lines)
    PROVE  Tiled(Spans, 0, n) /\ WellBegun(Spans)
<1>1. Spans = MergeShort(Outline)
  BY DEF Spans, Outline
<1>2. Tiled(Outline, 0, n) /\ WellBegun(Outline)
  BY OutlineFacts
<1> DEFINE s == Outline
           M == MergeShort(s)
<1> HIDE DEF s
<1>3. /\ Tiled(M, 0, n) /\ (Len(M) >= 2 => Len(s) >= 2)
      /\ \A m \in 1 .. Len(M) : \E h \in 1 .. Len(s) :
           M[m][1] = s[h][1] /\ s[h][2] <= M[m][2] /\ (m >= 2 => h >= 2)
  <2> DEFINE z == 0
  <2> HIDE DEF z
  <2>1. Tiled(s, z, n)
    BY <1>2 DEF s, z
  <2>2. /\ Tiled(M, z, n) /\ (Len(M) >= 2 => Len(s) >= 2)
        /\ \A m \in 1 .. Len(M) : \E h \in 1 .. Len(s) :
             M[m][1] = s[h][1] /\ s[h][2] <= M[m][2] /\ (m >= 2 => h >= 2)
    BY <2>1, MergeFacts
  <2> QED BY <2>2 DEF z
<1>4. WellBegun(s) /\ Tiled(s, 0, n)
  BY <1>2 DEF s
<1> HIDE DEF M
<1>5. ASSUME NEW m \in 1 .. Len(M), m >= 2 PROVE Begins(M[m][1])
  BY <1>3, <1>4, <1>5 DEF WellBegun
<1>6. ASSUME NEW m \in 1 .. Len(M), Len(M) >= 2 PROVE HoldsOpening(M[m])
  <2>1. PICK h \in 1 .. Len(s) : M[m][1] = s[h][1] /\ s[h][2] <= M[m][2]
    BY <1>3
  <2>2. PICK i \in s[h][1] .. s[h][2] - 1 : Opens(i)
    BY <1>3, <1>4, <1>6 DEF WellBegun, HoldsOpening
  <2>3. s[h][1] \in Nat /\ s[h][2] \in Nat /\ M[m][2] \in Nat
    <3>1. \A k \in 1 .. Len(s) : s[k][1] \in Nat /\ s[k][2] \in Nat
      BY <1>4, TiledTypes
    <3>2. \A k \in 1 .. Len(M) : M[k][2] \in Nat
      BY <1>3, TiledTypes
    <3> QED BY <3>1, <3>2
  <2>4. i \in M[m][1] .. M[m][2] - 1
    <3>1. PICK p, q, r \in Nat : p = s[h][1] /\ q = s[h][2] /\ r = M[m][2]
      BY <2>3
    <3>2. i \in p .. q - 1 /\ q <= r
      BY <2>1, <3>1
    <3>3. i \in p .. r - 1
      BY ONLY <3>2, p \in Nat, q \in Nat, r \in Nat
    <3> QED BY <2>1, <3>1, <3>3
  <2> QED BY <2>2, <2>4 DEF HoldsOpening
<1>7. WellBegun(M)
  BY <1>5, <1>6 DEF WellBegun
<1> QED BY <1>1, <1>3, <1>7 DEF M, s

\* The last line of a unit lies in its span, at or behind all that is not blank.
LEMMA LastNonBlankFacts ==
    ASSUME NEW s \in Nat \X Nat, s[1] < s[2]
    PROVE  /\ LastNonBlank(s) \in s[1] .. s[2] - 1
           /\ \A i \in s[1] .. s[2] - 1 : ~ Blank(i) => i <= LastNonBlank(s)
<1> DEFINE a == s[1]
           b == s[2]
           full == {i \in a + 1 .. b - 1 : ~ Blank(i)}
<1>1. a \in Nat /\ b \in Nat /\ a < b
  OBVIOUS
<1>2. LastNonBlank(s) = IF full = {} THEN a ELSE CHOOSE i \in full : \A j \in full : j <= i
  BY DEF LastNonBlank
<1>3. \A i \in full : i \in a + 1 .. b - 1
  OBVIOUS
<1>4. \A i \in a .. b - 1 : ~ Blank(i) => i = a \/ i \in full
  BY <1>1
<1> HIDE DEF full, a, b
<1>5. CASE full = {}
  <2>1. LastNonBlank(s) = a
    BY <1>2, <1>5
  <2>2. \A i \in a .. b - 1 : ~ Blank(i) => i <= a
    BY <1>1, <1>4, <1>5
  <2> QED BY <1>1, <2>1, <2>2 DEF a, b
<1>6. CASE full # {}
  <2>1. full \subseteq 0 .. b
    BY <1>1, <1>3
  <2>2. Greatest(full) \in full /\ \A r \in full : r <= Greatest(full)
    BY <1>1, <1>6, <2>1, GreatestExists
  <2> DEFINE g == LastNonBlank(s)
  <2>3. g \in full /\ \A j \in full : j <= g
    BY <1>2, <1>6, <2>2
  <2>4. g \in a + 1 .. b - 1
    BY <1>3, <2>3
  <2> HIDE DEF g
  <2>5. \A i \in a .. b - 1 : ~ Blank(i) => i <= g
    BY <1>1, <1>4, <2>3, <2>4
  <2>6. g \in a .. b - 1
    BY <1>1, <2>4
  <2> QED BY <2>5, <2>6 DEF a, b, g
<1> QED BY <1>5, <1>6

\* What UnitsPartition needs of the units, their places apart.
LEMMA UnitsFacts ==
    ASSUME lines \in LineTexts, NEW n, n = Len(lines)
    PROVE  /\ n \in Nat /\ n >= 1 /\ Len(Units) = Len(Spans) /\ Len(Units) \in Nat /\ Len(Units) >= 1
           /\ DOMAIN Units = 1 .. Len(Units)
           /\ \A k \in 1 .. Len(Units) :
                /\ Units[k] = UnitOf(Spans[k])
                /\ Units[k].span = Spans[k]
                /\ Units[k].first = Spans[k][1] /\ Spans[k][1] \in Nat
                /\ Units[k].last \in Spans[k][1] .. Spans[k][2] - 1 /\ Spans[k][2] \in Nat
                /\ \A i \in Spans[k][1] .. Spans[k][2] - 1 : ~ Blank(i) => i <= Units[k].last
                /\ Units[k].empty = (/\ Spans[k][2] = Spans[k][1] + 1
                                     /\ lines[Spans[k][2]].kind = "blank" /\ Depth(Spans[k][1]) = 0)
<1> DEFINE S == Spans
<1>1. n \in Nat /\ n >= 1
  BY LinesAreThere
<1>2. Tiled(S, 0, n)
  BY SpansFacts
<1>3. Units = [k \in 1 .. Len(S) |-> UnitOf(S[k])]
  BY DEF Units
<1> HIDE DEF S
<1>4. /\ Len(S) \in Nat /\ Len(S) >= 1
      /\ \A k \in 1 .. Len(S) : S[k] \in Nat \X Nat /\ S[k][1] \in Nat /\ S[k][2] \in Nat
  BY <1>2, TiledTypes
<1>5. \A k \in 1 .. Len(S) : S[k][1] < S[k][2]
  BY <1>2 DEF Tiled
<1>6. Len(Units) = Len(S) /\ DOMAIN Units = 1 .. Len(S)
      /\ \A k \in 1 .. Len(S) : Units[k] = UnitOf(S[k])
  BY <1>3, <1>4
<1>7. ASSUME NEW k \in 1 .. Len(S)
      PROVE  /\ Units[k] = UnitOf(S[k])
             /\ Units[k].span = S[k]
             /\ Units[k].first = S[k][1] /\ S[k][1] \in Nat
             /\ Units[k].last \in S[k][1] .. S[k][2] - 1 /\ S[k][2] \in Nat
             /\ \A i \in S[k][1] .. S[k][2] - 1 : ~ Blank(i) => i <= Units[k].last
             /\ Units[k].empty = (/\ S[k][2] = S[k][1] + 1
                                  /\ lines[S[k][2]].kind = "blank" /\ Depth(S[k][1]) = 0)
  <2>1. PICK s : s = S[k]
    OBVIOUS
  <2>2. s \in Nat \X Nat /\ s[1] < s[2] /\ s[1] \in Nat /\ s[2] \in Nat
    BY <1>4, <1>5, <2>1
  <2>3. /\ LastNonBlank(s) \in s[1] .. s[2] - 1
        /\ \A i \in s[1] .. s[2] - 1 : ~ Blank(i) => i <= LastNonBlank(s)
    BY <2>2, LastNonBlankFacts
  <2>4. Units[k] = UnitOf(s)
    BY <1>6, <2>1
  <2> DEFINE e == s[2] = s[1] + 1 /\ lines[s[2]].kind = "blank" /\ Depth(s[1]) = 0
             l == LastNonBlank(s)
             f == s[1]
  <2>5. UnitOf(s) = [first |-> f, last |-> l, span |-> s, empty |-> e]
    BY DEF UnitOf
  <2> HIDE DEF e, l, f
  <2>6. /\ UnitOf(s).first = f /\ UnitOf(s).last = l /\ UnitOf(s).span = s
        /\ UnitOf(s).empty = e
    BY <2>5
  <2>7. /\ UnitOf(s).first = s[1] /\ UnitOf(s).last = LastNonBlank(s) /\ UnitOf(s).span = s
        /\ UnitOf(s).empty = (s[2] = s[1] + 1 /\ lines[s[2]].kind = "blank" /\ Depth(s[1]) = 0)
    BY <2>6 DEF e, l, f
  <2> QED BY <2>1, <2>2, <2>3, <2>4, <2>7
<1> QED BY <1>1, <1>4, <1>6, <1>7 DEF S

(* Every line lies in one span.                                              *)
LEMMA SpanOfLine ==
    ASSUME NEW s, NEW n \in Nat, Tiled(s, 0, n), NEW i \in 0 .. n - 1
    PROVE  \E k \in 1 .. Len(s) : s[k][1] <= i /\ i < s[k][2]
<1> DEFINE c == Len(s)
           K == {k \in 1 .. c : s[k][1] <= i}
<1>1. /\ c \in Nat /\ c >= 1
      /\ \A k \in 1 .. c : s[k][1] \in Nat /\ s[k][2] \in Nat
  BY TiledTypes
<1>2. /\ s[1][1] = 0 /\ s[c][2] = n
      /\ \A k, l \in 1 .. c : l = k + 1 => s[k][2] = s[l][1]
  BY DEF Tiled
<1>3. 1 \in K /\ K \subseteq 0 .. c
  BY <1>1, <1>2
<1>4. \A k : k \in K <=> k \in 1 .. c /\ s[k][1] <= i
  OBVIOUS
<1> HIDE DEF K, c
<1>5. PICK k \in K : \A r \in K : r <= k
  <2>1. Greatest(K) \in K /\ \A r \in K : r <= Greatest(K)
    BY <1>1, <1>3, GreatestExists
  <2> QED BY <2>1
<1>6. k \in 1 .. c /\ s[k][1] <= i /\ s[k][2] \in Nat
  BY <1>1, <1>4
<1>7. CASE k = c
  BY <1>2, <1>6, <1>7 DEF c
<1>8. CASE k # c
  <2>1. PICK l : l = k + 1
    OBVIOUS
  <2>2. l \in 1 .. c /\ ~ (l <= k)
    BY <1>1, <1>6, <1>8, <2>1
  <2>3. ~ (s[l][1] <= i) /\ s[l][1] \in Nat
    BY <1>1, <1>4, <1>5, <2>2
  <2>4. s[k][2] = s[l][1]
    BY <1>2, <1>6, <2>1, <2>2
  <2> QED BY <1>6, <2>3, <2>4 DEF c
<1> QED BY <1>7, <1>8

(* Every line that is not blank lies within one unit.                        *)
LEMMA CoverHolds == ASSUME lines \in LineTexts PROVE UnitsCover(Units)
<1> DEFINE U == Units
           S == Spans
           n == Len(lines)
           c == Len(S)
<1>1. /\ n \in Nat /\ n >= 1 /\ Len(U) = c /\ c \in Nat /\ c >= 1
      /\ \A k \in 1 .. c :
           /\ U[k].span = S[k]
           /\ U[k].first = S[k][1] /\ S[k][1] \in Nat
           /\ U[k].last \in S[k][1] .. S[k][2] - 1 /\ S[k][2] \in Nat
           /\ \A i \in S[k][1] .. S[k][2] - 1 : ~ Blank(i) => i <= U[k].last
  BY UnitsFacts
<1>2. Tiled(S, 0, n)
  BY SpansFacts
<1>3. /\ S[1][1] = 0 /\ S[c][2] = n
      /\ \A k, l \in 1 .. c : l = k + 1 => S[k][2] = S[l][1]
      /\ \A k, l \in 1 .. c : k < l => S[k][2] <= S[l][1]
  BY <1>2 DEF Tiled
<1>4. \A i \in 0 .. n - 1 : \E k \in 1 .. c : S[k][1] <= i /\ i < S[k][2]
  <2> HIDE DEF S, n
  <2> SUFFICES ASSUME NEW i \in 0 .. n - 1 PROVE \E k \in 1 .. c : S[k][1] <= i /\ i < S[k][2]
    OBVIOUS
  <2>1. n \in Nat
    BY <1>1
  <2> QED BY <1>2, <2>1, SpanOfLine
<1>5. Last(U) = U[Len(U)]
  BY DEF Last
<1> HIDE DEF U, S, n, c
<1>6. U[1].span[1] = 0 /\ Last(U).span[2] = n
  <2>1. 1 \in 1 .. c /\ c \in 1 .. c
    BY <1>1
  <2> QED BY <1>1, <1>3, <1>5, <2>1
<1>7. ASSUME NEW k \in 2 .. c PROVE U[k].span[1] = U[k - 1].span[2]
  <2>1. PICK l : l = k - 1
    OBVIOUS
  <2>2. c \in Nat
    BY <1>1
  <2>3. l \in 1 .. c /\ k \in 1 .. c /\ k = l + 1
    BY ONLY <2>1, <2>2, k \in 2 .. c
  <2>4. S[l][2] = S[k][1]
    BY <1>3, <2>3
  <2>5. U[k].span = S[k] /\ U[l].span = S[l]
    BY <1>1, <2>3
  <2> QED BY <2>1, <2>4, <2>5
<1>8. ASSUME NEW i \in 0 .. n - 1, ~ Blank(i)
      PROVE  Cardinality({k \in 1 .. c : U[k].first <= i /\ i <= U[k].last}) = 1
  <2>1. PICK k \in 1 .. c : S[k][1] <= i /\ i < S[k][2]
    BY <1>4
  <2>2. U[k].first <= i /\ i <= U[k].last
    <3>1. i \in S[k][1] .. S[k][2] - 1
      BY <1>1, <2>1
    <3> QED BY <1>1, <1>8, <2>1, <3>1
  <2>3. ASSUME NEW l \in 1 .. c, U[l].first <= i, i <= U[l].last PROVE l = k
    <3>1. S[l][1] <= i /\ i < S[l][2]
      <4>1. /\ U[l].first = S[l][1] /\ U[l].last \in S[l][1] .. S[l][2] - 1
            /\ S[l][1] \in Nat /\ S[l][2] \in Nat
        BY <1>1
      <4> QED BY <2>3, <4>1
    <3>2. /\ S[l][1] \in Nat /\ S[l][2] \in Nat /\ S[k][1] \in Nat /\ S[k][2] \in Nat
      BY <1>1
    <3>3. ~ (k < l) /\ ~ (l < k)
      BY <1>3, <2>1, <3>1, <3>2
    <3> QED BY <1>1, <3>3
  <2>4. {l \in 1 .. c : U[l].first <= i /\ i <= U[l].last} = {k}
    BY <2>2, <2>3
  <2> QED BY <2>4, FS_Singleton
<1> QED BY <1>1, <1>6, <1>7, <1>8 DEF UnitsCover, U, S, n, c

(* Units begin at siblings.                                                  *)
LEMMA SiblingsHold == ASSUME lines \in LineTexts PROVE UnitsAreSiblings(Units)
<1> DEFINE U == Units
           S == Spans
           n == Len(lines)
           c == Len(U)
<1>1. /\ n \in Nat /\ c = Len(S) /\ c \in Nat
      /\ \A k \in 1 .. c : U[k].span = S[k]
  BY UnitsFacts
<1>2. Tiled(S, 0, n) /\ WellBegun(S)
  BY SpansFacts
<1> HIDE DEF U, S
<1>3. ASSUME NEW k \in 2 .. c PROVE Begins(U[k].span[1]) /\ U[k].span[1] \in 0 .. n - 1
  <2>0. c \in Nat
    BY <1>1
  <2>1. k \in 1 .. c /\ k >= 2
    BY ONLY <2>0, k \in 2 .. c
  <2>2. U[k].span = S[k]
    BY <1>1, <2>1
  <2>3. Begins(S[k][1])
    BY <1>1, <1>2, <2>1 DEF WellBegun
  <2>4. S[k][1] \in 0 .. n - 1
    <3>1. /\ S[k][1] \in Nat /\ S[k][2] \in Nat /\ S[c][2] = n /\ S[k][1] < S[k][2]
          /\ k < c => S[k][2] <= S[c][1] /\ S[c][1] < S[c][2] /\ S[c][1] \in Nat
      <4>1. c \in 1 .. c
        BY <2>0, <2>1
      <4> QED BY <1>1, <1>2, <2>1, <4>1, TiledTypes DEF Tiled
    <3>2. k = c \/ k < c
      BY <2>0, <2>1
    <3> QED BY <1>1, <3>1, <3>2
  <2> QED BY <2>2, <2>3, <2>4
<1> HIDE DEF c
<1>4. \A i \in {U[k].span[1] : k \in 2 .. c} : Begins(i) /\ i \in 0 .. n - 1
  BY <1>3
<1>5. ASSUME NEW i \in {U[k].span[1] : k \in 2 .. c} \ {h \in {1} : HeaderCut}
      PROVE  /\ ~ lines[i + 1].quoted /\ lines[i + 1].kind \notin {"closer", "blank"}
             /\ \A j \in 1 .. n - 1 : (lines[j + 1].kind = "code" /\ ~ lines[j + 1].quoted)
                                        => Depth(i) <= Depth(j)
  <2>1. Sibling(i)
    BY <1>4, <1>5 DEF Begins
  <2>2. ~ lines[i + 1].quoted /\ lines[i + 1].kind \in {"code", "cr"}
    BY <2>1 DEF Sibling, Opens
  <2>3. \A j \in 1 .. n - 1 : Opens(j) => Depth(i) <= Depth(j)
    BY <2>1 DEF Sibling
  <2>4. \A j : (lines[j + 1].kind = "code" /\ ~ lines[j + 1].quoted) => Opens(j)
    BY DEF Opens
  <2> QED BY <2>2, <2>3, <2>4
<1> QED BY <1>5 DEF UnitsAreSiblings, U, c

(* Every unit offered holds a line that opens something, so it is not empty, *)
(* and no two have one key.                                                  *)
LEMMA OfferedHold == ASSUME lines \in LineTexts PROVE OfferedCanBeTaken(Units)
<1> DEFINE U == Units
           S == Spans
           n == Len(lines)
           c == Len(U)
<1>1. /\ n \in Nat /\ c = Len(S) /\ c \in Nat /\ DOMAIN U = 1 .. c
      /\ \A k \in 1 .. c :
           /\ U[k].first = S[k][1] /\ S[k][1] \in Nat /\ S[k][2] \in Nat
           /\ U[k].last \in S[k][1] .. S[k][2] - 1
           /\ \A i \in S[k][1] .. S[k][2] - 1 : ~ Blank(i) => i <= U[k].last
           /\ U[k].empty = (/\ S[k][2] = S[k][1] + 1
                            /\ lines[S[k][2]].kind = "blank" /\ Depth(S[k][1]) = 0)
  BY UnitsFacts
<1>2. Tiled(S, 0, n) /\ WellBegun(S)
  BY SpansFacts
<1>3. \A k, l \in 1 .. c : k < l => S[k][2] <= S[l][1]
  BY <1>1, <1>2 DEF Tiled
<1>4. \A k \in 1 .. c : S[k][1] < S[k][2]
  BY <1>1, <1>2 DEF Tiled
<1>5. c >= 2 => \A k \in 1 .. c : \E i \in S[k][1] .. S[k][2] - 1 : Opens(i)
  BY <1>1, <1>2 DEF WellBegun, HoldsOpening
<1>6. \A i \in 0 .. n - 1 : lines[i + 1] \in Line
  BY LinesAreThere
<1>7. \A k \in 1 .. c : U[k] \in ToSet(U)
  <2> HIDE DEF U, c
  <2> QED BY <1>1 DEF ToSet
<1> HIDE DEF U, S, n, c
<1>8. SUFFICES ASSUME Asked(U), NEW k \in 1 .. c
      PROVE  /\ Locate(U, [choice |-> KeyOf(U[k]), confidence |-> "enough"]) = ""
             /\ \A l \in 1 .. c : KeyOf(U[l]) = KeyOf(U[k]) => l = k
             /\ (\A i \in 1 .. n : lines[i].kind # "cr") =>
                  \E i \in U[k].first .. U[k].last : ~ Blank(i)
  BY DEF OfferedCanBeTaken, U, c, n
<1>9. c >= 2 /\ c <= OptionLimit /\ OptionLimit \in Nat /\ c \in Nat
  BY <1>1, <1>8, OptionLimitAssumption DEF Asked, c
<1>10. /\ U[k].first = S[k][1] /\ S[k][1] \in Nat /\ S[k][2] \in Nat /\ S[k][1] < S[k][2]
       /\ U[k].last \in S[k][1] .. S[k][2] - 1
  BY <1>1, <1>4
<1>11. PICK i \in S[k][1] .. S[k][2] - 1 : Opens(i)
  BY <1>5, <1>9
<1>12. i \in Nat /\ lines[i + 1].kind \in {"code", "cr"} /\ lines[i + 1].kind # "blank"
  BY <1>10, <1>11 DEF Opens
<1>13. ~ U[k].empty
  <2> SUFFICES ASSUME S[k][2] = S[k][1] + 1, lines[S[k][2]].kind = "blank" PROVE FALSE
    BY <1>1
  <2>1. i + 1 = S[k][2]
    BY <1>10, <1>11
  <2> QED BY <1>12, <2>1
<1>14. ASSUME NEW l \in 1 .. c, KeyOf(U[l]) = KeyOf(U[k]) PROVE l = k
  <2>1. U[l].first = U[k].first
    BY <1>14 DEF KeyOf
  <2>2. S[l][1] = S[k][1] /\ S[l][1] < S[l][2] /\ S[l][2] \in Nat
    BY <1>1, <1>4, <1>10, <2>1
  <2>3. ~ (l < k) /\ ~ (k < l)
    BY <1>3, <1>10, <2>2
  <2> QED BY <1>9, <2>3
<1>15. ASSUME \A j \in 1 .. n : lines[j].kind # "cr"
       PROVE  \E j \in U[k].first .. U[k].last : ~ Blank(j)
  <2>1. S[k][2] <= n
    <3>1. S[c][2] = n /\ c \in 1 .. c /\ (k = c \/ k < c)
      <4>1. S[c][2] = n
        BY <1>1, <1>2 DEF Tiled
      <4> QED BY <1>9, <4>1
    <3>2. S[c][1] < S[c][2] /\ S[c][1] \in Nat /\ (k < c => S[k][2] <= S[c][1])
      BY <1>1, <1>3, <1>4, <3>1
    <3> QED BY <1>1, <1>10, <3>1, <3>2
  <2>2. i + 1 \in 1 .. n
    BY <1>1, <1>10, <1>11, <2>1
  <2>3. lines[i + 1].kind = "code"
    BY <1>12, <1>15, <2>2
  <2>4. ~ Blank(i)
    BY <2>3 DEF Blank
  <2>5. i <= U[k].last
    BY <1>1, <1>11, <2>4
  <2>6. i \in U[k].first .. U[k].last
    BY <1>10, <1>11, <2>5
  <2> QED BY <2>4, <2>6
<1>16. Locate(U, [choice |-> KeyOf(U[k]), confidence |-> "enough"]) = ""
  <2> DEFINE answer == [choice |-> KeyOf(U[k]), confidence |-> "enough"]
             named == {unit \in ToSet(U) : KeyOf(unit) = answer.choice /\ ~ unit.empty}
  <2>1. answer.choice = KeyOf(U[k]) /\ answer.confidence = "enough"
    OBVIOUS
  <2>2. KeyOf(U[k]) # CannotLocalize
    BY DEF KeyOf, CannotLocalize
  <2> HIDE DEF answer
  <2>3. U[k] \in named
    BY <1>7, <1>13, <2>1
  <2>4. named # {}
    BY <2>3
  <2>5. ~ (c > OptionLimit) /\ ~ (c < 2)
    BY <1>9
  <2> HIDE DEF named
  <2>6. Locate(U, answer) =
          CASE c > OptionLimit -> "location_option_limit"
            [] c < 2 -> "single_unit_not_localized"
            [] Asked(U) /\ answer.choice = CannotLocalize -> "cannot_localize"
            [] Asked(U) /\ answer.choice # CannotLocalize /\ named = {} ->
                  "invalid_location_key"
            [] Asked(U) /\ named # {} /\ answer.confidence # "enough" ->
                  "low_location_confidence"
            [] OTHER -> ""
    BY DEF Locate, c, named
  <2>7. Locate(U, answer) = ""
    BY <2>1, <2>2, <2>4, <2>5, <2>6
  <2> QED BY <2>7 DEF answer
<1> QED BY <1>14, <1>15, <1>16

(* For every text of at least one line, whatever its depths, strings and     *)
(* line ends: the units are the text; each but the first begins on a         *)
(* shallowest line that opens something, outside strings, the one below a    *)
(* header that was cut off excepted (that one can begin in a string, see     *)
(* NoUnitInString); and each one offered to the judge can be taken (units,   *)
(* split, mergeShort and locate).                                            *)
THEOREM UnitsPartitionHolds == SomeLines => UnitsPartition
<1> QED BY CoverHolds, SiblingsHold, OfferedHold DEF SomeLines, UnitsPartition
=============================================================================
