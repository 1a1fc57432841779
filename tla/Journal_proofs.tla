--------------------------- MODULE Journal_proofs ---------------------------
(* Proofs about the assessment journal for every set of events, every line   *)
(* length and every limit. The inductive invariant IInv adds to the checked  *)
(* invariants that the cached end is a line boundary, which is what          *)
(* commitProgress copies into the cursor.                                    *)
EXTENDS Journal, FiniteSetTheorems, WellFoundedInduction, TLAPS

EndOnBoundary == Boundary(file, end)

IInv == /\ TypeOK
        /\ OnlyTailTorn
        /\ AckedKept
        /\ VerifiedIsCurrent
        /\ WithinLimit
        /\ SavedOnBoundary
        /\ EndOnBoundary

ByteSet == [ev : Events, at : Nat]

(* Extends(f, g, e, k): g is f with the first k bytes of e's line behind it. *)
Extends(f, g, e, k) ==
    /\ g \in Seq(ByteSet)
    /\ Len(g) = Len(f) + k
    /\ \A i \in 1 .. Len(f) : g[i] = f[i]
    /\ \A i \in 1 .. k : g[Len(f) + i] = Byte(e, i)

(* A line is a sequence of Size[e] bytes.                                    *)
LEMMA LineFacts ==
    ASSUME NEW e \in Events
    PROVE  /\ Size[e] \in Nat \ {0}
           /\ Line(e) \in Seq(ByteSet)
           /\ Len(Line(e)) = Size[e]
           /\ \A i \in 1 .. Size[e] : Line(e)[i] = Byte(e, i)
  <1>1. Size[e] \in Nat \ {0}
    BY SizeAssumption
  <1>2. \A i \in 1 .. Size[e] : Byte(e, i) \in ByteSet
    BY <1>1 DEF Byte, ByteSet
  <1>3. Line(e) \in [1 .. Size[e] -> ByteSet]
    BY <1>2 DEF Line
  <1>4. Line(e) \in Seq(ByteSet)
    BY <1>1, <1>3
  <1>5. Len(Line(e)) = Size[e]
    BY <1>1, <1>3, <1>4
  <1>6. \A i \in 1 .. Size[e] : Line(e)[i] = Byte(e, i)
    BY DEF Line
  <1> QED BY <1>1, <1>4, <1>5, <1>6

(* What an append that left k bytes of e's line makes of the file.           *)
LEMMA Extension ==
    ASSUME NEW f \in Seq(ByteSet), NEW e \in Events, NEW k \in 0 .. Size[e]
    PROVE  Extends(f, f \o SubSeq(Line(e), 1, k), e, k)
  <1> DEFINE t == SubSeq(Line(e), 1, k)
  <1>1. t \in Seq(ByteSet) /\ Len(t) = k /\ \A i \in 1 .. k : t[i] = Byte(e, i)
    BY LineFacts
  <1> HIDE DEF t
  <1>2. f \o t \in Seq(ByteSet) /\ Len(f \o t) = Len(f) + k
    BY <1>1
  <1>3. \A i \in 1 .. Len(f) : (f \o t)[i] = f[i]
    BY <1>1
  <1>4. \A i \in 1 .. k : (f \o t)[Len(f) + i] = t[i]
    BY <1>1
  <1> QED BY <1>1, <1>2, <1>3, <1>4 DEF Extends, t

(* Appending any prefix of a line to a file that does not end in a torn one  *)
(* keeps every line whole except possibly the last, and every boundary.      *)
LEMMA CleanExtension ==
    ASSUME NEW f \in Seq(ByteSet), NEW e \in Events, NEW k \in 0 .. Size[e],
           NEW g, Extends(f, g, e, k),
           ~ Torn(f), \A i \in 1 .. Len(f) : Follows(f, i)
    PROVE  /\ \A i \in 1 .. Len(g) : Follows(g, i)
           /\ \A o \in Nat : Boundary(f, o) => Boundary(g, o)
  <1>1. /\ g \in Seq(ByteSet)
        /\ Len(g) = Len(f) + k
        /\ \A i \in 1 .. Len(f) : g[i] = f[i]
        /\ \A i \in 1 .. k : g[Len(f) + i] = Byte(e, i)
    BY DEF Extends
  <1>2. k \in Nat /\ Len(f) \in Nat
    BY LineFacts
  <1>3. ASSUME NEW i \in 1 .. Len(g) PROVE Follows(g, i)
    <2>1. CASE i <= Len(f)
      <3>1. i \in 1 .. Len(f) /\ (i > 1 => i - 1 \in 1 .. Len(f))
        BY <1>2, <2>1
      <3>2. g[i] = f[i] /\ (i > 1 => g[i - 1] = f[i - 1])
        BY <1>1, <3>1
      <3>3. Follows(f, i)
        BY <3>1
      <3> QED BY ONLY <3>2, <3>3 DEF Follows
    <2>2. CASE i = Len(f) + 1
      <3>1. g[i] = Byte(e, 1)
        BY <1>1, <1>2, <2>2
      <3>2. i > 1 => IsNewline(g[i - 1])
        BY <1>1, <1>2, <2>2 DEF Torn
      <3> QED BY <3>1, <3>2 DEF Follows, Byte
    <2>3. CASE i > Len(f) + 1
      <3> DEFINE j == i - Len(f)
      <3>1. j \in 2 .. k /\ i = Len(f) + j /\ i - 1 = Len(f) + (j - 1) /\ j - 1 \in 1 .. k
        BY <1>1, <1>2, <2>3
      <3>2. g[i] = Byte(e, j) /\ g[i - 1] = Byte(e, j - 1)
        BY <1>1, <3>1
      <3>3. i > 1 /\ j # 1
        BY <1>2, <2>3
      <3> QED BY <3>2, <3>3 DEF Follows, Byte
    <2> QED BY <1>2, <2>1, <2>2, <2>3
  <1>4. ASSUME NEW o \in Nat, Boundary(f, o) PROVE Boundary(g, o)
    BY <1>1, <1>2, <1>4 DEF Boundary
  <1> QED BY <1>3, <1>4

(* Where a progress appends is the real end of the file, with no torn tail:  *)
(* both when it trusts its cached end and when it has just walked the file.  *)
LEMMA AppendEndFacts ==
    ASSUME IInv, live, Known
    PROVE  AppendEnd = Len(file) /\ ~ Torn(file)
  BY DEF IInv, Known, AppendEnd, VerifiedIsCurrent, Walks

(* The invariants about the file after k bytes of e's line were appended.    *)
LEMMA AppendStep ==
    ASSUME IInv, live, Known, NEW e \in Events, Fits(e), NEW k \in 0 .. Size[e],
           file' = file \o SubSeq(Line(e), 1, k)
    PROVE  /\ file' \in Seq(ByteSet)
           /\ \A i \in 1 .. Len(file') : file'[i].at \in 1 .. Size[file'[i].ev]
           /\ \A i \in 1 .. Len(file') : Follows(file', i)
           /\ \A o \in Nat : Boundary(file, o) => Boundary(file', o)
           /\ \A a \in acked : a.end \in 1 .. Len(file')
                               /\ file'[a.end] = Byte(a.ev, Size[a.ev])
           /\ Len(file') = Len(file) + k
           /\ Len(file') <= Limit
           /\ k = Size[e] => /\ Len(file') \in 1 .. Len(file')
                             /\ file'[Len(file')] = Byte(e, Size[e])
                             /\ Boundary(file', Len(file'))
                             /\ ~ Torn(file')
  <1>1. /\ AppendEnd = Len(file) /\ ~ Torn(file)
        /\ file \in Seq(ByteSet) /\ Len(file) \in Nat
        /\ \A i \in 1 .. Len(file) : Follows(file, i)
    BY AppendEndFacts DEF IInv, TypeOK, OnlyTailTorn, ByteSet
  <1>2. Extends(file, file', e, k)
    BY <1>1, Extension
  <1>3. /\ \A i \in 1 .. Len(file') : Follows(file', i)
        /\ \A o \in Nat : Boundary(file, o) => Boundary(file', o)
    BY ONLY <1>1, <1>2, e \in Events, k \in 0 .. Size[e], CleanExtension
  <1>4. /\ file' \in Seq(ByteSet)
        /\ Len(file') = Len(file) + k
        /\ \A i \in 1 .. Len(file) : file'[i] = file[i]
        /\ \A i \in 1 .. k : file'[Len(file) + i] = Byte(e, i)
        /\ Size[e] \in Nat \ {0} /\ k \in Nat
    BY <1>2, LineFacts DEF Extends
  <1>5. ASSUME NEW i \in 1 .. Len(file') PROVE file'[i].at \in 1 .. Size[file'[i].ev]
    <2>1. CASE i <= Len(file)
      BY <1>1, <1>4, <2>1 DEF IInv, TypeOK
    <2>2. CASE i > Len(file)
      <3> DEFINE j == i - Len(file)
      <3>1. j \in 1 .. k /\ i = Len(file) + j
        BY <1>1, <1>4, <2>2
      <3>2. file'[i] = Byte(e, j)
        BY <1>4, <3>1
      <3> QED BY <1>4, <3>1, <3>2 DEF Byte
    <2> QED BY <1>1, <1>4, <2>1, <2>2
  <1>6. ASSUME NEW a \in acked
        PROVE  a.end \in 1 .. Len(file') /\ file'[a.end] = Byte(a.ev, Size[a.ev])
    BY <1>1, <1>4 DEF IInv, AckedKept
  <1>7. Len(file') <= Limit
    BY <1>1, <1>4, LimitAssumption DEF Fits
  <1>8. ASSUME k = Size[e]
        PROVE  /\ Len(file') \in 1 .. Len(file')
               /\ file'[Len(file')] = Byte(e, Size[e])
               /\ Boundary(file', Len(file'))
               /\ ~ Torn(file')
    <2>1. Len(file') \in 1 .. Len(file') /\ file'[Len(file')] = Byte(e, Size[e])
      <3>1. k \in 1 .. k /\ Len(file') = Len(file) + k /\ Len(file) \in Nat
        BY <1>1, <1>4, <1>8
      <3>2. file'[Len(file) + k] = Byte(e, k)
        BY <1>4, <3>1
      <3>3. Len(file') \in 1 .. Len(file')
        BY <3>1
      <3> QED BY <1>8, <3>1, <3>2, <3>3
    <2>2. IsNewline(file'[Len(file')])
      BY <2>1 DEF IsNewline, Byte
    <2> QED BY <2>1, <2>2 DEF Boundary, Torn
  <1> QED BY <1>3, <1>4, <1>5, <1>6, <1>7, <1>8

(* The journal's invariants hold in every reachable state.                   *)
THEOREM Invariance == Spec => []IInv
  <1>1. Init => IInv
    <2> SUFFICES ASSUME Init PROVE IInv
      OBVIOUS
    <2>1. file \in Seq([ev : Events, at : Nat]) /\ Len(file) = 0
      BY DEF Init
    <2>2. TypeOK
      <3>1. live \in BOOLEAN /\ verified \in BOOLEAN
        BY DEF Init
      <3>2. acked \subseteq [end : Nat, ev : Events]
        BY DEF Init
      <3>3. \A i \in 1 .. Len(file) : file[i].at \in 1 .. Size[file[i].ev]
        BY <2>1
      <3>4. offset \in Nat /\ end \in Nat /\ cursor \in Nat /\ saved \in Nat
        BY DEF Init
      <3> QED BY <2>1, <3>1, <3>2, <3>3, <3>4 DEF TypeOK
    <2>3. OnlyTailTorn /\ AckedKept /\ WithinLimit
      BY <2>1, LimitAssumption DEF Init, OnlyTailTorn, AckedKept, WithinLimit
    <2>4. VerifiedIsCurrent /\ SavedOnBoundary /\ EndOnBoundary
      BY DEF Init, VerifiedIsCurrent, SavedOnBoundary, EndOnBoundary, Boundary
    <2> QED BY <2>2, <2>3, <2>4 DEF IInv
  <1>2. IInv /\ [Next]_vars => IInv'
    <2> SUFFICES ASSUME IInv, [Next]_vars PROVE IInv'
      OBVIOUS
    <2> USE DEF IInv
    \* An action that leaves the file and the history alone only has to keep
    \* the offsets on boundaries and the cached end current.
    <2>0. ASSUME file' = file, acked' = acked,
                 live' \in BOOLEAN, verified' \in BOOLEAN,
                 offset' \in Nat, end' \in Nat, cursor' \in Nat, saved' \in Nat,
                 Boundary(file, end'), Boundary(file, cursor'), Boundary(file, saved'),
                 live' /\ verified' => end' = Len(file) /\ ~ Torn(file)
          PROVE  IInv'
      <3>1. TypeOK'
        BY <2>0 DEF TypeOK
      <3>2. OnlyTailTorn' /\ WithinLimit'
        BY <2>0 DEF OnlyTailTorn, WithinLimit
      <3>3. AckedKept'
        BY <2>0 DEF AckedKept
      <3>4. VerifiedIsCurrent' /\ SavedOnBoundary' /\ EndOnBoundary'
        BY <2>0 DEF VerifiedIsCurrent, SavedOnBoundary, EndOnBoundary
      <3> QED BY <3>1, <3>2, <3>3, <3>4
    <2>1. Boundary(file, 0) /\ (~ Torn(file) => Boundary(file, Len(file)))
          /\ Len(file) \in Nat
      BY DEF Boundary, Torn, TypeOK
    <2>2. /\ Boundary(file, end) /\ Boundary(file, cursor) /\ Boundary(file, saved)
          /\ offset \in Nat /\ end \in Nat /\ cursor \in Nat /\ saved \in Nat
          /\ live \in BOOLEAN /\ verified \in BOOLEAN
          /\ (live /\ verified => end = Len(file) /\ ~ Torn(file))
      BY DEF TypeOK, VerifiedIsCurrent, SavedOnBoundary, EndOnBoundary
    <2>3. CASE UNCHANGED vars
      BY <2>0, <2>2, <2>3 DEF vars, procVars
    <2>4. CASE OpenProgress
      <3>1. /\ file' = file /\ acked' = acked /\ live' \in BOOLEAN /\ verified' \in BOOLEAN
            /\ ~ verified'
            /\ offset' \in Nat /\ end' \in Nat /\ cursor' \in Nat /\ saved' \in Nat
            /\ Boundary(file, end') /\ Boundary(file, cursor') /\ Boundary(file, saved')
        BY <2>1, <2>2, <2>4 DEF OpenProgress
      <3> QED BY <2>0, <3>1
    <2>5. ASSUME NEW r, Load(r) PROVE IInv'
      <3>1. CASE LoadOK(r)
        <4>1. ~ Torn(file)
          BY <3>1 DEF LoadOK, Walks
        <4> QED BY <2>0, <2>1, <2>2, <3>1, <4>1 DEF LoadOK
      <3>2. CASE LoadFails
        BY <2>0, <2>2, <3>2 DEF LoadFails
      <3> QED BY <2>5, <3>1, <3>2 DEF Load
    <2>6. ASSUME NEW e \in Events, AppendEvent(e) PROVE IInv'
      <3>1. /\ AppendEnd = Len(file)
            /\ Size[e] \in Nat \ {0} /\ Size[e] \in 0 .. Size[e]
            /\ Line(e) = SubSeq(Line(e), 1, Size[e])
        BY <2>6, AppendEndFacts, LineFacts DEF AppendEvent
      <3>2. file' = file \o SubSeq(Line(e), 1, Size[e])
        BY <2>6, <3>1 DEF AppendEvent
      <3>3. /\ file' \in Seq(ByteSet)
            /\ \A i \in 1 .. Len(file') : file'[i].at \in 1 .. Size[file'[i].ev]
            /\ \A i \in 1 .. Len(file') : Follows(file', i)
            /\ \A o \in Nat : Boundary(file, o) => Boundary(file', o)
            /\ \A a \in acked : a.end \in 1 .. Len(file')
                                /\ file'[a.end] = Byte(a.ev, Size[a.ev])
            /\ Len(file') = Len(file) + Size[e]
            /\ Len(file') <= Limit
            /\ Len(file') \in 1 .. Len(file')
            /\ file'[Len(file')] = Byte(e, Size[e])
            /\ Boundary(file', Len(file'))
            /\ ~ Torn(file')
        BY <2>6, <3>1, <3>2, AppendStep DEF AppendEvent
      <3>4. /\ end' = Len(file') /\ live' = live /\ cursor' = cursor /\ saved' = saved
            /\ offset' = offset /\ verified' = TRUE
            /\ acked' = acked \cup {[end |-> Len(file'), ev |-> e]}
        BY <2>6, <3>1, <3>3 DEF AppendEvent
      <3>5. AckedKept'
        BY <3>3, <3>4 DEF AckedKept
      <3>6. TypeOK'
        BY <2>1, <2>2, <3>3, <3>4 DEF TypeOK, ByteSet
      <3>7. VerifiedIsCurrent' /\ SavedOnBoundary' /\ EndOnBoundary'
        BY <2>2, <3>3, <3>4 DEF VerifiedIsCurrent, SavedOnBoundary, EndOnBoundary
      <3> QED BY <3>3, <3>5, <3>6, <3>7 DEF OnlyTailTorn, WithinLimit
    <2>7. ASSUME NEW e \in Events, AppendInterrupted(e) PROVE IInv'
      <3>1. PICK k \in 0 .. Size[e] : file' = file \o SubSeq(Line(e), 1, k)
        BY <2>7 DEF AppendInterrupted
      <3>2. /\ file' \in Seq(ByteSet)
            /\ \A i \in 1 .. Len(file') : file'[i].at \in 1 .. Size[file'[i].ev]
            /\ \A i \in 1 .. Len(file') : Follows(file', i)
            /\ \A o \in Nat : Boundary(file, o) => Boundary(file', o)
            /\ \A a \in acked : a.end \in 1 .. Len(file')
                                /\ file'[a.end] = Byte(a.ev, Size[a.ev])
            /\ Len(file') <= Limit
        BY <2>7, <3>1, AppendStep DEF AppendInterrupted
      <3>3. /\ end' = Len(file) /\ live' = live /\ cursor' = cursor /\ saved' = saved
            /\ offset' = offset /\ verified' = FALSE /\ acked' = acked /\ ~ Torn(file)
        BY <2>7, AppendEndFacts DEF AppendInterrupted
      <3>4. AckedKept'
        BY <3>2, <3>3 DEF AckedKept
      <3>5. TypeOK'
        BY <2>1, <2>2, <3>2, <3>3 DEF TypeOK, ByteSet
      <3>6. VerifiedIsCurrent' /\ SavedOnBoundary' /\ EndOnBoundary'
        BY <2>1, <2>2, <3>2, <3>3 DEF VerifiedIsCurrent, SavedOnBoundary, EndOnBoundary
      <3> QED BY <3>2, <3>4, <3>5, <3>6 DEF OnlyTailTorn, WithinLimit
    <2>8. ASSUME NEW e \in Events, AppendRefused(e) PROVE IInv'
      <3>1. CASE UNCHANGED end
        BY <2>0, <2>2, <2>8, <3>1 DEF AppendRefused
      <3>2. CASE Known /\ end' = AppendEnd
        <4>1. AppendEnd = Len(file) /\ ~ Torn(file)
          BY <2>8, <3>2, AppendEndFacts DEF AppendRefused
        <4> QED BY <2>0, <2>1, <2>2, <2>8, <3>2, <4>1 DEF AppendRefused
      <3> QED BY <2>8, <3>1, <3>2 DEF AppendRefused
    <2>9. CASE CommitProgress
      BY <2>0, <2>2, <2>9 DEF CommitProgress
    <2>10. CASE SaveScan
      <3>1. /\ file' = file /\ acked' = acked /\ live' \in BOOLEAN /\ verified' \in BOOLEAN
            /\ ~ live'
            /\ offset' \in Nat /\ end' \in Nat /\ cursor' \in Nat /\ saved' \in Nat
            /\ Boundary(file, end') /\ Boundary(file, cursor') /\ Boundary(file, saved')
        BY <2>1, <2>2, <2>10 DEF SaveScan, Discard
      <3> QED BY <2>0, <3>1
    <2>11. CASE Crash
      <3>1. /\ file' = file /\ acked' = acked /\ live' \in BOOLEAN /\ verified' \in BOOLEAN
            /\ ~ live'
            /\ offset' \in Nat /\ end' \in Nat /\ cursor' \in Nat /\ saved' \in Nat
            /\ Boundary(file, end') /\ Boundary(file, cursor') /\ Boundary(file, saved')
        BY <2>1, <2>2, <2>11 DEF Crash, Discard
      <3> QED BY <2>0, <3>1
    <2>12. CASE JournalReport
      BY <2>0, <2>2, <2>12 DEF JournalReport, procVars
    <2> QED BY <2>3, <2>4, <2>5, <2>6, <2>7, <2>8, <2>9, <2>10, <2>11, <2>12 DEF Next
  <1> QED BY <1>1, <1>2, PTL DEF Spec

(* Every state of the journal is of its type, torn and full ones included.   *)
THEOREM TypeOKAlways == Spec => []TypeOK
  <1>1. IInv => TypeOK
    BY DEF IInv
  <1> QED BY <1>1, Invariance, PTL

(* Appends never take the journal past its limit, whatever crashes leave     *)
(* behind of a line: the tail of a torn line is within the limit too.        *)
THEOREM WithinLimitAlways == Spec => []WithinLimit
  <1>1. IInv => WithinLimit
    BY DEF IInv
  <1> QED BY <1>1, Invariance, PTL

(* An append that returned no error is a whole line of the file at the       *)
(* offset it returned, whatever was interrupted, refused or restarted since. *)
THEOREM AckedKeptAlways == Spec => []AckedKept
  <1>1. IInv => AckedKept
    BY DEF IInv
  <1> QED BY <1>1, Invariance, PTL

(* Skipping the re-read while progress is verified is safe.                  *)
THEOREM VerifiedIsCurrentAlways == Spec => []VerifiedIsCurrent
  <1>1. IInv => VerifiedIsCurrent
    BY DEF IInv
  <1> QED BY <1>1, Invariance, PTL

(* A saved progress offset is always a line boundary.                        *)
THEOREM SavedOnBoundaryAlways == Spec => []SavedOnBoundary
  <1>1. IInv => SavedOnBoundary
    BY DEF IInv
  <1> QED BY <1>1, Invariance, PTL

(* No step changes a journal with a torn tail.                               *)
THEOREM TornIsFinalAlways == Spec => TornIsFinal
  <1>1. IInv /\ [Next]_vars => [Torn(file) => file' = file]_vars
    <2> SUFFICES ASSUME IInv, Next, Torn(file) PROVE file' = file
      BY DEF vars
    <2>1. ~ (live /\ Known)
      BY AppendEndFacts
    <2> QED
      BY <2>1 DEF Next, OpenProgress, Load, LoadOK, LoadFails, AppendEvent,
                  AppendInterrupted, AppendRefused, CommitProgress, SaveScan, Crash,
                  Discard, JournalReport
  <1> QED BY <1>1, Invariance, PTL DEF Spec, TornIsFinal

-----------------------------------------------------------------------------
(* What Load and JournalReport read from the file.                           *)

(* A set of positions that is not empty has a least element.                 *)
LEMMA LeastExists ==
    ASSUME NEW S \in SUBSET Nat, S # {}
    PROVE  \E x \in S : \A y \in S : x <= y
  <1> DEFINE Less == {ss \in Nat \X Nat : ss[1] < ss[2]}
  <1>1. IsWellFoundedOn(Less, Nat)
    BY NatLessThanWellFounded, Zenon DEF OpToRel
  <1>2. PICK x \in S : \A y \in S : ~ (<<y, x>> \in Less)
    <2> HIDE DEF Less
    <2> QED BY <1>1, WFMin
  <1>3. ASSUME NEW y \in S PROVE x <= y
    <2>1. x \in Nat /\ y \in Nat
      OBVIOUS
    <2>2. ~ (<<y, x>> \in Less)
      BY <1>2
    <2> QED BY <2>1, <2>2
  <1> QED BY <1>3

(* One that is also bounded has a greatest element.                          *)
LEMMA GreatestExists ==
    ASSUME NEW n \in Nat, NEW S \in SUBSET (0 .. n), S # {}
    PROVE  \E x \in S : \A y \in S : y <= x
  <1> DEFINE T == {n - y : y \in S}
  <1>1. T \in SUBSET Nat /\ T # {}
    <2>1. \A y \in S : n - y \in Nat
      OBVIOUS
    <2>2. T # {}
      OBVIOUS
    <2> QED BY <2>1, <2>2
  <1>2. PICK t \in T : \A u \in T : t <= u
    <2> HIDE DEF T
    <2> QED BY <1>1, LeastExists
  <1>3. PICK x \in S : t = n - x
    OBVIOUS
  <1>4. ASSUME NEW y \in S PROVE y <= x
    <2>1. n - x <= n - y
      BY <1>2, <1>3
    <2> QED BY <2>1
  <1> QED BY <1>4

(* InOrder lists each element of a finite set once, the lesser first.        *)
LEMMA InOrderFacts ==
    ASSUME NEW S \in SUBSET Nat, IsFiniteSet(S)
    PROVE  /\ Cardinality(S) \in Nat
           /\ InOrder(S) \in [1 .. Cardinality(S) -> S]
           /\ \A m, n \in 1 .. Cardinality(S) : m <= n => InOrder(S)[m] <= InOrder(S)[n]
           /\ \A x \in S : \E n \in 1 .. Cardinality(S) : InOrder(S)[n] = x
  <1> DEFINE c == Cardinality(S)
             upto(x) == {y \in S : y <= x}
             r == [x \in S |-> Cardinality(upto(x))]
             s == InOrder(S)
  <1>1. c \in Nat
    BY FS_CardinalityType
  <1>2. ASSUME NEW x \in S
        PROVE  IsFiniteSet(upto(x)) /\ Cardinality(upto(x)) \in 1 .. c
    <2>1. upto(x) \in SUBSET S /\ x \in upto(x)
      OBVIOUS
    <2> HIDE DEF upto
    <2>2. IsFiniteSet(upto(x)) /\ Cardinality(upto(x)) <= c
      BY <2>1, FS_Subset
    <2>3. Cardinality(upto(x)) \in Nat /\ Cardinality(upto(x)) # 0
      BY <2>1, <2>2, FS_CardinalityType, FS_EmptySet
    <2> QED BY <1>1, <2>2, <2>3
  <1>3. ASSUME NEW x \in S, NEW y \in S, x < y PROVE r[x] < r[y]
    <2>1. upto(x) \in SUBSET upto(y) /\ y \in upto(y) /\ y \notin upto(x)
      <3>1. x \in Nat /\ y \in Nat /\ \A z \in S : z \in Nat
        OBVIOUS
      <3>2. \A u, v, w \in Nat : u < v => (w <= u => w <= v) /\ v <= v /\ ~ (v <= u)
        OBVIOUS
      <3> QED BY <1>3, <3>1, <3>2, Zenon
    <2> HIDE DEF upto
    <2>2. IsFiniteSet(upto(y)) /\ upto(x) # upto(y)
      BY <1>2, <2>1
    <2>3. Cardinality(upto(x)) <= Cardinality(upto(y)) /\ Cardinality(upto(x)) # Cardinality(upto(y))
      BY <2>1, <2>2, FS_Subset
    <2> QED BY <1>2, <2>3
  <1>4. r \in [S -> 1 .. c]
    BY <1>2
  <1>a. \A x \in S : r[x] = Cardinality(upto(x))
    OBVIOUS
  <1>5. s = [n \in 1 .. c |-> CHOOSE x \in S : Cardinality(upto(x)) = n]
    BY DEF InOrder
  <1> HIDE DEF r, s, upto
  <1>6. \A x, y \in S : r[x] <= r[y] => x <= y
    BY <1>1, <1>3, <1>4
  <1>7. \A x, y \in S : r[x] = r[y] => x = y
    BY <1>1, <1>4, <1>6
  <1>8. r \in Injection(S, 1 .. c)
    BY <1>4, <1>7 DEF Injection, IsInjective
  <1>9. IsFiniteSet(1 .. c) /\ Cardinality(1 .. c) = c
    BY <1>1, FS_Interval
  <1>10. r \in Surjection(S, 1 .. c)
    BY <1>8, <1>9, FS_Injection
  <1>11. \A n \in 1 .. c : \E x \in S : r[x] = n
    BY <1>10 DEF Surjection
  <1>12. \A n \in 1 .. c : s[n] \in S /\ r[s[n]] = n
    <2>1. \A n \in 1 .. c : \E x \in S : Cardinality(upto(x)) = n
      BY <1>11, <1>a
    <2>2. \A n \in 1 .. c : s[n] \in S /\ Cardinality(upto(s[n])) = n
      BY <1>5, <2>1
    <2> QED BY <2>2, <1>a
  <1>13. s \in [1 .. c -> S]
    BY <1>5, <1>12
  <1>14. \A m, n \in 1 .. c : m <= n => s[m] <= s[n]
    BY <1>6, <1>12
  <1>15. ASSUME NEW x \in S PROVE \E n \in 1 .. c : s[n] = x
    <2>1. r[x] \in 1 .. c
      BY <1>4
    <2>2. s[r[x]] = x
      BY <1>7, <1>12, <2>1
    <2> QED BY <2>1, <2>2
  <1> QED BY <1>1, <1>13, <1>14, <1>15 DEF s

(* A set of positions of a sequence is finite.                               *)
LEMMA PositionsFinite ==
    ASSUME NEW n \in Nat, NEW S \in SUBSET (1 .. n)
    PROVE  S \in SUBSET Nat /\ IsFiniteSet(S)
  <1>1. IsFiniteSet(1 .. n)
    BY FS_Interval
  <1>2. S \in SUBSET Nat
    OBVIOUS
  <1> QED BY <1>1, <1>2, FS_Subset

(* A walk from an offset visits the event of every line that ends behind it, *)
(* in the order of the lines.                                                *)
LEMMA VisitedFacts ==
    ASSUME NEW f \in Seq(ByteSet), NEW off \in Nat
    PROVE  /\ Visited(f, off) \in Seq(Events)
           /\ \A p \in off + 1 .. Len(f) : IsNewline(f[p]) =>
                \E i \in 1 .. Len(Visited(f, off)) :
                    /\ Visited(f, off)[i] = f[p].ev
                    /\ \A j \in i .. Len(Visited(f, off)) : \E q \in p .. Len(f) :
                        f[q] = Byte(Visited(f, off)[j], Size[Visited(f, off)[j]])
  <1> DEFINE S == {i \in off + 1 .. Len(f) : IsNewline(f[i])}
             c == Cardinality(S)
             at == InOrder(S)
             V == Visited(f, off)
  <1>1. S \in SUBSET (1 .. Len(f)) /\ Len(f) \in Nat
    OBVIOUS
  <1>2. S \in SUBSET Nat /\ IsFiniteSet(S)
    <2> HIDE DEF S
    <2> QED BY <1>1, PositionsFinite
  <1>3. /\ c \in Nat /\ at \in [1 .. c -> S]
        /\ \A m, n \in 1 .. c : m <= n => at[m] <= at[n]
        /\ \A x \in S : \E n \in 1 .. c : at[n] = x
    <2> HIDE DEF S
    <2> QED BY <1>2, InOrderFacts
  <1>4. V = [k \in 1 .. c |-> f[at[k]].ev]
    <2>1. V = [k \in DOMAIN at |-> f[at[k]].ev]
      BY DEF Visited
    <2> HIDE DEF V, at
    <2> QED BY <1>3, <2>1
  <1>5. \A i \in S : i \in 1 .. Len(f) /\ f[i].ev \in Events /\ f[i] = Byte(f[i].ev, Size[f[i].ev])
    <2> SUFFICES ASSUME NEW i \in S
                 PROVE  i \in 1 .. Len(f) /\ f[i].ev \in Events /\ f[i] = Byte(f[i].ev, Size[f[i].ev])
      OBVIOUS
    <2>1. i \in 1 .. Len(f) /\ f[i].at = Size[f[i].ev]
      BY <1>1 DEF IsNewline
    <2>2. f[i] \in ByteSet
      BY <2>1
    <2> QED BY <2>1, <2>2 DEF ByteSet, Byte
  <1>6. \A p \in off + 1 .. Len(f) : IsNewline(f[p]) => p \in S
    OBVIOUS
  <1>7. \A k \in 1 .. c : V[k] \in Events /\ at[k] \in S /\ V[k] = f[at[k]].ev
    <2> HIDE DEF S, at, V, c
    <2> QED BY <1>3, <1>4, <1>5
  <1>8. V \in Seq(Events) /\ Len(V) = c
    <2> HIDE DEF S, at, V, c
    <2> QED BY <1>3, <1>4, <1>7
  <1> HIDE DEF S, at, V, c
  <1>9. ASSUME NEW p \in off + 1 .. Len(f), IsNewline(f[p])
        PROVE  \E i \in 1 .. Len(V) :
                    /\ V[i] = f[p].ev
                    /\ \A j \in i .. Len(V) : \E q \in p .. Len(f) : f[q] = Byte(V[j], Size[V[j]])
    <2>1. PICK i \in 1 .. c : at[i] = p
      BY <1>3, <1>6, <1>9
    <2>2. ASSUME NEW j \in i .. c PROVE \E q \in p .. Len(f) : f[q] = Byte(V[j], Size[V[j]])
      <3>1. j \in 1 .. c /\ i <= j
        BY <1>3
      <3>2. at[j] \in 1 .. Len(f) /\ p <= at[j] /\ V[j] = f[at[j]].ev
        BY <1>3, <1>5, <1>7, <2>1, <3>1
      <3>3. f[at[j]] = Byte(V[j], Size[V[j]])
        BY <1>5, <1>7, <3>1, <3>2
      <3>4. at[j] \in p .. Len(f)
        BY <3>2
      <3> QED BY <3>3, <3>4
    <2> QED BY <1>7, <1>8, <2>1, <2>2
  <1> QED BY <1>8, <1>9 DEF V

(* The last version of a record is at or behind every version of it.         *)
LEMMA LastOfFacts ==
    ASSUME NEW es \in Seq(Events), NEW i \in 1 .. Len(es)
    PROVE  /\ LastOf(es, i) \in i .. Len(es)
           /\ IdOf[es[LastOf(es, i)]] = IdOf[es[i]]
           /\ \A j \in 1 .. Len(es) : IdOf[es[j]] = IdOf[es[i]] => j <= LastOf(es, i)
  <1> DEFINE S == {j \in i .. Len(es) : IdOf[es[j]] = IdOf[es[i]]}
  <1>1. Len(es) \in Nat /\ i \in Nat
    OBVIOUS
  <1>2. S \in SUBSET (0 .. Len(es)) /\ i \in S
    BY <1>1
  <1>3. PICK g \in S : \A j \in S : j <= g
    <2> HIDE DEF S
    <2> QED BY <1>1, <1>2, GreatestExists
  <1>4. g \in i .. Len(es) /\ IdOf[es[g]] = IdOf[es[i]]
    OBVIOUS
  <1>5. \A k \in g + 1 .. Len(es) : IdOf[es[k]] # IdOf[es[i]]
    <2> SUFFICES ASSUME NEW k \in g + 1 .. Len(es), IdOf[es[k]] = IdOf[es[i]] PROVE FALSE
      OBVIOUS
    <2>1. k \in i .. Len(es) /\ k > g
      BY <1>1, <1>4
    <2>2. k <= g
      BY <1>3, <2>1
    <2> QED BY <1>1, <1>4, <2>1, <2>2
  <1>6. /\ LastOf(es, i) \in i .. Len(es)
        /\ IdOf[es[LastOf(es, i)]] = IdOf[es[i]]
        /\ \A k \in LastOf(es, i) + 1 .. Len(es) : IdOf[es[k]] # IdOf[es[i]]
    BY <1>4, <1>5 DEF LastOf
  <1> DEFINE l == LastOf(es, i)
  <1> HIDE DEF S, l
  <1>7. ASSUME NEW j \in 1 .. Len(es), IdOf[es[j]] = IdOf[es[i]] PROVE j <= l
    <2> SUFFICES ASSUME ~ (j <= l) PROVE FALSE
      OBVIOUS
    <2>1. l \in i .. Len(es) /\ \A k \in l + 1 .. Len(es) : IdOf[es[k]] # IdOf[es[i]]
      BY <1>6 DEF l
    <2>2. j \in l + 1 .. Len(es)
      BY <1>1, <2>1
    <2> QED BY <1>7, <2>1, <2>2
  <1> QED BY <1>6, <1>7 DEF l

(* Removing duplicates keeps a version of every record, at least as new as   *)
(* any that was read.                                                        *)
LEMMA DeduplicateFacts ==
    ASSUME NEW es \in Seq(Events)
    PROVE  \A i \in 1 .. Len(es) :
              \E k \in 1 .. Len(DeduplicateRecords(es)) : \E j \in i .. Len(es) :
                  /\ DeduplicateRecords(es)[k] = es[j]
                  /\ IdOf[es[j]] = IdOf[es[i]]
  <1> DEFINE S == Firsts(es)
             c == Cardinality(S)
             at == InOrder(S)
             D == DeduplicateRecords(es)
  <1>1. S \in SUBSET (1 .. Len(es)) /\ Len(es) \in Nat
    BY DEF Firsts
  <1>2. /\ c \in Nat /\ at \in [1 .. c -> S]
        /\ \A x \in S : \E n \in 1 .. c : at[n] = x
    <2> HIDE DEF S
    <2>1. S \in SUBSET Nat /\ IsFiniteSet(S)
      BY <1>1, PositionsFinite
    <2> QED BY <2>1, InOrderFacts
  <1>3. D = [n \in 1 .. c |-> es[LastOf(es, at[n])]]
    <2>1. D = [n \in DOMAIN at |-> es[LastOf(es, at[n])]]
      BY DEF DeduplicateRecords
    <2> HIDE DEF D, at
    <2> QED BY <1>2, <2>1
  <1>4. ASSUME NEW i \in 1 .. Len(es)
        PROVE  \E x \in S : IdOf[es[x]] = IdOf[es[i]]
    <2> DEFINE T == {j \in 1 .. Len(es) : IdOf[es[j]] = IdOf[es[i]]}
    <2>1. T \in SUBSET Nat /\ T # {}
      OBVIOUS
    <2>2. PICK x \in T : \A y \in T : x <= y
      <3> HIDE DEF T
      <3> QED BY <2>1, LeastExists
    <2>3. x \in 1 .. Len(es) /\ IdOf[es[x]] = IdOf[es[i]]
      OBVIOUS
    <2>4. \A j \in 1 .. x - 1 : IdOf[es[j]] # IdOf[es[x]]
      <3> SUFFICES ASSUME NEW j \in 1 .. x - 1, IdOf[es[j]] = IdOf[es[x]] PROVE FALSE
        OBVIOUS
      <3>1. j \in 1 .. Len(es) /\ j < x
        BY <2>3, <1>1
      <3>2. x <= j
        BY <2>2, <2>3, <3>1
      <3> QED BY <2>3, <3>1, <3>2
    <2>5. x \in S
      BY <2>3, <2>4 DEF Firsts
    <2> QED BY <2>3, <2>5
  <1> HIDE DEF S, c, at, D
  <1>5. D \in Seq(Events) /\ Len(D) = c
    <2>1. \A n \in 1 .. c : es[LastOf(es, at[n])] \in Events
      <3> SUFFICES ASSUME NEW n \in 1 .. c PROVE es[LastOf(es, at[n])] \in Events
        OBVIOUS
      <3>1. at[n] \in 1 .. Len(es)
        BY <1>1, <1>2
      <3>2. LastOf(es, at[n]) \in at[n] .. Len(es)
        BY <3>1, LastOfFacts
      <3>3. LastOf(es, at[n]) \in 1 .. Len(es)
        BY <1>1, <3>1, <3>2
      <3> QED BY <3>3
    <2> QED BY <1>2, <1>3, <2>1
  <1>6. ASSUME NEW i \in 1 .. Len(es)
        PROVE  \E k \in 1 .. Len(D) : \E j \in i .. Len(es) :
                  D[k] = es[j] /\ IdOf[es[j]] = IdOf[es[i]]
    <2>1. PICK x \in S : IdOf[es[x]] = IdOf[es[i]]
      BY <1>4
    <2>2. PICK k \in 1 .. c : at[k] = x
      BY <1>2
    <2> DEFINE j == LastOf(es, x)
    <2>3. x \in 1 .. Len(es)
      BY <1>1
    <2>4. j \in x .. Len(es) /\ IdOf[es[j]] = IdOf[es[x]] /\ i <= j
      BY <2>1, <2>3, LastOfFacts
    <2>5. D[k] = es[j]
      BY <1>3, <2>2
    <2> HIDE DEF j
    <2>6. j \in i .. Len(es)
      BY <1>1, <2>3, <2>4
    <2> QED BY <1>5, <2>1, <2>4, <2>5, <2>6
  <1> QED BY <1>6 DEF D

(* Of every record of the file that was read, Load returns a version at      *)
(* least as new.                                                             *)
LEMMA RecordsOfFacts ==
    ASSUME NEW es \in Seq(Events), NEW r
    PROVE  \A i \in 1 .. Len(es) : RefOf[es[i]] = r =>
              \E k \in 1 .. Len(RecordsOf(r, es)) : \E j \in i .. Len(es) :
                  /\ RecordsOf(r, es)[k] = es[j]
                  /\ IdOf[es[j]] = IdOf[es[i]]
  <1> DEFINE S == {i \in 1 .. Len(es) : RefOf[es[i]] = r}
             c == Cardinality(S)
             at == InOrder(S)
             L == [n \in DOMAIN at |-> es[at[n]]]
  <1>1. S \in SUBSET (1 .. Len(es)) /\ Len(es) \in Nat
    OBVIOUS
  <1>2. /\ c \in Nat /\ at \in [1 .. c -> S]
        /\ \A m, n \in 1 .. c : m <= n => at[m] <= at[n]
        /\ \A x \in S : \E n \in 1 .. c : at[n] = x
    <2> HIDE DEF S
    <2>1. S \in SUBSET Nat /\ IsFiniteSet(S)
      BY <1>1, PositionsFinite
    <2> QED BY <2>1, InOrderFacts
  <1>3. L \in Seq(Events) /\ Len(L) = c /\ \A n \in 1 .. c : at[n] \in 1 .. Len(es) /\ L[n] = es[at[n]]
    <2> HIDE DEF S, at, c
    <2>1. DOMAIN at = 1 .. c /\ \A n \in 1 .. c : at[n] \in 1 .. Len(es)
      BY <1>1, <1>2
    <2> QED BY <1>2, <2>1
  <1>4. RecordsOf(r, es) = DeduplicateRecords(L)
    BY DEF RecordsOf
  <1>5. \A i \in 1 .. Len(es) : RefOf[es[i]] = r => i \in S
    OBVIOUS
  <1> HIDE DEF S, at, c, L
  <1>6. ASSUME NEW i \in 1 .. Len(es), RefOf[es[i]] = r
        PROVE  \E k \in 1 .. Len(DeduplicateRecords(L)) : \E j \in i .. Len(es) :
                  DeduplicateRecords(L)[k] = es[j] /\ IdOf[es[j]] = IdOf[es[i]]
    <2>1. PICK n \in 1 .. c : at[n] = i
      BY <1>2, <1>5, <1>6
    <2>2. PICK k \in 1 .. Len(DeduplicateRecords(L)), m \in n .. c :
              DeduplicateRecords(L)[k] = L[m] /\ IdOf[L[m]] = IdOf[L[n]]
      <3>1. L \in Seq(Events) /\ n \in 1 .. Len(L) /\ Len(L) = c
        BY <1>3, <2>1
      <3>2. \E k \in 1 .. Len(DeduplicateRecords(L)) : \E m \in n .. Len(L) :
              DeduplicateRecords(L)[k] = L[m] /\ IdOf[L[m]] = IdOf[L[n]]
        BY ONLY <3>1, DeduplicateFacts
      <3> QED BY <3>1, <3>2
    <2>3. m \in 1 .. c /\ n <= m
      BY <1>2
    <2>4. at[m] \in 1 .. Len(es) /\ i <= at[m] /\ L[m] = es[at[m]] /\ L[n] = es[i]
      BY <1>2, <1>3, <2>1, <2>3
    <2>5. at[m] \in i .. Len(es)
      BY <2>4
    <2> QED BY <2>2, <2>4, <2>5
  <1> QED BY <1>4, <1>6

(* The bytes of a prefix of the events are a number, so there is a longest   *)
(* prefix that fits the budget of a report.                                  *)
LEMMA BytesFacts ==
    ASSUME NEW es \in Seq(Events), NEW n \in 0 .. Len(es)
    PROVE  Bytes(es, n) \in Nat /\ (n = 0 => Bytes(es, n) = 0)
  <1> DEFINE IsSum(s, m) ==
                s = [i \in 0 .. m |-> IF i = 0 THEN 0 ELSE s[i - 1] + Size[es[i]] - 1]
  <1>1. Len(es) \in Nat /\ \A i \in 1 .. Len(es) : Size[es[i]] \in Nat \ {0}
    BY SizeAssumption
  <1>2. \A m \in 0 .. Len(es) : \E s : IsSum(s, m)
    <2> DEFINE S == {m \in 0 .. Len(es) : ~ \E s : IsSum(s, m)}
    <2> SUFFICES ASSUME S # {} PROVE FALSE
      OBVIOUS
    <2>1. PICK m \in S : \A y \in S : m <= y
      <3>1. S \in SUBSET Nat
        OBVIOUS
      <3> HIDE DEF S
      <3> QED BY <3>1, LeastExists
    <2>2. m \in 0 .. Len(es) /\ ~ \E s : IsSum(s, m)
      BY <2>1
    <2>3. CASE m = 0
      <3> DEFINE s == [i \in 0 .. 0 |-> 0]
      <3>1. IsSum(s, 0)
        OBVIOUS
      <3> QED BY <2>2, <2>3, <3>1
    <2>4. CASE m # 0
      <3> DEFINE l == m - 1
      <3>1. l \in 0 .. Len(es) /\ ~ (m <= l) /\ m = l + 1
        BY <2>2, <2>4, <1>1
      <3>2. l \notin S
        BY <2>1, <3>1
      <3>3. PICK s : IsSum(s, l)
        BY <3>1, <3>2
      <3> HIDE DEF S, l
      <3> DEFINE t == [i \in 0 .. m |-> IF i = m THEN s[l] + Size[es[m]] - 1 ELSE s[i]]
      <3>4. ASSUME NEW i \in 0 .. m
            PROVE  t[i] = IF i = 0 THEN 0 ELSE t[i - 1] + Size[es[i]] - 1
        <4>1. CASE i = m
          <5>1. i - 1 = l /\ l \in 0 .. m /\ l # m /\ i # 0
            BY <2>2, <3>1, <4>1
          <5>2. t[i] = s[l] + Size[es[i]] - 1 /\ t[l] = s[l]
            BY <4>1, <5>1
          <5> HIDE DEF t
          <5> QED BY <5>1, <5>2
        <4>2. CASE i # m /\ i # 0
          <5>1. i \in 0 .. l /\ i - 1 \in 0 .. m /\ i - 1 # m
            BY <2>2, <3>1, <4>2
          <5>2. t[i] = s[i] /\ t[i - 1] = s[i - 1]
            BY <4>2, <5>1
          <5>3. s[i] = s[i - 1] + Size[es[i]] - 1
            BY <3>3, <4>2, <5>1
          <5> HIDE DEF t
          <5> QED BY <4>2, <5>2, <5>3
        <4>3. CASE i = 0
          <5>1. i \in 0 .. l /\ i # m
            BY <2>4, <3>1, <4>3
          <5>2. t[i] = s[i] /\ s[i] = 0
            BY <3>3, <4>3, <5>1
          <5> HIDE DEF t
          <5> QED BY <4>3, <5>2
        <4> QED BY <4>1, <4>2, <4>3
      <3>5. IsSum(t, m)
        <4> DEFINE u == [i \in 0 .. m |-> IF i = 0 THEN 0 ELSE t[i - 1] + Size[es[i]] - 1]
        <4>1. \A i \in 0 .. m : t[i] = u[i]
          <5> HIDE DEF t
          <5> QED BY <3>4
        <4>2. t = u
          BY <4>1
        <4> QED BY <4>2
      <3> QED BY <2>2, <3>5
    <2> QED BY <2>3, <2>4
  <1>3. PICK s : IsSum(s, n) /\ Bytes(es, n) = s[n]
    <2> DEFINE s == CHOOSE s : IsSum(s, n)
    <2>1. IsSum(s, n)
      BY <1>2
    <2>2. Bytes(es, n) = s[n]
      BY DEF Bytes
    <2> QED BY <2>1, <2>2
  <1>4. \A i \in 0 .. n : s[i] = IF i = 0 THEN 0 ELSE s[i - 1] + Size[es[i]] - 1
    BY <1>3
  <1>5. \A i \in 0 .. n : s[i] \in Nat
    <2> DEFINE S == {i \in 0 .. n : s[i] \notin Nat}
    <2> SUFFICES ASSUME S # {} PROVE FALSE
      OBVIOUS
    <2>1. PICK i \in S : \A y \in S : i <= y
      <3>1. S \in SUBSET Nat
        OBVIOUS
      <3> HIDE DEF S
      <3> QED BY <3>1, LeastExists
    <2>2. i \in 0 .. n /\ s[i] \notin Nat
      BY <2>1
    <2>3. i # 0
      BY <1>4, <2>2
    <2> DEFINE l == i - 1
    <2>4. l \in 0 .. n /\ ~ (i <= l) /\ i \in 1 .. Len(es)
      BY <1>1, <2>2, <2>3
    <2>5. s[l] \in Nat
      BY <2>1, <2>4
    <2>6. s[i] = s[l] + Size[es[i]] - 1
      BY <1>4, <2>2, <2>3
    <2> HIDE DEF l, S
    <2>7. Size[es[i]] \in Nat \ {0}
      BY <1>1, <2>4
    <2> QED BY <2>2, <2>5, <2>6, <2>7
  <1>6. n \in 0 .. n /\ n \in Nat
    BY <1>1
  <1> HIDE DEF IsSum
  <1> QED BY <1>3, <1>4, <1>5, <1>6

LEMMA RetainedFacts ==
    ASSUME NEW es \in Seq(Events)
    PROVE  /\ Retained(es) \in 0 .. Len(es)
           /\ Bytes(es, Retained(es)) <= ReportBytes
  <1> DEFINE S == {n \in 0 .. Len(es) : Bytes(es, n) <= ReportBytes}
  <1>1. Len(es) \in Nat /\ ReportBytes \in Nat
    BY LimitAssumption
  <1>2. S \in SUBSET (0 .. Len(es))
    OBVIOUS
  <1>3. S # {}
    <2>1. 0 \in 0 .. Len(es)
      BY <1>1
    <2>2. Bytes(es, 0) = 0
      BY <2>1, BytesFacts
    <2> QED BY <1>1, <2>1, <2>2
  <1>4. PICK n \in S : \A m \in S : m <= n
    <2> HIDE DEF S
    <2> QED BY <1>1, <1>2, <1>3, GreatestExists
  <1>5. n \in 0 .. Len(es) /\ Bytes(es, n) <= ReportBytes
    BY <1>4
  <1>6. ASSUME n < Len(es) PROVE Bytes(es, n + 1) > ReportBytes
    <2> DEFINE m == n + 1
    <2>1. m \in 0 .. Len(es) /\ ~ (m <= n)
      BY <1>1, <1>5, <1>6
    <2>2. Bytes(es, m) \in Nat /\ ~ (Bytes(es, m) <= ReportBytes)
      BY <1>4, <2>1, BytesFacts
    <2> HIDE DEF m
    <2>3. Bytes(es, m) > ReportBytes
      BY <1>1, <2>2
    <2> QED BY <2>3 DEF m
  <1> HIDE DEF S
  <1> QED BY <1>5, <1>6 DEF Retained

(* A Load returns, of every acknowledged record of its file behind the       *)
(* offset, the acknowledged version or a newer one that is on disk, whatever *)
(* was interrupted, superseded or restarted before.                          *)
THEOREM LoadSeesAckedAlways == Spec => []LoadSeesAcked
  <1>1. Init => LoadSeesAcked
    BY DEF Init, LoadSeesAcked, Idle
  <1>2. IInv /\ LoadSeesAcked /\ [Next]_vars => LoadSeesAcked'
    <2> SUFFICES ASSUME IInv, LoadSeesAcked, [Next]_vars
                 PROVE  LoadSeesAcked'
      OBVIOUS
    <2>1. ASSUME got'.op # "loaded" PROVE LoadSeesAcked'
      BY <2>1 DEF LoadSeesAcked
    <2>2. ASSUME NEW r, LoadOK(r) PROVE LoadSeesAcked'
      <3> DEFINE es == Visited(file, offset)
                 recs == RecordsOf(r, es)
      <3>1. /\ file' = file /\ offset' = offset /\ acked' = acked
            /\ got' = [op |-> "loaded", ref |-> r, recs |-> recs]
        BY <2>2 DEF LoadOK
      <3>2. file \in Seq(ByteSet) /\ offset \in Nat
        BY DEF IInv, TypeOK, ByteSet
      <3>3. es \in Seq(Events)
        BY <3>2, VisitedFacts
      <3>a. \A i \in 1 .. Len(es) : RefOf[es[i]] = r =>
                \E k \in 1 .. Len(recs) : \E j \in i .. Len(es) :
                    recs[k] = es[j] /\ IdOf[es[j]] = IdOf[es[i]]
        <4> HIDE DEF es
        <4> QED BY ONLY <3>3, RecordsOfFacts DEF recs
      <3> HIDE DEF recs
      <3>4. ASSUME NEW a \in acked, a.end > offset, RefOf[a.ev] = r
            PROVE  \E k \in 1 .. Len(recs) :
                     /\ IdOf[recs[k]] = IdOf[a.ev]
                     /\ \E p \in a.end .. Len(file) : file[p] = Byte(recs[k], Size[recs[k]])
        <4>1. a.end \in 1 .. Len(file) /\ file[a.end] = Byte(a.ev, Size[a.ev])
          BY DEF IInv, AckedKept
        <4>2. file[a.end].ev = a.ev /\ IsNewline(file[a.end])
          BY <4>1 DEF Byte, IsNewline
        <4>3. a.end \in offset + 1 .. Len(file)
          BY <3>2, <3>4, <4>1
        <4>4. \E i \in 1 .. Len(es) :
                  /\ es[i] = file[a.end].ev
                  /\ \A j \in i .. Len(es) : \E q \in a.end .. Len(file) :
                        file[q] = Byte(es[j], Size[es[j]])
          BY ONLY <3>2, <4>2, <4>3, VisitedFacts
        <4> HIDE DEF es
        <4>5. PICK i \in 1 .. Len(es) :
                  /\ es[i] = a.ev
                  /\ \A j \in i .. Len(es) : \E q \in a.end .. Len(file) :
                        file[q] = Byte(es[j], Size[es[j]])
          BY <4>2, <4>4
        <4>6. \E k \in 1 .. Len(recs) : \E j \in i .. Len(es) :
                  recs[k] = es[j] /\ IdOf[es[j]] = IdOf[es[i]]
          <5>1. RefOf[es[i]] = r /\ i \in 1 .. Len(es)
            BY <3>4, <4>5
          <5> QED BY <3>a, <5>1
        <4> QED BY <4>5, <4>6
      <3> QED BY <3>1, <3>4 DEF LoadSeesAcked
    <2>3. CASE UNCHANGED vars
      BY <2>3 DEF vars, procVars, LoadSeesAcked
    <2>4. CASE \E r \in {RefOf[e] : e \in Events} \ {NoRef} : Load(r)
      <3>1. CASE LoadFails
        BY <2>1, <3>1 DEF LoadFails, Failed
      <3> QED BY <2>2, <2>4, <3>1 DEF Load
    <2>5. CASE \/ OpenProgress \/ CommitProgress \/ SaveScan \/ Crash
               \/ \E e \in Events : AppendEvent(e) \/ AppendInterrupted(e) \/ AppendRefused(e)
      <3>1. got' = Idle \/ got' = Failed
        BY <2>5 DEF OpenProgress, CommitProgress, SaveScan, Crash, Discard, AppendEvent,
                    AppendInterrupted, AppendRefused
      <3> QED BY <2>1, <3>1 DEF Idle, Failed
    <2>6. CASE JournalReport
      <3>1. got'.op = "report" \/ got'.op = "failed"
        BY <2>6 DEF JournalReport, Failed
      <3> QED BY <2>1, <3>1
    <2> QED BY <2>3, <2>4, <2>5, <2>6 DEF Next
  <1> QED BY <1>1, <1>2, Invariance, PTL DEF Spec

(* A report that calls itself complete holds every acknowledged event, and   *)
(* any report holds the first events of the journal as they were written.    *)
THEOREM ReportIsHonestAlways == Spec => []ReportIsHonest
  <1>1. Init => ReportIsHonest
    BY DEF Init, ReportIsHonest, Idle
  <1>2. IInv /\ ReportIsHonest /\ [Next]_vars => ReportIsHonest'
    <2> SUFFICES ASSUME IInv, ReportIsHonest, [Next]_vars
                 PROVE  ReportIsHonest'
      OBVIOUS
    <2>1. ASSUME got'.op # "report" PROVE ReportIsHonest'
      BY <2>1 DEF ReportIsHonest
    <2>2. CASE UNCHANGED vars
      BY <2>2 DEF vars, procVars, ReportIsHonest
    <2>3. CASE JournalReport
      <3> DEFINE es == Visited(file, 0)
                 n == Retained(es)
                 kept == SubSeq(es, 1, n)
      <3>1. CASE got' = Failed
        BY <2>1, <3>1 DEF Failed
      <3>2. CASE got' = [op |-> "report", kept |-> kept, records |-> RecordsIn(kept),
                         complete |-> n = Len(es)]
        <4>1. file \in Seq(ByteSet) /\ 0 \in Nat
          BY DEF IInv, TypeOK, ByteSet
        <4>2. es \in Seq(Events)
          BY <4>1, VisitedFacts
        <4>3. ASSUME NEW a \in acked PROVE \E i \in 1 .. Len(es) : es[i] = a.ev
          <5>1. a.end \in 1 .. Len(file) /\ file[a.end] = Byte(a.ev, Size[a.ev])
            BY DEF IInv, AckedKept
          <5>2. file[a.end].ev = a.ev /\ IsNewline(file[a.end])
            BY <5>1 DEF Byte, IsNewline
          <5>3. a.end \in 0 + 1 .. Len(file)
            BY <5>1
          <5>4. \E i \in 1 .. Len(es) : es[i] = file[a.end].ev
            BY ONLY <4>1, <5>2, <5>3, VisitedFacts
          <5> QED BY <5>2, <5>4
        <4>4. es' = es /\ acked' = acked
          BY <2>3 DEF JournalReport
        <4> HIDE DEF es
        <4>5. n \in 0 .. Len(es)
          BY <4>2, RetainedFacts
        <4> HIDE DEF n
        <4>6. Len(kept) = n /\ \A k \in 1 .. n : kept[k] = es[k]
          BY <4>2, <4>5
        <4> HIDE DEF kept
        <4>7. n = Len(es) => \A a \in acked : \E k \in 1 .. Len(kept) : kept[k] = a.ev
          BY <4>3, <4>6
        <4>8. got'.kept = kept /\ (got'.complete => n = Len(es))
          BY <3>2
        <4>9. Visited(file, 0)' = es
          BY <4>4 DEF es
        <4> QED BY <4>4, <4>6, <4>7, <4>8, <4>9 DEF ReportIsHonest
      <3> QED BY <2>3, <3>1, <3>2 DEF JournalReport
    <2>4. CASE \E r \in {RefOf[e] : e \in Events} \ {NoRef} : Load(r)
      <3>1. got'.op = "loaded" \/ got'.op = "failed"
        BY <2>4 DEF Load, LoadOK, LoadFails, Failed
      <3> QED BY <2>1, <3>1
    <2>5. CASE \/ OpenProgress \/ CommitProgress \/ SaveScan \/ Crash
               \/ \E e \in Events : AppendEvent(e) \/ AppendInterrupted(e) \/ AppendRefused(e)
      <3>1. got' = Idle \/ got' = Failed
        BY <2>5 DEF OpenProgress, CommitProgress, SaveScan, Crash, Discard, AppendEvent,
                    AppendInterrupted, AppendRefused
      <3> QED BY <2>1, <3>1 DEF Idle, Failed
    <2> QED BY <2>2, <2>3, <2>4, <2>5 DEF Next
  <1> QED BY <1>1, <1>2, Invariance, PTL DEF Spec

-----------------------------------------------------------------------------
Entries(f) == {[end |-> i, ev |-> f[i].ev] : i \in {j \in 1 .. Len(f) : IsNewline(f[j])}}

(* A whole line adds one entry, behind all others; a part of one adds none.  *)
LEMMA EntriesOfExtension ==
    ASSUME NEW f \in Seq(ByteSet), NEW e \in Events, NEW k \in 0 .. Size[e],
           NEW g, Extends(f, g, e, k)
    PROVE  /\ k < Size[e] => Entries(g) = Entries(f)
           /\ k = Size[e] => Entries(g) = Entries(f) \cup {[end |-> Len(f) + k, ev |-> e]}
           /\ k = 0 => g = f
           /\ k \in 1 .. Size[e] - 1 => Torn(g)
           /\ k = Size[e] => ~ Torn(g)
  <1>1. /\ g \in Seq(ByteSet)
        /\ Len(g) = Len(f) + k
        /\ \A i \in 1 .. Len(f) : g[i] = f[i]
        /\ \A i \in 1 .. k : g[Len(f) + i] = Byte(e, i)
    BY DEF Extends
  <1>2. k \in Nat /\ Len(f) \in Nat /\ Size[e] \in Nat \ {0}
    BY LineFacts
  <1>a. ASSUME NEW i \in 1 .. k
        PROVE  g[Len(f) + i].ev = e /\ g[Len(f) + i].at = i
    <2>1. g[Len(f) + i] = [ev |-> e, at |-> i]
      BY <1>1 DEF Byte
    <2> QED BY <2>1
  <1>3. \A i \in 1 .. k : IsNewline(g[Len(f) + i]) <=> i = Size[e]
    BY <1>a DEF IsNewline
  <1>4. \A i \in 1 .. Len(f) : IsNewline(g[i]) <=> IsNewline(f[i])
    BY <1>1 DEF IsNewline
  <1>5. \A i \in 1 .. Len(g) : i > Len(f) =>
            /\ i - Len(f) \in 1 .. k
            /\ i = Len(f) + (i - Len(f))
    BY <1>1, <1>2
  <1>6. \A i \in 1 .. Len(g) : i > Len(f) =>
            /\ IsNewline(g[i]) <=> i = Len(f) + Size[e]
            /\ g[i].ev = e
    <2> SUFFICES ASSUME NEW i \in 1 .. Len(g), i > Len(f)
                 PROVE  (IsNewline(g[i]) <=> i = Len(f) + Size[e]) /\ g[i].ev = e
      OBVIOUS
    <2> DEFINE j == i - Len(f)
    <2>1. j \in 1 .. k /\ i = Len(f) + j
      BY <1>5
    <2> HIDE DEF j
    <2>2. (IsNewline(g[Len(f) + j]) <=> j = Size[e]) /\ g[Len(f) + j].ev = e
      BY <1>3, <1>a, <2>1
    <2>3. j = Size[e] <=> i = Len(f) + Size[e]
      BY <1>2, <2>1
    <2> QED BY <2>1, <2>2, <2>3
  <1>7. ASSUME k < Size[e] PROVE Entries(g) = Entries(f)
    <2>1. {j \in 1 .. Len(g) : IsNewline(g[j])} = {j \in 1 .. Len(f) : IsNewline(f[j])}
      BY <1>1, <1>2, <1>4, <1>6, <1>7
    <2> QED BY <1>1, <2>1 DEF Entries
  <1>8. ASSUME k = Size[e]
        PROVE  Entries(g) = Entries(f) \cup {[end |-> Len(f) + k, ev |-> e]}
    <2>1. {j \in 1 .. Len(g) : IsNewline(g[j])}
            = {j \in 1 .. Len(f) : IsNewline(f[j])} \cup {Len(f) + k}
      BY <1>1, <1>2, <1>4, <1>6, <1>8
    <2>2. g[Len(f) + k].ev = e
      BY <1>2, <1>8, <1>a
    <2>3. Entries(g) = {[end |-> i, ev |-> g[i].ev] :
                          i \in {j \in 1 .. Len(f) : IsNewline(f[j])} \cup {Len(f) + k}}
      BY <2>1 DEF Entries
    <2>4. \A i \in {j \in 1 .. Len(f) : IsNewline(f[j])} : g[i].ev = f[i].ev
      BY <1>1
    <2> QED BY <2>2, <2>3, <2>4 DEF Entries
  <1>9. ASSUME k = 0 PROVE g = f
    BY <1>1, <1>2, <1>9
  <1>10. ASSUME k \in 1 .. Size[e] - 1 PROVE Torn(g)
    <2>1. Len(g) \in 1 .. Len(g) /\ Len(g) > Len(f) /\ Len(g) # Len(f) + Size[e]
      BY <1>1, <1>2, <1>10
    <2>2. ~ IsNewline(g[Len(g)])
      BY <1>6, <2>1
    <2>3. g # <<>>
      BY <2>1
    <2> QED BY <2>2, <2>3 DEF Torn
  <1>11. ASSUME k = Size[e] PROVE ~ Torn(g)
    <2>1. Len(g) \in 1 .. Len(g) /\ Len(g) > Len(f) /\ Len(g) = Len(f) + Size[e]
      BY <1>1, <1>2, <1>11
    <2> QED BY <1>6, <2>1 DEF Torn
  <1> QED BY <1>7, <1>8, <1>9, <1>10, <1>11

(* The journal is an append-only log: every step is an append behind all     *)
(* earlier entries, the sealing of the log, or changes nothing a reader sees.*)
THEOREM Refinement == Spec => ImplementsLog
  <1>1. Init => Log!LogInit
    BY DEF Init, Log!LogInit, Torn
  <1>2. IInv /\ [Next]_vars => [Log!Grow \/ Log!Seal]_(Log!logVars)
    <2> SUFFICES ASSUME IInv, [Next]_vars
                 PROVE  [Log!Grow \/ Log!Seal]_(Log!logVars)
      OBVIOUS
    <2>1. ASSUME file' = file PROVE UNCHANGED Log!logVars
      BY <2>1 DEF Log!logVars, Torn, IsNewline
    <2>2. ASSUME NEW e \in Events, live, Known, NEW k \in 0 .. Size[e],
                 file' = file \o SubSeq(Line(e), 1, k)
          PROVE  [Log!Grow \/ Log!Seal]_(Log!logVars)
      <3>1. file \in Seq(ByteSet) /\ Len(file) \in Nat /\ ~ Torn(file)
        BY <2>2, AppendEndFacts DEF IInv, TypeOK, ByteSet
      <3>2. Extends(file, file', e, k)
        BY <2>2, <3>1, Extension
      <3>3. /\ k < Size[e] => Entries(file') = Entries(file)
            /\ k = Size[e] => Entries(file') = Entries(file) \cup {[end |-> Len(file) + k, ev |-> e]}
            /\ k = 0 => file' = file
            /\ k \in 1 .. Size[e] - 1 => Torn(file')
            /\ k = Size[e] => ~ Torn(file')
        BY ONLY <3>1, <3>2, e \in Events, k \in 0 .. Size[e], EntriesOfExtension
      <3>4. k \in Nat /\ Size[e] \in Nat \ {0}
        BY LineFacts
      <3>5. CASE k = 0
        BY <2>1, <3>3, <3>5
      <3>6. CASE k \in 1 .. Size[e] - 1
        <4>1. Entries(file') = Entries(file) /\ Torn(file')
          BY <3>3, <3>4, <3>6
        <4>2. Log!Seal
          BY <3>1, <4>1 DEF Log!Seal, Entries
        <4> QED BY <4>2
      <3>7. CASE k = Size[e]
        <4> DEFINE x == [end |-> Len(file) + k, ev |-> e]
        <4>1. Entries(file') = Entries(file) \cup {x} /\ ~ Torn(file')
          BY <3>3, <3>7
        <4>2. \A y \in Entries(file) : y.end < x.end
          BY <3>1, <3>4, <3>7 DEF Entries
        <4>3. x \in Entries(file') /\ x.ev = e /\ x.end \in Nat
          BY <3>1, <3>4, <4>1
        <4>4. Log!Extend(e)
          BY <4>1, <4>2, <4>3 DEF Log!Extend, Entries
        <4>5. Log!Grow
          <5>1. Torn(file)' = Torn(file)
            BY <3>1, <4>1 DEF Torn
          <5> QED BY <3>1, <4>4, <5>1 DEF Log!Grow
        <4> QED BY <4>5
      <3> QED BY <3>4, <3>5, <3>6, <3>7
    <2>3. ASSUME NEW e \in Events, AppendEvent(e)
          PROVE  [Log!Grow \/ Log!Seal]_(Log!logVars)
      <3>1. Line(e) = SubSeq(Line(e), 1, Size[e]) /\ Size[e] \in 0 .. Size[e]
        BY LineFacts
      <3>2. live /\ Known /\ file' = file \o SubSeq(Line(e), 1, Size[e])
        BY <2>3, <3>1 DEF AppendEvent
      <3> QED BY <2>2, <3>1, <3>2
    <2>4. ASSUME NEW e \in Events, AppendInterrupted(e)
          PROVE  [Log!Grow \/ Log!Seal]_(Log!logVars)
      <3>1. PICK k \in 0 .. Size[e] : file' = file \o SubSeq(Line(e), 1, k)
        BY <2>4 DEF AppendInterrupted
      <3>2. live /\ Known
        BY <2>4 DEF AppendInterrupted
      <3> QED BY <2>2, <3>1, <3>2
    <2>5. CASE UNCHANGED vars
      BY <2>1, <2>5 DEF vars
    <2>6. CASE \/ OpenProgress \/ (\E r \in {RefOf[e] : e \in Events} \ {NoRef} : Load(r))
               \/ (\E e \in Events : AppendRefused(e))
               \/ CommitProgress \/ SaveScan \/ Crash \/ JournalReport
      <3>1. file' = file
        BY <2>6 DEF OpenProgress, Load, LoadOK, LoadFails, AppendRefused, CommitProgress,
                    SaveScan, Crash, Discard, JournalReport
      <3> QED BY <2>1, <3>1
    <2> QED BY <2>3, <2>4, <2>5, <2>6 DEF Next
  <1> QED BY <1>1, <1>2, Invariance, PTL DEF Spec, ImplementsLog, Log!LogSpec
=============================================================================
