----------------------- MODULE CheckpointPair_proofs ------------------------
(* Proofs about cq/checkpoint.go for every set of cursors and every width of *)
(* the generation counter. AckedSurvives is not inductive alone: a later     *)
(* Save must not find the acknowledged envelope in the slot it overwrites,   *)
(* which is so because an unreadable pair was never acknowledged and the     *)
(* envelope read() picks is the newest, hence IInv.                          *)
EXTENDS CheckpointPair, TLAPS

IInv == TypeOK /\ AckedSurvives /\ GenerationsDiffer

(* read() never returns a slot that does not decode, and the slot Save       *)
(* overwrites is never the one it returned.                                  *)
LEMMA BestSlotFacts ==
    ASSUME NEW f \in [Slots -> Files]
    PROVE  /\ BestSlot(f) \in {0, 1, NoSlot}
           /\ BestSlot(f) # NoSlot => Valid(f, BestSlot(f))
           /\ Target(f) \in Slots
           /\ Target(f) # BestSlot(f)
           /\ BestSlot(f) = NoSlot => ~ Valid(f, 0) /\ ~ Valid(f, 1)
           /\ BestGen(f) \in 0 .. MaxGen
           /\ BestState(f) \in States \cup {None}
           /\ BestSlot(f) # NoSlot => BestState(f) \in States
           /\ \A i \in Slots : Valid(f, i) => f[i].gen <= BestGen(f)
  BY MaxGenAssumption
     DEF BestSlot, BestGen, BestState, Target, Valid, Slots, NoSlot, Files,
         Empty, Corrupt

(* What a write into the target slot does, whether it completed or not: a    *)
(* whole envelope becomes the newest, anything else leaves the newest alone. *)
LEMMA WriteFacts ==
    ASSUME NEW f \in [Slots -> Files], NEW s \in States,
           BestGen(f) < MaxGen,
           NEW left \in {f[Target(f)], Empty, Corrupt, Envelope(BestGen(f) + 1, s)},
           NEW g \in [Slots -> Files],
           g[Target(f)] = left,
           \A i \in Slots : i # Target(f) => g[i] = f[i]
    PROVE  /\ left = Envelope(BestGen(f) + 1, s)
                => BestState(g) = s /\ BestGen(g) = BestGen(f) + 1
                   /\ BestSlot(g) # NoSlot
           /\ left # Envelope(BestGen(f) + 1, s)
                => BestState(g) = BestState(f) /\ BestGen(g) = BestGen(f)
                   /\ BestSlot(g) = BestSlot(f)
           /\ BestSlot(f) # NoSlot => g[BestSlot(f)] = f[BestSlot(f)]
  <1>1. Target(f) \in Slots /\ Target(f) # BestSlot(f)
    BY BestSlotFacts
  <1>4. ASSUME left = Envelope(BestGen(f) + 1, s)
        PROVE  BestState(g) = s /\ BestGen(g) = BestGen(f) + 1 /\ BestSlot(g) # NoSlot
    <2> DEFINE t == Target(f)  o == 1 - Target(f)
    <2>1. t \in {0, 1} /\ o \in {0, 1} /\ t # o
      BY <1>1 DEF Slots
    <2>2. g[t] = left /\ g[o] = f[o]
      BY <1>1, <2>1 DEF Slots
    <2>3. Valid(g, t) /\ g[t].gen = BestGen(f) + 1 /\ g[t].state = s
      BY <1>4, <2>2 DEF Valid, Envelope
    <2>4. Valid(g, o) => g[o].gen <= BestGen(f)
      BY <2>1, <2>2, BestSlotFacts DEF Valid, Slots
    <2>5. BestGen(f) \in Nat
      BY BestSlotFacts, MaxGenAssumption
    <2>6. Valid(g, o) => g[o].gen \in Nat
      BY <2>1, <2>2 DEF Valid, Slots, Files, Empty, Corrupt
    <2>7. BestSlot(g) = t
      <3>1. CASE t = 0
        BY <3>1, <2>3, <2>4, <2>5, <2>6 DEF BestSlot
      <3>2. CASE t = 1
        BY <3>2, <2>3, <2>4, <2>5, <2>6 DEF BestSlot
      <3> QED BY <2>1, <3>1, <3>2
    <2> QED BY <2>1, <2>3, <2>7 DEF BestState, BestGen, NoSlot
  <1>5. ASSUME left # Envelope(BestGen(f) + 1, s)
        PROVE  BestState(g) = BestState(f) /\ BestGen(g) = BestGen(f)
               /\ BestSlot(g) = BestSlot(f)
    <2>1. CASE left = f[Target(f)]
      <3>1. \A i \in Slots : g[i] = f[i]
        BY <2>1, <1>1
      <3>2. g = f
        BY <3>1
      <3> QED BY <3>2
    <2>2. CASE left \in {Empty, Corrupt}
      BY <1>1, <2>2
         DEF BestSlot, BestState, BestGen, Target, Valid, Slots, NoSlot, Empty, Corrupt, Files
    <2> QED BY <2>1, <2>2, <1>5
  <1>6. BestSlot(f) # NoSlot => g[BestSlot(f)] = f[BestSlot(f)]
    BY <1>1, BestSlotFacts DEF Slots
  <1> QED BY <1>4, <1>5, <1>6

-----------------------------------------------------------------------------
(* Every reachable pair is well typed, every acknowledged Save survives, and *)
(* no two envelopes share a generation.                                      *)
THEOREM Invariance == Spec => []IInv
  <1>1. Init => IInv
    BY DEF Init, IInv, TypeOK, AckedSurvives, GenerationsDiffer, Files, Empty,
           Slots, Valid, Unreadable
  <1>2. IInv /\ [Next]_vars => IInv'
    <2> SUFFICES ASSUME IInv, [Next]_vars PROVE IInv'
      OBVIOUS
    <2> USE DEF IInv
    <2>0. files \in [Slots -> Files] /\ BestGen(files) \in 0 .. MaxGen
      BY BestSlotFacts DEF TypeOK
    <2>1. CASE UNCHANGED vars
      BY <2>1 DEF vars, TypeOK, AckedSurvives, GenerationsDiffer, Valid, Unreadable,
                  BestState, BestSlot
    <2>2. CASE Load
      <3>1. BestState(files) \in States \cup {None}
        BY <2>0, BestSlotFacts
      <3> QED
        BY <2>2, <3>1 DEF Load, TypeOK, AckedSurvives, GenerationsDiffer, Valid,
                          Unreadable, BestState, BestSlot
    <2>3. CASE ReadFails
      BY <2>3 DEF ReadFails, TypeOK, AckedSurvives, GenerationsDiffer, Valid,
                  Unreadable, BestState, BestSlot
    <2>4. ASSUME NEW s \in States, SaveRefused(s) PROVE IInv'
      BY <2>4 DEF SaveRefused, TypeOK, AckedSurvives, GenerationsDiffer, Valid,
                  Unreadable, BestState, BestSlot
    <2>5. ASSUME NEW s \in States, NEW left \in {files[Target(files)], Empty, Corrupt, Next1(s)},
                 CanSave(s), files' = [files EXCEPT ![Target(files)] = left]
          PROVE  /\ files' \in [Slots -> Files]
                 /\ GenerationsDiffer'
                 /\ left = Next1(s) => BestState(files') = s /\ BestSlot(files') # NoSlot
                 /\ left # Next1(s) => BestState(files') = BestState(files)
                                       /\ BestSlot(files') = BestSlot(files)
      <3>1. /\ files' \in [Slots -> Files]
            /\ left = Next1(s) => BestState(files') = s /\ BestSlot(files') # NoSlot
            /\ left # Next1(s) => BestState(files') = BestState(files)
                                  /\ BestSlot(files') = BestSlot(files)
        <4>1. Next1(s) = Envelope(BestGen(files) + 1, s)
          BY DEF Next1
        <4>2. Target(files) \in Slots /\ BestGen(files) < MaxGen
          BY <2>0, <2>5, BestSlotFacts DEF CanSave
        <4>3. left \in Files
          BY <2>0, <2>5, <4>2, MaxGenAssumption DEF Next1, Envelope, Files
        <4>4. /\ files' \in [Slots -> Files]
              /\ files'[Target(files)] = left
              /\ \A i \in Slots : i # Target(files) => files'[i] = files[i]
          BY <2>0, <2>5, <4>2, <4>3
        <4>5. left \in {files[Target(files)], Empty, Corrupt, Envelope(BestGen(files) + 1, s)}
          BY <2>5, <4>1
        <4>6. /\ left = Envelope(BestGen(files) + 1, s)
                   => BestState(files') = s /\ BestSlot(files') # NoSlot
              /\ left # Envelope(BestGen(files) + 1, s)
                   => BestState(files') = BestState(files) /\ BestSlot(files') = BestSlot(files)
          BY ONLY <2>0, <4>2, <4>4, <4>5, s \in States, WriteFacts
        <4> QED BY <4>1, <4>4, <4>6
      <3>2. GenerationsDiffer'
        <4> DEFINE t == Target(files)  o == 1 - Target(files)
        <4>1. t \in {0, 1} /\ o \in {0, 1} /\ t # o
          BY <2>0, BestSlotFacts DEF Slots
        <4>2. files'[t] = left /\ files'[o] = files[o]
          BY <2>0, <2>5, <4>1 DEF Slots
        <4>3. Valid(files, o) => files[o].gen <= BestGen(files)
          BY <2>0, <4>1, BestSlotFacts DEF Slots
        <4>4. CASE left = Next1(s)
          <5>1. files'[t].gen = BestGen(files) + 1
            BY <4>2, <4>4 DEF Next1, Envelope
          <5>2. Valid(files', o) => files'[o].gen \in Nat /\ files'[o].gen <= BestGen(files)
            BY <2>0, <4>1, <4>2, <4>3, MaxGenAssumption DEF Valid, Slots, Files, Empty, Corrupt
          <5> QED BY <2>0, <4>1, <5>1, <5>2, MaxGenAssumption DEF GenerationsDiffer, Valid
        <4>5. CASE left = files[t]
          BY <4>1, <4>2, <4>5 DEF GenerationsDiffer, Valid
        <4>6. CASE left \in {Empty, Corrupt}
          <5>1. ~ Valid(files', t)
            BY <4>2, <4>6 DEF Valid, Empty, Corrupt
          <5> QED BY <4>1, <5>1 DEF GenerationsDiffer, Valid
        <4> QED BY <2>5, <4>4, <4>5, <4>6
      <3> QED BY <3>1, <3>2
    <2>6. ASSUME NEW s \in States, Save(s) PROVE IInv'
      <3>1. CanSave(s) /\ files' = [files EXCEPT ![Target(files)] = Next1(s)]
        BY <2>6 DEF Save
      <3>2. /\ files' \in [Slots -> Files] /\ GenerationsDiffer'
            /\ BestState(files') = s /\ BestSlot(files') # NoSlot
        BY <3>1, <2>5
      <3>3. AckedSurvives'
        BY <2>6, <3>2 DEF Save, AckedSurvives, Unreadable
      <3> QED BY <2>6, <3>2, <3>3 DEF Save, TypeOK
    <2>7. ASSUME NEW s \in States, SaveInterrupted(s) PROVE IInv'
      <3>1. PICK left \in {files[Target(files)], Empty, Corrupt, Next1(s)} :
               files' = [files EXCEPT ![Target(files)] = left]
        BY <2>7 DEF SaveInterrupted
      <3>2. /\ files' \in [Slots -> Files] /\ GenerationsDiffer'
            /\ left = Next1(s) => BestState(files') = s /\ BestSlot(files') # NoSlot
            /\ left # Next1(s) => BestState(files') = BestState(files)
                                  /\ BestSlot(files') = BestSlot(files)
        BY <2>5, <2>7, <3>1 DEF SaveInterrupted
      <3>3. acked # None => BestSlot(files) # NoSlot
        BY <2>0, BestSlotFacts, StatesAssumption
           DEF AckedSurvives, TypeOK, BestState
      <3>4. AckedSurvives'
        BY <2>7, <3>2, <3>3 DEF SaveInterrupted, AckedSurvives, Unreadable
      <3> QED BY <2>7, <3>2, <3>4 DEF SaveInterrupted, TypeOK
    <2> QED BY <2>1, <2>2, <2>3, <2>4, <2>6, <2>7 DEF Next
  <1> QED BY <1>1, <1>2, PTL DEF Spec

(* After an acknowledged Save, Load finds that cursor or a later one,        *)
(* whatever writes were torn in between.                                     *)
THEOREM AckedSurvivesAlways == Spec => []AckedSurvives
  <1>1. IInv => AckedSurvives
    BY DEF IInv
  <1> QED BY <1>1, Invariance, PTL

(* Save never opens for writing the file Load would return, and the newest   *)
(* generation never goes back.                                               *)
THEOREM NewestUntouchedAlways == Spec => NewestUntouched
  <1> DEFINE Untouched == /\ BestGen(files') >= BestGen(files)
                          /\ BestSlot(files) # NoSlot =>
                               files'[BestSlot(files)] = files[BestSlot(files)]
  <1>1. IInv /\ IInv' /\ [Next]_vars => [Untouched]_vars
    <2> SUFFICES ASSUME IInv, IInv', Next PROVE Untouched
      OBVIOUS
    <2>0. /\ files \in [Slots -> Files] /\ files' \in [Slots -> Files]
          /\ BestGen(files) \in 0 .. MaxGen
          /\ Target(files) \in Slots /\ Target(files) # BestSlot(files)
          /\ BestSlot(files) \in {0, 1, NoSlot}
      BY BestSlotFacts DEF IInv, TypeOK
    <2>1. ASSUME files' = files PROVE Untouched
      BY <2>0, <2>1, MaxGenAssumption
    <2>2. ASSUME NEW s \in States, CanSave(s),
                 NEW left \in {files[Target(files)], Empty, Corrupt, Next1(s)},
                 files' = [files EXCEPT ![Target(files)] = left]
          PROVE  Untouched
      <3>1. /\ files'[Target(files)] = left
            /\ \A i \in Slots : i # Target(files) => files'[i] = files[i]
        BY <2>0, <2>2
      <3>2. left \in {files[Target(files)], Empty, Corrupt, Envelope(BestGen(files) + 1, s)}
        BY <2>2 DEF Next1
      <3>3. BestGen(files) < MaxGen
        BY <2>2 DEF CanSave
      <3>4. /\ left = Envelope(BestGen(files) + 1, s) => BestGen(files') = BestGen(files) + 1
            /\ left # Envelope(BestGen(files) + 1, s) => BestGen(files') = BestGen(files)
            /\ BestSlot(files) # NoSlot =>
                 files'[BestSlot(files)] = files[BestSlot(files)]
        BY ONLY <2>0, <3>1, <3>2, <3>3, s \in States, WriteFacts
      <3> QED BY <2>0, <3>4, MaxGenAssumption
    <2>3. CASE Load \/ ReadFails \/ \E s \in States : SaveRefused(s)
      BY <2>1, <2>3 DEF Load, ReadFails, SaveRefused
    <2>4. CASE \E s \in States : Save(s)
      <3>1. PICK s \in States : CanSave(s) /\ files' = [files EXCEPT ![Target(files)] = Next1(s)]
        BY <2>4 DEF Save
      <3> QED BY <2>2, <3>1
    <2>5. CASE \E s \in States : SaveInterrupted(s)
      <3>1. PICK s \in States : SaveInterrupted(s)
        BY <2>5
      <3>2. PICK left \in {files[Target(files)], Empty, Corrupt, Next1(s)} :
               files' = [files EXCEPT ![Target(files)] = left]
        BY <3>1 DEF SaveInterrupted
      <3>3. CanSave(s)
        BY <3>1 DEF SaveInterrupted
      <3> QED BY <2>2, <3>2, <3>3
    <2> QED BY <2>3, <2>4, <2>5 DEF Next
  <1>2. Spec => [][Next]_vars
    BY PTL DEF Spec
  <1> QED BY <1>1, <1>2, Invariance, PTL DEF NewestUntouched

(* The pair implements a single durable cell: its initial state is an empty  *)
(* cell, and every operation on the files is an operation on the cell.       *)
THEOREM Refinement == Spec => ImplementsCell
  <1>1. Init => Cell!CellInit
    BY DEF Init, Cell!CellInit, BestState, BestSlot, Valid, Empty, Slots
  <1>2. IInv /\ IInv' /\ [Next]_vars => [Cell!CellNext]_(Cell!cellVars)
    <2> SUFFICES ASSUME IInv, IInv', [Next]_vars
                 PROVE  [Cell!CellNext]_(Cell!cellVars)
      OBVIOUS
    <2>0. /\ files \in [Slots -> Files]
          /\ Target(files) \in Slots /\ Target(files) # BestSlot(files)
          /\ BestGen(files) \in 0 .. MaxGen
      BY BestSlotFacts DEF IInv, TypeOK
    <2>1. CASE UNCHANGED vars
      BY <2>1 DEF vars, Cell!cellVars, BestState, BestSlot, Valid
    <2>2. CASE Load
      <3>1. CASE Unreadable(files)
        <4>1. acked = None
          BY <3>1 DEF IInv, AckedSurvives
        <4>2. Cell!Fetch
          BY <2>2, <3>1, <4>1 DEF Load, Cell!Fetch, BestState, BestSlot, Valid
        <4> QED BY <4>2 DEF Cell!CellNext
      <3>2. CASE ~ Unreadable(files)
        <4>1. Cell!Fetch
          BY <2>2, <3>2 DEF Load, Cell!Fetch, BestState, BestSlot, Valid
        <4> QED BY <4>1 DEF Cell!CellNext
      <3> QED BY <3>1, <3>2
    <2>3. CASE ReadFails
      <3>1. Cell!Fetch
        BY <2>3 DEF ReadFails, Cell!Fetch, BestState, BestSlot, Valid
      <3> QED BY <3>1 DEF Cell!CellNext
    <2>4. ASSUME NEW s \in States, SaveRefused(s) PROVE Cell!StoreRefused
      <3>1. Unreadable(files) => acked = None
        BY DEF IInv, AckedSurvives
      <3>2. got' \in {<<"full">>, <<"corrupt">>} /\ (got' = <<"corrupt">> => acked = None)
        BY <2>4, <3>1 DEF SaveRefused
      <3> QED
        BY <2>4, <3>2 DEF SaveRefused, Cell!StoreRefused, BestState, BestSlot, Valid
    <2>5. ASSUME NEW s \in States, CanSave(s),
                 NEW left \in {files[Target(files)], Empty, Corrupt, Next1(s)},
                 files' = [files EXCEPT ![Target(files)] = left]
          PROVE  /\ left = Next1(s) => BestState(files') = s
                 /\ left # Next1(s) => BestState(files') = BestState(files)
      <3>1. /\ files'[Target(files)] = left
            /\ files' \in [Slots -> Files]
            /\ \A i \in Slots : i # Target(files) => files'[i] = files[i]
        BY <2>0, <2>5 DEF IInv, TypeOK
      <3>2. Next1(s) = Envelope(BestGen(files) + 1, s)
        BY DEF Next1
      <3>3. left \in {files[Target(files)], Empty, Corrupt, Envelope(BestGen(files) + 1, s)}
        BY <2>5, <3>2
      <3>4. BestGen(files) < MaxGen
        BY <2>5 DEF CanSave
      <3>5. /\ left = Envelope(BestGen(files) + 1, s) => BestState(files') = s
            /\ left # Envelope(BestGen(files) + 1, s) => BestState(files') = BestState(files)
        BY ONLY <2>0, <3>1, <3>3, <3>4, s \in States, WriteFacts
      <3> QED BY <3>2, <3>5
    <2>6. ASSUME NEW s \in States, Save(s) PROVE Cell!StoreAcked(s)
      <3>1. CanSave(s) /\ files' = [files EXCEPT ![Target(files)] = Next1(s)]
        BY <2>6 DEF Save
      <3>2. BestState(files') = s
        BY <2>5, <3>1
      <3>3. s # None
        BY StatesAssumption
      <3> QED BY <2>6, <3>2, <3>3 DEF Save, Cell!StoreAcked
    <2>7. ASSUME NEW s \in States, SaveInterrupted(s) PROVE Cell!StoreInterrupted(s)
      <3>1. PICK left \in {files[Target(files)], Empty, Corrupt, Next1(s)} :
               files' = [files EXCEPT ![Target(files)] = left]
        BY <2>7 DEF SaveInterrupted
      <3>2. CanSave(s)
        BY <2>7 DEF SaveInterrupted
      <3>3. BestState(files') \in {BestState(files), s}
        BY <2>5, <3>1, <3>2
      <3> QED BY <2>7, <3>3 DEF SaveInterrupted, Cell!StoreInterrupted
    <2> QED
      BY <2>1, <2>2, <2>3, <2>4, <2>6, <2>7 DEF Next, Cell!CellNext
  <1>3. Spec => Init /\ [][Next]_vars
    BY PTL DEF Spec
  <1> QED BY <1>1, <1>2, <1>3, Invariance, PTL DEF ImplementsCell, Cell!CellSpec
=============================================================================
