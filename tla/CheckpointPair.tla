--------------------------- MODULE CheckpointPair ---------------------------
(* cq/checkpoint.go: a cursor kept in two files written in turn. Each file   *)
(* holds an envelope with a generation, the digest of the state and the      *)
(* state itself. Save reads both files, adds one to the newest generation    *)
(* and overwrites the file that is not the newest; Load returns the newest   *)
(* one that decodes. A write may stop anywhere: nothing reached the file, it *)
(* was truncated, a prefix is there, or all of it is and the caller still    *)
(* saw an error.                                                             *)
(*                                                                           *)
(* An envelope is abstracted to whether it decodes and, when it does, to its *)
(* generation and state; a digest that does not match and JSON that does not *)
(* parse are the same case, "corrupt". Writers are serialized (README).      *)
EXTENDS Naturals

CONSTANTS States,    \* cursors the scan may save
          Oversize,  \* those whose envelope exceeds CheckpointBytes
          None,      \* "no cursor was ever saved"
          MaxGen     \* the largest generation: ^uint64(0) in the code

ASSUME StatesAssumption == None \notin States /\ Oversize \subseteq States
ASSUME MaxGenAssumption == MaxGen \in Nat \ {0}

Slots == {0, 1}
NoSlot == 2          \* slot := -1 in the code

\* A file of the pair: scanStart creates both empty.
Empty == [kind |-> "empty", gen |-> 0, state |-> None]
Corrupt == [kind |-> "corrupt", gen |-> 0, state |-> None]
Envelope(g, s) == [kind |-> "valid", gen |-> g, state |-> s]

Files == {Empty, Corrupt} \cup
         [kind : {"valid"}, gen : 1 .. MaxGen, state : States]

VARIABLES files,   \* the two files on disk
          got,     \* what the last operation returned
          acked,   \* history: the last state a Save acknowledged
          tried    \* history: states of Saves interrupted since then

vars == <<files, got, acked, tried>>

-----------------------------------------------------------------------------
(* CheckpointPair.read                                                       *)

Valid(f, i) == f[i].kind = "valid"

\* Mutant: the comparison of generations is turned around.
BestSlotOldest(f) ==
    IF ~ Valid(f, 0) /\ ~ Valid(f, 1) THEN NoSlot
    ELSE IF Valid(f, 0) /\ (Valid(f, 1) => f[0].gen <= f[1].gen) THEN 0
    ELSE 1

\* The newest valid slot; on a tie the first one, as the loop compares with >.
BestSlot(f) ==
    IF ~ Valid(f, 0) /\ ~ Valid(f, 1) THEN NoSlot
    ELSE IF Valid(f, 0) /\ (Valid(f, 1) => f[0].gen >= f[1].gen) THEN 0
    ELSE 1

\* read() fails with ErrCheckpointCorrupt: nothing decodes, something is there.
Unreadable(f) ==
    /\ BestSlot(f) = NoSlot
    /\ \E i \in Slots : f[i].kind = "corrupt"

BestGen(f) == IF BestSlot(f) = NoSlot THEN 0 ELSE f[BestSlot(f)].gen
BestState(f) == IF BestSlot(f) = NoSlot THEN None ELSE f[BestSlot(f)].state

\* Mutant: Save overwrites the newest slot.
TargetNewest(f) == IF BestSlot(f) = 1 THEN 1 ELSE 0

\* The slot Save overwrites.
Target(f) == IF BestSlot(f) = 0 THEN 1 ELSE 0

-----------------------------------------------------------------------------
Init ==
    /\ files = [i \in Slots |-> Empty]
    /\ got = <<"idle">>
    /\ acked = None
    /\ tried = {}

\* Load when both files can be read from the store.
Load ==
    /\ got' = IF Unreadable(files) THEN <<"corrupt">>
              ELSE <<"loaded", BestState(files)>>
    /\ UNCHANGED <<files, acked, tried>>

\* Load or Save when the store fails to read a file: nothing is written.
ReadFails ==
    /\ got' = <<"error">>
    /\ UNCHANGED <<files, acked, tried>>

\* Save's early returns, in the code's order.
SaveRefused(s) ==
    /\ \/ Unreadable(files) /\ got' = <<"corrupt">>
       \/ /\ ~ Unreadable(files)
          /\ BestGen(files) = MaxGen \/ s \in Oversize
          /\ got' = <<"full">>
    /\ UNCHANGED <<files, acked, tried>>

CanSave(s) ==
    /\ ~ Unreadable(files)
    /\ BestGen(files) < MaxGen
    /\ s \notin Oversize

Next1(s) == Envelope(BestGen(files) + 1, s)

Save(s) ==
    /\ CanSave(s)
    /\ files' = [files EXCEPT ![Target(files)] = Next1(s)]
    /\ got' = <<"saved", s>>
    /\ acked' = s
    /\ tried' = {}

\* Store.Write fails, or the process dies in it: the target file keeps its
\* content, is left truncated, holds a prefix, or holds the whole envelope.
SaveInterrupted(s) ==
    /\ CanSave(s)
    /\ \E left \in {files[Target(files)], Empty, Corrupt, Next1(s)} :
          files' = [files EXCEPT ![Target(files)] = left]
    /\ got' = <<"error">>
    /\ tried' = tried \cup {s}
    /\ UNCHANGED acked

Next ==
    \/ Load
    \/ ReadFails
    \/ \E s \in States : SaveRefused(s) \/ Save(s) \/ SaveInterrupted(s)

Spec == Init /\ [][Next]_vars

-----------------------------------------------------------------------------
(* Type correctness: each file is empty, undecodable or a whole envelope.    *)
TypeOK ==
    /\ files \in [Slots -> Files]
    /\ got \in {<<"idle">>, <<"error">>, <<"corrupt">>, <<"full">>}
               \cup {<<"saved", s>> : s \in States}
               \cup {<<"loaded", s>> : s \in States \cup {None}}
    /\ acked \in States \cup {None}
    /\ tried \subseteq States

(* No checkpoint is lost: after any Save was acknowledged, whatever later    *)
(* Saves were cut short, Load finds a cursor, and it is the acknowledged one *)
(* or one of those written after it - never an older one.                    *)
AckedSurvives ==
    acked # None =>
        /\ ~ Unreadable(files)
        /\ BestState(files) \in {acked} \cup tried

(* Two envelopes on disk never carry the same generation, so "newest" in     *)
(* read() is never decided by the order of the paths.                        *)
GenerationsDiffer ==
    Valid(files, 0) /\ Valid(files, 1) => files[0].gen # files[1].gen

(* The newest generation never goes back, and Save never opens for writing   *)
(* the file Load would return: a torn write costs only the older copy.       *)
NewestUntouched ==
    [][/\ BestGen(files') >= BestGen(files)
       /\ BestSlot(files) # NoSlot =>
            files'[BestSlot(files)] = files[BestSlot(files)]]_vars

-----------------------------------------------------------------------------
(* The pair is one durable cell: the cell's value is the state read() picks. *)
Cell == INSTANCE DurableCell WITH
    cell <- BestState(files),
    written <- (acked # None),
    got <- got

(* Every behaviour of the two files is one of a single durable cell.         *)
ImplementsCell == Cell!CellSpec
=============================================================================
