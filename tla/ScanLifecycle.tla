--------------------------- MODULE ScanLifecycle ----------------------------
(* All scans of one installation: scanStart, pruneScans, loadScan, advance   *)
(* and advanceScans of main.go, over the private files each scan owns. A     *)
(* start deletes the files of old scans and then creates its own, one after  *)
(* the other; the scheduler advances one scan at a time. The process may die *)
(* or the store fail between any two file operations, and a file that was    *)
(* being written may be left torn.                                           *)
(*                                                                           *)
(* Abstractions. Scan names are numbers in the order sort.Strings puts them; *)
(* a start makes a new incarnation of its name, and a file is known by the   *)
(* incarnation that wrote it. A step of a scan is ScanStep.tla: here it      *)
(* lowers `left` or gets nowhere. Calls are serialized (README).             *)
EXTENDS Naturals, FiniteSets, Sequences

CONSTANTS Ids,        \* scan names
          Legacy,     \* those a release before version 2 left behind
          Keep,       \* keep_scans
          Steps,      \* steps a scan needs
          MaxStarts, MaxFaults  \* bounds of the model

ASSUME IdsAssumption == Ids \subseteq Nat \ {0} /\ IsFiniteSet(Ids) /\ Legacy \subseteq Ids
ASSUME KeepAssumption ==
    /\ Keep \in Nat \ {0} /\ Steps \in Nat \ {0}
    /\ MaxStarts \in Nat /\ MaxFaults \in Nat

VARIABLES state,    \* state[i]: the marker file <i>.state.json
          journal,  \* journal[i]: <i>.v2.jsonl
          slots,    \* slots[i][k]: checkpoint file k
          left,     \* left[i]: steps the scan i still needs
          todo,     \* file operations the running start has ahead
          starts,   \* incarnations so far
          faults,
          called,   \* changes with each call of advance
          started,  \* history: incarnations whose start was acknowledged
          listedAll \* history: the last start saw all scans there were

files == <<state, journal, slots>>
history == <<started, listedAll>>
vars == <<files, left, todo, starts, faults, called, history>>

\* A file: absent or empty, torn, or whole; and who wrote it.
None == [inc |-> 0, torn |-> FALSE]
Whole(n) == [inc |-> n, torn |-> FALSE]
Torn(n) == [inc |-> n, torn |-> TRUE]
LegacyInc == 1

Init ==
    /\ state = [i \in Ids |-> IF i \in Legacy THEN Whole(LegacyInc) ELSE None]
    /\ journal = [i \in Ids |-> None]
    /\ slots = [i \in Ids |-> <<None, None>>]
    /\ left = [i \in Ids |-> IF i \in Legacy THEN Steps ELSE 0]
    /\ todo = <<>>
    /\ starts = LegacyInc /\ faults = 0 /\ called = FALSE
    /\ started = {} /\ listedAll = TRUE

-----------------------------------------------------------------------------
(* Loading                                                                   *)

\* The names that have a state file.
Listed == {i \in Ids : state[i] # None}

\* The host's list of them may be cut off, and when there is none at all
\* scanIDs takes it for an empty one.
Lists(L) ==
    \/ L = Listed /\ UNCHANGED faults
    \/ L # Listed /\ faults < MaxFaults /\ faults' = faults + 1

\* scanIDs, when the host lists the names in L: the same sorted.
ScanIds(L) ==
    CHOOSE s \in [1 .. Cardinality(L) -> L] :
        \A m, n \in DOMAIN s : m < n => s[m] < s[n]

IsLegacy(i) == state[i].inc = LegacyInc
Valid(s) == s # None /\ ~ s.torn

\* loadScan returns a scan: the marker decodes, and so does one checkpoint
\* unless none was ever written.
Loads(i) ==
    /\ Valid(state[i])
    /\ ~ IsLegacy(i) =>
        \/ \E k \in {1, 2} : Valid(slots[i][k])
        \/ slots[i] = <<None, None>>

\* The status is running or judge_unavailable.
Unfinished(i) == left[i] > 0

-----------------------------------------------------------------------------
(* Starting a scan                                                           *)

\* Mutant: one scan too many is kept.
VictimsFewer(L) == SubSeq(ScanIds(L), 1, IF Cardinality(L) > Keep THEN Cardinality(L) - Keep ELSE 0)

\* pruneScans: the first names of the list go until fewer than Keep are left.
Victims(L) ==
    SubSeq(ScanIds(L), 1, IF Cardinality(L) >= Keep THEN Cardinality(L) - Keep + 1 ELSE 0)

Op(op, i) == [op |-> op, id |-> i]
\* What goes of each victim, and in which order.
Deletions == <<"-state", "-journal", "-slot1", "-slot2">>
DeleteOps(v) ==
    [n \in 1 .. 4 * Len(v) |-> Op(Deletions[1 + ((n - 1) % 4)], v[1 + ((n - 1) \div 4)])]

\* Mutants: the checkpoint files are not emptied; the first save is left out.
CreateOpsDirty(i) == <<Op("+journal", i), Op("+state", i), Op("+save", i)>>
CreateOpsUnsaved(i) ==
    <<Op("+journal", i), Op("+slot1", i), Op("+slot2", i), Op("+state", i), Op("+done", i)>>

CreateOps(i) ==
    <<Op("+journal", i), Op("+slot1", i), Op("+slot2", i), Op("+state", i), Op("+save", i)>>

\* A name that has a state file is refused, but not surely: the error of that
\* check is ignored, and a name that got a suffix is not checked again.
ScanStart(i) ==
    /\ todo = <<>> /\ starts < MaxStarts
    /\ starts' = starts + 1
    /\ \E L \in SUBSET Listed :
        /\ Lists(L)
        /\ listedAll' = (L = Listed)
        /\ todo' = DeleteOps(Victims(L)) \o CreateOps(i)
    /\ UNCHANGED <<files, left, called, started>>

\* scanStart refuses a name whose journal is still there.
JournalExists ==
    /\ todo # <<>> /\ Head(todo).op = "+journal" /\ journal[Head(todo).id] # None
    /\ todo' = <<>>
    /\ UNCHANGED <<files, left, starts, faults, called, history>>

\* What the operation leaves when it completes, with file content f.
Effect(o, f) ==
    /\ state' = CASE o.op = "-state" -> [state EXCEPT ![o.id] = None]
                  [] o.op = "+state" -> [state EXCEPT ![o.id] = f]
                  [] OTHER -> state
    /\ journal' = CASE o.op = "-journal" -> [journal EXCEPT ![o.id] = None]
                    [] o.op = "+journal" -> [journal EXCEPT ![o.id] = f]
                    [] OTHER -> journal
    /\ slots' = CASE o.op \in {"-slot1", "+slot1"} -> [slots EXCEPT ![o.id][1] = None]
                  [] o.op \in {"-slot2", "+slot2"} -> [slots EXCEPT ![o.id][2] = None]
                  [] o.op = "+save" -> [slots EXCEPT ![o.id][1] = f]
                  [] OTHER -> slots
    /\ left' = IF o.op = "+state" THEN [left EXCEPT ![o.id] = Steps] ELSE left

Refused(o) == o.op = "+journal" /\ journal[o.id] # None

DoNext ==
    /\ todo # <<>> /\ ~ Refused(Head(todo))
    /\ Effect(Head(todo), Whole(starts))
    /\ todo' = Tail(todo)
    /\ started' = IF Tail(todo) = <<>> THEN started \cup {starts} ELSE started
    /\ UNCHANGED <<starts, faults, called, listedAll>>

\* The store fails or the process dies at the next operation: it had no
\* effect, all of it, or left a torn file.
StartFails ==
    /\ todo # <<>> /\ ~ Refused(Head(todo)) /\ faults < MaxFaults
    /\ faults' = faults + 1
    /\ \/ UNCHANGED <<files, left>>
       \/ Effect(Head(todo), Whole(starts))
       \/ Head(todo).op \in {"+state", "+save"} /\ Effect(Head(todo), Torn(starts))
    /\ todo' = <<>>
    /\ UNCHANGED <<starts, called, history>>

-----------------------------------------------------------------------------
(* Stepping a scan                                                           *)

\* stepScan gets past its refusals.
Steppable(i) == Loads(i) /\ ~ IsLegacy(i) /\ Valid(journal[i])

\* CheckpointPair.Save: the slot that is not the newest, the first if there is
\* none. Which of two whole slots is the newest is not kept here.
SaveSlots(i) ==
    LET whole == {k \in {1, 2} : Valid(slots[i][k])}
    IN  CASE whole = {} -> {1}
          [] whole = {1, 2} -> {1, 2}
          [] OTHER -> {1, 2} \ whole

Save(i) == \E k \in SaveSlots(i) : slots' = [slots EXCEPT ![i][k] = Whole(state[i].inc)]

\* A step goes on with the scan or ends it (blocked, out of storage); or it
\* gets nowhere, with an error or without: unusable rules, no judge configured,
\* a refusal, or a retry deadline that has not passed.
StepScan(i) ==
    /\ \/ \E n \in 0 .. left[i] : left' = [left EXCEPT ![i] = n] /\ Save(i)
       \/ UNCHANGED <<left, slots>>
    /\ UNCHANGED <<state, journal>>

\* The step dies: a torn journal, or a torn checkpoint.
StepFails(i) ==
    /\ faults < MaxFaults
    /\ faults' = faults + 1
    /\ \/ journal' = [journal EXCEPT ![i] = Torn(@.inc)] /\ UNCHANGED slots
       \/ \E k \in SaveSlots(i) : slots' = [slots EXCEPT ![i][k] = Torn(state[i].inc)]
          /\ UNCHANGED journal
    /\ UNCHANGED <<state, left>>

\* The scan operation's step action, by name.
Step(i) ==
    /\ todo = <<>> /\ Steppable(i) /\ Unfinished(i)
    /\ \/ StepScan(i) /\ UNCHANGED faults
       \/ StepFails(i)
    /\ UNCHANGED <<todo, starts, called, history>>


\* advanceScans goes on to the next scan only past these.
PassedOver(i) == Loads(i) /\ (~ Unfinished(i) \/ IsLegacy(i))

\* The scan the loop stops at, going through L.
Turns(L) == {i \in L : ~ PassedOver(i)}
Turn(i, L) == i \in Turns(L) /\ \A j \in Turns(L) : i <= j

\* One call of advance. It ends at the first scan it cannot load, with the
\* step of the first unfinished one, or at the end of the list.
AdvanceScans ==
    /\ todo = <<>>
    /\ called' = ~ called
    /\ \E L \in SUBSET Listed :
        /\ Lists(L)
        /\ \/ \E i \in L : Turn(i, L) /\ Steppable(i) /\ StepScan(i)
           \/ (~ \E i \in L : Turn(i, L) /\ Steppable(i)) /\ UNCHANGED <<files, left>>
    /\ UNCHANGED <<todo, starts, history>>

AdvanceFails ==
    /\ todo = <<>>
    /\ \E i \in Listed : Turn(i, Listed) /\ Steppable(i) /\ StepFails(i)
    /\ UNCHANGED <<todo, starts, called, history>>

Next ==
    \/ \E i \in Ids : ScanStart(i) \/ Step(i)
    \/ JournalExists \/ DoNext \/ StartFails
    \/ AdvanceScans \/ AdvanceFails

Spec == Init /\ [][Next]_vars

(* The host calls advance on its schedule, and a started operation runs on.  *)
(* Nobody has to start scans or to step them by hand, and no step has to get *)
(* anywhere.                                                                 *)
FairSpec == Spec /\ WF_vars(DoNext \/ JournalExists) /\ WF_vars(AdvanceScans)

-----------------------------------------------------------------------------
(* A name that is used again never gets a checkpoint or a journal of an      *)
(* earlier scan of that name: whatever a start or a prune that was cut short *)
(* left behind, a loaded scan is all of one incarnation.                     *)
OneIncarnation ==
    \A i \in Ids : Loads(i) /\ ~ IsLegacy(i) =>
        /\ journal[i].inc = state[i].inc
        /\ \A k \in {1, 2} : slots[i][k].inc \in {0, state[i].inc}

(* A scan whose start was acknowledged can be loaded until it is pruned,     *)
(* whatever fails afterwards.                                                *)
StartedLoads ==
    \A i \in Ids : state[i].inc \in started => Loads(i)

(* A start that sees all the scans there are never makes them more than      *)
(* keep_scans, wherever it is cut short, and when it is acknowledged no more *)
(* are kept, however many a lowered setting or starts that saw less had      *)
(* left. A start that could not list them deletes nothing and adds one.      *)
KeepsAtMost ==
    [][listedAll =>
        /\ Cardinality(Listed') <= Cardinality(Listed) \/ Cardinality(Listed') <= Keep
        /\ started' # started => Cardinality(Listed') <= Keep]_vars

Stuck == {i \in Turns(Listed) : ~ Steppable(i)}

\* The scheduler's calls go to the sound, unfinished scan i.
Held(i) == Turn(i, Listed) /\ Steppable(i) /\ Unfinished(i)


(* A started scan advances by itself until it is finished or pruned, unless  *)
(* its own files are damaged, or a step that gets nowhere, its own or that   *)
(* of another sound scan, is all the scheduler ever makes.                   *)
AdvancesByItself ==
    \A i \in Ids : (state[i].inc \in started /\ Unfinished(i))
                       ~> (~ Unfinished(i) \/ ~ Steppable(i) \/ \E j \in Ids : []Held(j))
=============================================================================
