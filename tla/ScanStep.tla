------------------------------ MODULE ScanStep ------------------------------
(* One scan, advanced step by step: stepScan and saveScan in main.go, Step   *)
(* and file in cq/walk.go, JudgeTextProgress in cq/pipeline.go, with         *)
(* persistRuntime of scan_judge.go. A step loads the durable cursor, walks   *)
(* the tree depth first, asks the judge about one battery of one file at a   *)
(* time, appends every answer and every coverage event to the journal as it  *)
(* goes, and saves the cursor once at its end. The process may die, and a    *)
(* store call may fail or be cut short, between any two of these.            *)
(*                                                                           *)
(* Abstractions. A journal offset counts events (Journal.tla has the bytes); *)
(* the checkpoint pair is the durable cell of DurableCell.tla; a source      *)
(* digest is the version of the file; a record is known by file, digest,     *)
(* battery and whether its checklist was answered; the runtime state of the  *)
(* judge is whether requests may be sent ("ok"), must wait, or are blocked.  *)
EXTENDS Naturals, Sequences, FiniteSets, SequencesExt

CONSTANTS Dirs, Files, Root,
          SubDirs,     \* SubDirs[d]: the directories walked in d, by name
          FilesIn,     \* FilesIn[d]: the files in d, by name
          Barred,      \* Barred[d]: symlinks and excluded directories in d
          Batteries,   \* Batteries[f]: batteries of f; 0 when a rule skips f
          Findings,    \* files whose first battery has faults to locate
          Estimate,    \* EstimatedCallsAt of the file's size
          MaxFiles,    \* what max_files a scan may be started with
          MaxExamined, MaxCalls, RetryCalls,
          CursorCap,   \* directories and files a checkpoint can hold
          JournalCap,  \* events the journal can hold
          Outcomes,    \* what the judge may do besides answering
          MaxFaults, MaxEdits, MaxMisses  \* bounds of the model

AllOutcomes == {"partial", "unavailable", "exhausted", "invalid", "auth", "denied"}

ASSUME OutcomesAssumption == Outcomes \subseteq AllOutcomes
ASSUME BudgetAssumption ==
    /\ MaxFiles \cup {MaxExamined, MaxCalls, RetryCalls} \subseteq Nat \ {0}
    /\ {CursorCap, JournalCap, MaxFaults, MaxEdits, MaxMisses} \subseteq Nat
ASSUME ListingAssumption ==
    /\ Root \in Dirs
    /\ SubDirs \in [Dirs -> Seq(Dirs)] /\ FilesIn \in [Dirs -> Seq(Files)]
    /\ \A d \in Dirs : Barred[d] \in Seq(ToSet(Barred[d]))
    /\ IsFiniteSet(Files) /\ Batteries \in [Files -> Nat] /\ Estimate \in [Files -> Nat]

VARIABLES journal,  \* events on disk
          torn,     \* the journal ends in a part of a line
          disk,     \* the cursor the checkpoint pair holds
          src,      \* src[f]: the version of f's content
          unusable, \* directories that cannot be listed or whose rules cannot be read
          pc,       \* where the running step is
          mem,      \* the cursor in memory (the *Scan)
          step,     \* the rest of the step's local state
          job,      \* the file under assessment
          faults, edits, misses  \* how much of each bound is used

durable == <<journal, torn, disk>>
world == <<src, unusable>>
local == <<pc, mem, step, job>>
bounds == <<faults, edits, misses>>
vars == <<durable, world, local, bounds>>

-----------------------------------------------------------------------------
(* Events                                                                    *)

RecordOf(f, d, b, ok) == [t |-> "record", ref |-> f, dig |-> d, b |-> b, ok |-> ok]
CoverFile(f, d, disp) == [t |-> "file", ref |-> f, dig |-> d, disp |-> disp]
Boundary(ref, why) == [t |-> "subtree", ref |-> ref, why |-> why]

Closing == {"complete", "unknown", "excluded", "stale"}

\* JournalProgress.Load: records of f after the step's offset.
Seen(f) == {i \in step.base + 1 .. Len(journal) :
                journal[i].t = "record" /\ journal[i].ref = f}
DigestsSeen(f) == {journal[i].dig : i \in Seen(f)}

\* DeduplicateRecords keeps the last version of a record; the batteries whose
\* kept version is answered need no request.
AnsweredPrior(f, d) ==
    {b \in 1 .. Batteries[f] :
        \E i \in Seen(f) :
            /\ journal[i] = RecordOf(f, d, b, TRUE)
            /\ \A j \in Seen(f) : j > i => journal[j] # RecordOf(f, d, b, FALSE)}

-----------------------------------------------------------------------------
(* The cursor                                                                *)

NewScan(max) == [stack |-> <<Root>>, dir |-> Root, pending |-> <<>>, status |-> "running",
                 offset |-> 0, max |-> max, seen |-> 0, judged |-> 0, skipped |-> 0,
                 listed |-> 0, runtime |-> "ok"]

NoScan == NewScan(0)

NoStep == [base |-> 0, end |-> 0, calls |-> 0, left |-> 0, examined |-> 0,
           loaded |-> FALSE, runtime |-> "ok", err |-> "none"]
NoJob == [f |-> "none", dig |-> 0, prior |-> {}, b |-> 0, ok |-> FALSE, err |-> "none"]

\* Mutant: a scan whose judge failed is not taken up again.
UnfinishedRunning == {"running"}

Unfinished == {"running", "judge_unavailable"}

\* What the step's calls are bounded by: stepCalls.
StepCalls(status) == IF status = "judge_unavailable" THEN RetryCalls ELSE MaxCalls

Init ==
    /\ journal = <<>> /\ torn = FALSE
    /\ \E n \in MaxFiles : disk = NewScan(n)
    /\ src = [f \in Files |-> 1] /\ unusable = {}
    /\ pc = "idle" /\ mem = NoScan /\ step = NoStep /\ job = NoJob
    /\ faults = 0 /\ edits = 0 /\ misses = 0

-----------------------------------------------------------------------------
(* Appending to the journal. Emit(es, m, s) appends the events es and goes   *)
(* on with cursor m and step state s.                                        *)

Emitted(es) == /\ Len(journal) + Len(es) <= JournalCap
               /\ journal' = journal \o es
               /\ UNCHANGED <<torn, disk, bounds>>

Stop(err, m) == /\ pc' = "save"
                /\ mem' = m
                /\ step' = [step EXCEPT !.err = err]
                /\ job' = NoJob

\* Some of the events fit, the next one does not: ErrJournalFull.
EmitFull(es, m) ==
    /\ Len(journal) + Len(es) > JournalCap
    /\ journal' = journal \o SubSeq(es, 1, JournalCap - Len(journal))
    /\ UNCHANGED <<torn, disk, bounds>>
    /\ Stop("full", m)

\* The store fails on one of the events: it is missing, torn, or whole on
\* disk although the caller saw an error.
EmitFails(es, m) ==
    /\ es # <<>> /\ faults < MaxFaults
    /\ faults' = faults + 1
    /\ \E n \in 0 .. Len(es) :
          /\ Len(journal) + n <= JournalCap
          /\ journal' = journal \o SubSeq(es, 1, n)
          /\ torn' \in {FALSE} \cup (IF n < Len(es) THEN {TRUE} ELSE {})
    /\ UNCHANGED <<disk, edits, misses>>
    /\ Stop("store", m)

\* Mutant: the end is one event too far.
NewEndFar(es) == Len(journal) + Len(es) + 1

\* JournalProgress.End after es was appended: 0 until an append or a Load.
NewEnd(es) == IF es = <<>> THEN step.end ELSE Len(journal) + Len(es)

\* commitProgress, after es was appended.
Commit(m, es) == [m EXCEPT !.offset = NewEnd(es)]

-----------------------------------------------------------------------------
(* stepScan, up to the walk                                                  *)

\* Mutant: the status is not looked at.
StartStepAnyStatus ==
    /\ pc = "idle"
    /\ ~ torn /\ disk.runtime # "blocked"
    /\ pc' = "walk"
    /\ mem' = [disk EXCEPT !.status = "running"]
    /\ step' = [NoStep EXCEPT !.base = disk.offset, !.left = StepCalls(disk.status)]
    /\ job' = NoJob
    /\ UNCHANGED <<durable, world, bounds>>

\* Refused without a trace: the journal does not walk, requests are blocked,
\* or the retry deadline is not reached. The last is a stuttering step here:
\* a waiting scan is started once its deadline has passed.
StartStep ==
    /\ pc = "idle"
    /\ disk.status \in Unfinished
    /\ ~ torn /\ disk.runtime # "blocked"
    /\ pc' = "walk"
    /\ mem' = [disk EXCEPT !.status = "running"]
    /\ step' = [NoStep EXCEPT !.base = disk.offset, !.left = StepCalls(disk.status)]
    /\ job' = NoJob
    /\ UNCHANGED <<durable, world, bounds>>

StepBudget == StepCalls(disk.status)

-----------------------------------------------------------------------------
(* Scan.Step: the top of the loop                                            *)

Finished ==
    /\ pc = "walk" /\ mem.pending = <<>> /\ mem.stack = <<>>
    /\ Stop("none", [mem EXCEPT !.status = "done"])
    /\ UNCHANGED <<durable, world, bounds>>

MoreToDo == mem.pending # <<>> \/ mem.stack # <<>>

\* budgetCoverage: one event for each pending file and stacked directory.
BudgetCoverage(why) ==
    [i \in 1 .. Len(mem.pending) |-> CoverFile(mem.pending[i], 0, "pending")]
    \o [i \in 1 .. Len(mem.stack) |-> Boundary(mem.stack[i], why)]

FileBudget ==
    /\ pc = "walk" /\ MoreToDo /\ mem.seen >= mem.max
    /\ LET es == BudgetCoverage("file_budget")
       IN  \/ Emitted(es) /\ Stop("none", [mem EXCEPT !.status = "budget_exhausted"])
           \/ EmitFull(es, mem)
           \/ EmitFails(es, mem)
    /\ UNCHANGED world

MayWalk == pc = "walk" /\ MoreToDo /\ mem.seen < mem.max
Popped(s) == SubSeq(s, 1, Len(s) - 1)
Top(s) == s[Len(s)]

\* walkRules is called on the directory about to be listed, and again on the
\* directory of the pending files when a step resumes in it.
RulesDir == IF mem.pending = <<>> THEN Top(mem.stack) ELSE mem.dir
ReadsRules == MayWalk /\ (mem.pending = <<>> \/ ~ step.loaded)

\* The directories walked from d on.
Below(d) == {x \in Dirs : \A S \in SUBSET Dirs :
                (d \in S /\ \A y \in S : ToSet(SubDirs[y]) \subseteq S) => x \in S}

\* The unusable directories on the way from the root to d.
UnusableTo(d) == {x \in Dirs \cap unusable : d \in Below(x)}

\* The directory is listed: boundaries for what is not walked, then its files
\* become pending and its subdirectories are stacked, first name on top.
ListDir ==
    /\ MayWalk /\ mem.pending = <<>> /\ UnusableTo(RulesDir) = {}
    /\ LET d == Top(mem.stack)
           es == [i \in 1 .. Len(Barred[d]) |-> Boundary(Barred[d][i], "excluded")]
           m == [Commit(mem, es) EXCEPT !.stack = Popped(mem.stack) \o Reverse(SubDirs[d]),
                                        !.dir = d, !.pending = FilesIn[d],
                                        !.listed = @ + Len(FilesIn[d])]
       IN  \/ /\ Emitted(es)
              /\ mem' = m
              /\ step' = [step EXCEPT !.loaded = TRUE, !.end = NewEnd(es)]
              /\ UNCHANGED <<pc, job>>
           \/ EmitFull(es, mem)
           \/ EmitFails(es, mem)
    /\ UNCHANGED world

\* The directory is now excluded: its subtree is a boundary and is dropped.
ScopeExcluded ==
    /\ ReadsRules /\ RulesDir # Root /\ UnusableTo(RulesDir) \subseteq {RulesDir}
    /\ edits < MaxEdits
    /\ LET es == <<Boundary(RulesDir, "excluded")>>
           m == IF mem.pending = <<>> THEN [mem EXCEPT !.stack = Popped(mem.stack)]
                ELSE [mem EXCEPT !.pending = <<>>]
       IN  \/ /\ Len(journal) < JournalCap
              /\ journal' = journal \o es
              /\ edits' = edits + 1
              /\ mem' = Commit(m, es)
              /\ step' = [step EXCEPT !.end = NewEnd(es)]
              /\ UNCHANGED <<torn, disk, faults, misses, pc, job>>
           \/ EmitFull(es, mem)
           \/ EmitFails(es, mem)
    /\ UNCHANGED world

\* walkRules fails at the first unusable directory on the way: the boundary is
\* recorded and the whole step ends with the error. The cursor stays, so every
\* later step ends here too until the directory is repaired.
ScopeFails ==
    /\ ReadsRules
    /\ \E d \in UnusableTo(RulesDir) :
        /\ UnusableTo(RulesDir) \subseteq Below(d)
        /\ LET es == <<Boundary(d, "rules_error")>>
           IN  \/ Emitted(es) /\ Stop("rules", mem)
               \/ EmitFull(es, mem)
               \/ EmitFails(es, mem)
    /\ UNCHANGED world

\* The rules of the pending files' directory still hold.
RulesHold ==
    /\ MayWalk /\ mem.pending # <<>> /\ ~ step.loaded /\ UnusableTo(RulesDir) = {}
    /\ step' = [step EXCEPT !.loaded = TRUE]
    /\ UNCHANGED <<durable, world, pc, mem, job, bounds>>

AtFile == MayWalk /\ mem.pending # <<>> /\ step.loaded

\* The step ends before a file it has no budget for; the first file of a step
\* is always taken.
OverBudget(f) ==
    \/ step.examined >= MaxExamined
    \/ step.calls > 0 /\ step.calls + Estimate[f] > StepBudget

BudgetEnds ==
    /\ AtFile /\ OverBudget(Head(mem.pending))
    /\ LET es == BudgetCoverage("step_budget")
       IN  \/ Emitted(es) /\ Stop("none", mem)
           \/ EmitFull(es, mem)
           \/ EmitFails(es, mem)
    /\ UNCHANGED world

-----------------------------------------------------------------------------
(* Scan.file                                                                 *)

Begins(f) == AtFile /\ f = Head(mem.pending) /\ ~ OverBudget(f)
Counted == [mem EXCEPT !.seen = @ + 1]
\* Mutants of the error paths: the file leaves the pending files; the offset
\* moves past its records.
UncountedDropped == [mem EXCEPT !.seen = @ - 1, !.pending = Tail(@)]
UncountedCommits == Commit([mem EXCEPT !.seen = @ - 1], <<>>)

Uncounted == [mem EXCEPT !.seen = @ - 1]
Examined == [step EXCEPT !.examined = @ + 1]

\* The file is closed without an assessment: a coverage event, then it leaves
\* the pending files and the cursor's offset moves.
Close(m, es) == Commit([m EXCEPT !.pending = Tail(@), !.skipped = @ + 1], es)

\* A rule skips the file; or its source changed into something that is not
\* assessed: unreadable, too large, without a language, not splittable.
SkipFile ==
    /\ \E f \in Files, why \in {"excluded", "unknown"} :
        /\ Begins(f)
        /\ IF Batteries[f] = 0 THEN why = "excluded" ELSE edits < MaxEdits
        /\ LET es == <<CoverFile(f, 0, why)>>
           IN  \/ /\ Emitted(es)
                  /\ mem' = Close(Counted, es)
                  /\ step' = [Examined EXCEPT !.end = NewEnd(es)]
                  /\ UNCHANGED <<pc, job>>
               \/ EmitFull(es, mem)
               \/ EmitFails(es, mem)
    /\ UNCHANGED world

\* The content is read, the prior records are loaded. A prior record of other
\* content closes the file as stale.
StaleFile ==
    /\ \E f \in Files :
        /\ Begins(f)
        /\ Batteries[f] > 0
        /\ \E d \in DigestsSeen(f) \ {src[f]} :
            LET es == <<CoverFile(f, d, "stale")>>
            IN  \/ /\ Emitted(es)
                   /\ mem' = Close(Counted, es)
                   /\ step' = [Examined EXCEPT !.end = NewEnd(es)]
                   /\ UNCHANGED <<pc, job>>
                \/ EmitFull(es, mem)
                \/ EmitFails(es, mem)
    /\ UNCHANGED world

\* The prior records cannot be read: the file is taken back, the step ends.
LoadFails ==
    /\ \E f \in Files : Begins(f) /\ Batteries[f] > 0
    /\ faults < MaxFaults
    /\ faults' = faults + 1
    /\ Stop("store", mem)
    /\ UNCHANGED <<durable, world, edits, misses>>

BeginFile ==
    /\ \E f \in Files :
        /\ Begins(f)
        /\ Batteries[f] > 0
        /\ DigestsSeen(f) \subseteq {src[f]}
        /\ mem' = Counted
        /\ step' = [Examined EXCEPT !.end = Len(journal)]
        /\ job' = [f |-> f, dig |-> src[f], prior |-> AnsweredPrior(f, src[f]), b |-> 1,
                   ok |-> FALSE, err |-> "none"]
        /\ pc' = "battery"
    /\ UNCHANGED <<durable, world, bounds>>

-----------------------------------------------------------------------------
(* JudgeTextProgress: one battery after another                              *)

AtBattery == pc = "battery" /\ job.b <= Batteries[job.f]
Answered == job.b \in job.prior

Replay ==
    /\ AtBattery /\ Answered
    /\ job' = [job EXCEPT !.b = @ + 1]
    /\ UNCHANGED <<durable, world, pc, mem, step, bounds>>

\* Ask came back with err ("none" when every question is answered); the
\* record is saved next. One call is counted even if none was sent.
Reply(err) ==
    /\ pc' = "record"
    /\ job' = [job EXCEPT !.ok = (err = "none"), !.err = err]

\* post refuses before anything is sent: no calls left, blocked, or waiting.
NotSent ==
    /\ AtBattery /\ ~ Answered
    /\ \/ step.left = 0 /\ Reply("judge")
       \/ step.left > 0 /\ step.runtime = "blocked" /\ Reply("other")
       \/ step.left > 0 /\ step.runtime = "wait" /\ Reply("judge")
    /\ step' = [step EXCEPT !.calls = @ + 1]
    /\ UNCHANGED <<durable, world, mem, bounds>>

\* A reply the inference cache happens to hold, of this scan or another one.
CacheHit ==
    /\ AtBattery /\ ~ Answered /\ step.runtime # "blocked"
    /\ Reply("none")
    /\ UNCHANGED <<durable, world, mem, step, bounds>>

Sends == AtBattery /\ ~ Answered /\ step.left > 0 /\ step.runtime = "ok"
Sent == [step EXCEPT !.left = @ - 1, !.calls = @ + 1]

\* Mutant: the walk's transient cursor is written with the runtime.
PersistLive(r) == /\ disk' = [mem EXCEPT !.runtime = r]
                  /\ mem' = [mem EXCEPT !.runtime = r]

\* persistRuntime writes the cursor the step started from with the new
\* runtime; the walk's own progress is not in it.
Persist(r) == /\ disk' = [disk EXCEPT !.runtime = r]
              /\ mem' = [mem EXCEPT !.runtime = r]

RuntimeAfter(o) ==
    CASE o \in {"answer", "partial"} -> "ok"
      [] o = "unavailable" -> "wait"
      [] o \in {"exhausted", "invalid", "auth"} -> "blocked"
ErrorOf(o) ==
    CASE o = "answer" -> "none"
      [] o \in {"partial", "unavailable", "exhausted"} -> "judge"
      [] o = "invalid" -> "refused"
      [] o \in {"auth", "denied"} -> "other"

MayMiss(o) == IF o = "answer" THEN UNCHANGED misses
              ELSE misses < MaxMisses /\ misses' = misses + 1

\* The request is sent and its reply is persisted before it is used.
Ask(o) ==
    /\ Sends /\ MayMiss(o)
    /\ IF o = "denied" THEN step' = Sent /\ UNCHANGED <<mem, disk>>
       ELSE Persist(RuntimeAfter(o)) /\ step' = [Sent EXCEPT !.runtime = RuntimeAfter(o)]
    /\ Reply(ErrorOf(o))
    /\ UNCHANGED <<journal, torn, world, faults, edits>>

\* The checkpoint cannot be written: ErrProgress. The new runtime may be on
\* disk although the process does not believe so; in memory it is in force
\* when it forbids requests.
Unsaved(o) ==
    /\ o # "denied" /\ MayMiss(o) /\ faults < MaxFaults
    /\ faults' = faults + 1
    /\ disk' \in {disk, [disk EXCEPT !.runtime = RuntimeAfter(o)]}
    /\ UNCHANGED <<journal, torn, world, edits>>

\* The battery's record is still saved, as not answered, before the step ends.
AskUnsaved(o) ==
    /\ Sends /\ Unsaved(o)
    /\ step' = [Sent EXCEPT !.runtime = RuntimeAfter(o)]
    /\ Reply("progress")
    /\ UNCHANGED mem

\* emit(r): the record is in the journal before localization, before the next
\* battery and before an error is returned.
SaveRecord ==
    /\ pc = "record"
    /\ LET es == <<RecordOf(job.f, job.dig, job.b, job.ok)>>
       IN  \/ /\ Emitted(es)
              /\ step' = [step EXCEPT !.end = NewEnd(es)]
              /\ UNCHANGED mem
              /\ IF job.err # "none" THEN pc' = "cover" /\ UNCHANGED job
                 ELSE IF job.b = 1 /\ job.f \in Findings THEN pc' = "locate" /\ UNCHANGED job
                 ELSE pc' = "battery" /\ job' = [job EXCEPT !.b = @ + 1, !.ok = FALSE]
           \/ EmitFull(es, Uncounted)
           \/ EmitFails(es, Uncounted)
    /\ UNCHANGED world

\* locate is optional: whatever it returns, the record is saved again and the
\* assessment goes on. A rate limit or a refused key still changes the
\* runtime; what declines it, or was never sent, does not.
Locate ==
    /\ pc = "locate"
    /\ \/ UNCHANGED <<step, disk, mem, misses>>  \* cached, or nothing to choose from
       \/ /\ step.left = 0 \/ step.runtime # "ok"
          /\ step' = [step EXCEPT !.calls = @ + 1]
          /\ UNCHANGED <<disk, mem, misses>>
       \/ /\ step.left > 0 /\ step.runtime = "ok"
          /\ step' = Sent
          /\ UNCHANGED <<disk, mem, misses>>
       \/ \E o \in {"answer"} \cup (Outcomes \cap {"unavailable", "exhausted", "auth"}) :
            /\ step.left > 0 /\ step.runtime = "ok"
            /\ MayMiss(o)
            /\ Persist(RuntimeAfter(o))
            /\ step' = [Sent EXCEPT !.runtime = RuntimeAfter(o)]
    /\ pc' = "located"
    /\ UNCHANGED <<journal, torn, world, job, faults, edits>>

LocateUnsaved(o) ==
    /\ pc = "locate" /\ step.left > 0 /\ step.runtime = "ok"
    /\ Unsaved(o)
    /\ pc' = "save" /\ job' = NoJob /\ mem' = Uncounted
    /\ step' = [Sent EXCEPT !.runtime = RuntimeAfter(o), !.err = "store"]

SaveLocated ==
    /\ pc = "located"
    /\ LET es == <<RecordOf(job.f, job.dig, job.b, TRUE)>>
       IN  \/ /\ Emitted(es)
              /\ step' = [step EXCEPT !.end = NewEnd(es)]
              /\ pc' = "battery"
              /\ job' = [job EXCEPT !.b = @ + 1, !.ok = FALSE]
              /\ UNCHANGED mem
           \/ EmitFull(es, Uncounted)
           \/ EmitFails(es, Uncounted)
    /\ UNCHANGED world

\* Every battery is answered.
AssessmentEnds ==
    /\ pc = "battery" /\ job.b > Batteries[job.f]
    /\ pc' = "cover"
    /\ UNCHANGED <<durable, world, mem, step, job, bounds>>

-----------------------------------------------------------------------------
(* Scan.file and Step after the assessment                                   *)

\* ErrProgress: no coverage is written, the file is taken back.
GiveUp ==
    /\ pc = "cover" /\ job.err = "progress"
    /\ Stop("store", Uncounted)
    /\ UNCHANGED <<durable, world, bounds>>

\* Mutant: an interrupted assessment is called complete.
DispositionComplete(err) == IF err = "refused" THEN "unknown" ELSE "complete"

Disposition(err) ==
    CASE err = "none" -> "complete"
      [] err = "refused" -> "unknown"
      [] OTHER -> "pending"

CoverAssessed ==
    /\ pc = "cover" /\ job.err # "progress"
    /\ LET es == <<CoverFile(job.f, job.dig, Disposition(job.err))>>
       IN  \/ /\ Emitted(es)
              /\ CASE job.err = "none" ->
                        /\ mem' = Commit([mem EXCEPT !.pending = Tail(@), !.judged = @ + 1], es)
                        /\ step' = [step EXCEPT !.end = NewEnd(es)]
                        /\ pc' = "walk" /\ job' = NoJob
                   [] job.err = "refused" ->
                        /\ mem' = Close(mem, es)
                        /\ step' = [step EXCEPT !.end = NewEnd(es)]
                        /\ pc' = "walk" /\ job' = NoJob
                   [] job.err = "judge" ->
                        Stop("none", [Uncounted EXCEPT !.status = "judge_unavailable"])
                   [] OTHER -> Stop("other", Uncounted)
           \/ EmitFull(es, Uncounted)
           \/ EmitFails(es, Uncounted)
    /\ UNCHANGED world

-----------------------------------------------------------------------------
(* stepScan after the walk: the status it decides and saveScan               *)

StatusSaved ==
    IF step.err = "full" THEN "storage_cap"
    ELSE IF step.runtime = "blocked" THEN "request_blocked"
    ELSE mem.status

TooWide(m) == Len(m.stack) + Len(m.pending) > CursorCap

Saved ==
    LET m == [mem EXCEPT !.status = StatusSaved]
    IN  IF TooWide(m)
        THEN [m EXCEPT !.status = "storage_cap", !.stack = <<>>, !.pending = <<>>]
        ELSE m

SaveScan ==
    /\ pc = "save"
    /\ disk' = Saved
    /\ pc' = "idle" /\ mem' = NoScan /\ step' = NoStep /\ job' = NoJob
    /\ UNCHANGED <<journal, torn, world, bounds>>

SaveScanFails ==
    /\ pc = "save" /\ faults < MaxFaults
    /\ faults' = faults + 1
    /\ disk' \in {disk, Saved}
    /\ pc' = "idle" /\ mem' = NoScan /\ step' = NoStep /\ job' = NoJob
    /\ UNCHANGED <<journal, torn, world, edits, misses>>

-----------------------------------------------------------------------------
(* The environment                                                           *)

Crash ==
    /\ pc # "idle" /\ faults < MaxFaults
    /\ faults' = faults + 1
    /\ pc' = "idle" /\ mem' = NoScan /\ step' = NoStep /\ job' = NoJob
    /\ UNCHANGED <<durable, world, edits, misses>>

EditSource(f) ==
    /\ edits < MaxEdits
    /\ edits' = edits + 1
    /\ src' = [src EXCEPT ![f] = @ + 1]
    /\ UNCHANGED <<durable, unusable, local, faults, misses>>

\* The rule files of d become unreadable, malformed or too large, or d can no
\* longer be listed whole; and the owner puts that right, or never does.
Spoil(d) ==
    /\ d \notin unusable /\ edits < MaxEdits
    /\ edits' = edits + 1
    /\ unusable' = unusable \cup {d}
    /\ UNCHANGED <<durable, src, local, faults, misses>>

Repair(d) ==
    /\ unusable' = unusable \ {d}
    /\ UNCHANGED <<durable, src, local, bounds>>

Work ==
    \/ StartStep \/ Finished \/ FileBudget
    \/ ListDir \/ ScopeFails \/ RulesHold \/ BudgetEnds
    \/ SkipFile \/ StaleFile \/ BeginFile
    \/ Replay \/ NotSent \/ CacheHit \/ Ask("answer")
    \/ SaveRecord \/ Locate \/ SaveLocated \/ AssessmentEnds
    \/ CoverAssessed \/ GiveUp \/ SaveScan

Next ==
    \/ Work
    \/ ScopeExcluded
    \/ \E o \in Outcomes : Ask(o)
    \/ \E o \in Outcomes \cup {"answer"} : AskUnsaved(o)
    \/ \E o \in (Outcomes \ {"partial", "invalid"}) \cup {"answer"} : LocateUnsaved(o)
    \/ LoadFails
    \/ SaveScanFails \/ Crash
    \/ \E f \in Files : EditSource(f)
    \/ \E d \in Dirs : Spoil(d) \/ Repair(d)

Spec == Init /\ [][Next]_vars

(* A started scan is advanced by the scheduler, and a running step runs on:  *)
(* weak fairness of the work itself, none of the environment's failures.     *)
FairSpec == Spec /\ WF_vars(Work)

-----------------------------------------------------------------------------
(* Properties                                                                *)

Cursors == [stack : Seq(Dirs), dir : Dirs, pending : Seq(Files),
            status : Unfinished \cup {"done", "budget_exhausted", "storage_cap", "request_blocked"},
            offset : 0 .. JournalCap, max : {0} \cup MaxFiles, seen : Nat, judged : Nat, skipped : Nat, listed : Nat,
            runtime : {"ok", "wait", "blocked"}]

(* Type correctness; the saved offset never points beyond the journal.       *)
TypeOK ==
    /\ disk \in Cursors /\ mem \in Cursors
    /\ disk.offset <= Len(journal) /\ step.end <= Len(journal)
    /\ pc \in {"idle", "walk", "battery", "record", "locate", "located", "cover", "save"}
    /\ torn \in BOOLEAN /\ src \in [Files -> Nat] /\ unusable \subseteq Dirs

FilesBelow(d) == UNION {ToSet(FilesIn[x]) : x \in Below(d)}

\* Files are the files the walk can come to, and the walk is of a tree:
\* names are distinct and links are not followed.
ASSUME TreeAssumption ==
    /\ Files \subseteq FilesBelow(Root)
    /\ \A d \in Dirs :
        /\ IsInjective(FilesIn[d])
        /\ \A i, j \in DOMAIN SubDirs[d] :
              i # j => FilesBelow(SubDirs[d][i]) \cap FilesBelow(SubDirs[d][j]) = {}
        /\ \A i \in DOMAIN SubDirs[d] : ToSet(FilesIn[d]) \cap FilesBelow(SubDirs[d][i]) = {}

InCursor(c, f) ==
    \/ f \in ToSet(c.pending)
    \/ \E d \in ToSet(c.stack) : f \in FilesBelow(d)

\* The journal says what became of f: assessed, refused, excluded or stale, or
\* a directory above it was excluded.
Accounted(f) ==
    \E i \in 1 .. Len(journal) :
        LET e == journal[i] IN
        \/ e.t = "file" /\ e.ref = f /\ e.disp \in Closing
        \/ e.t = "subtree" /\ e.why = "excluded" /\ e.ref \in Dirs /\ f \in FilesBelow(e.ref)

(* No file is lost: whatever crashed or failed and wherever, a file is still *)
(* ahead of the saved cursor or the journal accounts for it. Only the        *)
(* storage cap gives files up, and says so in the status.                    *)
NothingLost ==
    disk.status # "storage_cap" => \A f \in Files : InCursor(disk, f) \/ Accounted(f)

(* A "complete" coverage event is never in the journal before an answered    *)
(* record of every battery of that very content.                             *)
CompleteHasEvidence ==
    \A i \in 1 .. Len(journal) :
        (journal[i].t = "file" /\ journal[i].disp = "complete") =>
            \A b \in 1 .. Batteries[journal[i].ref] :
                \E j \in 1 .. i - 1 :
                    journal[j] = RecordOf(journal[i].ref, journal[i].dig, b, TRUE)

(* The saved counters agree with each other through every error path that    *)
(* takes a file back: each file counted as seen was judged or excluded, no   *)
(* more were seen than listed, and never more than max_files.                *)
CountersAgree ==
    /\ disk.seen = disk.judged + disk.skipped
    /\ disk.seen + Len(disk.pending) <= disk.listed
    /\ disk.seen <= disk.max

\* Files with a complete coverage event.
AssessedFiles ==
    {f \in Files : \E i \in 1 .. Len(journal) :
        journal[i].t = "file" /\ journal[i].ref = f /\ journal[i].disp = "complete"}

A == INSTANCE Assessment WITH
        closed <- {f \in Files : Accounted(f)},
        assessed <- AssessedFiles,
        ahead <- {f \in Files : InCursor(disk, f)},
        judged <- disk.judged,
        status <- disk.status

(* The scan implements Assessment: whatever crashed, failed or was retried,  *)
(* evidence is only ever added, the saved cursor passes a file only after    *)
(* the journal accounts for it and counts it as judged only after a complete *)
(* coverage event, and a scan whose saved status is terminal asks, records   *)
(* and saves nothing more.                                                   *)
ImplementsAssessment == A!Spec

(* A battery whose answer is in the journal is not asked again: a resumed    *)
(* step replays it.                                                          *)
AnsweredOnce ==
    AtBattery /\ (\E i \in 1 .. Len(journal) :
                    journal[i] = RecordOf(job.f, job.dig, job.b, TRUE))
        => Answered

(* Evidence of two contents of a file is never mixed: while a file is        *)
(* assessed every record of it in the journal is of the content assessed.    *)
NotBlended ==
    pc = "battery" =>
        \A i \in 1 .. Len(journal) :
            journal[i].t = "record" /\ journal[i].ref = job.f => journal[i].dig = job.dig

\* The journal says that a directory's rules could not be read.
UnusableTold == \E i \in 1 .. Len(journal) : journal[i].t = "subtree" /\ journal[i].why = "rules_error"

(* Whatever the judge answers, if it fails only finitely often, the process  *)
(* stays up and the source is edited finitely often, the scan comes to its   *)
(* end: the battery by battery progress of a file that needs more calls than *)
(* a step has adds up. A directory with unusable rules ends every step until *)
(* it is repaired; if it never is, or too late, what ends the scan is its    *)
(* own journal, in which each of those steps reports the directory again.    *)
EventuallyEnds ==
    <>(\/ disk.status \in {"done", "request_blocked"}
       \/ disk.status = "storage_cap" /\ UnusableTold)
=============================================================================
