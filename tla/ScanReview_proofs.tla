-------------------------- MODULE ScanReview_proofs --------------------------
(* Proofs about what a caller is told of a scan, for every folder, every     *)
(* bound of the report and every size of a page. A report only reads, so     *)
(* what ScanStep_proofs proves of a scan holds while it is being read.       *)
EXTENDS ScanReview, ScanStep_proofs, WellFoundedInduction

-----------------------------------------------------------------------------
(* An ended scan                                                             *)

\* The events es name every file and directory ahead of c.
Announced(c, es) ==
    /\ \A f \in ToSet(c.pending) : \E i \in 1 .. Len(es) : es[i].t = "file" /\ es[i].ref = f
    /\ \A d \in ToSet(c.stack) : \E i \in 1 .. Len(es) : es[i].t = "subtree" /\ es[i].ref = d

\* A scan that ended at its file budget has announced the rest, and one that
\* is done has none. Only the end of a walk ends a scan.
EndTold ==
    /\ disk.status = "done" => Ahead(disk) = {}
    /\ disk.status = "budget_exhausted" => Announced(disk, journal)
    /\ mem.status = "budget_exhausted" => Announced(mem, journal)
    /\ pc # "save" => mem.status = "running"

\* The journal only grows.
Grown ==
    /\ journal' \in Seq(Event) /\ Len(journal) <= Len(journal')
    /\ \A i \in 1 .. Len(journal) : journal'[i] = journal[i]

\* A step that does not end the scan.
Passing ==
    /\ Grown
    /\ disk' \in {disk} \cup {[disk EXCEPT !.runtime = r] : r \in Runtimes}
    /\ mem'.status # "budget_exhausted"
    /\ pc' # "save" => mem'.status = "running"

LEMMA PartGrown ==
    ASSUME IInv, NEW es, NEW k \in 0 .. Len(es), Grows(es, k)
    PROVE  Grown
<1>1. Len(journal) \in Nat /\ k >= 0 /\ k \in Int
  BY IInvFacts
<1> QED BY <1>1 DEF Grows, Grown

LEMMA EmissionGrown ==
    ASSUME IInv, NEW es \in Seq(Event), NEW m,
           \/ journal' = journal \o es
           \/ EmitFull(es, m) \/ EmitFails(es, m)
    PROVE  Grown
<1>1. journal \in Seq(Event) /\ Len(journal) \in Nat /\ JournalCap \in Nat /\ Len(es) \in Nat
      /\ Len(journal) <= JournalCap
  BY IInvFacts
<1>2. CASE journal' = journal \o es
  <2>1. Grows(es, Len(es)) /\ Len(es) \in 0 .. Len(es)
    BY <1>2, EmittedGrows
  <2> QED BY <2>1, PartGrown
<1>3. CASE EmitFull(es, m) \/ EmitFails(es, m)
  <2>1. PICK k \in 0 .. Len(es) : journal' = journal \o SubSeq(es, 1, k)
    <3>1. CASE EmitFull(es, m)
      <4>1. JournalCap - Len(journal) \in 0 .. Len(es)
        BY <1>1, <3>1 DEF EmitFull
      <4> QED BY <3>1, <4>1 DEF EmitFull
    <3>2. CASE EmitFails(es, m)
      BY <3>2 DEF EmitFails
    <3> QED BY <1>3, <3>1, <3>2
  <2>2. Grows(es, k)
    BY <1>1, <2>1, PartAppended
  <2> QED BY <2>2, PartGrown
<1> QED BY <1>2, <1>3

LEMMA QuietGrown ==
    ASSUME IInv, journal' = journal
    PROVE  Grown
  BY IInvFacts DEF Grown

LEMMA AnnouncedGrows ==
    ASSUME IInv, Grown, NEW c, Announced(c, journal)
    PROVE  Announced(c, journal')
<1>1. \A i \in 1 .. Len(journal) : i \in 1 .. Len(journal') /\ journal'[i] = journal[i]
  BY IInvFacts DEF Grown
<1> QED BY <1>1 DEF Announced

LEMMA PassingKeeps ==
    ASSUME IInv, EndTold, Passing
    PROVE  EndTold'
<1>1. disk'.status = disk.status /\ disk'.stack = disk.stack /\ disk'.pending = disk.pending
  <2>1. disk \in Cursors
    BY IInvFacts
  <2> QED BY <2>1 DEF Passing, Cursors
<1>2. Ahead(disk') = Ahead(disk)
  BY <1>1, SameAhead
<1>3. disk'.status = "budget_exhausted" => Announced(disk', journal')
  <2> SUFFICES ASSUME disk'.status = "budget_exhausted" PROVE Announced(disk', journal')
    OBVIOUS
  <2>1. Announced(disk, journal')
    BY <1>1, AnnouncedGrows DEF EndTold, Passing
  <2> QED BY <1>1, <2>1 DEF Announced
<1> QED BY <1>1, <1>2, <1>3 DEF EndTold, Passing

(* The cursors a step works with are those of a running scan.                *)
LEMMA StillRunning ==
    ASSUME IInv, mem.status = "running"
    PROVE  /\ Uncounted.status = "running" /\ Counted.status = "running"
           /\ \A es : Commit(mem, es).status = "running" /\ Close(Counted, es).status = "running"
                      /\ Close(mem, es).status = "running"
           /\ \A r : [mem EXCEPT !.runtime = r].status = "running"
<1>1. mem \in Cursors
  BY IInvFacts
<1>2. Uncounted.status = "running" /\ Counted.status = "running"
  BY <1>1 DEF Cursors, Uncounted, Counted
<1>3. \A r : [mem EXCEPT !.runtime = r].status = "running"
  BY <1>1 DEF Cursors
<1>4. ASSUME NEW es PROVE Commit(mem, es).status = "running" /\ Close(Counted, es).status = "running"
                          /\ Close(mem, es).status = "running"
  <2> DEFINE e == NewEnd(es)
  <2> HIDE DEF e
  <2>1. [mem EXCEPT !.offset = e].status = "running"
    BY <1>1 DEF Cursors
  <2>2. [[mem EXCEPT !.pending = Tail(@), !.skipped = @ + 1] EXCEPT !.offset = e].status = "running"
    BY <1>1 DEF Cursors
  <2>3. [[Counted EXCEPT !.pending = Tail(@), !.skipped = @ + 1] EXCEPT !.offset = e].status = "running"
    BY <1>1 DEF Cursors, Counted
  <2> QED BY <2>1, <2>2, <2>3 DEF Commit, Close, e
<1> QED BY <1>2, <1>3, <1>4

LEMMA FailPasses ==
    ASSUME IInv, NEW es \in Seq(Event), NEW m, m.status = "running",
           EmitFull(es, m) \/ EmitFails(es, m)
    PROVE  Passing
<1>1. Grown
  BY EmissionGrown
<1>2. disk' = disk /\ mem' = m
  BY DEF EmitFull, EmitFails, Stop
<1> QED BY <1>1, <1>2 DEF Passing

LEMMA EmitPasses ==
    ASSUME IInv, NEW es \in Seq(Event), journal' = journal \o es, disk' = disk,
           mem'.status # "budget_exhausted", pc' # "save" => mem'.status = "running"
    PROVE  Passing
  BY EmissionGrown DEF Passing

LEMMA QuietPasses ==
    ASSUME IInv, journal' = journal,
           disk' \in {disk} \cup {[disk EXCEPT !.runtime = r] : r \in Runtimes},
           mem'.status # "budget_exhausted", pc' # "save" => mem'.status = "running"
    PROVE  Passing
  BY QuietGrown DEF Passing

(* The step ends with some error or none, wherever it was.                   *)
LEMMA StopPasses ==
    ASSUME IInv, journal' = journal, disk' = disk, NEW e, NEW m, Stop(e, m),
           m.status # "budget_exhausted"
    PROVE  Passing
<1>1. pc' = "save" /\ mem' = m
  BY DEF Stop
<1> QED BY <1>1, QuietPasses

\* Every step of the walk but the one that finds the file budget used up.
LEMMA WalkPasses ==
    ASSUME IInv, mem.status = "running",
           \/ StartStep \/ Finished \/ ListDir \/ RulesHold \/ BudgetEnds
           \/ ScopeExcluded \/ ScopeFails
    PROVE  Passing
<1>1. CASE StartStep
  <2>1. journal' = journal /\ disk' = disk /\ mem' = [disk EXCEPT !.status = "running"]
    BY <1>1 DEF StartStep, durable
  <2>2. mem'.status = "running"
    BY <2>1, IInvFacts DEF Cursors
  <2> QED BY <2>1, <2>2, QuietPasses
<1>2. CASE Finished
  <2>1. journal' = journal /\ disk' = disk /\ Stop("none", [mem EXCEPT !.status = "done"])
    BY <1>2 DEF Finished, durable
  <2>2. [mem EXCEPT !.status = "done"].status = "done"
    BY IInvFacts DEF Cursors
  <2> QED BY <2>1, <2>2, StopPasses
<1>3. CASE ListDir
  <2> DEFINE d == Top(mem.stack)
             es == [i \in 1 .. Len(Barred[d]) |-> Boundary(Barred[d][i], "excluded")]
             m == [Commit(mem, es) EXCEPT !.stack = Popped(mem.stack) \o Reverse(SubDirs[d]),
                                          !.dir = d, !.pending = FilesIn[d],
                                          !.listed = @ + Len(FilesIn[d])]
  <2>1. es \in Seq(Event)
    <3>1. mem.stack \in Seq(Dirs) /\ mem.stack # <<>>
      BY <1>3, IInvFacts DEF ListDir, MayWalk, MoreToDo, Cursors
    <3>2. d \in Dirs
      BY <3>1, PoppedFacts
    <3> HIDE DEF d
    <3>3. Barred[d] \in Seq(ToSet(Barred[d]))
      BY <3>2, ListingAssumption
    <3>4. ToSet(Barred[d]) \subseteq Refs
      BY <3>2 DEF Refs
    <3>5. \A i \in 1 .. Len(Barred[d]) : Barred[d][i] \in Refs
      BY <3>3, <3>4
    <3>6. \A i \in 1 .. Len(Barred[d]) : Boundary(Barred[d][i], "excluded") \in Event
      BY <3>5 DEF Boundary, Event
    <3>7. Len(Barred[d]) \in Nat
      BY <3>3
    <3> QED BY <3>6, <3>7
  <2>2. \/ Emitted(es) /\ mem' = m
        \/ EmitFull(es, mem) \/ EmitFails(es, mem)
    BY <1>3 DEF ListDir
  <2>3. m.status = "running"
    <3> DEFINE c == Commit(mem, es)
               x == Popped(mem.stack) \o Reverse(SubDirs[d])
               y == FilesIn[d]
    <3>1. c.status = "running" /\ "status" \in DOMAIN c
      <4>1. c.status = "running"
        BY StillRunning
      <4>2. mem \in Cursors
        BY IInvFacts
      <4> HIDE DEF es
      <4>3. "status" \in DOMAIN c
        BY <4>2 DEF Commit, Cursors
      <4> QED BY <4>1, <4>3
    <3> HIDE DEF c, x, d, y
    <3>2. [c EXCEPT !.stack = x, !.dir = d, !.pending = y, !.listed = @ + Len(y)].status
            = "running"
      BY <3>1
    <3> QED BY <3>2 DEF c, x, y
  <2> HIDE DEF es, m
  <2>4. CASE Emitted(es) /\ mem' = m
    BY <2>1, <2>3, <2>4, EmitPasses DEF Emitted
  <2> QED BY <2>1, <2>2, <2>4, FailPasses
<1>4. CASE RulesHold
  BY <1>4, QuietPasses DEF RulesHold, durable
<1>5. CASE BudgetEnds
  <2> DEFINE es == BudgetCoverage("step_budget")
  <2>1. es \in Seq(Event)
    BY BudgetCoverageFacts
  <2>2. \/ (Emitted(es) /\ Stop("none", mem)) \/ EmitFull(es, mem) \/ EmitFails(es, mem)
    BY <1>5 DEF BudgetEnds
  <2> HIDE DEF es
  <2>3. CASE Emitted(es) /\ Stop("none", mem)
    BY <2>1, <2>3, EmitPasses DEF Emitted, Stop
  <2> QED BY <2>1, <2>2, <2>3, FailPasses
<1>6. CASE ScopeExcluded
  <2> DEFINE es == <<Boundary(RulesDir, "excluded")>>
             m == IF mem.pending = <<>> THEN [mem EXCEPT !.stack = Popped(mem.stack)]
                  ELSE [mem EXCEPT !.pending = <<>>]
  <2>1. es \in Seq(Event)
    <3>1. RulesDir \in Dirs
      BY <1>6, RulesDirFacts DEF ScopeExcluded
    <3> QED BY <3>1, BoundaryFacts
  <2>2. \/ journal' = journal \o es /\ disk' = disk /\ mem' = Commit(m, es)
        \/ EmitFull(es, mem) \/ EmitFails(es, mem)
    BY <1>6 DEF ScopeExcluded
  <2>3. Commit(m, es).status = "running"
    <3> DEFINE e == NewEnd(es)
               s == Popped(mem.stack)
    <3>1. mem \in Cursors
      BY IInvFacts
    <3> HIDE DEF e, s
    <3>2. /\ [[mem EXCEPT !.stack = s] EXCEPT !.offset = e].status = "running"
          /\ [[mem EXCEPT !.pending = <<>>] EXCEPT !.offset = e].status = "running"
      BY <3>1 DEF Cursors
    <3> QED BY <3>2 DEF Commit, e, s
  <2> HIDE DEF es, m
  <2>4. CASE journal' = journal \o es /\ disk' = disk /\ mem' = Commit(m, es)
    BY <2>1, <2>3, <2>4, EmitPasses
  <2> QED BY <2>1, <2>2, <2>4, FailPasses
<1>7. CASE ScopeFails
  <2> PICK d \in UnusableTo(RulesDir) :
          LET e == <<Boundary(d, "rules_error")>>
          IN  (Emitted(e) /\ Stop("rules", mem)) \/ EmitFull(e, mem) \/ EmitFails(e, mem)
    BY <1>7 DEF ScopeFails
  <2> DEFINE es == <<Boundary(d, "rules_error")>>
  <2>1. es \in Seq(Event)
    <3>1. d \in Dirs
      BY DEF UnusableTo
    <3> QED BY <3>1, BoundaryFacts
  <2>2. \/ journal' = journal \o es /\ disk' = disk /\ Stop("rules", mem)
        \/ EmitFull(es, mem) \/ EmitFails(es, mem)
    BY DEF Emitted
  <2> HIDE DEF es
  <2>3. CASE journal' = journal \o es /\ disk' = disk /\ Stop("rules", mem)
    BY <2>1, <2>3, EmitPasses DEF Stop
  <2> QED BY <2>1, <2>2, <2>3, FailPasses
<1> QED BY <1>1, <1>2, <1>3, <1>4, <1>5, <1>6, <1>7

\* Every step about one file.
LEMMA FilePasses ==
    ASSUME IInv, mem.status = "running",
           \/ SkipFile \/ StaleFile \/ BeginFile \/ LoadFails
           \/ Replay \/ NotSent \/ CacheHit
           \/ \E o \in AllOutcomes \cup {"answer"} : Ask(o) \/ AskUnsaved(o)
           \/ SaveRecord \/ Locate \/ SaveLocated \/ AssessmentEnds
           \/ \E o \in (AllOutcomes \ {"partial", "invalid"}) \cup {"answer"} : LocateUnsaved(o)
           \/ GiveUp \/ CoverAssessed
    PROVE  Passing
<1>0. Uncounted.status = "running" /\ Counted.status = "running"
  BY StillRunning
<1>1. CASE SkipFile
  <2>1. PICK f \in Files, why \in {"excluded", "unknown"} :
           LET es == <<CoverFile(f, 0, why)>>
           IN  \/ Emitted(es) /\ mem' = Close(Counted, es)
               \/ EmitFull(es, mem) \/ EmitFails(es, mem)
    BY <1>1 DEF SkipFile
  <2> DEFINE es == <<CoverFile(f, 0, why)>>
  <2>2. es \in Seq(Event)
    BY CoverFacts DEF Closing
  <2> HIDE DEF es
  <2>3. CASE Emitted(es) /\ mem' = Close(Counted, es)
    BY <2>2, <2>3, StillRunning, EmitPasses DEF Emitted
  <2> QED BY <2>1, <2>2, <2>3, FailPasses DEF es
<1>2. CASE StaleFile
  <2>b. PICK f \in Files : \E d \in DigestsSeen(f) :
           LET es == <<CoverFile(f, d, "stale")>>
           IN  \/ Emitted(es) /\ mem' = Close(Counted, es)
               \/ EmitFull(es, mem) \/ EmitFails(es, mem)
    BY <1>2 DEF StaleFile
  <2>1. PICK d \in DigestsSeen(f) :
           LET es == <<CoverFile(f, d, "stale")>>
           IN  \/ Emitted(es) /\ mem' = Close(Counted, es)
               \/ EmitFull(es, mem) \/ EmitFails(es, mem)
    BY <2>b
  <2>a. d \in Nat
    <3>1. PICK i \in Seen(f) : d = journal[i].dig
      BY DEF DigestsSeen
    <3>2. i \in 1 .. Len(journal) /\ journal[i].t = "record"
      <4>1. step.base \in Nat /\ Len(journal) \in Nat
        BY IInvFacts DEF StepStates
      <4> QED BY <4>1 DEF Seen
    <3>3. journal[i] \in Event
      BY <3>2, IInvFacts
    <3> QED BY <3>1, <3>2, <3>3 DEF Event
  <2> DEFINE es == <<CoverFile(f, d, "stale")>>
  <2>2. es \in Seq(Event)
    BY <2>a, CoverFacts DEF Closing
  <2> HIDE DEF es
  <2>3. CASE Emitted(es) /\ mem' = Close(Counted, es)
    BY <2>2, <2>3, StillRunning, EmitPasses DEF Emitted
  <2> QED BY <2>1, <2>2, <2>3, FailPasses DEF es
<1>3. CASE BeginFile
  BY <1>0, <1>3, QuietPasses DEF BeginFile, durable
<1>4. CASE LoadFails
  <2>1. journal' = journal /\ disk' = disk /\ Stop("store", mem)
    BY <1>4 DEF LoadFails, durable
  <2> QED BY <2>1, StopPasses
<1>5. CASE Replay \/ NotSent \/ CacheHit \/ AssessmentEnds
  BY <1>5, QuietPasses DEF Replay, NotSent, CacheHit, AssessmentEnds, durable
<1>6. ASSUME NEW o \in AllOutcomes \cup {"answer"}, Ask(o) \/ AskUnsaved(o) PROVE Passing
  <2>1. o # "denied" => RuntimeAfter(o) \in Runtimes
    BY DEF AllOutcomes, RuntimeAfter, Runtimes
  <2>2. journal' = journal
    BY <1>6 DEF Ask, AskUnsaved, Unsaved
  <2>3. /\ disk' \in {disk} \cup {[disk EXCEPT !.runtime = r] : r \in Runtimes}
        /\ mem' \in {mem} \cup {[mem EXCEPT !.runtime = r] : r \in Runtimes}
    BY <1>6, <2>1 DEF Ask, AskUnsaved, Unsaved, Persist
  <2>4. mem'.status = "running"
    BY <2>3, StillRunning
  <2> QED BY <2>2, <2>3, <2>4, QuietPasses
<1>7. CASE SaveRecord \/ SaveLocated
  <2>1. PICK ok \in BOOLEAN :
           LET es == <<RecordOf(job.f, job.dig, job.b, ok)>>
           IN  \/ Emitted(es) /\ mem' = mem
               \/ EmitFull(es, Uncounted) \/ EmitFails(es, Uncounted)
    <3>1. CASE SaveRecord
      <4>1. job.ok \in BOOLEAN
        BY <3>1, JobFacts DEF SaveRecord, JobPcs, Jobs
      <4> QED BY <3>1, <4>1 DEF SaveRecord
    <3>2. CASE SaveLocated
      BY <3>2 DEF SaveLocated
    <3> QED BY <1>7, <3>1, <3>2
  <2> DEFINE es == <<RecordOf(job.f, job.dig, job.b, ok)>>
  <2>2. es \in Seq(Event)
    <3>1. pc \in JobPcs
      BY <1>7 DEF SaveRecord, SaveLocated, JobPcs
    <3> QED BY <3>1, RecordFacts
  <2> HIDE DEF es
  <2>3. CASE Emitted(es) /\ mem' = mem
    BY <2>2, <2>3, EmitPasses DEF Emitted
  <2> QED BY <1>0, <2>1, <2>2, <2>3, FailPasses DEF es
<1>8. CASE Locate
  <2>1. \A o \in {"answer"} \cup (Outcomes \cap {"unavailable", "exhausted", "auth"}) :
            RuntimeAfter(o) \in Runtimes
    BY DEF RuntimeAfter, Runtimes
  <2>2. journal' = journal
        /\ disk' \in {disk} \cup {[disk EXCEPT !.runtime = r] : r \in Runtimes}
        /\ mem' \in {mem} \cup {[mem EXCEPT !.runtime = r] : r \in Runtimes}
    BY <1>8, <2>1 DEF Locate, Persist
  <2>3. mem'.status = "running"
    BY <2>2, StillRunning
  <2> QED BY <2>2, <2>3, QuietPasses
<1>9. ASSUME NEW o \in (AllOutcomes \ {"partial", "invalid"}) \cup {"answer"}, LocateUnsaved(o)
      PROVE  Passing
  <2>1. o # "denied" => RuntimeAfter(o) \in Runtimes
    BY DEF AllOutcomes, RuntimeAfter, Runtimes
  <2>2. journal' = journal
        /\ disk' \in {disk} \cup {[disk EXCEPT !.runtime = r] : r \in Runtimes}
        /\ mem' = Uncounted
    BY <1>9, <2>1 DEF LocateUnsaved, Unsaved
  <2> QED BY <1>0, <2>2, QuietPasses
<1>10. CASE GiveUp
  <2>1. journal' = journal /\ disk' = disk /\ Stop("store", Uncounted)
    BY <1>10 DEF GiveUp, durable
  <2> QED BY <1>0, <2>1, StopPasses
<1>11. CASE CoverAssessed
  <2> DEFINE es == <<CoverFile(job.f, job.dig, Disposition(job.err))>>
  <2>1. es \in Seq(Event)
    <3>1. job.f \in Files /\ job.dig \in Nat
      BY <1>11, JobFacts DEF CoverAssessed, JobPcs
    <3>2. Disposition(job.err) \in Closing \cup {"pending"}
      BY DEF Disposition, Closing
    <3>3. CoverFile(job.f, job.dig, Disposition(job.err)) \in Event
      BY <3>1, <3>2 DEF CoverFile, Event
    <3> QED BY <3>3
  <2> DEFINE Covered ==
               /\ journal' = journal \o es /\ disk' = disk
               /\ job.err = "none" =>
                     mem' = Commit([mem EXCEPT !.pending = Tail(@), !.judged = @ + 1], es)
               /\ job.err = "refused" => mem' = Close(mem, es)
               /\ job.err \notin {"none", "refused"} =>
                     /\ pc' = "save"
                     /\ mem' \in {[Uncounted EXCEPT !.status = "judge_unavailable"], Uncounted}
  <2>2. Covered \/ EmitFull(es, Uncounted) \/ EmitFails(es, Uncounted)
    BY <1>11 DEF CoverAssessed, Emitted, Stop
  <2>3. CASE Covered
    <3>2. Commit([mem EXCEPT !.pending = Tail(@), !.judged = @ + 1], es).status = "running"
      <4> DEFINE n == NewEnd(es)
      <4>1. mem \in Cursors
        BY IInvFacts
      <4> HIDE DEF n
      <4>2. [[mem EXCEPT !.pending = Tail(@), !.judged = @ + 1] EXCEPT !.offset = n].status
              = "running"
        BY <4>1 DEF Cursors
      <4> QED BY <4>2 DEF Commit, n
    <3>3. [Uncounted EXCEPT !.status = "judge_unavailable"].status = "judge_unavailable"
      <4>1. mem \in Cursors
        BY IInvFacts
      <4> QED BY <4>1 DEF Uncounted, Cursors
    <3>4. Close(mem, es).status = "running"
      BY StillRunning
    <3> HIDE DEF es
    <3>5. mem'.status # "budget_exhausted" /\ (pc' # "save" => mem'.status = "running")
      BY <1>0, <2>3, <3>2, <3>3, <3>4
    <3> QED BY <2>1, <2>3, <3>5, EmitPasses
  <2> HIDE DEF es, Covered
  <2> QED BY <1>0, <2>1, <2>2, <2>3, FailPasses
<1> QED BY <1>1, <1>2, <1>3, <1>4, <1>5, <1>6, <1>7, <1>8, <1>9, <1>10, <1>11

\* Every file and every directory that the budget leaves is among the events.
LEMMA AllAnnounced ==
    ASSUME IInv, NEW why \in {"file_budget", "step_budget"},
           journal' = journal \o BudgetCoverage(why)
    PROVE  Announced(mem, journal')
<1> DEFINE p == mem.pending
           q == mem.stack
           u == [i \in 1 .. Len(p) |-> CoverFile(p[i], 0, "pending")]
           v == [i \in 1 .. Len(q) |-> Boundary(q[i], why)]
           es == BudgetCoverage(why)
           n == Len(journal)
<1>1. p \in Seq(Files) /\ q \in Seq(Dirs) /\ Len(p) \in Nat /\ Len(q) \in Nat
  <2>1. mem \in Cursors
    BY IInvFacts
  <2>2. p \in Seq(Files) /\ q \in Seq(Dirs)
    BY <2>1 DEF Cursors
  <2> QED BY <2>2
<1>2. es = u \o v
  BY DEF BudgetCoverage
<1> HIDE DEF p, q
<1>3. \A i \in 1 .. Len(p) : CoverFile(p[i], 0, "pending") \in Event
  BY <1>1 DEF CoverFile, Event
<1>4. \A i \in 1 .. Len(q) : Boundary(q[i], why) \in Event
  BY <1>1 DEF Boundary, Event, Refs
<1>5. /\ u \in Seq(Event) /\ Len(u) = Len(p)
      /\ \A i \in 1 .. Len(p) : u[i] = CoverFile(p[i], 0, "pending")
  BY <1>1, <1>3
<1>6. /\ v \in Seq(Event) /\ Len(v) = Len(q)
      /\ \A i \in 1 .. Len(q) : v[i] = Boundary(q[i], why)
  BY <1>1, <1>4
<1> HIDE DEF u, v, es
<1>7. /\ es \in Seq(Event) /\ Len(es) = Len(p) + Len(q)
      /\ \A i \in 1 .. Len(p) : es[i] = u[i]
      /\ \A i \in 1 .. Len(q) : es[Len(p) + i] = v[i]
  <2>1. u \in Seq(Event) /\ v \in Seq(Event)
    BY <1>5, <1>6
  <2>2. /\ u \o v \in Seq(Event) /\ Len(u \o v) = Len(u) + Len(v)
        /\ \A i \in 1 .. Len(u) : (u \o v)[i] = u[i]
        /\ \A i \in 1 .. Len(v) : (u \o v)[Len(u) + i] = v[i]
    BY ONLY <2>1, ConcatFacts
  <2> QED BY <1>2, <1>5, <1>6, <2>2
<1>8. /\ Len(journal') = n + Len(es)
      /\ \A i \in 1 .. Len(es) : journal'[n + i] = es[i]
  <2>1. journal \in Seq(Event) /\ es \in Seq(Event) /\ journal' = journal \o es
    BY <1>7, IInvFacts DEF es
  <2>2. /\ Len(journal \o es) = Len(journal) + Len(es)
        /\ \A i \in 1 .. Len(es) : (journal \o es)[Len(journal) + i] = es[i]
    BY ONLY <2>1, ConcatFacts
  <2> QED BY <2>1, <2>2
<1>9. n \in Nat
  BY IInvFacts
<1> HIDE DEF n
<1>10. ASSUME NEW f \in ToSet(p)
       PROVE  \E i \in 1 .. Len(journal') : journal'[i].t = "file" /\ journal'[i].ref = f
  <2>1. PICK i \in 1 .. Len(p) : f = p[i]
    BY <1>1, InToSet
  <2>2. i \in 1 .. Len(es) /\ n + i \in 1 .. Len(journal')
    BY <1>1, <1>7, <1>8, <1>9
  <2>3. journal'[n + i] = CoverFile(p[i], 0, "pending")
    BY <1>5, <1>7, <1>8, <2>2
  <2>4. journal'[n + i].t = "file" /\ journal'[n + i].ref = f
    BY <2>1, <2>3 DEF CoverFile
  <2> QED BY <2>2, <2>4
<1>11. ASSUME NEW d \in ToSet(q)
       PROVE  \E i \in 1 .. Len(journal') : journal'[i].t = "subtree" /\ journal'[i].ref = d
  <2>1. PICK i \in 1 .. Len(q) : d = q[i]
    BY <1>1, InToSet
  <2> DEFINE j == Len(p) + i
  <2>2. j \in 1 .. Len(es) /\ n + j \in 1 .. Len(journal')
    BY <1>1, <1>7, <1>8, <1>9
  <2>3. es[j] = Boundary(q[i], why)
    BY <1>6, <1>7
  <2>4. journal'[n + j] = Boundary(q[i], why)
    <3> HIDE DEF j
    <3> QED BY <1>8, <2>2, <2>3
  <2>5. journal'[n + j].t = "subtree" /\ journal'[n + j].ref = d
    BY <2>1, <2>4 DEF Boundary
  <2> QED BY <2>2, <2>5
<1> QED BY <1>10, <1>11 DEF Announced, p, q

LEMMA FileBudgetTells ==
    ASSUME IInv, EndTold, FileBudget
    PROVE  EndTold'
<1> DEFINE es == BudgetCoverage("file_budget")
           m == [mem EXCEPT !.status = "budget_exhausted"]
<1>1. mem.status = "running" /\ es \in Seq(Event)
  BY BudgetCoverageFacts DEF EndTold, FileBudget
<1>2. \/ journal' = journal \o es /\ disk' = disk /\ pc' = "save" /\ mem' = m
      \/ EmitFull(es, mem) \/ EmitFails(es, mem)
  BY DEF FileBudget, Emitted, Stop
<1>3. CASE journal' = journal \o es /\ disk' = disk /\ pc' = "save" /\ mem' = m
  <2>1. Announced(mem, journal')
    BY <1>3, AllAnnounced
  <2>2. m.pending = mem.pending /\ m.stack = mem.stack
    <3>1. mem \in Cursors
      BY IInvFacts
    <3> QED BY <3>1 DEF Cursors
  <2>3. Announced(mem', journal')
    BY <1>3, <2>1, <2>2 DEF Announced
  <2>4. Grown
    BY <1>1, <1>3, EmissionGrown
  <2>5. disk.status = "budget_exhausted" => Announced(disk, journal')
    BY <2>4, AnnouncedGrows DEF EndTold
  <2> QED BY <1>3, <2>3, <2>5 DEF EndTold
<1> HIDE DEF es
<1> QED BY <1>1, <1>2, <1>3, FailPasses, PassingKeeps

\* The saved status is that of the cursor, and so is the work left.
LEMMA SavedTells ==
    ASSUME IInv, EndTold, SaveScan \/ SaveScanFails
    PROVE  EndTold'
<1> DEFINE m == [mem EXCEPT !.status = StatusSaved]
           w == [m EXCEPT !.status = "storage_cap", !.stack = <<>>, !.pending = <<>>]
<1>1. /\ pc = "save" /\ pc' = "idle" /\ mem' = NoScan
      /\ journal' = journal /\ disk' \in {disk, Saved}
  BY DEF SaveScan, SaveScanFails
<1>2. NoScan.status = "running"
  BY DEF NoScan, NewScan
<1>3. Saved.status = "done" => Ahead(Saved) = {}
  BY <1>1, SavedFacts
<1>4. Saved.status = "budget_exhausted" => Announced(Saved, journal)
  <2> SUFFICES ASSUME Saved.status = "budget_exhausted" PROVE Announced(Saved, journal)
    OBVIOUS
  <2>1. m.stack = mem.stack /\ m.pending = mem.pending /\ m.status = StatusSaved
        /\ w.status = "storage_cap"
    <3> DEFINE st == StatusSaved
    <3>1. mem \in Cursors
      BY IInvFacts
    <3> HIDE DEF st
    <3>2. /\ [mem EXCEPT !.status = st].stack = mem.stack
          /\ [mem EXCEPT !.status = st].pending = mem.pending
          /\ [mem EXCEPT !.status = st].status = st
          /\ [[mem EXCEPT !.status = st] EXCEPT !.status = "storage_cap", !.stack = <<>>,
                                                !.pending = <<>>].status = "storage_cap"
      BY <3>1 DEF Cursors
    <3> QED BY <3>2 DEF st
  <2>2. Saved = IF TooWide(m) THEN w ELSE m
    BY DEF Saved
  <2> HIDE DEF m, w
  <2>3. Saved = m
    BY <2>1, <2>2
  <2>4. mem.status = "budget_exhausted"
    BY <2>1, <2>3 DEF StatusSaved
  <2>5. Announced(mem, journal)
    BY <2>4 DEF EndTold
  <2> QED BY <2>1, <2>3, <2>5 DEF Announced
<1> QED BY <1>1, <1>2, <1>3, <1>4 DEF EndTold

\* A process that dies leaves what is on disk; an edit changes no cursor.
LEMMA OutsideTells ==
    ASSUME IInv, EndTold,
           \/ Crash \/ \E f \in Files : EditSource(f)
           \/ \E d \in Dirs : Spoil(d) \/ Repair(d)
           \/ UNCHANGED vars
    PROVE  EndTold'
<1>1. NoScan.status = "running"
  BY DEF NoScan, NewScan
<1>2. CASE Crash
  <2>1. journal' = journal /\ disk' = disk /\ mem' = NoScan
    BY <1>2 DEF Crash, durable
  <2> QED BY <1>1, <2>1 DEF EndTold
<1>3. CASE \/ UNCHANGED vars \/ \E f \in Files : EditSource(f)
           \/ \E d \in Dirs : Spoil(d) \/ Repair(d)
  <2>1. journal' = journal /\ disk' = disk /\ mem' = mem /\ pc' = pc
    BY <1>3 DEF EditSource, Spoil, Repair, vars, durable, local
  <2> QED BY <2>1 DEF EndTold
<1> QED BY <1>2, <1>3

LEMMA NextTells == IInv /\ EndTold /\ [Next]_vars => EndTold'
<1> SUFFICES ASSUME IInv, EndTold, [Next]_vars PROVE EndTold'
  OBVIOUS
<1>1. Outcomes \subseteq AllOutcomes
  BY OutcomesAssumption
<1>2. CASE \/ StartStep \/ Finished \/ ListDir \/ RulesHold \/ BudgetEnds
           \/ ScopeExcluded \/ ScopeFails
  <2>1. pc # "save"
    BY <1>2 DEF StartStep, Finished, ListDir, RulesHold, BudgetEnds, ScopeExcluded,
                ScopeFails, MayWalk, AtFile, ReadsRules
  <2> QED BY <1>2, <2>1, WalkPasses, PassingKeeps DEF EndTold
<1>3. CASE FileBudget
  BY <1>3, FileBudgetTells
<1>4. CASE \/ SkipFile \/ StaleFile \/ BeginFile \/ LoadFails
           \/ Replay \/ NotSent \/ CacheHit
           \/ \E o \in AllOutcomes \cup {"answer"} : Ask(o) \/ AskUnsaved(o)
           \/ SaveRecord \/ Locate \/ SaveLocated \/ AssessmentEnds
           \/ \E o \in (AllOutcomes \ {"partial", "invalid"}) \cup {"answer"} : LocateUnsaved(o)
           \/ GiveUp \/ CoverAssessed
  <2>1. pc # "save"
    <3>1. ASSUME NEW f, Begins(f) PROVE pc # "save"
      BY <3>1 DEF Begins, AtFile, MayWalk
    <3>2. CASE SkipFile \/ StaleFile
      <4>1. \E f : Begins(f)
        BY <3>2 DEF SkipFile, StaleFile
      <4> QED BY <3>1, <4>1
    <3>3. CASE BeginFile \/ LoadFails
      <4>1. \E f : Begins(f)
        BY <3>3 DEF BeginFile, LoadFails
      <4> QED BY <3>1, <4>1
    <3>4. CASE Replay \/ NotSent \/ CacheHit \/ AssessmentEnds
      BY <3>4 DEF Replay, NotSent, CacheHit, AssessmentEnds, AtBattery
    <3>5. CASE \E o \in AllOutcomes \cup {"answer"} : Ask(o) \/ AskUnsaved(o)
      BY <3>5 DEF Ask, AskUnsaved, Sends, AtBattery
    <3>6. CASE SaveRecord \/ SaveLocated
      BY <3>6 DEF SaveRecord, SaveLocated
    <3>7. CASE Locate \/ \E o \in (AllOutcomes \ {"partial", "invalid"}) \cup {"answer"} :
                            LocateUnsaved(o)
      BY <3>7 DEF Locate, LocateUnsaved
    <3>8. CASE GiveUp \/ CoverAssessed
      BY <3>8 DEF GiveUp, CoverAssessed
    <3> QED BY <1>4, <3>2, <3>3, <3>4, <3>5, <3>6, <3>7, <3>8
  <2> QED BY <1>4, <2>1, FilePasses, PassingKeeps DEF EndTold
<1>5. CASE SaveScan \/ SaveScanFails
  BY <1>5, SavedTells
<1>6. CASE \/ Crash \/ UNCHANGED vars
           \/ \E f \in Files : EditSource(f)
           \/ \E d \in Dirs : Spoil(d) \/ Repair(d)
  BY <1>6, OutsideTells
<1> QED BY <1>1, <1>2, <1>3, <1>4, <1>5, <1>6 DEF Next, Work

(* A scan whose saved status says it is done has nothing ahead of it, and    *)
(* one that ended at its file budget has named every file and directory it   *)
(* leaves in the journal, whatever failed or was retried before.             *)
THEOREM EndsAreTold == Spec => []EndTold
<1>1. Init => EndTold
  <2> SUFFICES ASSUME Init PROVE EndTold
    OBVIOUS
  <2>1. PICK max \in MaxFiles : disk = NewScan(max)
    BY DEF Init
  <2>2. disk.status = "running" /\ mem.status = "running"
    BY <2>1 DEF Init, NewScan, NoScan
  <2> QED BY <2>2 DEF EndTold
<1>2. IInv /\ EndTold /\ [Next]_vars => EndTold'
  BY NextTells
<1> QED BY <1>1, <1>2, Invariance, PTL DEF Spec

-----------------------------------------------------------------------------
(* Reading a report                                                          *)

\* The scan below a reader is a scan: what holds of Spec holds of ReviewSpec.
LEMMA ReadersBehaveAsScan == ReviewSpec => Spec
<1>1. ReviewInit => Init
  BY DEF ReviewInit
<1>2. [ReviewNext]_rvars => [Next]_vars
  <2> SUFFICES ASSUME [ReviewNext]_rvars PROVE [Next]_vars
    OBVIOUS
  <2>1. CASE Report
    BY <2>1 DEF Report, FirstPage, NextPage, Done
  <2>2. CASE Next
    BY <2>2
  <2>3. CASE UNCHANGED rvars
    BY <2>3 DEF rvars
  <2> QED BY <2>1, <2>2, <2>3 DEF ReviewNext
<1> QED BY <1>1, <1>2, PTL DEF ReviewSpec, Spec

-----------------------------------------------------------------------------
(* What a report is made of                                                  *)

(* A set of numbers up to n has a greatest one.                              *)
LEMMA GreatestOfSome ==
    ASSUME NEW n \in Nat, NEW S \in SUBSET (0 .. n), S # {}
    PROVE  \E x \in S : \A y \in S : y <= x
<1> DEFINE T == {n - y : y \in S}
           Less == {ss \in Nat \X Nat : ss[1] < ss[2]}
<1>1. T \in SUBSET Nat /\ T # {}
  <2>1. \A y \in S : n - y \in Nat
    OBVIOUS
  <2>2. T # {}
    OBVIOUS
  <2> QED BY <2>1, <2>2
<1>2. PICK t \in T : \A u \in T : ~ (<<u, t>> \in Less)
  <2>1. IsWellFoundedOn(Less, Nat)
    BY NatLessThanWellFounded, Zenon DEF OpToRel
  <2> HIDE DEF T, Less
  <2> QED BY <1>1, <2>1, WFMin
<1>3. PICK x \in S : t = n - x
  BY <1>2
<1>4. ASSUME NEW y \in S PROVE y <= x
  <2> DEFINE u == n - y
  <2>1. u \in T /\ u \in Nat /\ t \in Nat
    BY <1>1
  <2>2. ~ (<<u, t>> \in Less)
    BY <1>2, <2>1
  <2>3. ~ (u < t)
    <3> HIDE DEF u
    <3> QED BY <2>1, <2>2
  <2> QED BY <1>3, <2>3
<1> QED BY <1>4

(* The bounded prefix of a journal is a journal, and the whole of it when    *)
(* the report says that it is complete.                                      *)
LEMMA EvidenceFacts ==
    ASSUME NEW es \in Seq(Event)
    PROVE  /\ Evidence(es) \in Seq(Event)
           /\ ReportComplete(es) => Evidence(es) = es
<1> DEFINE k == Min({Len(es), ReportCap})
<1>1. Len(es) \in Nat /\ ReportCap \in Nat
  BY ReportAssumption
<1>2. k \in {Len(es), ReportCap} /\ k <= Len(es) /\ k <= ReportCap
  <2>1. \E x \in {Len(es), ReportCap} : \A y \in {Len(es), ReportCap} : x =< y
    BY <1>1
  <2> QED BY <2>1 DEF Min
<1>3. k \in 0 .. Len(es) /\ (ReportComplete(es) => k = Len(es))
  BY <1>1, <1>2 DEF ReportComplete
<1>4. Evidence(es) = SubSeq(es, 1, k)
  BY DEF Evidence
<1> HIDE DEF k
<1>5. SubSeq(es, 1, k) \in Seq(Event)
  <2>1. 1 \in Int /\ k \in Int /\ \A i \in 1 .. k : es[i] \in Event
    BY <1>1, <1>3
  <2> QED BY ONLY <2>1, SubSeqProperties
<1>6. SubSeq(es, 1, Len(es)) = es
  OBVIOUS
<1> QED BY <1>3, <1>4, <1>5, <1>6

(* However often the coverage of a file was replaced, its last event is not. *)
LEMMA LastCoverage ==
    ASSUME NEW es \in Seq(Event), NEW i \in 1 .. Len(es), es[i].t = "file"
    PROVE  \E n \in 1 .. Len(es) : /\ es[n].t = "file" /\ es[n].ref = es[i].ref
                                   /\ es[n] \in FileCoverage(es)
<1> DEFINE l == Len(es)
           S == {j \in 1 .. l : es[j].t = "file" /\ es[j].ref = es[i].ref}
<1>1. l \in Nat /\ S \in SUBSET (0 .. l) /\ i \in S
  OBVIOUS
<1>2. PICK n \in S : \A j \in S : j <= n
  <2> HIDE DEF S, l
  <2> QED BY <1>1, GreatestOfSome
<1>3. \A j \in n + 1 .. l : j \notin S
  <2>1. n \in Nat /\ \A j \in S : j \in Nat
    BY <1>1
  <2> QED BY <1>2, <2>1
<1>4. \A j \in n + 1 .. l : ~ Supersedes(es[j], es[n])
  <2> SUFFICES ASSUME NEW j \in n + 1 .. l, Supersedes(es[j], es[n]) PROVE FALSE
    OBVIOUS
  <2>1. j \in 1 .. l
    BY <1>1
  <2> QED BY <1>3, <2>1 DEF Supersedes
<1>5. n \in DOMAIN es
  OBVIOUS
<1> QED BY <1>4, <1>5 DEF FileCoverage

(* A file the journal speaks of, itself or by a directory above it.          *)
Mentioned(es, f) ==
    \/ \E i \in 1 .. Len(es) : es[i].t = "file" /\ es[i].ref = f
    \/ \E i \in 1 .. Len(es) : /\ es[i].t = "subtree" /\ es[i].ref \in Dirs
                               /\ f \in FilesBelow(es[i].ref)

(* What the journal speaks of, the report lists: as assessed or as a gap.    *)
LEMMA MentionedListed ==
    ASSUME NEW es \in Seq(Event), NEW f, Mentioned(es, f)
    PROVE  \/ \E k \in Keys(es) : k[1] = f /\ Status(es, k) = "assessed"
           \/ \E g \in Gaps(es) : g.ref = f \/ (g.ref \in Dirs /\ f \in FilesBelow(g.ref))
<1>1. CASE \E i \in 1 .. Len(es) : es[i].t = "file" /\ es[i].ref = f
  <2>1. PICK n \in 1 .. Len(es) : es[n].ref = f /\ es[n] \in FileCoverage(es)
    BY <1>1, LastCoverage
  <2> DEFINE k == Key(es[n])
             g == [kind |-> "file", ref |-> k[1], dig |-> k[2], disp |-> Status(es, k),
                   large |-> Large(es, k)]
  <2>2. k \in Keys(es) /\ k[1] = f
    BY <2>1 DEF Keys, Key
  <2> HIDE DEF k
  <2>3. CASE Status(es, k) = "assessed"
    BY <2>2, <2>3
  <2>4. CASE Status(es, k) # "assessed"
    <3>1. g \in Gaps(es)
      BY <2>2, <2>4 DEF Gaps
    <3>2. g.ref = f
      BY <2>2
    <3> QED BY <3>1, <3>2
  <2> QED BY <2>3, <2>4
<1>2. CASE \E i \in 1 .. Len(es) : /\ es[i].t = "subtree" /\ es[i].ref \in Dirs
                                   /\ f \in FilesBelow(es[i].ref)
  <2>1. PICK i \in 1 .. Len(es) : /\ es[i].t = "subtree" /\ es[i].ref \in Dirs
                                  /\ f \in FilesBelow(es[i].ref)
    BY <1>2
  <2> DEFINE d == es[i].ref
             g == [kind |-> "subtree", ref |-> d, dig |-> 0, disp |-> "unknown", large |-> FALSE]
  <2>2. d \in Subtrees(es)
    BY <2>1 DEF Subtrees, ToSet
  <2> HIDE DEF d
  <2>3. g \in Gaps(es) /\ g.ref = d
    BY <2>2 DEF Gaps
  <2> QED BY <2>1, <2>3 DEF d
<1> QED BY <1>1, <1>2 DEF Mentioned

(* Where a walk has ended, the journal speaks of every file.                 *)
LEMMA AllMentioned ==
    ASSUME IInv, EndTold, disk.status \in {"done", "budget_exhausted"},
           NEW f \in FilesBelow(Root)
    PROVE  Mentioned(journal, f)
<1>1. f \in Files
  <2>1. PICK x \in Below(Root) : f \in ToSet(FilesIn[x])
    BY DEF FilesBelow
  <2>2. x \in Dirs
    BY ListingAssumption, BelowFacts
  <2>3. FilesIn[x] \in Seq(Files)
    BY <2>2, ListingAssumption
  <2> QED BY <2>1, <2>3 DEF ToSet
<1>2. f \in Ahead(disk) \/ Accounted(f)
  <2>1. Whole(disk, Told)
    BY DiskSoundFacts
  <2> QED BY <1>1, <2>1 DEF Whole, Told
<1>3. CASE Accounted(f)
  BY <1>3 DEF Accounted, Mentioned
<1>4. CASE f \in Ahead(disk)
  <2>1. Announced(disk, journal)
    BY <1>4 DEF EndTold
  <2>2. CASE f \in ToSet(disk.pending)
    BY <2>1, <2>2 DEF Announced, Mentioned
  <2>3. CASE \E d \in ToSet(disk.stack) : f \in FilesBelow(d)
    <3>1. PICK d \in ToSet(disk.stack) : f \in FilesBelow(d)
      BY <2>3
    <3>2. d \in Dirs
      <4>1. disk \in Cursors
        BY IInvFacts
      <4>2. disk.stack \in Seq(Dirs)
        BY <4>1 DEF Cursors
      <4> QED BY <3>1, <4>2, InToSet
    <3>3. PICK i \in 1 .. Len(journal) : journal[i].t = "subtree" /\ journal[i].ref = d
      BY <2>1, <3>1 DEF Announced
    <3> QED BY <3>1, <3>2, <3>3 DEF Mentioned
  <2> QED BY <1>4, <2>2, <2>3 DEF Ahead, InCursor
<1> QED BY <1>2, <1>3, <1>4

(* What it takes for a content to be called assessed.                        *)
LEMMA StatusFacts ==
    ASSUME NEW es, NEW k, Status(es, k) = "assessed"
    PROVE  /\ \A c \in FileCoverage(es) : Key(c) = k => c.disp = "complete"
           /\ \E r \in Records(es) : Key(r) = k /\ Assessed(r)
<1> DEFINE rs == {r \in Records(es) : Key(r) = k}
           disps == {c.disp : c \in {x \in FileCoverage(es) : Key(x) = k}}
<1>1. disps = {"complete"} /\ rs # {} /\ \A r \in rs : Assessed(r)
  BY DEF Status
<1> QED BY <1>1

(* No file disappears from the report of an ended walk.                      *)
THEOREM GapsTellAllAlways == ReviewSpec => []GapsTellAll
<1>1. IInv /\ EndTold => GapsTellAll
  <2> SUFFICES ASSUME IInv, EndTold, disk.status \in {"done", "budget_exhausted"},
                      NEW f \in FilesBelow(Root)
               PROVE  \/ \E k \in Keys(journal) : k[1] = f /\ Status(journal, k) = "assessed"
                      \/ \E g \in Gaps(journal) :
                            g.ref = f \/ (g.ref \in Dirs /\ f \in FilesBelow(g.ref))
    BY DEF GapsTellAll
  <2>1. journal \in Seq(Event) /\ Mentioned(journal, f)
    BY IInvFacts, AllMentioned
  <2> QED BY <2>1, MentionedListed
<1> QED BY <1>1, ReadersBehaveAsScan, Invariance, EndsAreTold, PTL

(* A report that says the assessment is complete says it of the whole tree.  *)
THEOREM CompleteIsWholeAlways == ReviewSpec => []CompleteIsWhole
<1>1. IInv /\ EndTold => CompleteIsWhole
  <2> SUFFICES ASSUME IInv, EndTold, AssessmentComplete(journal, disk), NEW f \in FilesBelow(Root)
               PROVE  /\ f \in Determinate
                      /\ \E i \in DOMAIN journal :
                            /\ journal[i].t = "file" /\ journal[i].ref = f
                            /\ journal[i].disp = "complete"
                            /\ \A b \in 1 .. Batteries[f] :
                                  RecordOf(f, journal[i].dig, b, TRUE) \in ToSet(journal)
    BY DEF CompleteIsWhole
  <2>1. journal \in Seq(Event) /\ Evidence(journal) = journal
    BY IInvFacts, EvidenceFacts DEF AssessmentComplete
  <2>2. /\ Subtrees(journal) = {}
        /\ \A k \in Keys(journal) : Status(journal, k) = "assessed"
    BY <2>1 DEF AssessmentComplete
  <2>3. Mentioned(journal, f)
    BY AllMentioned DEF AssessmentComplete
  <2>4. PICK i \in 1 .. Len(journal) : journal[i].t = "file" /\ journal[i].ref = f
    <3>1. ASSUME NEW i \in 1 .. Len(journal), journal[i].t = "subtree" PROVE FALSE
      <4>1. i \in DOMAIN journal
        BY <2>1
      <4>2. journal[i] \in {x \in ToSet(journal) : x.t = "subtree"}
        BY <3>1, <4>1 DEF ToSet
      <4>3. journal[i].ref \in Subtrees(journal)
        BY <4>2 DEF Subtrees
      <4> QED BY <2>2, <4>3
    <3> QED BY <2>3, <3>1 DEF Mentioned
  <2>5. PICK n \in 1 .. Len(journal) : /\ journal[n].t = "file" /\ journal[n].ref = f
                                       /\ journal[n] \in FileCoverage(journal)
    BY <2>1, <2>4, LastCoverage
  <2> DEFINE k == Key(journal[n])
  <2>6. k \in Keys(journal) /\ k[1] = f
    BY <2>5 DEF Keys, Key
  <2>7. Status(journal, k) = "assessed"
    BY <2>2, <2>6
  <2>8. /\ journal[n].disp = "complete"
        /\ \E r \in Records(journal) : Key(r) = k /\ Assessed(r)
    BY <2>5, <2>7, StatusFacts
  <2>9. f \in Determinate
    BY <2>6, <2>8 DEF Assessed, Key
  <2>10. ASSUME NEW b \in 1 .. Batteries[f]
         PROVE  RecordOf(f, journal[n].dig, b, TRUE) \in ToSet(journal)
    <3>1. CompleteHasEvidence
      BY DEF IInv, Log
    <3>2. PICK j \in 1 .. n - 1 : journal[j] = RecordOf(f, journal[n].dig, b, TRUE)
      BY <2>5, <2>8, <3>1 DEF CompleteHasEvidence
    <3>3. j \in 1 .. Len(journal)
      BY <2>1
    <3>4. j \in DOMAIN journal
      BY <2>1, <3>3
    <3> DEFINE e == RecordOf(f, journal[n].dig, b, TRUE)
    <3>5. journal[j] = e
      BY <3>2
    <3> HIDE DEF e
    <3>6. e \in ToSet(journal)
      BY <3>4, <3>5 DEF ToSet
    <3> QED BY <3>6 DEF e
  <2>11. n \in DOMAIN journal
    BY <2>1
  <2> QED BY <2>5, <2>8, <2>9, <2>10, <2>11
<1> QED BY <1>1, ReadersBehaveAsScan, Invariance, EndsAreTold, PTL

-----------------------------------------------------------------------------
(* The lists of a report and their pages                                     *)

\* A list that shows the elements of a finite set is a sequence.
LEMMA SortedFacts ==
    ASSUME NEW S, IsFiniteSet(S)
    PROVE  Sorted(S) \in Seq({Sorted(S)[n] : n \in DOMAIN Sorted(S)})
<1> DEFINE L == Sorted(S)
           c == Cardinality(S)
           T == {L[n] : n \in DOMAIN L}
<1>1. c \in Nat
  BY FS_CardinalityType
<1>2. DOMAIN L = 1 .. c /\ L = [n \in 1 .. c |-> L[n]]
  <2> DEFINE Nth(n) == CHOOSE e \in S : Cardinality({f \in S : Before(f, e)}) = n - 1
             F == [n \in 1 .. c |-> Nth(n)]
  <2>1. L = F
    BY DEF Sorted
  <2> HIDE DEF Nth, c
  <2>2. DOMAIN F = 1 .. c /\ F = [n \in 1 .. c |-> F[n]]
    OBVIOUS
  <2> HIDE DEF F, L
  <2> QED BY <2>1, <2>2
<1> HIDE DEF L, c
<1>3. \A n \in 1 .. c : L[n] \in T
  BY <1>2
<1> HIDE DEF T
<1>4. L \in Seq(T)
  BY <1>1, <1>2, <1>3
<1> QED BY <1>4 DEF L, T

\* FS_Image of FiniteSetTheorems for a function.
LEMMA ImageFinite ==
    ASSUME NEW S, IsFiniteSet(S), NEW f, f = [x \in S |-> f[x]]
    PROVE  IsFiniteSet({f[x] : x \in S})
<1> DEFINE T == {f[x] : x \in S}
<1>1. f \in Surjection(S, T)
  BY DEF Surjection
<1> QED BY <1>1, FS_Surjection

\* What a journal tells is finite.
LEMMA ListsFinite ==
    ASSUME NEW es \in Seq(Event)
    PROVE  IsFiniteSet(Gaps(es)) /\ IsFiniteSet(Reviews(es))
<1> DEFINE E == {es[i] : i \in DOMAIN es}
           G == {x \in Keys(es) : Status(es, x) # "assessed"}
           R == {x \in Records(es) : x.ok /\ x.b = 1 /\ x.ref \in Findings}
           gap(k) == [kind |-> "file", ref |-> k[1], dig |-> k[2], disp |-> Status(es, k),
                      large |-> Large(es, k)]
           tree(d) == [kind |-> "subtree", ref |-> d, dig |-> 0, disp |-> "unknown",
                       large |-> FALSE]
           row(r) == [kind |-> "review", ref |-> r.ref, dig |-> r.dig,
                      disp |-> Status(es, Key(r))]
<1>1. IsFiniteSet(E)
  <2>1. IsFiniteSet(DOMAIN es)
    <3>1. DOMAIN es = 1 .. Len(es) /\ Len(es) \in Nat /\ 1 \in Int /\ Len(es) \in Int
      OBVIOUS
    <3>2. IsFiniteSet(1 .. Len(es))
      BY <3>1, FS_Interval
    <3> QED BY <3>1, <3>2
  <2> QED BY <2>1, ImageFinite
<1>2. /\ Records(es) \in SUBSET E /\ FileCoverage(es) \in SUBSET E
      /\ {x \in ToSet(es) : x.t = "subtree"} \in SUBSET E
  <2>1. Records(es) \in SUBSET E
    BY DEF Records
  <2>2. FileCoverage(es) \in SUBSET E
    BY DEF FileCoverage
  <2>3. {x \in ToSet(es) : x.t = "subtree"} \in SUBSET E
    BY DEF ToSet
  <2> QED BY <2>1, <2>2, <2>3
<1> HIDE DEF E
<1>3. /\ IsFiniteSet(Records(es)) /\ IsFiniteSet(FileCoverage(es))
      /\ IsFiniteSet({x \in ToSet(es) : x.t = "subtree"})
  BY <1>1, <1>2, FS_Subset
<1>4. IsFiniteSet(Keys(es))
  <2> DEFINE U == Records(es) \cup FileCoverage(es)
  <2>1. IsFiniteSet(U)
    BY <1>3, FS_Union
  <2> HIDE DEF U
  <2> DEFINE F == [e \in U |-> Key(e)]
  <2>2. F = [e \in U |-> F[e]] /\ {F[e] : e \in U} = {Key(e) : e \in U}
    OBVIOUS
  <2>3. IsFiniteSet({F[e] : e \in U})
    <3> HIDE DEF F
    <3> QED BY <2>1, <2>2, ImageFinite
  <2> QED BY <2>2, <2>3 DEF Keys, U
<1>5. IsFiniteSet(Subtrees(es))
  <2> DEFINE U == {x \in ToSet(es) : x.t = "subtree"}
  <2>1. IsFiniteSet(U)
    BY <1>3
  <2> HIDE DEF U
  <2> DEFINE F == [e \in U |-> e.ref]
  <2>2. F = [e \in U |-> F[e]] /\ {F[e] : e \in U} = {e.ref : e \in U}
    OBVIOUS
  <2>3. IsFiniteSet({F[e] : e \in U})
    <3> HIDE DEF F
    <3> QED BY <2>1, <2>2, ImageFinite
  <2> QED BY <2>2, <2>3 DEF Subtrees, U
<1>6. IsFiniteSet(G) /\ IsFiniteSet(R)
  <2>1. G \in SUBSET Keys(es) /\ R \in SUBSET Records(es)
    OBVIOUS
  <2> HIDE DEF G, R
  <2> QED BY <1>3, <1>4, <2>1, FS_Subset
<1> HIDE DEF G, R, gap, tree, row
<1> DEFINE fgap == [k \in G |-> gap(k)]
           ftree == [d \in Subtrees(es) |-> tree(d)]
           frow == [r \in R |-> row(r)]
<1>f. /\ fgap = [k \in G |-> fgap[k]] /\ {fgap[k] : k \in G} = {gap(k) : k \in G}
      /\ ftree = [d \in Subtrees(es) |-> ftree[d]]
      /\ {ftree[d] : d \in Subtrees(es)} = {tree(d) : d \in Subtrees(es)}
      /\ frow = [r \in R |-> frow[r]] /\ {frow[r] : r \in R} = {row(r) : r \in R}
  OBVIOUS
<1> HIDE DEF fgap, ftree, frow
<1>7. IsFiniteSet({gap(k) : k \in G}) /\ IsFiniteSet({tree(d) : d \in Subtrees(es)})
  <2>1. IsFiniteSet({fgap[k] : k \in G})
    BY <1>6, <1>f, ImageFinite
  <2>2. IsFiniteSet({ftree[d] : d \in Subtrees(es)})
    BY <1>5, <1>f, ImageFinite
  <2> QED BY <1>f, <2>1, <2>2
<1>8. IsFiniteSet({gap(k) : k \in G} \cup {tree(d) : d \in Subtrees(es)})
  BY <1>7, FS_Union
<1>9. IsFiniteSet({row(r) : r \in R})
  <2>1. IsFiniteSet({frow[r] : r \in R})
    BY <1>6, <1>f, ImageFinite
  <2> QED BY <1>f, <2>1
<1> QED BY <1>8, <1>9 DEF Gaps, Reviews, G, R, gap, tree, row

LEMMA ListFacts ==
    ASSUME NEW gen, gen.journal \in Seq(Event), NEW shape
    PROVE  \E T : List(gen, shape) \in Seq(T)
<1> DEFINE S == IF shape = "coverage" THEN Gaps(Evidence(gen.journal))
                                      ELSE Reviews(Evidence(gen.journal))
<1>1. IsFiniteSet(S)
  BY EvidenceFacts, ListsFinite
<1> HIDE DEF S
<1>2. Sorted(S) \in Seq({Sorted(S)[n] : n \in DOMAIN Sorted(S)})
  BY <1>1, SortedFacts
<1>3. List(gen, shape) = Sorted(S)
  BY DEF List, S
<1> QED BY <1>2, <1>3

\* A page holds rows of the list that follow on each other.
LEMMA RowsFacts ==
    ASSUME NEW T, NEW list \in Seq(T), NEW off \in 0 .. Len(list)
    PROVE  \E n \in 0 .. Len(list) - off :
              /\ Rows(list, off) = SubSeq(list, off + 1, off + n)
              /\ Len(Rows(list, off)) = n
<1> DEFINE Fits(n) == n <= Limit /\ Bytes(SubSeq(list, off + 1, off + n)) <= PageBytes
           l == Len(list) - off
           S == {n \in 0 .. l : \A m \in 1 .. n : Fits(m)}
           k == Max(S)
<1>1. l \in Nat /\ Len(list) \in Nat /\ off \in Nat /\ l = Len(list) - off
  OBVIOUS
<1>2. Rows(list, off) = SubSeq(list, off + 1, off + k)
  BY DEF Rows
<1> HIDE DEF Fits, l
<1>3. S \in SUBSET (0 .. l) /\ 0 \in S
  BY <1>1
<1> HIDE DEF S
<1>4. k \in S
  <2>1. \E x \in S : \A y \in S : y <= x
    BY <1>1, <1>3, GreatestOfSome
  <2>2. \E x \in S : \A y \in S : x >= y
    <3>1. \A x, y \in S : y <= x => x >= y
      BY <1>1, <1>3
    <3> QED BY <2>1, <3>1
  <2> QED BY <2>2 DEF Max
<1> HIDE DEF k
<1>5. k \in 0 .. l
  BY <1>3, <1>4
<1>6. Len(SubSeq(list, off + 1, off + k)) = k
  <2> DEFINE a == off + 1
             z == off + k
  <2>1. a \in Int /\ z \in Int /\ \A i \in a .. z : list[i] \in T
    BY <1>1, <1>5
  <2>2. (IF a <= z THEN z - a + 1 ELSE 0) = k
    BY <1>1, <1>5
  <2>3. Len(SubSeq(list, a, z)) = IF a <= z THEN z - a + 1 ELSE 0
    <3> HIDE DEF a, z
    <3> QED BY ONLY <2>1, SubSeqProperties
  <2>4. Len(SubSeq(list, a, z)) = k
    <3> HIDE DEF a, z
    <3> QED BY <2>2, <2>3
  <2> QED BY <2>4
<1> QED BY <1>2, <1>5, <1>6 DEF l

\* A caller that has read some pages, or all of them, of one report.
ReadSound ==
    /\ reader = [at |-> reader.at, shape |-> reader.shape, gen |-> reader.gen,
                 off |-> reader.off, got |-> reader.got]
    /\ reader.at \in {"paging", "read"} =>
        /\ reader.gen.journal \in Seq(Event)
        /\ reader.off \in 0 .. Len(List(reader.gen, reader.shape))
        /\ reader.got = SubSeq(List(reader.gen, reader.shape), 1, reader.off)
        /\ reader.at = "read" => reader.off = Len(List(reader.gen, reader.shape))

LEMMA PageKeeps ==
    ASSUME NEW r, r = [at |-> r.at, shape |-> r.shape, gen |-> r.gen,
                       off |-> r.off, got |-> r.got],
           NEW gen, gen.journal \in Seq(Event),
           NEW off \in 0 .. Len(List(gen, r.shape)),
           r.got = SubSeq(List(gen, r.shape), 1, off),
           reader' = Page(r, gen, off)
    PROVE  ReadSound'
<1> DEFINE list == List(gen, r.shape)
           rows == Rows(list, off)
           big == [NoReader EXCEPT !.at = "too_large"]
           at == IF off + Len(rows) < Len(list) THEN "paging" ELSE "read"
           next == [r EXCEPT !.at = at, !.gen = gen, !.off = off + Len(rows), !.got = @ \o rows]
<1>1. PICK T : list \in Seq(T)
  BY ListFacts
<1>2. reader' = IF off < Len(list) /\ rows = <<>> THEN big ELSE next
  BY DEF Page
<1>3. CASE reader' = big
  BY <1>3 DEF ReadSound, NoReader
<1>4. CASE reader' = next
  <2> DEFINE sh == r.shape
             end == off + Len(rows)
             got == r.got \o rows
  <2>1. reader' = [at |-> at, shape |-> sh, gen |-> gen, off |-> end, got |-> got]
    <3> HIDE DEF list, rows, at
    <3> QED BY <1>4
  <2> HIDE DEF list
  <2>2. off \in 0 .. Len(list) /\ Len(list) \in Nat
    BY <1>1 DEF list
  <2>3. PICK n \in 0 .. Len(list) - off :
           rows = SubSeq(list, off + 1, off + n) /\ Len(rows) = n
    BY <1>1, <2>2, RowsFacts
  <2> DEFINE l == Len(list)
  <2>a. l \in Nat /\ off \in 0 .. l /\ n \in 0 .. l - off
    BY <2>2, <2>3
  <2> HIDE DEF l
  <2>b. off + n \in off .. l /\ off + n \in 0 .. l
        /\ (~ (off + n < l) => off + n = l)
    BY <2>a
  <2>4. end = off + n /\ end \in off .. Len(list)
    <3> HIDE DEF rows
    <3> QED BY <2>3, <2>b DEF l
  <2>5. got = SubSeq(list, 1, end)
    <3>1. 1 \in 1 .. Len(list) + 1 /\ off \in 1 - 1 .. Len(list)
      BY <2>2
    <3>2. end \in off .. Len(list)
      BY <2>4
    <3>3. rows = SubSeq(list, off + 1, end)
      BY <2>3, <2>4
    <3>4. r.got = SubSeq(list, 1, off)
      BY DEF list
    <3> HIDE DEF rows, end
    <3>5. SubSeq(list, 1, off) \o SubSeq(list, off + 1, end) = SubSeq(list, 1, end)
      BY ONLY <1>1, <3>1, <3>2, ConcatAdjacentSubSeq
    <3> QED BY <3>3, <3>4, <3>5
  <2>6. at \in {"paging", "read"} /\ (at = "read" => end = Len(list))
    <3> HIDE DEF rows
    <3> QED BY <2>3, <2>b DEF l
  <2>7. end \in 0 .. Len(list)
    BY <2>4, <2>b DEF l
  <2> HIDE DEF rows, at, end, got
  <2>8. /\ reader'.at = at /\ reader'.shape = sh /\ reader'.gen = gen
        /\ reader'.off = end /\ reader'.got = got
    BY <2>1
  <2>9. List(reader'.gen, reader'.shape) = list
    BY <2>8 DEF list
  <2> QED BY <2>1, <2>5, <2>6, <2>7, <2>8, <2>9 DEF ReadSound
<1> QED BY <1>2, <1>3, <1>4

LEMMA ReportKeeps ==
    ASSUME IInv, ReadSound, Report
    PROVE  ReadSound'
<1>1. Generation.journal \in Seq(Event)
  BY IInvFacts DEF Generation
<1>2. CASE \E shape \in {"coverage", "review_queue"} : FirstPage(shape)
  <2>1. PICK shape \in {"coverage", "review_queue"} :
           reader' = Page([NoReader EXCEPT !.shape = shape], Generation, 0)
    BY <1>2 DEF FirstPage
  <2> DEFINE r == [NoReader EXCEPT !.shape = shape]
             list == List(Generation, r.shape)
  <2>2. r = [at |-> r.at, shape |-> r.shape, gen |-> r.gen, off |-> r.off, got |-> r.got]
        /\ r.got = <<>>
    BY DEF NoReader
  <2> HIDE DEF r
  <2>3. PICK T : list \in Seq(T)
    BY <1>1, ListFacts
  <2> HIDE DEF list
  <2>4. 0 \in 0 .. Len(list)
    BY <2>3
  <2>5. SubSeq(list, 1, 0) = <<>>
    BY SubSeqEmpty
  <2> QED BY <1>1, <2>1, <2>2, <2>4, <2>5, PageKeeps DEF r, list
<1>3. CASE NextPage
  <2>1. CASE reader.gen = Generation
    <3>1. reader' = Page(reader, Generation, reader.off)
      BY <1>3, <2>1 DEF NextPage
    <3>2. /\ reader.off \in 0 .. Len(List(Generation, reader.shape))
          /\ reader.got = SubSeq(List(Generation, reader.shape), 1, reader.off)
          /\ reader = [at |-> reader.at, shape |-> reader.shape, gen |-> reader.gen,
                       off |-> reader.off, got |-> reader.got]
      BY <1>3, <2>1 DEF NextPage, ReadSound
    <3> QED BY <1>1, <3>1, <3>2, PageKeeps
  <2>2. CASE reader.gen # Generation
    <3>1. reader' = [NoReader EXCEPT !.at = "stale"]
      BY <1>3, <2>2 DEF NextPage
    <3> QED BY <3>1 DEF ReadSound, NoReader
  <2> QED BY <2>1, <2>2
<1>4. CASE Done
  BY <1>4 DEF Done, ReadSound, NoReader
<1> QED BY <1>2, <1>3, <1>4 DEF Report

(* What a caller that followed the pages to the last one has read is the     *)
(* list of one report, whole and in order.                                   *)
THEOREM PagesAreOneReportAlways == ReviewSpec => []PagesAreOneReport
<1>1. ReviewInit => ReadSound
  BY DEF ReviewInit, ReadSound, NoReader
<1>2. IInv /\ ReadSound /\ [ReviewNext]_rvars => ReadSound'
  <2> SUFFICES ASSUME IInv, ReadSound, [ReviewNext]_rvars PROVE ReadSound'
    OBVIOUS
  <2>1. CASE Report
    BY <2>1, ReportKeeps
  <2>2. CASE UNCHANGED reader
    BY <2>2 DEF ReadSound
  <2> QED BY <2>1, <2>2 DEF ReviewNext, rvars
<1>3. ReadSound => PagesAreOneReport
  <2> SUFFICES ASSUME ReadSound, reader.at = "read"
               PROVE  reader.got = List(reader.gen, reader.shape)
    BY DEF PagesAreOneReport
  <2> DEFINE list == List(reader.gen, reader.shape)
  <2>1. PICK T : list \in Seq(T)
    BY ListFacts DEF ReadSound
  <2>2. reader.got = SubSeq(list, 1, Len(list))
    BY DEF ReadSound
  <2> HIDE DEF list
  <2>3. SubSeq(list, 1, Len(list)) = list
    BY <2>1
  <2> QED BY <2>2, <2>3 DEF list
<1> QED BY <1>1, <1>2, <1>3, ReadersBehaveAsScan, Invariance, PTL DEF ReviewSpec
=============================================================================
