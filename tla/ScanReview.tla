----------------------------- MODULE ScanReview -----------------------------
(* What a caller is told of a scan: BuildReview and PageReview of cq, called *)
(* by reportData in main.go on the checkpoint and the journal that ScanStep  *)
(* writes. A report is made anew for every page; a cursor carries a hash of  *)
(* the checkpoint and the journal, so that a page of another report is       *)
(* refused. Calls are serialized: a report never runs inside a step.         *)
(*                                                                           *)
(* Abstractions. Each battery is a window of its own; a record that is not   *)
(* answered counts as undetermined; the hash of the evidence is the evidence *)
(* itself; an entry is known by its kind and file.                           *)
EXTENDS ScanStep

CONSTANTS Names,        \* every ref, in the order of the sort keys
          ReportCap,    \* events that fit the report's bounded prefix
          Determinate,  \* files whose answers are all clear and in context
          Severity,     \* Severity[f]: the highest severity found in f
          Oversize,     \* files that, skipped unread, are skipped for their size
          Length,       \* Length[kind, ref]: bytes of an entry
          PageBytes, Limit

ASSUME ReportAssumption == {ReportCap, PageBytes, Limit} \subseteq Nat

VARIABLE reader  \* a caller that reads one list page by page

rvars == <<vars, reader>>

-----------------------------------------------------------------------------
(* The evidence: JournalReport and the merging at the top of BuildReview.    *)
(* es is a journal.                                                          *)

Evidence(es) == SubSeq(es, 1, Min({Len(es), ReportCap}))
ReportComplete(es) == Len(es) <= ReportCap

\* The last version of every record.
Records(es) ==
    LET i \prec j == i < j /\ es[j].t = "record" /\ es[i].ref = es[j].ref
                           /\ es[i].dig = es[j].dig /\ es[i].b = es[j].b
    IN  {es[i] : i \in {n \in DOMAIN es : es[n].t = "record"
                                          /\ ~ \E j \in DOMAIN es : n \prec j}}

\* A later file event replaces the one of the same content, and a pending one
\* that was written before any content was read.
Supersedes(e, old) ==
    /\ e.t = "file" /\ e.ref = old.ref
    /\ e.dig = old.dig \/ (old.dig = 0 /\ old.disp = "pending")

FileCoverage(es) ==
    {es[i] : i \in {n \in DOMAIN es :
        es[n].t = "file" /\ \A j \in n + 1 .. Len(es) : ~ Supersedes(es[j], es[n])}}

Subtrees(es) == {e.ref : e \in {x \in ToSet(es) : x.t = "subtree"}}

Key(e) == <<e.ref, e.dig>>

\* Mutant: only files with a record are looked at.
KeysOfRecords(es) == {Key(e) : e \in Records(es)}

Keys(es) == {Key(e) : e \in Records(es) \cup FileCoverage(es)}

-----------------------------------------------------------------------------
(* The statuses                                                              *)

Assessed(r) == r.ok /\ r.ref \in Determinate

Status(es, k) ==
    LET rs == {r \in Records(es) : Key(r) = k}
        disps == {c.disp : c \in {x \in FileCoverage(es) : Key(x) = k}}
    IN  IF /\ disps = {"complete"} /\ rs # {}
           /\ \A r \in rs : Assessed(r)
           /\ {r.b : r \in rs} = 1 .. Batteries[k[1]]
        THEN "assessed"
        ELSE IF disps = {"excluded"} /\ rs = {} THEN "excluded"
        ELSE IF \E r \in rs : r.ok THEN "partial"
        ELSE "unknown"

\* Mutant: a boundary is listed, but does not make the assessment incomplete.
AssessmentCompleteWithin(es, c) ==
    /\ c.status = "done" /\ ReportComplete(es)
    /\ \A k \in Keys(Evidence(es)) : Status(Evidence(es), k) = "assessed"

\* Nothing resolves a boundary: every one ever recorded stays a gap.
InventoryComplete(es, c) ==
    c.status = "done" /\ ReportComplete(es) /\ Subtrees(Evidence(es)) = {}

AssessmentComplete(es, c) ==
    /\ c.status = "done" /\ ReportComplete(es)
    /\ Subtrees(Evidence(es)) = {}
    /\ \A k \in Keys(Evidence(es)) : Status(Evidence(es), k) = "assessed"

-----------------------------------------------------------------------------
(* The two lists                                                             *)

Large(es, k) ==
    k[1] \in Oversize /\ k[2] = 0 /\ CoverFile(k[1], 0, "unknown") \in FileCoverage(es)

Gaps(es) ==
    {[kind |-> "file", ref |-> k[1], dig |-> k[2], disp |-> Status(es, k), large |-> Large(es, k)] :
        k \in {x \in Keys(es) : Status(es, x) # "assessed"}}
    \cup {[kind |-> "subtree", ref |-> d, dig |-> 0, disp |-> "unknown", large |-> FALSE] :
            d \in Subtrees(es)}

\* Files with findings, whatever their status: an allegation is kept although
\* the assessment is partial.
Reviews(es) ==
    {[kind |-> "review", ref |-> r.ref, dig |-> r.dig, disp |-> Status(es, Key(r))] :
        r \in {x \in Records(es) : x.ok /\ x.b = 1 /\ x.ref \in Findings}}

Place(ref) == CHOOSE n \in DOMAIN Names : Names[n] = ref

\* gapPriority: excluded entries last, before them those of a file too large;
\* severe reviews first; then by ref and digest.
Rank(e) ==
    <<CASE e.kind = "review" -> 10 - Severity[e.ref]
        [] e.kind # "review" /\ e.disp = "excluded" -> 2
        [] e.kind # "review" /\ e.disp # "excluded" -> IF e.large THEN 1 ELSE 0,
      Place(e.ref), e.dig>>

Before(e, f) ==
    \E n \in 1 .. 3 : /\ Rank(e)[n] < Rank(f)[n]
                      /\ \A m \in 1 .. n - 1 : Rank(e)[m] = Rank(f)[m]

Sorted(S) == [n \in 1 .. Cardinality(S) |->
                CHOOSE e \in S : Cardinality({f \in S : Before(f, e)}) = n - 1]

List(gen, shape) ==
    Sorted(IF shape = "coverage" THEN Gaps(Evidence(gen.journal))
                                 ELSE Reviews(Evidence(gen.journal)))

-----------------------------------------------------------------------------
(* Pages                                                                     *)

\* ReviewGeneration
Generation == [journal |-> journal, disk |-> disk]

\* The rows of the page at offset off: as many as fit.
Bytes(rows) == 2 + FoldLeft(LAMBDA n, e : n + Length[e.kind, e.ref] + 1, 0, rows)
Rows(list, off) ==
    LET Fits(n) == n <= Limit /\ Bytes(SubSeq(list, off + 1, off + n)) <= PageBytes
    IN  SubSeq(list, off + 1,
               off + Max({n \in 0 .. Len(list) - off : \A m \in 1 .. n : Fits(m)}))

NoReader == [at |-> "none", shape |-> "coverage", gen |-> [journal |-> <<>>, disk |-> NoScan],
             off |-> 0, got |-> <<>>]

\* A page of the present report from offset off, added to what was read. An
\* entry that fits no page is refused, never left out.
Page(r, gen, off) ==
    LET list == List(gen, r.shape)
        rows == Rows(list, off)
    IN  IF off < Len(list) /\ rows = <<>> THEN [NoReader EXCEPT !.at = "too_large"]
        ELSE [r EXCEPT !.at = IF off + Len(rows) < Len(list) THEN "paging" ELSE "read",
                       !.gen = gen, !.off = off + Len(rows), !.got = @ \o rows]

\* reportData without a cursor. A torn journal is not read at all.
FirstPage(shape) ==
    /\ pc = "idle" /\ reader.at = "none" /\ ~ torn
    /\ reader' = Page([NoReader EXCEPT !.shape = shape], Generation, 0)
    /\ UNCHANGED vars

\* Mutant: a cursor is accepted whatever has happened to the scan.
NextPageAny ==
    /\ pc = "idle" /\ reader.at = "paging" /\ ~ torn
    /\ reader' = Page(reader, Generation, reader.off)
    /\ UNCHANGED vars

\* reportData with the cursor of the page before: ErrStaleCursor when the
\* checkpoint or the journal has changed.
NextPage ==
    /\ pc = "idle" /\ reader.at = "paging" /\ ~ torn
    /\ reader' = IF reader.gen = Generation THEN Page(reader, Generation, reader.off)
                 ELSE [NoReader EXCEPT !.at = "stale"]
    /\ UNCHANGED vars

\* The caller has its answer, or starts again after a refusal.
Done ==
    /\ reader.at \in {"read", "stale", "too_large"}
    /\ reader' = NoReader
    /\ UNCHANGED vars

ReviewInit == Init /\ reader = NoReader

Report == (\E shape \in {"coverage", "review_queue"} : FirstPage(shape)) \/ NextPage \/ Done

ReviewNext == Report \/ (Next /\ UNCHANGED reader)

ReviewSpec == ReviewInit /\ [][ReviewNext]_rvars

-----------------------------------------------------------------------------
(* Properties                                                                *)

(* A report that says the assessment is complete says it of the whole tree:  *)
(* for every file below the root there is one content of which each battery  *)
(* was answered, clearly and in context, and whose coverage is complete,     *)
(* whatever failed, was cut off, edited or excluded on the way.              *)
CompleteIsWhole ==
    AssessmentComplete(journal, disk) =>
        \A f \in FilesBelow(Root) :
            /\ f \in Determinate
            /\ \E i \in DOMAIN journal :
                  /\ journal[i].t = "file" /\ journal[i].ref = f /\ journal[i].disp = "complete"
                  /\ \A b \in 1 .. Batteries[f] :
                        RecordOf(f, journal[i].dig, b, TRUE) \in ToSet(journal)

(* No file disappears from the report of an ended walk: when all events fit  *)
(* it, a file is assessed, is listed as a gap itself, or lies below a        *)
(* directory that is listed as one. Coverage that replaces older coverage,   *)
(* error paths and crashes never leave a file unmentioned.                   *)
GapsTellAll ==
    (disk.status \in {"done", "budget_exhausted"} /\ ReportComplete(journal)) =>
        \A f \in FilesBelow(Root) :
            \/ \E k \in Keys(journal) : k[1] = f /\ Status(journal, k) = "assessed"
            \/ \E g \in Gaps(journal) : g.ref = f \/ (g.ref \in Dirs /\ f \in FilesBelow(g.ref))

(* Pages that were followed to the last one are together exactly the list of *)
(* one report, each entry once and in order, even when the scan goes on, is  *)
(* interrupted or retried between two of the pages.                          *)
PagesAreOneReport == reader.at = "read" => reader.got = List(reader.gen, reader.shape)
=============================================================================
