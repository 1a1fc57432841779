------------------------------- MODULE Journal ------------------------------
(* cq/journal.go, cq/journal_progress.go and cq/journal_report.go: the       *)
(* append-only assessment journal, the cached end a running step appends at, *)
(* and the bounded report over it.                                           *)
(*                                                                           *)
(* The file is a sequence of bytes. A byte is known by the event it encodes  *)
(* and its place in that event's line; the last byte of a line is its '\n'.  *)
(* So a prefix of a line, two lines glued together and an offset inside a    *)
(* line are all states of the file, and what Walk makes of them is computed. *)
EXTENDS Naturals, Sequences, FiniteSets

CONSTANTS Events,      \* encoded events: records and coverage
          Size,        \* Size[e]: bytes of e's line, newline included
          RefOf,       \* RefOf[e]: file a record is about; NoRef for coverage
          IdOf,        \* IdOf[e]: the record's stable ID
          NoRef,
          EventBytes,  \* journalEventBytes
          Limit,       \* MaxBytes of the journal
          ReportBytes  \* maxBytes of JournalReport

ASSUME SizeAssumption == Size \in [Events -> Nat \ {0}]
ASSUME LimitAssumption == Limit \in Nat /\ EventBytes \in Nat /\ ReportBytes \in Nat

VARIABLES file,      \* the bytes on disk
          live,      \* a step is running and holds a JournalProgress
          offset,    \* JournalProgress.Offset
          end,       \* JournalProgress.end
          verified,  \* JournalProgress.verified
          cursor,    \* Scan.ProgressOffset of the running step
          saved,     \* Scan.ProgressOffset in the last checkpoint
          got,       \* what the last Load or report returned
          acked      \* history: appends that returned no error

procVars == <<live, offset, end, verified, cursor>>
vars == <<file, procVars, saved, got, acked>>

-----------------------------------------------------------------------------
(* Lines                                                                     *)

Byte(e, k) == [ev |-> e, at |-> k]
IsNewline(b) == b.at = Size[b.ev]
Line(e) == [k \in 1 .. Size[e] |-> Byte(e, k)]

\* Byte i of f continues the line before it, or starts one after a newline.
Follows(f, i) ==
    IF f[i].at = 1 THEN i > 1 => IsNewline(f[i - 1])
    ELSE i > 1 /\ f[i - 1] = Byte(f[i].ev, f[i].at - 1)

Torn(f) == f # <<>> /\ ~ IsNewline(f[Len(f)])
Boundary(f, off) == off > 0 => off <= Len(f) /\ IsNewline(f[off])

\* Journal.Walk(off, visit) returns no error.
Walks(f, off) ==
    /\ off <= Limit /\ Len(f) <= Limit
    /\ Boundary(f, off)
    /\ \A i \in off + 1 .. Len(f) : Follows(f, i) /\ Size[f[i].ev] <= EventBytes
    /\ ~ Torn(f)

\* The positions in S, a finite set, from the least to the greatest.
InOrder(S) ==
    [n \in 1 .. Cardinality(S) |->
        CHOOSE i \in S : Cardinality({j \in S : j <= i}) = n]

\* The events a successful Walk(off, visit) visits, in order.
Visited(f, off) ==
    LET lines == InOrder({i \in off + 1 .. Len(f) : IsNewline(f[i])})
    IN  [k \in DOMAIN lines |-> f[lines[k]].ev]

\* DeduplicateRecords: one record for each ID, at the place of its first
\* version and with the content of its last.
Firsts(es) == {i \in 1 .. Len(es) : \A j \in 1 .. i - 1 : IdOf[es[j]] # IdOf[es[i]]}
\* Mutant: the first version of a record wins.
LastOfFirst(es, i) == i

LastOf(es, i) ==
    CHOOSE j \in i .. Len(es) :
        /\ IdOf[es[j]] = IdOf[es[i]]
        /\ \A k \in j + 1 .. Len(es) : IdOf[es[k]] # IdOf[es[i]]
DeduplicateRecords(es) ==
    LET firsts == InOrder(Firsts(es))
    IN  [n \in DOMAIN firsts |-> es[LastOf(es, firsts[n])]]

RecordsOf(r, es) ==
    LET about == InOrder({i \in 1 .. Len(es) : RefOf[es[i]] = r})
    IN  DeduplicateRecords([n \in DOMAIN about |-> es[about[n]]])

RecordsIn(es) ==
    LET all == InOrder({i \in 1 .. Len(es) : RefOf[es[i]] # NoRef})
    IN  DeduplicateRecords([n \in DOMAIN all |-> es[all[n]]])

\* JournalReport keeps the longest prefix of events that fits its budget; the
\* newline is not counted.
Bytes(es, n) ==
    LET sum[i \in 0 .. n] == IF i = 0 THEN 0 ELSE sum[i - 1] + Size[es[i]] - 1
    IN  sum[n]
Retained(es) ==
    CHOOSE n \in 0 .. Len(es) :
        /\ Bytes(es, n) <= ReportBytes
        /\ n < Len(es) => Bytes(es, n + 1) > ReportBytes

Idle == [op |-> "idle"]
Failed == [op |-> "failed"]

-----------------------------------------------------------------------------
Init ==
    /\ file = <<>>
    /\ live = FALSE
    /\ offset = 0 /\ end = 0 /\ verified = FALSE
    /\ cursor = 0 /\ saved = 0
    /\ got = Idle
    /\ acked = {}

\* stepScan: the whole journal must walk before a JournalProgress is made.
OpenProgress ==
    /\ ~ live
    /\ Walks(file, 0)
    /\ live' = TRUE
    /\ offset' = saved /\ cursor' = saved
    /\ end' = 0 /\ verified' = FALSE
    /\ got' = Idle
    /\ UNCHANGED <<file, saved, acked>>

\* JournalProgress.Load. The store may also fail to read the file.
LoadOK(r) ==
    /\ live
    /\ Walks(file, offset)
    /\ end' = Len(file) /\ verified' = TRUE
    /\ got' = [op |-> "loaded", ref |-> r, recs |-> RecordsOf(r, Visited(file, offset))]
    /\ UNCHANGED <<file, live, offset, cursor, saved, acked>>

LoadFails ==
    /\ live
    /\ verified' = FALSE
    /\ got' = Failed
    /\ UNCHANGED <<file, live, offset, end, cursor, saved, acked>>

Load(r) == LoadOK(r) \/ LoadFails

\* Mutants: an unverified progress appends without reading the journal; the
\* cached end is used although a failure invalidated it; the end is taken in
\* front of the last newline.
KnownAlways == TRUE
AppendEndCached == end
AppendEndShort == IF verified THEN end ELSE Len(file) - 1

\* Where append writes: the cached end, or the end a fresh Walk(0) finds.
Known == verified \/ Walks(file, 0)
AppendEnd == IF verified THEN end ELSE Len(file)

\* Mutant: the limit is checked for the event alone.
FitsAlone(e) == Size[e] <= EventBytes /\ Size[e] <= Limit

\* appendAt's size and limit checks.
Fits(e) == /\ Size[e] <= EventBytes
           /\ AppendEnd <= Limit
           /\ Size[e] <= Limit - AppendEnd

\* JournalProgress.append, used by Save and Cover.
AppendEvent(e) ==
    /\ live /\ Known /\ Fits(e)
    /\ file' = file \o Line(e)
    /\ end' = AppendEnd + Size[e] /\ verified' = TRUE
    /\ acked' = acked \cup {[end |-> AppendEnd + Size[e], ev |-> e]}
    /\ got' = Idle
    /\ UNCHANGED <<live, offset, cursor, saved>>

\* Mutant: the end moves although the append failed.
AppendInterruptedMoves(e) ==
    /\ live /\ Known /\ Fits(e)
    /\ \E k \in 0 .. Size[e] : file' = file \o SubSeq(Line(e), 1, k)
    /\ end' = AppendEnd + Size[e] /\ verified' = FALSE
    /\ got' = Failed
    /\ UNCHANGED <<live, offset, cursor, saved, acked>>

\* The store reports an error, or the process dies, with any part of the
\* line on disk.
AppendInterrupted(e) ==
    /\ live /\ Known /\ Fits(e)
    /\ \E k \in 0 .. Size[e] : file' = file \o SubSeq(Line(e), 1, k)
    /\ end' = AppendEnd /\ verified' = FALSE
    /\ got' = Failed
    /\ UNCHANGED <<live, offset, cursor, saved, acked>>

\* Refused before the store is called: the journal does not walk, cannot be
\* read, or has no room.
AppendRefused(e) ==
    /\ live
    /\ \/ ~ verified /\ UNCHANGED end
       \/ Known /\ ~ Fits(e) /\ end' = AppendEnd
    /\ verified' = FALSE
    /\ got' = Failed
    /\ UNCHANGED <<file, live, offset, cursor, saved, acked>>

\* Scan.commitProgress: End() is 0 until the first append or Load.
CommitProgress ==
    /\ live
    /\ cursor' = end
    /\ got' = Idle
    /\ UNCHANGED <<file, live, offset, end, verified, saved, acked>>

\* The step's JournalProgress is gone.
Discard ==
    /\ live' = FALSE
    /\ offset' = 0 /\ end' = 0 /\ verified' = FALSE /\ cursor' = 0
    /\ got' = Idle

\* saveScan at the end of a step.
SaveScan ==
    /\ live
    /\ saved' = cursor
    /\ Discard
    /\ UNCHANGED <<file, acked>>

\* The process ends without saving its cursor.
Crash ==
    /\ live
    /\ Discard
    /\ UNCHANGED <<file, saved, acked>>

\* Mutant: a report that was cut short still calls itself complete.
JournalReportBlind ==
    /\ LET es == Visited(file, 0)
       IN  /\ Walks(file, 0)
           /\ got' = [op |-> "report", kept |-> SubSeq(es, 1, Retained(es)),
                      records |-> RecordsIn(SubSeq(es, 1, Retained(es))), complete |-> TRUE]
    /\ UNCHANGED <<file, procVars, saved, acked>>

JournalReport ==
    /\ \/ LET es == Visited(file, 0)
              kept == SubSeq(es, 1, Retained(es))
          IN  /\ Walks(file, 0)
              /\ got' = [op |-> "report", kept |-> kept, records |-> RecordsIn(kept),
                         complete |-> Retained(es) = Len(es)]
       \/ got' = Failed
    /\ UNCHANGED <<file, procVars, saved, acked>>

Next ==
    \/ OpenProgress
    \/ \E r \in {RefOf[e] : e \in Events} \ {NoRef} : Load(r)
    \/ \E e \in Events : AppendEvent(e) \/ AppendInterrupted(e) \/ AppendRefused(e)
    \/ CommitProgress
    \/ SaveScan
    \/ Crash
    \/ JournalReport

Spec == Init /\ [][Next]_vars

-----------------------------------------------------------------------------
(* Type correctness.                                                         *)
TypeOK ==
    /\ file \in Seq([ev : Events, at : Nat])
    /\ \A i \in 1 .. Len(file) : file[i].at \in 1 .. Size[file[i].ev]
    /\ live \in BOOLEAN /\ verified \in BOOLEAN
    /\ offset \in Nat /\ end \in Nat /\ cursor \in Nat /\ saved \in Nat
    /\ acked \subseteq [end : Nat, ev : Events]

(* A line that was cut short is only ever the last thing in the file: no     *)
(* append after it glues a whole event to half of one.                       *)
OnlyTailTorn == \A i \in 1 .. Len(file) : Follows(file, i)

(* Every append that returned no error is in the file as a whole line, at    *)
(* the offset it returned, for ever after.                                   *)
AckedKept ==
    \A a \in acked :
        /\ a.end \in 1 .. Len(file)
        /\ file[a.end] = Byte(a.ev, Size[a.ev])

(* While progress says it is verified its cached end is the end of the file  *)
(* and the file has no torn tail: skipping the re-read is safe.              *)
VerifiedIsCurrent == live /\ verified => end = Len(file) /\ ~ Torn(file)

(* The file never outgrows its limit, so a journal that was only ever        *)
(* written by this code never fails its own Walk for its size.               *)
WithinLimit == Len(file) <= Limit

(* Every progress offset a checkpoint may hold is a line boundary of the     *)
(* file: Load after a restart never fails with "offset is not an event       *)
(* boundary".                                                                *)
SavedOnBoundary == Boundary(file, saved) /\ Boundary(file, cursor)

(* Load misses no acknowledged record after its offset, and for each ID      *)
(* returns the newest version on disk.                                       *)
LoadSeesAcked ==
    got.op = "loaded" =>
        \A a \in acked :
            a.end > offset /\ RefOf[a.ev] = got.ref =>
                \E k \in 1 .. Len(got.recs) :
                    /\ IdOf[got.recs[k]] = IdOf[a.ev]
                    /\ \E p \in a.end .. Len(file) : file[p] = Byte(got.recs[k], Size[got.recs[k]])

(* A report that calls itself complete holds every acknowledged event, and   *)
(* one that does not holds a prefix of the journal.                          *)
ReportIsHonest ==
    got.op = "report" =>
        /\ got.complete =>
             \A a \in acked : \E k \in 1 .. Len(got.kept) : got.kept[k] = a.ev
        /\ \A k \in 1 .. Len(got.kept) : got.kept[k] = Visited(file, 0)[k]

(* A torn tail is never repaired and never built upon: from then on every    *)
(* append and every new step is refused.                                     *)
TornIsFinal == [][Torn(file) => file' = file]_vars

-----------------------------------------------------------------------------
(* The journal is an append-only log whose entries are its whole lines.      *)
Log == INSTANCE AppendLog WITH
    log <- {[end |-> i, ev |-> file[i].ev] : i \in {j \in 1 .. Len(file) : IsNewline(file[j])}},
    sealed <- Torn(file)

(* Every behaviour of the file is one of the append-only log.                *)
ImplementsLog == Log!LogSpec
=============================================================================
