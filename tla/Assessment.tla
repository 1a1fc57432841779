----------------------------- MODULE Assessment -----------------------------
(* What a scan promises, whatever happens to its steps: every file of the    *)
(* folder is ahead of the scan until the evidence says what became of it,    *)
(* evidence comes first and progress after it, and a scan that ended takes   *)
(* nothing back. ScanStep implements this; its journal is `closed` and       *)
(* `assessed`, its saved cursor is `ahead`, `judged` and `status`.           *)
EXTENDS Naturals, FiniteSets

CONSTANT Files

VARIABLES closed,    \* files the evidence accounts for, with or without judging
          assessed,  \* files the evidence calls completely assessed
          ahead,     \* files the scan will still come to
          judged,    \* files the scan reports as judged
          status

vars == <<closed, assessed, ahead, judged, status>>

Resumable == {"running", "judge_unavailable"}
Statuses == Resumable \cup {"done", "budget_exhausted", "storage_cap", "request_blocked"}

Init ==
    /\ closed = {} /\ assessed = {} /\ judged = 0
    /\ ahead = Files /\ status = "running"

\* Evidence is added while the scan is not ended.
Record ==
    /\ status \in Resumable
    /\ closed' \in SUBSET Files /\ closed \subseteq closed'
    /\ assessed' \in SUBSET closed' /\ assessed \subseteq assessed'
    /\ UNCHANGED <<ahead, judged, status>>

\* The scan's progress follows the evidence. Only the storage cap gives files
\* up, and only a scan with nothing ahead is done.
Advance ==
    /\ status \in Resumable
    /\ status' \in Statuses
    /\ ahead' \in SUBSET ahead
    /\ status' # "storage_cap" => ahead \ ahead' \subseteq closed
    /\ status' = "done" => ahead' = {}
    /\ judged' \in judged .. Cardinality(assessed)
    /\ UNCHANGED <<closed, assessed>>

Next == Record \/ Advance

Spec == Init /\ [][Next]_vars

-----------------------------------------------------------------------------
(* No file is lost: a file is ahead of the scan or accounted for, unless the *)
(* scan says that it gave up at the storage cap.                             *)
NothingLost == status = "storage_cap" \/ Files \subseteq ahead \cup closed

(* A scan that calls itself done has accounted for every file.               *)
DoneIsWhole == status = "done" => closed = Files
=============================================================================
