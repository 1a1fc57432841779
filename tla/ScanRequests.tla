---------------------------- MODULE ScanRequests ----------------------------
(* The requests of one scan: scan_judge.go, model_pin.go and RequestRetry of *)
(* cq/request_error.go. A scan carries a runtime from step to step: the model *)
(* it is pinned to, the retries of the request under way, and whether         *)
(* requests are blocked. A response changes the runtime, which is written to *)
(* the checkpoint before the response is used; saveScan writes it once more  *)
(* at the end of the step.                                                   *)
(*                                                                           *)
(* Abstractions. Batteries are asked in order, answered ones are replayed    *)
(* from the journal; a request body is its battery, whether it is a          *)
(* checklist or a localization, and the model it names. The pin's backend    *)
(* and endpoint do not change (bindScan refuses a step whose settings do).   *)
(* Time is counted in units; a step runs for less than StepTime + Slack, its *)
(* call timeouts adding up to StepTime (config.go callMS).                   *)
EXTENDS Naturals, FiniteSets, FiniteSetsExt

CONSTANTS Batteries,   \* how many batteries the scan has
          Located,     \* those whose answer asks for a localization
          Models,      \* concrete model names a response may carry
          Alias,       \* a requested name that is not concrete
          Requested,   \* the name the operator configured
          MaxRetries,  \* MaxRequestRetries
          MaxBackoff,  \* RetryMaxBackoffSeconds
          MaxAfter,    \* RetryMaxAfterSeconds
          Hints,       \* Retry-After values; 0 is none
          StepTime, Slack,
          MaxTime, MaxFaults  \* bounds of the model

ASSUME PinAssumption == Alias \notin Models /\ Requested \in Models \cup {Alias}
ASSUME TimeAssumption ==
    /\ Batteries \in Nat /\ Located \subseteq 1 .. Batteries
    /\ {MaxRetries, MaxBackoff, MaxAfter, StepTime, Slack, MaxTime, MaxFaults} \subseteq Nat
    /\ Hints \subseteq Nat

VARIABLES disk,      \* the runtime in the checkpoint
          status,    \* the scan's status in the checkpoint
          answered,  \* answered[b]: the model of b's record in the journal
          clock,
          pc,        \* where the running step is
          started,   \* hostJudge.nowMS
          rt,        \* hostJudge.runtime
          raw,       \* Scan.Runtime in memory
          req,       \* the request under way
          faults,
          failed,    \* history: saved failures of a request since it last succeeded
          owed,      \* history: when the next request may be sent
          gaveUp     \* history: an acknowledged response blocked the scan

durable == <<disk, status, answered>>
step == <<pc, started, rt, raw, req>>
history == <<failed, owed, gaveUp>>
vars == <<durable, clock, step, faults, history>>

NoReq == [b |-> 0, kind |-> "ask", model |-> Alias]

\* scanBinding: a concrete requested name is pinned at once.
NewRuntime == [model |-> Requested, attempts |-> 0, due |-> 0, key |-> NoReq, blocked |-> FALSE]

Init ==
    /\ disk = NewRuntime /\ status = "running"
    /\ answered = [b \in 1 .. Batteries |-> Alias]
    /\ clock = 1
    /\ pc = "idle" /\ started = 0 /\ rt = NewRuntime /\ raw = NewRuntime /\ req = NoReq
    /\ faults = 0
    /\ failed = 0 /\ owed = 0 /\ gaveUp = FALSE

-----------------------------------------------------------------------------
(* RequestRetry                                                              *)

Ready(r, now) == now >= r.due

Backoff(r, hint) == Max({Min({2 ^ r.attempts, MaxBackoff}), hint})

\* Mutant: one retry too many.
NextRetryMore(r, hint, base) ==
    IF hint > MaxAfter \/ r.attempts > MaxRetries THEN [r EXCEPT !.blocked = TRUE]
    ELSE [r EXCEPT !.attempts = @ + 1, !.due = base + Backoff(r, hint)]

\* RequestRetry.Next, or Blocked when it fails: the wait is longer than is
\* supported, the last one is not over, or the retries are used up.
NextRetry(r, hint, base) ==
    IF hint > MaxAfter \/ ~ Ready(r, base) \/ r.attempts >= MaxRetries
    THEN [r EXCEPT !.blocked = TRUE]
    ELSE [r EXCEPT !.attempts = @ + 1, !.due = base + Backoff(r, hint)]

NoRetry(r) == [r EXCEPT !.attempts = 0, !.due = 0]

\* Mutant: the wait is counted from the start of the step.
RetryBaseStart == started

\* bindScan: the wait is counted from the latest end of the step.
RetryBase == started + StepTime + Slack

-----------------------------------------------------------------------------
(* A step                                                                    *)

StartStep ==
    /\ pc = "idle" /\ status \in {"running", "judge_unavailable"}
    /\ ~ disk.blocked /\ Ready(disk, clock)
    /\ pc' = "battery"
    /\ started' = clock /\ rt' = disk /\ raw' = disk /\ req' = NoReq
    /\ UNCHANGED <<durable, clock, faults, history>>

Unanswered == {b \in 1 .. Batteries : answered[b] = Alias}

Request ==
    IF pc = "battery" THEN [b |-> Min(Unanswered), kind |-> "ask", model |-> rt.model]
    ELSE [b |-> req.b, kind |-> "locate", model |-> rt.model]

Asks == pc = "locate" \/ (pc = "battery" /\ Unanswered # {})

\* Mutant: the retries start again with every step.
BeforeScanRequestFresh == NoRetry([rt EXCEPT !.key = Request])

\* beforeScanRequest: another body starts with no retries.
BeforeScanRequest ==
    IF rt.key = Request THEN rt ELSE NoRetry([rt EXCEPT !.key = Request])

Send ==
    /\ Asks /\ ~ rt.blocked /\ Ready(rt, started)
    /\ pc' = "sent"
    /\ req' = Request /\ rt' = BeforeScanRequest
    /\ failed' = IF rt.key = Request THEN failed ELSE 0
    /\ UNCHANGED <<durable, clock, started, raw, faults, owed, gaveUp>>

\* Blocked, waiting, or no calls left: an error for a battery, a localization
\* that is left out.
NotSent ==
    /\ Asks
    /\ pc' = IF pc = "locate" THEN "battery" ELSE "end"
    /\ UNCHANGED <<durable, clock, started, rt, raw, req, faults, history>>

Finish ==
    /\ pc = "battery" /\ Unanswered = {}
    /\ pc' = "end"
    /\ UNCHANGED <<durable, clock, started, rt, raw, req, faults, history>>

\* Mutant: the response is used although its runtime was not written.
PersistNot(new) == /\ rt' = new /\ raw' = new /\ UNCHANGED disk

\* persistRuntime succeeds: the checkpoint and the scan have the new runtime.
Persist(new) == disk' = new /\ raw' = new /\ rt' = new

\* A checklist that is not answered ends the step; an optional localization
\* does not.
AfterError == IF req.kind = "locate" THEN "battery" ELSE "end"

\* Mutant: the first response decides the model of every later one, wrong or not.
AcceptedAny(m) == TRUE

\* ModelPin.WithResponse: the model answers for the pin.
Accepted(m) == rt.model \in {Alias, m}

\* Every question is answered by model m; or the reply is accepted but
\* incomplete, which is an error without a retry wait.
Answer(m) ==
    /\ pc = "sent" /\ Accepted(m)
    /\ Persist(NoRetry([rt EXCEPT !.model = m]))
    /\ \/ /\ req.kind = "ask"
          /\ answered' = [answered EXCEPT ![req.b] = m]
          /\ pc' = IF req.b \in Located THEN "locate" ELSE "battery"
       \/ /\ pc' = AfterError
          /\ UNCHANGED answered
    /\ failed' = 0 /\ UNCHANGED <<owed, gaveUp>>
    /\ UNCHANGED <<status, clock, started, req, faults>>

\* Rate limit or no availability, with the service's Retry-After.
Unavailable(hint) ==
    /\ pc = "sent"
    /\ LET new == NextRetry(rt, hint, RetryBase)
       IN  /\ Persist(new)
           /\ gaveUp' = (gaveUp \/ new.blocked)
    /\ failed' = failed + 1
    /\ owed' = clock + Backoff(rt, hint)
    /\ pc' = AfterError
    /\ UNCHANGED <<status, answered, clock, started, req, faults>>

\* A refused key, an invalid request, a model that is not the pinned one.
Blocks(m) == m = "auth" \/ (m = "invalid" /\ req.kind = "ask") \/ (m \in Models /\ ~ Accepted(m))

Block(m) ==
    /\ pc = "sent" /\ Blocks(m)
    /\ Persist([rt EXCEPT !.blocked = TRUE])
    /\ gaveUp' = TRUE
    /\ pc' = AfterError
    /\ UNCHANGED <<status, answered, clock, started, req, faults, failed, owed>>

\* The host denies the call, or an optional localization is declined: nothing
\* is written.
Declined ==
    /\ pc = "sent"
    /\ pc' = AfterError
    /\ UNCHANGED <<durable, clock, started, rt, raw, req, faults, history>>

\* The checkpoint is not written, or was although an error came back:
\* ErrProgress ends the step, and Scan.Runtime is what it was.
Unsaved(new) ==
    /\ pc = "sent" /\ faults < MaxFaults
    /\ faults' = faults + 1
    /\ rt' = new /\ disk' \in {disk, new}
    /\ pc' = "end"
    /\ UNCHANGED <<status, answered, clock, started, raw, req, owed, gaveUp>>

AnswerUnsaved(m) ==
    /\ Accepted(m)
    /\ Unsaved(NoRetry([rt EXCEPT !.model = m]))
    /\ failed' = 0

FailureUnsaved ==
    /\ \/ \E hint \in Hints : Unsaved(NextRetry(rt, hint, RetryBase))
       \/ Unsaved([rt EXCEPT !.blocked = TRUE])
    /\ UNCHANGED failed

-----------------------------------------------------------------------------
(* The end of a step                                                         *)

StatusSaved ==
    IF rt.blocked THEN "request_blocked"
    ELSE IF Unanswered = {} THEN "done"
    ELSE "judge_unavailable"

Leave == /\ pc' = "idle" /\ started' = 0
         /\ rt' = NewRuntime /\ raw' = NewRuntime /\ req' = NoReq

SaveScan ==
    /\ pc = "end"
    /\ disk' = raw /\ status' = StatusSaved
    /\ Leave
    /\ UNCHANGED <<answered, clock, faults, history>>

SaveScanFails ==
    /\ pc = "end" /\ faults < MaxFaults
    /\ faults' = faults + 1
    /\ \/ UNCHANGED <<disk, status>>
       \/ disk' = raw /\ status' = StatusSaved
    /\ Leave
    /\ UNCHANGED <<answered, clock, history>>

Crash ==
    /\ pc # "idle" /\ faults < MaxFaults
    /\ faults' = faults + 1
    /\ Leave
    /\ UNCHANGED <<durable, clock, history>>

Tick ==
    /\ clock < MaxTime
    /\ pc # "idle" => clock + 1 < started + StepTime + Slack
    /\ clock' = clock + 1
    /\ UNCHANGED <<durable, step, faults, history>>

Next ==
    \/ StartStep \/ Send \/ NotSent \/ Finish
    \/ \E m \in Models : Answer(m)
    \/ \E hint \in Hints : Unavailable(hint)
    \/ \E m \in Models \cup {"auth", "invalid"} : Block(m)
    \/ Declined
    \/ \E m \in Models : AnswerUnsaved(m)
    \/ FailureUnsaved
    \/ SaveScan \/ SaveScanFails \/ Crash
    \/ Tick

Spec == Init /\ [][Next]_vars

-----------------------------------------------------------------------------
Keys == [b : 0 .. Batteries, kind : {"ask", "locate"}, model : Models \cup {Alias}]
Runtimes == {r \in [model : Models \cup {Alias}, attempts : 0 .. MaxRetries, due : Nat,
                    key : Keys, blocked : BOOLEAN] :
                r.attempts = 0 <=> r.due = 0}

(* Type correctness; every runtime that is ever written or used passes the   *)
(* code's own valid(), so a step is never refused for good by Ready.         *)
TypeOK ==
    /\ disk \in Runtimes /\ rt \in Runtimes /\ raw \in Runtimes
    /\ status \in {"running", "judge_unavailable", "done", "request_blocked"}
    /\ answered \in [1 .. Batteries -> Models \cup {Alias}]
    /\ pc \in {"idle", "battery", "locate", "sent", "end"}
    /\ req \in Keys

(* Records in the journal are all of the model the checkpoint is pinned to,  *)
(* whatever was lost or restarted in between: answers of two models are      *)
(* never mixed in one scan, and none is used before its pin is durable.      *)
AnswersPinned == \A b \in 1 .. Batteries : answered[b] \in {Alias, disk.model}

(* A request whose failures were all saved is sent at most once and then     *)
(* MaxRetries times more, counted over steps and restarts.                   *)
RetriesBounded == failed <= MaxRetries + 1

(* After a saved failure nothing at all is sent until the backoff, counted   *)
(* from when the response came and not from when the step began, is over.    *)
WaitsOut == [][Asks /\ pc' = "sent" => clock >= owed]_vars

(* Once a saved response blocked the scan no request is sent any more, in    *)
(* that step or any later one.                                               *)
BlockedStays == [][gaveUp => ~ (Asks /\ pc' = "sent")]_vars
=============================================================================
