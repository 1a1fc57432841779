------------------------- MODULE ScanRequests_proofs -------------------------
(* Proofs about the requests of one scan for every number of batteries, every *)
(* set of models, every retry limit, backoff and Retry-After value, and every *)
(* bound on time and faults. The inductive invariant IInv adds to the checked *)
(* invariants what each copy of the runtime (the checkpoint's, Scan.Runtime,  *)
(* the judge's) knows of the scan's history: a crash, an error or the end of  *)
(* a step goes on from any one of them.                                       *)
EXTENDS ScanRequests, FiniteSetTheorems, WellFoundedInduction, TLAPS

InStep == pc \in {"battery", "locate", "sent"}

\* A step has not run longer than the time its retries are counted from.
Times == /\ clock \in Nat \ {0} /\ started \in Nat
         /\ failed \in Nat /\ owed \in Nat /\ gaveUp \in BOOLEAN
         /\ pc # "idle" => started # 0 /\ started <= clock /\ clock <= RetryBase

\* What a runtime knows of the scan: that it was blocked, how often the
\* request under way failed, and how long the next one has to wait.
Carries(r) == /\ gaveUp => r.blocked
              /\ r.blocked \/ (failed <= r.attempts /\ (owed <= r.due \/ owed <= clock))

Aboard == /\ Carries(disk)
          /\ pc # "idle" => /\ Carries(raw)
                            /\ \A b \in 1 .. Batteries : answered[b] \in {Alias, raw.model}
          /\ InStep => raw = disk /\ rt.model = disk.model /\ Carries(rt)
          /\ pc = "sent" => ~ rt.blocked /\ owed <= clock

IInv == TypeOK /\ AnswersPinned /\ RetriesBounded /\ Times /\ Aboard

-----------------------------------------------------------------------------
(* A set of positions that is not empty has a least element: a step asks the *)
(* first battery that has no answer.                                         *)
LEMMA LeastExists ==
    ASSUME NEW S \in SUBSET Nat, S # {}
    PROVE  Min(S) \in S
<1> DEFINE Less == {ss \in Nat \X Nat : ss[1] < ss[2]}
<1>1. IsWellFoundedOn(Less, Nat)
  BY NatLessThanWellFounded, Zenon DEF OpToRel
<1>2. PICK x \in S : \A y \in S : ~ (<<y, x>> \in Less)
  <2> HIDE DEF Less
  <2> QED BY <1>1, WFMin
<1>3. ASSUME NEW y \in S PROVE x <= y
  <2>1. x \in Nat /\ y \in Nat
    OBVIOUS
  <2>2. ~ (<<y, x>> \in Less)
    BY <1>2
  <2> QED BY <2>1, <2>2
<1> QED BY <1>3 DEF Min

(* Two to the power of the attempts is a number of subsets.                  *)
LEMMA PowerNat == ASSUME NEW n \in Nat PROVE 2 ^ n \in Nat
<1>1. IsFiniteSet(1 .. n) /\ Cardinality(1 .. n) = n
  BY FS_Interval
<1>2. IsFiniteSet(SUBSET (1 .. n)) /\ Cardinality(SUBSET (1 .. n)) = 2 ^ n
  BY <1>1, FS_SUBSET
<1> QED BY <1>2, FS_CardinalityType

(* A backoff is a time.                                                      *)
LEMMA BackoffNat ==
    ASSUME NEW r \in Runtimes, NEW hint \in Nat
    PROVE  Backoff(r, hint) \in Nat
<1>1. 2 ^ r.attempts \in Nat /\ MaxBackoff \in Nat
  BY PowerNat, TimeAssumption DEF Runtimes
<1> DEFINE p == 2 ^ r.attempts
<1> HIDE DEF p
<1>2. Min({p, MaxBackoff}) \in {p, MaxBackoff}
  BY <1>1 DEF Min, p
<1>3. Min({p, MaxBackoff}) \in Nat
  BY <1>1, <1>2 DEF p
<1> DEFINE q == Min({p, MaxBackoff})
<1> HIDE DEF q
<1>4. q \in Nat
  BY <1>3 DEF q
<1>5. Max({q, hint}) \in {q, hint}
  BY <1>4 DEF Max
<1> QED BY <1>4, <1>5 DEF Backoff, p, q

(* A failure makes of a valid runtime a valid one, of the same model, that   *)
(* is blocked or has one attempt more and is due a backoff after the base.   *)
LEMMA NextRetryFacts ==
    ASSUME NEW r \in Runtimes, NEW hint \in Nat, NEW base \in Nat \ {0}
    PROVE  LET new == NextRetry(r, hint, base)
           IN  /\ new \in Runtimes /\ new.model = r.model
               /\ \/ new.blocked
                  \/ /\ new.attempts = r.attempts + 1
                     /\ new.due = base + Backoff(r, hint)
                     /\ new.blocked = r.blocked
               /\ r.blocked => new.blocked
<1>1. Backoff(r, hint) \in Nat /\ MaxRetries \in Nat
  BY BackoffNat, TimeAssumption
<1>2. CASE hint > MaxAfter \/ ~ Ready(r, base) \/ r.attempts >= MaxRetries
  BY <1>2 DEF NextRetry, Runtimes
<1>3. CASE ~ (hint > MaxAfter \/ ~ Ready(r, base) \/ r.attempts >= MaxRetries)
  <2> DEFINE new == [r EXCEPT !.attempts = @ + 1, !.due = base + Backoff(r, hint)]
  <2>1. NextRetry(r, hint, base) = new
    BY <1>3 DEF NextRetry
  <2>2. r.attempts + 1 \in 1 .. MaxRetries /\ base + Backoff(r, hint) \in Nat \ {0}
    BY <1>1, <1>3 DEF Runtimes
  <2>3. /\ new.model = r.model /\ new.key = r.key /\ new.blocked = r.blocked
        /\ new.attempts = r.attempts + 1 /\ new.due = base + Backoff(r, hint)
    BY DEF Runtimes
  <2>4. r \in [model : Models \cup {Alias}, attempts : 0 .. MaxRetries, due : Nat,
              key : Keys, blocked : BOOLEAN]
    BY DEF Runtimes
  <2> DEFINE a == r.attempts + 1
             d == base + Backoff(r, hint)
  <2> HIDE DEF a, d
  <2>5. a \in 0 .. MaxRetries /\ d \in Nat
    BY <1>1, <2>2 DEF a, d
  <2>6. [r EXCEPT !.attempts = a, !.due = d]
            \in [model : Models \cup {Alias}, attempts : 0 .. MaxRetries, due : Nat,
                 key : Keys, blocked : BOOLEAN]
    BY <2>4, <2>5
  <2>7. new = [r EXCEPT !.attempts = a, !.due = d]
    BY <2>4 DEF a, d
  <2>8. new \in [model : Models \cup {Alias}, attempts : 0 .. MaxRetries, due : Nat,
                key : Keys, blocked : BOOLEAN]
    BY <2>6, <2>7
  <2>9. new.attempts # 0 /\ new.due # 0
    BY <2>2, <2>3
  <2>10. new \in Runtimes
    <3> HIDE DEF new
    <3> QED BY <2>9, <2>8 DEF Runtimes
  <2> QED BY <2>1, <2>3, <2>10
<1> QED BY <1>2, <1>3

(* A runtime with its retries reset is valid.                                *)
LEMMA NoRetryFacts ==
    ASSUME NEW r \in Runtimes, NEW m \in Models \cup {Alias}
    PROVE  LET new == NoRetry([r EXCEPT !.model = m])
           IN  /\ new \in Runtimes /\ new.model = m
               /\ new.attempts = 0 /\ new.due = 0 /\ new.blocked = r.blocked
<1> DEFINE new == NoRetry([r EXCEPT !.model = m])
<1>1. 0 \in 0 .. MaxRetries
  BY TimeAssumption
<1>2. /\ new.model = m /\ new.attempts = 0 /\ new.due = 0
      /\ new.key = r.key /\ new.blocked = r.blocked
  BY DEF NoRetry, Runtimes
<1>3. new \in [model : Models \cup {Alias}, attempts : 0 .. MaxRetries, due : Nat,
             key : Keys, blocked : BOOLEAN]
  BY <1>1 DEF NoRetry, Runtimes
<1> QED BY <1>2, <1>3 DEF Runtimes

(* The key of a request that is about to be sent.                            *)
LEMMA RequestIsKey == ASSUME TypeOK, Asks PROVE Request \in Keys
<1>1. Batteries \in Nat
  BY TimeAssumption
<1>2. rt.model \in Models \cup {Alias} /\ req.b \in 0 .. Batteries
  BY DEF TypeOK, Runtimes, Keys
<1>3. CASE pc = "battery"
  <2>1. Unanswered \in SUBSET Nat /\ Unanswered # {}
    BY <1>1, <1>3 DEF Asks, Unanswered
  <2>2. Min(Unanswered) \in 1 .. Batteries
    BY <2>1, LeastExists DEF Unanswered
  <2> QED BY <1>1, <1>2, <1>3, <2>2 DEF Request, Keys
<1>4. CASE pc # "battery"
  BY <1>2, <1>4 DEF Request, Keys
<1> QED BY <1>3, <1>4

(* A request starts with a valid runtime: the retries of the last one, or    *)
(* none when the body is another.                                            *)
LEMMA BeforeFacts ==
    ASSUME TypeOK, Asks
    PROVE  LET new == BeforeScanRequest
           IN  /\ new \in Runtimes /\ new.model = rt.model /\ new.blocked = rt.blocked
               /\ rt.key = Request => new = rt
<1>1. Request \in Keys /\ rt \in Runtimes
  BY RequestIsKey DEF TypeOK
<1>2. CASE rt.key = Request
  BY <1>1, <1>2 DEF BeforeScanRequest
<1>3. CASE rt.key # Request
  <2> DEFINE keyed == [rt EXCEPT !.key = Request]
  <2>1. keyed \in Runtimes /\ keyed.model = rt.model /\ keyed.blocked = rt.blocked
    BY <1>1 DEF Runtimes
  <2>2. BeforeScanRequest = NoRetry([keyed EXCEPT !.model = keyed.model])
    BY <1>1, <1>3 DEF BeforeScanRequest, Runtimes
  <2>3. keyed.model \in Models \cup {Alias}
    BY <2>1 DEF Runtimes
  <2> HIDE DEF keyed
  <2> QED BY <1>3, <2>1, <2>2, <2>3, NoRetryFacts
<1> QED BY <1>2, <1>3

-----------------------------------------------------------------------------
LEMMA InitHolds == Init => IInv
<1> SUFFICES ASSUME Init PROVE IInv
  OBVIOUS
<1>1. Batteries \in Nat /\ MaxRetries \in Nat
  BY TimeAssumption
<1>2. NewRuntime \in Runtimes /\ NoReq \in Keys
  BY <1>1, PinAssumption DEF NewRuntime, NoReq, Runtimes, Keys
<1>3. TypeOK
  BY <1>1, <1>2 DEF Init, TypeOK
<1>4. AnswersPinned /\ RetriesBounded
  BY <1>1 DEF Init, AnswersPinned, RetriesBounded
<1>5. Times
  <2>1. clock = 1 /\ started = 0 /\ failed = 0 /\ owed = 0 /\ pc = "idle"
    BY DEF Init
  <2>2. gaveUp \in BOOLEAN
    BY DEF Init
  <2> QED BY <2>1, <2>2 DEF Times
<1>6. gaveUp = FALSE /\ failed = 0 /\ owed = 0 /\ disk.attempts = 0 /\ disk.due = 0
  BY DEF Init, NewRuntime
<1>7. pc = "idle"
  BY DEF Init
<1>8. Aboard
  BY <1>6, <1>7 DEF Aboard, Carries, InStep
<1> QED BY <1>3, <1>4, <1>5, <1>8 DEF IInv

-----------------------------------------------------------------------------
(* Every action keeps the invariant.                                         *)
LEMMA StartStepKeeps == ASSUME IInv, StartStep PROVE IInv'
<1>1. /\ pc = "idle" /\ pc' = "battery" /\ started' = clock
      /\ rt' = disk /\ raw' = disk /\ req' = NoReq /\ ~ disk.blocked
      /\ disk' = disk /\ status' = status /\ answered' = answered /\ clock' = clock
      /\ failed' = failed /\ owed' = owed /\ gaveUp' = gaveUp
  BY DEF StartStep, durable, history
<1>2. NoReq \in Keys
  BY TimeAssumption DEF NoReq, Keys
<1>3. TypeOK'
  BY <1>1, <1>2 DEF IInv, TypeOK
<1>4. AnswersPinned' /\ RetriesBounded'
  BY <1>1 DEF IInv, AnswersPinned, RetriesBounded
<1>5. Times'
  <2>1. clock \in Nat \ {0} /\ StepTime \in Nat /\ Slack \in Nat
    BY TimeAssumption DEF IInv, Times
  <2>2. gaveUp' \in BOOLEAN
    BY <1>1 DEF IInv, Times
  <2> QED BY <1>1, <2>1, <2>2 DEF IInv, Times, RetryBase
<1>6. Carries(disk)'
  BY <1>1 DEF IInv, Aboard, Carries
<1>7. \A b \in 1 .. Batteries : answered[b] \in {Alias, disk.model}
  BY DEF IInv, AnswersPinned
<1>8. Aboard'
  BY <1>1, <1>6, <1>7 DEF Aboard, Carries, InStep
<1> QED BY <1>3, <1>4, <1>5, <1>8 DEF IInv

LEMMA SendKeeps == ASSUME IInv, Send PROVE IInv'
<1>1. /\ Asks /\ ~ rt.blocked /\ started >= rt.due /\ pc' = "sent"
      /\ req' = Request /\ rt' = BeforeScanRequest
      /\ failed' = IF rt.key = Request THEN failed ELSE 0
      /\ disk' = disk /\ status' = status /\ answered' = answered /\ clock' = clock
      /\ started' = started /\ raw' = raw /\ owed' = owed /\ gaveUp' = gaveUp
  BY DEF Send, durable, Ready
<1>2. InStep /\ pc # "idle" /\ InStep'
  BY <1>1 DEF Asks, InStep
<1>3. TypeOK /\ Request \in Keys
  BY <1>1, RequestIsKey DEF IInv
<1>4. /\ rt' \in Runtimes /\ rt'.model = rt.model /\ rt'.blocked = rt.blocked
      /\ rt.key = Request => rt' = rt
  BY <1>1, <1>3, BeforeFacts
<1>5. TypeOK'
  BY <1>1, <1>3, <1>4 DEF TypeOK
<1>6. AnswersPinned' /\ RetriesBounded'
  BY <1>1, TimeAssumption DEF IInv, AnswersPinned, RetriesBounded
<1>7. Times'
  <2>1. gaveUp' \in BOOLEAN
    BY <1>1 DEF IInv, Times
  <2> QED BY <1>1, <1>2, <2>1 DEF IInv, Times, RetryBase
<1>8. /\ Carries(disk) /\ Carries(raw) /\ Carries(rt)
      /\ raw = disk /\ rt.model = disk.model
      /\ \A b \in 1 .. Batteries : answered[b] \in {Alias, raw.model}
  BY <1>2 DEF IInv, Aboard
<1>9. ~ gaveUp /\ owed <= clock
  <2>1. rt.due \in Nat /\ owed \in Nat /\ started \in Nat /\ clock \in Nat
    BY <1>3 DEF TypeOK, Runtimes, IInv, Times
  <2>2. started <= clock
    BY <1>2 DEF IInv, Times
  <2> QED BY <1>1, <1>8, <2>1, <2>2 DEF Carries
<1>10. failed' \in Nat /\ failed' <= failed /\ failed \in Nat
  BY <1>1 DEF IInv, Times
<1>11. Carries(disk)' /\ Carries(raw)'
  <2>1. disk.attempts \in Nat
    BY <1>3 DEF TypeOK, Runtimes
  <2> QED BY <1>1, <1>8, <1>9, <1>10, <2>1 DEF Carries
<1>12. Carries(rt)'
  <2>1. rt'.attempts \in Nat
    BY <1>4 DEF Runtimes
  <2> QED BY <1>1, <1>4, <1>8, <1>9, <1>10, <2>1 DEF Carries
<1>13. Aboard'
  BY <1>1, <1>2, <1>4, <1>8, <1>9, <1>11, <1>12 DEF Aboard, Carries
<1> QED BY <1>5, <1>6, <1>7, <1>13 DEF IInv

(* A step that goes on, or ends, without writing anything.                   *)
LEMMA MovesOn ==
    ASSUME IInv, NotSent \/ Finish \/ Declined
    PROVE  IInv'
<1>1. /\ InStep /\ pc # "idle" /\ pc' \in {"battery", "end"}
      /\ disk' = disk /\ status' = status /\ answered' = answered /\ clock' = clock
      /\ started' = started /\ rt' = rt /\ raw' = raw /\ req' = req
      /\ failed' = failed /\ owed' = owed /\ gaveUp' = gaveUp
  BY DEF NotSent, Finish, Declined, Asks, AfterError, InStep, durable, history
<1>2. TypeOK'
  BY <1>1 DEF IInv, TypeOK
<1>3. AnswersPinned' /\ RetriesBounded'
  BY <1>1 DEF IInv, AnswersPinned, RetriesBounded
<1>4. Times'
  <2>1. gaveUp' \in BOOLEAN
    BY <1>1 DEF IInv, Times
  <2> QED BY <1>1, <2>1 DEF IInv, Times, RetryBase
<1>5. /\ Carries(disk) /\ Carries(raw) /\ Carries(rt)
      /\ raw = disk /\ rt.model = disk.model
      /\ \A b \in 1 .. Batteries : answered[b] \in {Alias, raw.model}
  BY <1>1 DEF IInv, Aboard
<1>6. Carries(disk)' /\ Carries(raw)' /\ Carries(rt)'
  BY <1>1, <1>5 DEF Carries
<1>7. Aboard'
  BY <1>1, <1>5, <1>6 DEF Aboard
<1> QED BY <1>2, <1>3, <1>4, <1>7 DEF IInv

(* While a response is awaited nothing blocked the scan, the wait is over,   *)
(* and the three runtimes agree on the model.                                *)
LEMMA SentFacts ==
    ASSUME IInv, pc = "sent"
    PROVE  /\ ~ gaveUp /\ owed <= clock /\ ~ rt.blocked
           /\ failed <= rt.attempts /\ Carries(disk) /\ raw = disk /\ rt.model = disk.model
           /\ rt \in Runtimes /\ disk \in Runtimes
           /\ clock <= RetryBase /\ RetryBase \in Nat \ {0}
<1>1. InStep /\ pc # "idle"
  BY DEF InStep
<1>2. Carries(disk) /\ Carries(rt) /\ raw = disk /\ rt.model = disk.model
      /\ ~ rt.blocked /\ owed <= clock
  BY <1>1 DEF IInv, Aboard
<1>3. clock <= RetryBase /\ RetryBase \in Nat \ {0}
  <2>1. started \in Nat \ {0} /\ clock <= RetryBase
    BY <1>1 DEF IInv, Times
  <2> QED BY <2>1, TimeAssumption DEF RetryBase
<1>4. rt \in Runtimes /\ disk \in Runtimes
  BY DEF IInv, TypeOK
<1> QED BY <1>2, <1>3, <1>4 DEF Carries

(* A response whose runtime is written before it is used.                    *)
LEMMA PersistKeeps ==
    ASSUME IInv, pc = "sent", NEW new \in Runtimes, Persist(new),
           pc' \in {"battery", "locate", "end"},
           UNCHANGED <<status, clock, started, req>>,
           answered' \in [1 .. Batteries -> Models \cup {Alias}],
           \A b \in 1 .. Batteries : answered'[b] \in {Alias, new.model},
           failed' \in 0 .. MaxRetries + 1, owed' \in Nat, gaveUp' \in BOOLEAN,
           gaveUp' => new.blocked,
           new.blocked \/ (failed' <= new.attempts /\ (owed' <= new.due \/ owed' <= clock))
    PROVE  IInv'
<1>1. disk' = new /\ raw' = new /\ rt' = new /\ pc' # "idle" /\ pc' # "sent"
  BY DEF Persist
<1>2. TypeOK'
  BY <1>1 DEF IInv, TypeOK
<1>3. AnswersPinned' /\ RetriesBounded'
  BY <1>1, TimeAssumption DEF AnswersPinned, RetriesBounded
<1>4. Times'
  BY TimeAssumption DEF IInv, Times, RetryBase
<1>5. Carries(disk)' /\ Carries(raw)' /\ Carries(rt)'
  BY <1>1 DEF Carries
<1>6. Aboard'
  BY <1>1, <1>5 DEF Aboard
<1> QED BY <1>2, <1>3, <1>4, <1>6 DEF IInv

(* The model of an accepted response is the one of every earlier answer.     *)
LEMMA AcceptedIsPinned ==
    ASSUME IInv, pc = "sent", NEW m \in Models, Accepted(m)
    PROVE  \A b \in 1 .. Batteries : answered[b] \in {Alias, m}
<1>1. rt.model = disk.model /\ disk.model \in {Alias, m}
  BY SentFacts DEF Accepted
<1>2. \A b \in 1 .. Batteries : answered[b] \in {Alias, disk.model}
  BY DEF IInv, AnswersPinned
<1> QED BY <1>1, <1>2

LEMMA AnswerKeeps == ASSUME IInv, NEW m \in Models, Answer(m) PROVE IInv'
<1> DEFINE new == NoRetry([rt EXCEPT !.model = m])
<1>1. /\ pc = "sent" /\ Accepted(m) /\ Persist(new)
      /\ failed' = 0 /\ owed' = owed /\ gaveUp' = gaveUp
      /\ UNCHANGED <<status, clock, started, req>>
  BY DEF Answer
<1>2. pc' \in {"battery", "locate", "end"}
  BY DEF Answer, AfterError
<1>3. /\ new \in Runtimes /\ new.model = m /\ new.attempts = 0
  BY <1>1, SentFacts, NoRetryFacts
<1>4. ~ gaveUp /\ owed <= clock /\ gaveUp \in BOOLEAN /\ owed \in Nat
  BY <1>1, SentFacts DEF IInv, Times
<1>5. answered \in [1 .. Batteries -> Models \cup {Alias}]
  BY DEF IInv, TypeOK
<1>6. answered' \in [1 .. Batteries -> Models \cup {Alias}]
  BY <1>5 DEF Answer
<1>7. ASSUME NEW b \in 1 .. Batteries PROVE answered'[b] \in {Alias, m}
  <2>1. answered[b] \in {Alias, m}
    BY <1>1, AcceptedIsPinned
  <2> QED BY <1>5, <2>1 DEF Answer
<1>8. failed' \in 0 .. MaxRetries + 1
  BY <1>1, TimeAssumption
<1> HIDE DEF new
<1>9. gaveUp' \in BOOLEAN /\ (gaveUp' => new.blocked)
  BY <1>1, <1>4
<1>10. failed' <= new.attempts /\ owed' <= clock /\ owed' \in Nat
  BY <1>1, <1>3, <1>4
<1> QED BY <1>1, <1>2, <1>3, <1>6, <1>7, <1>8, <1>9, <1>10, PersistKeeps

LEMMA UnavailableKeeps == ASSUME IInv, NEW hint \in Hints, Unavailable(hint) PROVE IInv'
<1> DEFINE new == NextRetry(rt, hint, RetryBase)
<1>1. /\ pc = "sent" /\ Persist(new) /\ gaveUp' = (gaveUp \/ new.blocked)
      /\ failed' = failed + 1 /\ owed' = clock + Backoff(rt, hint)
      /\ UNCHANGED <<status, answered, clock, started, req>>
  BY DEF Unavailable
<1>2. pc' \in {"battery", "locate", "end"}
  BY DEF Unavailable, AfterError
<1>3. hint \in Nat /\ MaxRetries \in Nat
  BY TimeAssumption
<1>4. /\ ~ gaveUp /\ ~ rt.blocked /\ failed <= rt.attempts
      /\ rt \in Runtimes /\ rt.model = disk.model
      /\ clock <= RetryBase /\ RetryBase \in Nat \ {0}
  BY <1>1, SentFacts
<1>5. /\ new \in Runtimes /\ new.model = rt.model
      /\ \/ new.blocked
         \/ new.attempts = rt.attempts + 1 /\ new.due = RetryBase + Backoff(rt, hint)
  BY <1>3, <1>4, NextRetryFacts
<1>6. Backoff(rt, hint) \in Nat /\ clock \in Nat /\ failed \in Nat
      /\ rt.attempts \in 0 .. MaxRetries
  BY <1>3, <1>4, BackoffNat DEF IInv, Times, Runtimes
<1>7. answered \in [1 .. Batteries -> Models \cup {Alias}]
      /\ \A b \in 1 .. Batteries : answered[b] \in {Alias, new.model}
  BY <1>4, <1>5 DEF IInv, TypeOK, AnswersPinned
<1> HIDE DEF new
<1>8. failed' \in 0 .. MaxRetries + 1 /\ owed' \in Nat
  BY <1>1, <1>3, <1>4, <1>6
<1>9. new.blocked \in BOOLEAN
  BY <1>5 DEF Runtimes
<1>10. gaveUp' \in BOOLEAN /\ (gaveUp' => new.blocked)
  BY <1>1, <1>4, <1>9
<1>11. new.blocked \/ (failed' <= new.attempts /\ (owed' <= new.due \/ owed' <= clock))
  BY <1>1, <1>4, <1>5, <1>6
<1> QED BY <1>1, <1>2, <1>5, <1>7, <1>8, <1>10, <1>11, PersistKeeps

LEMMA BlockKeeps ==
    ASSUME IInv, NEW m \in Models \cup {"auth", "invalid"}, Block(m)
    PROVE  IInv'
<1> DEFINE new == [rt EXCEPT !.blocked = TRUE]
<1>1. /\ pc = "sent" /\ Persist(new) /\ gaveUp' = TRUE
      /\ failed' = failed /\ owed' = owed
      /\ UNCHANGED <<status, answered, clock, started, req>>
  BY DEF Block
<1>2. pc' \in {"battery", "locate", "end"}
  BY DEF Block, AfterError
<1>3. rt \in Runtimes /\ rt.model = disk.model
  BY <1>1, SentFacts
<1>4. new \in Runtimes /\ new.model = rt.model /\ new.blocked
  BY <1>3 DEF Runtimes
<1>5. answered \in [1 .. Batteries -> Models \cup {Alias}]
      /\ \A b \in 1 .. Batteries : answered[b] \in {Alias, new.model}
  BY <1>3, <1>4 DEF IInv, TypeOK, AnswersPinned
<1>6. failed' \in 0 .. MaxRetries + 1 /\ owed' \in Nat
  BY <1>1, TimeAssumption DEF IInv, RetriesBounded, Times
<1> HIDE DEF new
<1> QED BY <1>1, <1>2, <1>4, <1>5, <1>6, PersistKeeps

(* A response whose runtime was perhaps written: the step ends, and the      *)
(* runtime in memory is the one before the response.                         *)
LEMMA UnsavedKeeps ==
    ASSUME IInv, NEW new \in Runtimes, Unsaved(new),
           \A b \in 1 .. Batteries : answered[b] \in {Alias, new.model},
           failed' \in 0 .. failed, new.blocked \/ failed' <= new.attempts
    PROVE  IInv'
<1>1. /\ pc = "sent" /\ rt' = new /\ disk' \in {disk, new} /\ pc' = "end"
      /\ status' = status /\ answered' = answered /\ clock' = clock
      /\ started' = started /\ raw' = raw /\ req' = req
      /\ owed' = owed /\ gaveUp' = gaveUp
  BY DEF Unsaved
<1>2. /\ ~ gaveUp /\ owed <= clock /\ Carries(disk) /\ raw = disk
      /\ disk \in Runtimes
  BY <1>1, SentFacts
<1>3. TypeOK'
  BY <1>1 DEF IInv, TypeOK
<1>4. failed \in Nat /\ failed' \in Nat /\ failed' <= failed
  BY DEF IInv, Times
<1>5. \A b \in 1 .. Batteries : answered[b] \in {Alias, disk.model}
  BY DEF IInv, AnswersPinned
<1>6. AnswersPinned'
  BY <1>1, <1>5 DEF AnswersPinned
<1>7. RetriesBounded'
  BY <1>4, TimeAssumption DEF IInv, RetriesBounded
<1>8. Times'
  <2>1. gaveUp' \in BOOLEAN
    BY <1>1 DEF IInv, Times
  <2> QED BY <1>1, <1>4, <2>1 DEF IInv, Times, RetryBase
<1>9. disk.attempts \in Nat
  BY <1>2 DEF Runtimes
<1>10. Carries(disk)' /\ Carries(raw)'
  <2>1. gaveUp' = FALSE
    BY <1>1, <1>2 DEF IInv, Times
  <2> QED BY <1>1, <1>2, <1>4, <1>9, <2>1 DEF Carries
<1>11. Aboard'
  BY <1>1, <1>2, <1>5, <1>10 DEF Aboard, InStep
<1> QED BY <1>3, <1>6, <1>7, <1>8, <1>11 DEF IInv

LEMMA AnswerUnsavedKeeps ==
    ASSUME IInv, NEW m \in Models, AnswerUnsaved(m)
    PROVE  IInv'
<1> DEFINE new == NoRetry([rt EXCEPT !.model = m])
<1>1. pc = "sent" /\ Accepted(m) /\ Unsaved(new) /\ failed' = 0
  BY DEF AnswerUnsaved, Unsaved
<1>2. new \in Runtimes /\ new.model = m /\ new.attempts = 0
  BY <1>1, SentFacts, NoRetryFacts
<1>3. \A b \in 1 .. Batteries : answered[b] \in {Alias, new.model}
  BY <1>1, <1>2, AcceptedIsPinned
<1>4. failed' \in 0 .. failed
  BY <1>1 DEF IInv, Times
<1> HIDE DEF new
<1> QED BY <1>1, <1>2, <1>3, <1>4, UnsavedKeeps

LEMMA FailureUnsavedKeeps == ASSUME IInv, FailureUnsaved PROVE IInv'
<1>1. failed' = failed /\ failed \in Nat
  BY DEF FailureUnsaved, IInv, Times
<1>2. ASSUME NEW hint \in Hints, Unsaved(NextRetry(rt, hint, RetryBase)) PROVE IInv'
  <2> DEFINE new == NextRetry(rt, hint, RetryBase)
  <2>1. pc = "sent" /\ hint \in Nat
    BY <1>2, TimeAssumption DEF Unsaved
  <2>2. /\ failed <= rt.attempts /\ rt \in Runtimes /\ rt.model = disk.model
        /\ RetryBase \in Nat \ {0} /\ rt.attempts \in Nat
    BY <2>1, SentFacts DEF Runtimes
  <2>3. /\ new \in Runtimes /\ new.model = rt.model
        /\ new.blocked \/ new.attempts = rt.attempts + 1
    BY <2>1, <2>2, NextRetryFacts
  <2>4. \A b \in 1 .. Batteries : answered[b] \in {Alias, new.model}
    BY <2>2, <2>3 DEF IInv, AnswersPinned
  <2> HIDE DEF new
  <2>5. new.blocked \/ failed' <= new.attempts
    BY <1>1, <2>2, <2>3
  <2>6. Unsaved(new)
    BY <1>2 DEF new
  <2> QED BY <1>1, <2>3, <2>4, <2>5, <2>6, UnsavedKeeps
<1>3. ASSUME Unsaved([rt EXCEPT !.blocked = TRUE]) PROVE IInv'
  <2> DEFINE new == [rt EXCEPT !.blocked = TRUE]
  <2>1. pc = "sent"
    BY <1>3 DEF Unsaved
  <2>2. rt \in Runtimes /\ rt.model = disk.model
    BY <2>1, SentFacts
  <2>3. new \in Runtimes /\ new.model = rt.model /\ new.blocked
    BY <2>2 DEF Runtimes
  <2>4. \A b \in 1 .. Batteries : answered[b] \in {Alias, new.model}
    BY <2>2, <2>3 DEF IInv, AnswersPinned
  <2>5. Unsaved(new)
    BY <1>3
  <2> HIDE DEF new
  <2> QED BY <1>1, <2>3, <2>4, <2>5, UnsavedKeeps
<1> QED BY <1>2, <1>3 DEF FailureUnsaved

(* A step that is over, saved, half saved or crashed: the checkpoint holds   *)
(* what it held or what the step had in memory, and both carry the history.  *)
LEMMA Leaves ==
    ASSUME IInv, SaveScan \/ SaveScanFails \/ Crash
    PROVE  IInv'
<1>1. /\ pc # "idle" /\ disk' \in {disk, raw} /\ pc' = "idle" /\ started' = 0
      /\ rt' = NewRuntime /\ raw' = NewRuntime /\ req' = NoReq
      /\ answered' = answered /\ clock' = clock
      /\ failed' = failed /\ owed' = owed /\ gaveUp' = gaveUp
  BY DEF SaveScan, SaveScanFails, Crash, Leave, durable, history
<1>2. status' \in {"running", "judge_unavailable", "done", "request_blocked"}
  <2>1. StatusSaved \in {"done", "request_blocked", "judge_unavailable"}
    BY DEF StatusSaved
  <2>2. status' \in {status, StatusSaved}
    BY DEF SaveScan, SaveScanFails, Crash, durable
  <2> QED BY <2>1, <2>2 DEF IInv, TypeOK
<1>3. NewRuntime \in Runtimes /\ NoReq \in Keys
  BY TimeAssumption, PinAssumption DEF NewRuntime, NoReq, Runtimes, Keys
<1>4. TypeOK'
  BY <1>1, <1>2, <1>3 DEF IInv, TypeOK
<1>5. /\ Carries(disk) /\ Carries(raw)
      /\ \A b \in 1 .. Batteries : answered[b] \in {Alias, raw.model}
      /\ \A b \in 1 .. Batteries : answered[b] \in {Alias, disk.model}
  BY <1>1 DEF IInv, Aboard, AnswersPinned
<1>6. AnswersPinned' /\ RetriesBounded'
  BY <1>1, <1>5 DEF IInv, AnswersPinned, RetriesBounded
<1>7. Times'
  <2>1. gaveUp' \in BOOLEAN
    BY <1>1 DEF IInv, Times
  <2> QED BY <1>1, <2>1 DEF IInv, Times
<1>8. Carries(disk)'
  BY <1>1, <1>5 DEF Carries
<1>9. Aboard'
  BY <1>1, <1>8 DEF Aboard, InStep
<1> QED BY <1>4, <1>6, <1>7, <1>9 DEF IInv

LEMMA TickKeeps == ASSUME IInv, Tick PROVE IInv'
<1>1. /\ clock' = clock + 1 /\ clock \in Nat
      /\ pc # "idle" => clock + 1 < RetryBase
      /\ disk' = disk /\ status' = status /\ answered' = answered /\ pc' = pc
      /\ started' = started /\ rt' = rt /\ raw' = raw /\ req' = req
      /\ failed' = failed /\ owed' = owed /\ gaveUp' = gaveUp
  BY DEF Tick, RetryBase, durable, step, history, IInv, Times
<1>2. TypeOK'
  BY <1>1 DEF IInv, TypeOK
<1>3. AnswersPinned' /\ RetriesBounded'
  BY <1>1 DEF IInv, AnswersPinned, RetriesBounded
<1>4. Times'
  <2>1. gaveUp' \in BOOLEAN
    BY <1>1 DEF IInv, Times
  <2> QED BY <1>1, <2>1, TimeAssumption DEF IInv, Times, RetryBase
<1>5. owed <= clock => owed <= clock'
  BY <1>1 DEF IInv, Times
<1>6. ASSUME NEW r, Carries(r)
      PROVE  /\ gaveUp' => r.blocked
             /\ r.blocked \/ (failed' <= r.attempts /\ (owed' <= r.due \/ owed' <= clock'))
  BY <1>1, <1>5, <1>6 DEF Carries
<1>7. Carries(disk)'
  BY <1>1, <1>6 DEF IInv, Aboard, Carries
<1>8. pc # "idle" => Carries(raw)'
  BY <1>1, <1>6 DEF IInv, Aboard, Carries
<1>9. InStep => Carries(rt)'
  BY <1>1, <1>6 DEF IInv, Aboard, Carries
<1>10. Aboard'
  BY <1>1, <1>5, <1>7, <1>8, <1>9 DEF IInv, Aboard, InStep
<1> QED BY <1>2, <1>3, <1>4, <1>10 DEF IInv

LEMMA NextHolds == IInv /\ [Next]_vars => IInv'
<1> SUFFICES ASSUME IInv, [Next]_vars PROVE IInv'
  OBVIOUS
<1>1. CASE \E m \in Models : Answer(m)
  BY <1>1, AnswerKeeps
<1>2. CASE \E hint \in Hints : Unavailable(hint)
  BY <1>2, UnavailableKeeps
<1>3. CASE \E m \in Models \cup {"auth", "invalid"} : Block(m)
  BY <1>3, BlockKeeps
<1>4. CASE \E m \in Models : AnswerUnsaved(m)
  BY <1>4, AnswerUnsavedKeeps
<1>5. CASE UNCHANGED vars
  <2>1. /\ disk' = disk /\ status' = status /\ answered' = answered /\ pc' = pc
        /\ started' = started /\ rt' = rt /\ raw' = raw /\ req' = req /\ clock' = clock
        /\ failed' = failed /\ owed' = owed /\ gaveUp' = gaveUp
    BY <1>5 DEF vars, durable, step, history
  <2>2. TypeOK' /\ AnswersPinned' /\ RetriesBounded'
    BY <2>1 DEF IInv, TypeOK, AnswersPinned, RetriesBounded
  <2>3. Times'
    BY <2>1 DEF IInv, Times, RetryBase
  <2>4. Aboard'
    BY <2>1 DEF IInv, Aboard, Carries, InStep
  <2> QED BY <2>2, <2>3, <2>4 DEF IInv
<1> QED
  BY <1>1, <1>2, <1>3, <1>4, <1>5, StartStepKeeps, SendKeeps, MovesOn,
     FailureUnsavedKeeps, Leaves, TickKeeps
  DEF Next

(* The strengthening holds in every reachable state.                         *)
THEOREM Invariance == Spec => []IInv
<1> QED BY InitHolds, NextHolds, PTL DEF Spec

-----------------------------------------------------------------------------
(* Every runtime that is written or used passes valid(), whatever failed.    *)
THEOREM TypeCorrect == Spec => []TypeOK
<1>1. IInv => TypeOK
  BY DEF IInv
<1> QED BY <1>1, Invariance, PTL

(* The answers of one scan are of the one model its checkpoint is pinned to, *)
(* whatever was lost between a response and its record.                      *)
THEOREM AnswersArePinned == Spec => []AnswersPinned
<1>1. IInv => AnswersPinned
  BY DEF IInv
<1> QED BY <1>1, Invariance, PTL

(* One request fails at most MaxRetries + 1 saved times, over all steps.     *)
THEOREM RetriesAreBounded == Spec => []RetriesBounded
<1>1. IInv => RetriesBounded
  BY DEF IInv
<1> QED BY <1>1, Invariance, PTL

(* Only Send sends a request.                                                *)
LEMMA OnlySendSends ==
    ASSUME [Next]_vars, Asks, pc' = "sent"
    PROVE  Send
<1>1. pc # "sent"
  BY DEF Asks
<1>2. ~ UNCHANGED vars
  BY <1>1 DEF vars, step
<1> QED
  BY <1>1, <1>2
  DEF Next, StartStep, NotSent, Finish, Answer, Unavailable, Block, Declined,
      AnswerUnsaved, FailureUnsaved, Unsaved, SaveScan, SaveScanFails, Leave, Crash,
      Tick, step

(* Nothing is sent before the backoff of the last saved failure is over,     *)
(* counted from the response, over steps, restarts and other batteries.      *)
THEOREM BackoffIsWaitedOut == Spec => WaitsOut
<1>1. ASSUME IInv, [Next]_vars, Asks, pc' = "sent" PROVE clock >= owed
  <2>1. ~ rt.blocked /\ started >= rt.due
    BY <1>1, OnlySendSends DEF Send, Ready
  <2>2. InStep /\ pc # "idle"
    BY <1>1 DEF Asks, InStep
  <2>3. started <= clock /\ Carries(rt)
    BY <1>1, <2>2 DEF IInv, Times, Aboard
  <2>4. rt.due \in Nat /\ owed \in Nat /\ started \in Nat /\ clock \in Nat
    BY <1>1 DEF IInv, TypeOK, Runtimes, Times
  <2> QED BY <2>1, <2>3, <2>4 DEF Carries
<1>2. IInv /\ [Next]_vars => [Asks /\ pc' = "sent" => clock >= owed]_vars
  BY <1>1
<1> QED BY <1>2, Invariance, PTL DEF Spec, WaitsOut

(* A scan that a saved response blocked sends nothing any more.              *)
THEOREM BlockedStaysBlocked == Spec => BlockedStays
<1>1. ASSUME IInv, [Next]_vars, Asks, pc' = "sent" PROVE ~ gaveUp
  <2>1. ~ rt.blocked
    BY <1>1, OnlySendSends DEF Send
  <2>2. InStep
    BY <1>1 DEF Asks, InStep
  <2> QED BY <1>1, <2>1, <2>2 DEF IInv, Aboard, Carries
<1>2. IInv /\ [Next]_vars => [gaveUp => ~ (Asks /\ pc' = "sent")]_vars
  BY <1>1
<1> QED BY <1>2, Invariance, PTL DEF Spec, BlockedStays
=============================================================================
