------------------------------ MODULE JobQueue ------------------------------
(***************************************************************************)
(* The PostgreSQL-backed job table of lib/job-notification-service.js and  *)
(* the operations workers that claim, run, complete and fail its rows.     *)
(*                                                                         *)
(* Every database statement of a worker is one action, because the service *)
(* runs them outside any transaction: the candidate query, the guarded     *)
(* claim update, the re-read of the claimed row, the handler, and the      *)
(* guarded completion or failure.  A batch keeps the single instant `now`  *)
(* it was started with, so a slow worker acts on a stale clock.            *)
(***************************************************************************)
EXTENDS Integers, Sequences, FiniteSets

CONSTANTS
    Job,            \* job identities, numbered in order of creation (createdAt)
    Worker,         \* worker processes that may run at the same time
    BatchSize,      \* `take` of the candidate query, JOB_BATCH_SIZE
    LeaseTicks,     \* JOB_LEASE_SECONDS, in ticks
    MaxAttempts,    \* JOB_MAX_ATTEMPTS
    BaseDelay,      \* jobRetryDelayMs baseMs, in ticks
    MaximumDelay,   \* jobRetryDelayMs maximumMs, in ticks
    \* bounds of the model
    MaxClock,       \* the clock stops here
    MaxBatchTicks,  \* how long a worker may be stuck in one batch
    MaxCrashes,     \* worker processes lost
    MaxRetries      \* dead letters an operator sends back to the queue

ASSUME JobAssumption == Job \subseteq Nat
ASSUME NumbersAssumption ==
    /\ BatchSize \in Nat \ {0}
    /\ LeaseTicks \in Nat \ {0}
    /\ MaxAttempts \in Nat \ {0}
    /\ BaseDelay \in Nat
    /\ MaximumDelay \in Nat

VARIABLES
    clock,       \* the common wall clock
    rows,        \* the job table
    nextToken,   \* source of lease tokens, randomUUID()
    pc,          \* where each worker is in its batch
    batchNow,    \* the instant the worker's batch started
    candidates,  \* candidate rows still to be claimed: <<availableAt, job>>
    target,      \* the job just claimed and about to be re-read
    claimed,     \* the row snapshots the worker still has to process
    crashes,     \* number of crashes so far (bounded)
    retries      \* number of manual retries so far (bounded)

workerVars == <<pc, batchNow, candidates, target, claimed>>
boundVars == <<crashes, retries>>
vars == <<clock, rows, nextToken, pc, batchNow, candidates, target, claimed,
          crashes, retries>>

-----------------------------------------------------------------------------
(* Lease tokens and expiry instants are positive, so 0 is the SQL NULL of  *)
(* both columns.                                                           *)
Null == 0

ClaimableStatus == {"QUEUED", "RETRY_SCHEDULED", "LEASED"}
Settled == {"SUCCEEDED", "DEAD_LETTER"}
Status == {"ABSENT"} \union ClaimableStatus \union Settled
PC == {"idle", "claim", "reread", "run", "complete", "fail"}

Row == [status : Status, availableAt : Nat, attempts : Nat,
        leaseToken : Nat, leaseUntil : Nat]

(* What a worker keeps of the row it re-reads after a claim. *)
Snapshot == [job : Job, leaseToken : Nat, attempts : Nat, availableAt : Nat]

AbsentRow == [status |-> "ABSENT", availableAt |-> 0, attempts |-> 0,
              leaseToken |-> Null, leaseUntil |-> Null]

(* jobRetryDelayMs: exponential backoff with a ceiling. *)
RetryDelay(attempts) ==
    LET count == IF attempts < 1 THEN 1 ELSE attempts
        delay == BaseDelay * 2^(count - 1)
    IN  IF delay \in 0..MaximumDelay THEN delay ELSE MaximumDelay

(* The WHERE of the candidate query. *)
Eligible(j, now) ==
    /\ rows[j].availableAt <= now
    /\ \/ /\ rows[j].status \in {"QUEUED", "RETRY_SCHEDULED"}
          /\ rows[j].leaseUntil = Null
       \/ /\ rows[j].status = "LEASED"
          /\ rows[j].leaseUntil # Null
          /\ rows[j].leaseUntil <= now

(* Faults: the update trusts one part of what the candidate query saw. *)
StillClaimable_AnyLease(j, now) ==
    /\ rows[j].status \in ClaimableStatus
    /\ rows[j].availableAt <= now

StillClaimable_AnyTime(j, now) ==
    /\ rows[j].status \in ClaimableStatus
    /\ rows[j].leaseUntil = Null \/ rows[j].leaseUntil <= now

(* The WHERE of the claim update, evaluated again on the current row. *)
StillClaimable(j, now) ==
    /\ rows[j].status \in ClaimableStatus
    /\ rows[j].availableAt <= now
    /\ rows[j].leaseUntil = Null \/ rows[j].leaseUntil <= now

(* The WHERE of completion and failure: only the token's holder matches. *)
HoldsLease(s) ==
    /\ rows[s.job].status = "LEASED"
    /\ rows[s.job].leaseToken = s.leaseToken

(* ORDER BY availableAt, createdAt; every job has the default priority. *)
Precedes(a, b) == a[1] < b[1] \/ (a[1] = b[1] /\ a[2] < b[2])

FirstBatch(S) ==
    {c \in S : Cardinality({d \in S : Precedes(d, c)}) < BatchSize}

(* The snapshots a worker has still to process. *)
Held(w) == {claimed[w][i] : i \in 1..Len(claimed[w])}

Goto(w, label) == pc' = [pc EXCEPT ![w] = label]

-----------------------------------------------------------------------------
Init ==
    /\ clock = 1
    /\ rows = [j \in Job |-> AbsentRow]
    /\ nextToken = 1
    /\ pc = [w \in Worker |-> "idle"]
    /\ batchNow = [w \in Worker |-> 0]
    /\ candidates = [w \in Worker |-> {}]
    /\ target = [w \in Worker |-> Null]
    /\ claimed = [w \in Worker |-> << >>]
    /\ crashes = 0
    /\ retries = 0

(* enqueueNotificationEvent: the job of a new event.  The upsert on the    *)
(* idempotency key makes a repeated call a no-op.                          *)
Enqueue(j) ==
    /\ rows[j].status = "ABSENT"
    /\ \A k \in Job : k < j => rows[k].status # "ABSENT"
    /\ rows' = [rows EXCEPT ![j] = [@ EXCEPT !.status = "QUEUED",
                                             !.availableAt = clock]]
    /\ UNCHANGED <<clock, nextToken, workerVars, boundVars>>

(* The candidate query that opens a batch.  An empty result ends the batch *)
(* at once, which changes nothing.                                         *)
FindCandidates(w) ==
    LET found == {<<rows[j].availableAt, j>> : j \in {k \in Job : Eligible(k, clock)}}
    IN  /\ pc[w] = "idle"
        /\ found # {}
        /\ batchNow' = [batchNow EXCEPT ![w] = clock]
        /\ candidates' = [candidates EXCEPT ![w] = FirstBatch(found)]
        /\ Goto(w, "claim")
        /\ UNCHANGED <<clock, rows, nextToken, target, claimed, boundVars>>

(* The candidate the claim loop is at, in query order. *)
NextCandidate(w, c) ==
    /\ pc[w] = "claim"
    /\ c \in candidates[w]
    /\ \A d \in candidates[w] \ {c} : Precedes(c, d)

LeasedRow(r, token, until) ==
    [r EXCEPT !.status = "LEASED", !.leaseToken = token, !.leaseUntil = until,
              !.attempts = r.attempts + 1]

(* The claim update matched: a fresh token, a lease from the batch instant,*)
(* one more attempt.                                                       *)
ClaimRow(w) ==
    \E c \in candidates[w] :
        /\ NextCandidate(w, c)
        /\ StillClaimable(c[2], batchNow[w])
        /\ rows' = [rows EXCEPT ![c[2]] =
                        LeasedRow(@, nextToken, batchNow[w] + LeaseTicks)]
        /\ nextToken' = nextToken + 1
        /\ target' = [target EXCEPT ![w] = c[2]]
        /\ candidates' = [candidates EXCEPT ![w] = @ \ {c}]
        /\ Goto(w, "reread")
        /\ UNCHANGED <<clock, batchNow, claimed, boundVars>>

(* The claim update matched no row: another worker was faster. *)
SkipCandidate(w) ==
    \E c \in candidates[w] :
        /\ NextCandidate(w, c)
        /\ ~StillClaimable(c[2], batchNow[w])
        /\ candidates' = [candidates EXCEPT ![w] = @ \ {c}]
        /\ UNCHANGED <<clock, rows, nextToken, pc, batchNow, target, claimed, boundVars>>

(* findUniqueOrThrow by id, a statement of its own: it returns the row as  *)
(* it is now, whoever holds it by then.                                    *)
RereadRow(w) ==
    LET j == target[w]
        snapshot == [job |-> j,
                     leaseToken |-> rows[j].leaseToken,
                     attempts |-> rows[j].attempts,
                     availableAt |-> rows[j].availableAt]
    IN  /\ pc[w] = "reread"
        /\ claimed' = [claimed EXCEPT ![w] = Append(@, snapshot)]
        /\ target' = [target EXCEPT ![w] = Null]
        /\ Goto(w, "claim")
        /\ UNCHANGED <<clock, rows, nextToken, batchNow, candidates, boundVars>>

(* claimJobs returns and the sequential processing loop starts. *)
StartProcessing(w) ==
    /\ pc[w] = "claim"
    /\ candidates[w] = {}
    /\ Goto(w, "run")
    /\ UNCHANGED <<clock, rows, nextToken, batchNow, candidates, target, claimed, boundVars>>

(* The handler of the first remaining job returns or throws. *)
RunHandler(w) ==
    /\ pc[w] = "run"
    /\ claimed[w] # << >>
    /\ \E outcome \in {"complete", "fail"} : Goto(w, outcome)
    /\ UNCHANGED <<clock, rows, nextToken, batchNow, candidates, target, claimed, boundVars>>

FinishBatch(w) ==
    /\ pc[w] = "run"
    /\ claimed[w] = << >>
    /\ Goto(w, "idle")
    /\ UNCHANGED <<clock, rows, nextToken, batchNow, candidates, target, claimed, boundVars>>

CompletedRow(r) ==
    [r EXCEPT !.status = "SUCCEEDED", !.leaseToken = Null, !.leaseUntil = Null]

(* completeJob by the token's holder. *)
CompleteJob(w) ==
    LET s == Head(claimed[w])
    IN  /\ pc[w] = "complete"
        /\ HoldsLease(s)
        /\ rows' = [rows EXCEPT ![s.job] = CompletedRow(@)]
        /\ claimed' = [claimed EXCEPT ![w] = Tail(@)]
        /\ Goto(w, "run")
        /\ UNCHANGED <<clock, nextToken, batchNow, candidates, target, boundVars>>

(* completeJob throws inside the try block, so failJob runs next. *)
CompleteRefused(w) ==
    /\ pc[w] = "complete"
    /\ ~HoldsLease(Head(claimed[w]))
    /\ Goto(w, "fail")
    /\ UNCHANGED <<clock, rows, nextToken, batchNow, candidates, target, claimed, boundVars>>

(* Fault: the last attempt is not made. *)
FailedRow_OneTooFew(r, s, now) ==
    IF s.attempts + 1 >= MaxAttempts
    THEN [r EXCEPT !.status = "DEAD_LETTER", !.leaseToken = Null, !.leaseUntil = Null]
    ELSE [r EXCEPT !.status = "RETRY_SCHEDULED",
                   !.availableAt = now + RetryDelay(s.attempts),
                   !.leaseToken = Null, !.leaseUntil = Null]

(* The row failJob leaves behind.  The decision and the backoff come from  *)
(* the snapshot and from the batch instant, not from the current row.      *)
FailedRow(r, s, now) ==
    IF s.attempts >= MaxAttempts
    THEN [r EXCEPT !.status = "DEAD_LETTER", !.availableAt = s.availableAt,
                   !.leaseToken = Null, !.leaseUntil = Null]
    ELSE [r EXCEPT !.status = "RETRY_SCHEDULED",
                   !.availableAt = now + RetryDelay(s.attempts),
                   !.leaseToken = Null, !.leaseUntil = Null]

(* failJob by the token's holder. *)
FailJob(w) ==
    LET s == Head(claimed[w])
    IN  /\ pc[w] = "fail"
        /\ HoldsLease(s)
        /\ rows' = [rows EXCEPT ![s.job] = FailedRow(@, s, batchNow[w])]
        /\ claimed' = [claimed EXCEPT ![w] = Tail(@)]
        /\ Goto(w, "run")
        /\ UNCHANGED <<clock, nextToken, batchNow, candidates, target, boundVars>>

(* failJob throws out of the catch block: the rest of the batch is dropped *)
(* with its leases still running.                                          *)
AbortBatch(w) ==
    /\ pc[w] = "fail"
    /\ ~HoldsLease(Head(claimed[w]))
    /\ claimed' = [claimed EXCEPT ![w] = << >>]
    /\ Goto(w, "idle")
    /\ UNCHANGED <<clock, rows, nextToken, batchNow, candidates, target, boundVars>>

(* The process dies between two statements and a new one takes its place. *)
Crash(w) ==
    /\ pc[w] # "idle"
    /\ crashes < MaxCrashes
    /\ crashes' = crashes + 1
    /\ Goto(w, "idle")
    /\ candidates' = [candidates EXCEPT ![w] = {}]
    /\ target' = [target EXCEPT ![w] = Null]
    /\ claimed' = [claimed EXCEPT ![w] = << >>]
    /\ UNCHANGED <<clock, rows, nextToken, batchNow, retries>>

(* Fault: the attempts of the job's earlier life still count. *)
RetryDeadLetter_KeepsAttempts(j) ==
    /\ rows[j].status = "DEAD_LETTER"
    /\ retries < MaxRetries
    /\ retries' = retries + 1
    /\ rows' = [rows EXCEPT ![j] = [@ EXCEPT !.status = "QUEUED", !.availableAt = clock]]
    /\ UNCHANGED <<clock, nextToken, workerVars, crashes>>

(* retryDeadLetterJob, an operator's request. *)
RetryDeadLetter(j) ==
    /\ rows[j].status = "DEAD_LETTER"
    /\ retries < MaxRetries
    /\ retries' = retries + 1
    /\ rows' = [rows EXCEPT ![j] = [@ EXCEPT !.status = "QUEUED",
                                             !.attempts = 0,
                                             !.availableAt = clock]]
    /\ UNCHANGED <<clock, nextToken, workerVars, crashes>>

(* Time passes while something waits for it: a backoff or a lease is still *)
(* running, or a worker is inside a batch.                                 *)
TimeMatters ==
    \/ \E j \in Job : rows[j].availableAt > clock \/ rows[j].leaseUntil > clock
    \/ \E w \in Worker : pc[w] # "idle" /\ clock < batchNow[w] + MaxBatchTicks

Tick ==
    /\ clock < MaxClock
    /\ TimeMatters
    /\ clock' = clock + 1
    /\ UNCHANGED <<rows, nextToken, workerVars, boundVars>>

WorkerStep(w) ==
    \/ FindCandidates(w)
    \/ ClaimRow(w)
    \/ SkipCandidate(w)
    \/ RereadRow(w)
    \/ StartProcessing(w)
    \/ RunHandler(w)
    \/ FinishBatch(w)
    \/ CompleteJob(w)
    \/ CompleteRefused(w)
    \/ FailJob(w)
    \/ AbortBatch(w)

Next ==
    \/ \E j \in Job : Enqueue(j) \/ RetryDeadLetter(j)
    \/ \E w \in Worker : WorkerStep(w) \/ Crash(w)
    \/ Tick

Spec == Init /\ [][Next]_vars

-----------------------------------------------------------------------------
(* Every column and every worker variable keeps the type the code gives    *)
(* it; a worker past the re-read always has a job in hand.                 *)
TypeOK ==
    /\ clock \in Nat
    /\ rows \in [Job -> Row]
    /\ nextToken \in Nat \ {0}
    /\ pc \in [Worker -> PC]
    /\ batchNow \in [Worker -> Nat]
    /\ candidates \in [Worker -> SUBSET (Nat \X Job)]
    /\ target \in [Worker -> Job \union {Null}]
    /\ \A w \in Worker : pc[w] = "reread" => target[w] \in Job
    /\ claimed \in [Worker -> Seq(Snapshot)]
    /\ \A w \in Worker : pc[w] \in {"complete", "fail"} => claimed[w] # << >>
    /\ crashes \in Nat
    /\ retries \in Nat

(* A row carries a lease exactly while it is LEASED.  A waiting row that   *)
(* kept an expiry would never match the candidate query again, and a       *)
(* leased row without one could never be reclaimed: either is a job lost   *)
(* for good.                                                               *)
NoStrandedRow ==
    \A j \in Job :
        /\ rows[j].status = "LEASED" <=> rows[j].leaseToken # Null
        /\ rows[j].status = "LEASED" <=> rows[j].leaseUntil # Null

(* Whoever presents the current token of a row decides from that row as it *)
(* is, although the snapshot was read statements earlier and other workers *)
(* may have reclaimed, failed or requeued the row since it was first seen. *)
SnapshotCurrent(s) ==
    HoldsLease(s) => /\ rows[s.job].attempts = s.attempts
                     /\ rows[s.job].availableAt = s.availableAt

FreshDecision ==
    \A w \in Worker : \A s \in Held(w) : SnapshotCurrent(s)

(* A job is given up only after it was really attempted the configured     *)
(* number of times since it was last queued, whatever crashes, expired     *)
(* leases and manual retries came between.                                 *)
DeadLetterEarned ==
    \A j \in Job : rows[j].status = "DEAD_LETTER" => rows[j].attempts >= MaxAttempts

(* Every token in the table or in a worker's hands has been issued, so the *)
(* next one is new to everybody.                                           *)
TokensIssued ==
    /\ \A j \in Job : rows[j].leaseToken < nextToken
    /\ \A w \in Worker : \A s \in Held(w) : s.leaseToken < nextToken

(* A batch instant is never in the future. *)
BatchInPast == \A w \in Worker : batchNow[w] <= clock

(* The inductive invariant of the proofs in JobQueueProofs. *)
IInv ==
    /\ TypeOK
    /\ NoStrandedRow
    /\ TokensIssued
    /\ FreshDecision
    /\ DeadLetterEarned
    /\ BatchInPast

(* A job that has succeeded is never run again: no stale candidate list,   *)
(* expired lease, late failure report or manual retry reopens it.          *)
KeepsSucceeded ==
    \A j \in Job : rows[j].status = "SUCCEEDED" => rows'[j] = rows[j]

SucceededIsFinal == [][KeepsSucceeded]_vars

(* While a lease is running only its holder ends it: nobody overwrites an  *)
(* unexpired token, even with a candidate list read while the row was free.*)
KeepsRunningLease ==
    \A j \in Job :
        /\ rows[j].status = "LEASED"
        /\ rows[j].leaseUntil > clock
        /\ rows'[j].leaseToken # rows[j].leaseToken
        => rows'[j].leaseToken = Null

LeaseRespected == [][KeepsRunningLease]_vars

(* An attempt never starts before the row's backoff has elapsed. *)
BackoffRespected ==
    [][\A j \in Job :
         rows'[j].attempts > rows[j].attempts => rows[j].availableAt <= clock]_vars

(* Leases, stale snapshots, lost workers and late reports stay inside the  *)
(* queue: seen from outside, every job lives the life of JobLifecycle.     *)
Stage(status) ==
    CASE status = "ABSENT" -> "absent"
      [] status \in {"QUEUED", "RETRY_SCHEDULED"} -> "waiting"
      [] status = "LEASED" -> "running"
      [] status = "SUCCEEDED" -> "succeeded"
      [] status = "DEAD_LETTER" -> "dead"

Lifecycle == INSTANCE JobLifecycle WITH
    stage <- [j \in Job |-> Stage(rows[j].status)],
    attempts <- [j \in Job |-> rows[j].attempts]

ImplementsLifecycle == Lifecycle!Spec

(* What the queue owes its jobs in every state, as one run checks it: no   *)
(* row is out of every worker's reach, no outcome is written from a count  *)
(* of attempts that is out of date, no dead letter comes too early.        *)
QueueSound == NoStrandedRow /\ FreshDecision /\ DeadLetterEarned
=============================================================================
