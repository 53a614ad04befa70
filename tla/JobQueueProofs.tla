--------------------------- MODULE JobQueueProofs ---------------------------
(***************************************************************************)
(* What holds of JobQueue for any number of jobs and workers, any batch    *)
(* size, lease, attempt limit and backoff, and without the bounds of the   *)
(* model (they only remove behaviours).                                    *)
(***************************************************************************)
EXTENDS JobQueue, TLAPS

(* The backoff is a number of ticks, whatever the attempt count. *)
LEMMA RetryDelayType ==
    ASSUME NEW n \in Nat
    PROVE  RetryDelay(n) \in Nat
BY NumbersAssumption DEF RetryDelay

(* Claiming or failing a row leaves a row. *)
LEMMA LeasedRowType ==
    ASSUME NEW r \in Row, NEW token \in Nat, NEW until \in Nat
    PROVE  LeasedRow(r, token, until) \in Row
<1> DEFINE more == r.attempts + 1
<1>1. more \in Nat
  BY DEF Row
<1> HIDE DEF more
<1>2. [r EXCEPT !.status = "LEASED", !.leaseToken = token, !.leaseUntil = until,
                !.attempts = more] \in Row
  BY <1>1 DEF Row, Status, ClaimableStatus, Settled
<1>3. QED
  BY <1>2 DEF LeasedRow, more

LEMMA LeasedRowLease ==
    ASSUME NEW r \in Row, NEW token \in Nat, NEW until \in Nat
    PROVE  /\ LeasedRow(r, token, until).status = "LEASED"
           /\ LeasedRow(r, token, until).leaseToken = token
           /\ LeasedRow(r, token, until).leaseUntil = until
BY DEF LeasedRow, Row

(* A row that enters the queue, for the first time or again. *)
LEMMA QueuedRowType ==
    ASSUME NEW r \in Row, NEW t \in Nat
    PROVE  /\ [r EXCEPT !.status = "QUEUED", !.availableAt = t] \in Row
           /\ [r EXCEPT !.status = "QUEUED", !.attempts = 0, !.availableAt = t] \in Row
BY DEF Row, Status, ClaimableStatus

LEMMA FailedRowType ==
    ASSUME NEW r \in Row, NEW s \in Snapshot, NEW now \in Nat
    PROVE  FailedRow(r, s, now) \in Row
<1>1. s.attempts \in Nat /\ s.availableAt \in Nat
  BY DEF Snapshot
<1>2. RetryDelay(s.attempts) \in Nat
  BY <1>1, RetryDelayType
<1>3. now + RetryDelay(s.attempts) \in Nat
  BY <1>2
<1> DEFINE delay == RetryDelay(s.attempts)
<1> HIDE DEF delay
<1>4. QED
  BY <1>1, <1>3 DEF FailedRow, Row, Status, ClaimableStatus, Settled, Null

(* The snapshots in a batch after one was appended, dropped or all lost. *)
LEMMA AppendedElements ==
    ASSUME NEW S, NEW q \in Seq(S), NEW e \in S
    PROVE  /\ Append(q, e) \in Seq(S)
           /\ \A i \in 1..Len(Append(q, e)) :
                Append(q, e)[i] = e \/ \E k \in 1..Len(q) : Append(q, e)[i] = q[k]
OBVIOUS

LEMMA TailElements ==
    ASSUME NEW S, NEW q \in Seq(S), q # << >>
    PROVE  /\ Tail(q) \in Seq(S)
           /\ Head(q) \in S
           /\ Head(q) = q[1] /\ 1 \in 1..Len(q)
           /\ \A i \in 1..Len(Tail(q)) : \E k \in 1..Len(q) : Tail(q)[i] = q[k]
<1>1. Len(q) \in Nat /\ Len(q) >= 1
  OBVIOUS
<1>2. Tail(q) \in Seq(S) /\ Head(q) \in S /\ Head(q) = q[1] /\ 1 \in 1..Len(q)
  BY <1>1
<1>3. ASSUME NEW i \in 1..Len(Tail(q))
      PROVE  \E k \in 1..Len(q) : Tail(q)[i] = q[k]
  <2>1. Tail(q)[i] = q[i + 1] /\ i + 1 \in 1..Len(q)
    BY <1>1, <1>3
  <2>2. QED
    BY <2>1
<1>4. QED
  BY <1>2, <1>3

-----------------------------------------------------------------------------
LEMMA TypeInit == Init => TypeOK
<1>1. AbsentRow \in Row
  BY DEF AbsentRow, Row, Status, ClaimableStatus, Settled, Null
<1>2. << >> \in Seq(Snapshot)
  OBVIOUS
<1>3. QED
  BY <1>1, <1>2 DEF Init, TypeOK, PC, Null

(* One worker's steps, each with the parts of the type it can disturb. *)
LEMMA TypeWorkerStep ==
    ASSUME TypeOK, NEW w \in Worker, WorkerStep(w)
    PROVE  TypeOK'
<1> USE DEF TypeOK, PC, boundVars, Goto
<1>1. CASE FindCandidates(w)
  <2> DEFINE found == {<<rows[j].availableAt, j>> : j \in {k \in Job : Eligible(k, clock)}}
  <2>1. found \in SUBSET (Nat \X Job)
    BY DEF Row
  <2>2. FirstBatch(found) \in SUBSET (Nat \X Job)
    BY <2>1 DEF FirstBatch
  <2>3. candidates' \in [Worker -> SUBSET (Nat \X Job)]
    BY <1>1, <2>2 DEF FindCandidates
  <2>4. QED
    BY <1>1, <2>3 DEF FindCandidates
<1>2. CASE ClaimRow(w)
  <2>1. PICK c \in candidates[w] :
          /\ rows' = [rows EXCEPT ![c[2]] =
                          LeasedRow(@, nextToken, batchNow[w] + LeaseTicks)]
          /\ target' = [target EXCEPT ![w] = c[2]]
          /\ candidates' = [candidates EXCEPT ![w] = @ \ {c}]
    BY <1>2 DEF ClaimRow
  <2>2. c[2] \in Job
    OBVIOUS
  <2>3. batchNow[w] + LeaseTicks \in Nat
    BY NumbersAssumption
  <2>4. rows' \in [Job -> Row]
    BY <2>1, <2>2, <2>3, LeasedRowType
  <2>5. target' \in [Worker -> Job \union {Null}] /\ target'[w] \in Job
    BY <2>1, <2>2
  <2>6. candidates' \in [Worker -> SUBSET (Nat \X Job)]
    BY <2>1
  <2>7. /\ nextToken' = nextToken + 1
        /\ pc' = [pc EXCEPT ![w] = "reread"]
        /\ UNCHANGED <<clock, batchNow, claimed, crashes, retries>>
    BY <1>2 DEF ClaimRow
  <2>8. \A v \in Worker : pc'[v] = "reread" => target'[v] \in Job
    BY <2>1, <2>5, <2>7
  <2>9. \A v \in Worker : pc'[v] \in {"complete", "fail"} => claimed'[v] # << >>
    BY <2>7
  <2>10. QED
    BY <2>4, <2>5, <2>6, <2>7, <2>8, <2>9
<1>3. CASE SkipCandidate(w)
  BY <1>3 DEF SkipCandidate
<1>4. CASE RereadRow(w)
  <2> DEFINE j == target[w]
             snapshot == [job |-> j, leaseToken |-> rows[j].leaseToken,
                          attempts |-> rows[j].attempts,
                          availableAt |-> rows[j].availableAt]
  <2>1. snapshot \in Snapshot
    BY <1>4 DEF RereadRow, Snapshot, Row
  <2>2. Append(claimed[w], snapshot) \in Seq(Snapshot)
    BY <2>1, AppendedElements
  <2>3. claimed' = [claimed EXCEPT ![w] = Append(@, snapshot)]
    BY <1>4 DEF RereadRow
  <2> HIDE DEF snapshot
  <2>4. claimed' \in [Worker -> Seq(Snapshot)]
    BY <2>2, <2>3
  <2>5. \A v \in Worker : v # w => claimed'[v] = claimed[v] /\ target'[v] = target[v]
    BY <1>4, <2>3 DEF RereadRow
  <2>6. QED
    BY <1>4, <2>4, <2>5 DEF RereadRow
<1>5. CASE StartProcessing(w)
  BY <1>5 DEF StartProcessing
<1>6. CASE RunHandler(w)
  BY <1>6 DEF RunHandler
<1>7. CASE FinishBatch(w)
  BY <1>7 DEF FinishBatch
<1>8. CASE CompleteJob(w)
  <2>1. Head(claimed[w]) \in Snapshot /\ Tail(claimed[w]) \in Seq(Snapshot)
    BY <1>8, TailElements DEF CompleteJob
  <2>2. Head(claimed[w]).job \in Job
    BY <2>1 DEF Snapshot
  <2>3. \A r \in Row : CompletedRow(r) \in Row
    BY DEF CompletedRow, Row, Status, ClaimableStatus, Settled, Null
  <2>4. rows' \in [Job -> Row]
    BY <1>8, <2>2, <2>3 DEF CompleteJob
  <2>5. QED
    BY <1>8, <2>1, <2>4 DEF CompleteJob
<1>9. CASE CompleteRefused(w)
  BY <1>9 DEF CompleteRefused
<1>10. CASE FailJob(w)
  <2>1. Head(claimed[w]) \in Snapshot /\ Tail(claimed[w]) \in Seq(Snapshot)
    BY <1>10, TailElements DEF FailJob
  <2>2. Head(claimed[w]).job \in Job
    BY <2>1 DEF Snapshot
  <2>3. rows' \in [Job -> Row]
    BY <1>10, <2>1, <2>2, FailedRowType DEF FailJob
  <2>4. QED
    BY <1>10, <2>1, <2>3 DEF FailJob
<1>11. CASE AbortBatch(w)
  <2>1. << >> \in Seq(Snapshot)
    OBVIOUS
  <2>2. QED
    BY <1>11, <2>1 DEF AbortBatch
<1>12. QED
  BY <1>1, <1>2, <1>3, <1>4, <1>5, <1>6, <1>7, <1>8, <1>9, <1>10, <1>11 DEF WorkerStep

LEMMA TypeStep ==
    ASSUME TypeOK, [Next]_vars
    PROVE  TypeOK'
<1>1. ASSUME NEW j \in Job, Enqueue(j)
      PROVE  TypeOK'
  <2>3. rows[j] \in Row /\ clock \in Nat /\ rows \in [Job -> Row]
    BY DEF TypeOK
  <2> DEFINE row == [rows[j] EXCEPT !.status = "QUEUED", !.availableAt = clock]
  <2>4. row \in Row /\ rows' = [rows EXCEPT ![j] = row]
    BY <1>1, <2>3, QueuedRowType DEF Enqueue
  <2> HIDE DEF row
  <2>1. rows' \in [Job -> Row]
    BY <2>3, <2>4
  <2>2. QED
    BY <1>1, <2>1 DEF Enqueue, TypeOK, workerVars, boundVars
<1>2. ASSUME NEW j \in Job, RetryDeadLetter(j)
      PROVE  TypeOK'
  <2>3. rows[j] \in Row /\ clock \in Nat /\ rows \in [Job -> Row]
    BY DEF TypeOK
  <2> DEFINE row == [rows[j] EXCEPT !.status = "QUEUED", !.attempts = 0, !.availableAt = clock]
  <2>4. row \in Row /\ rows' = [rows EXCEPT ![j] = row]
    BY <1>2, <2>3, QueuedRowType DEF RetryDeadLetter
  <2> HIDE DEF row
  <2>1. rows' \in [Job -> Row]
    BY <2>3, <2>4
  <2>2. QED
    BY <1>2, <2>1 DEF RetryDeadLetter, TypeOK, workerVars
<1>3. ASSUME NEW w \in Worker, WorkerStep(w)
      PROVE  TypeOK'
  BY <1>3, TypeWorkerStep
<1>4. ASSUME NEW w \in Worker, Crash(w)
      PROVE  TypeOK'
  <2>1. << >> \in Seq(Snapshot)
    OBVIOUS
  <2>2. QED
    BY <1>4, <2>1 DEF Crash, TypeOK, PC, Goto
<1>5. CASE Tick
  BY <1>5 DEF Tick, TypeOK, workerVars, boundVars
<1>6. CASE UNCHANGED vars
  BY <1>6 DEF vars, TypeOK
<1>7. QED
  BY <1>1, <1>2, <1>3, <1>4, <1>5, <1>6 DEF Next

(* Every column and worker variable keeps its type, and a worker that has  *)
(* to re-read, complete or fail a job has one in hand.                     *)
THEOREM TypeCorrect == Spec => []TypeOK
<1>1. Init => TypeOK
  BY TypeInit
<1>2. TypeOK /\ [Next]_vars => TypeOK'
  BY TypeStep
<1>3. QED
  BY <1>1, <1>2, PTL DEF Spec

-----------------------------------------------------------------------------
(* The inductive invariant.  FreshDecision is the reason why DeadLetterEarned *)
(* survives failJob, and it survives a claim because tokens are fresh        *)
(* (TokensIssued) and a release because a free row has no token              *)
(* (NoStrandedRow).                                                          *)
LEMMA InvInit == Init => IInv
<1> SUFFICES ASSUME Init PROVE IInv
  OBVIOUS
<1>1. TypeOK
  BY TypeInit
<1>2. \A w \in Worker : Held(w) = {}
  BY DEF Init, Held
<1>3. QED
  BY <1>1, <1>2 DEF Init, IInv, NoStrandedRow, TokensIssued, FreshDecision,
                    DeadLetterEarned, BatchInPast, AbsentRow, Null

(* The parts of the invariant that a step disturbs only through rows and   *)
(* through what the workers hold.                                          *)
RowsInv ==
    /\ NoStrandedRow
    /\ TokensIssued
    /\ FreshDecision
    /\ DeadLetterEarned

LEMMA HeldType ==
    ASSUME TypeOK, NEW w \in Worker, NEW s \in Held(w)
    PROVE  s \in Snapshot /\ s.job \in Job /\ s.leaseToken \in Nat
<1>1. claimed[w] \in Seq(Snapshot)
  BY DEF TypeOK
<1>2. PICK i \in 1..Len(claimed[w]) : s = claimed[w][i]
  BY DEF Held
<1>3. s \in Snapshot
  BY <1>1, <1>2
<1>4. QED
  BY <1>3 DEF Snapshot

(* A step that leaves the table alone and hands no worker a new snapshot.  *)
LEMMA NothingNew ==
    ASSUME RowsInv, UNCHANGED <<rows, nextToken>>,
           \A w \in Worker : Held(w)' \subseteq Held(w)
    PROVE  RowsInv'
BY DEF RowsInv, NoStrandedRow, TokensIssued, FreshDecision, DeadLetterEarned,
       SnapshotCurrent, HoldsLease

(* A step that replaces one row by one without a lease, and hands no worker *)
(* a new snapshot: enqueue, manual retry, completion and failure.          *)
LEMMA RowReleased ==
    ASSUME TypeOK, RowsInv, NEW j \in Job, NEW r \in Row,
           rows' = [rows EXCEPT ![j] = r],
           nextToken' = nextToken,
           r.status # "LEASED", r.leaseToken = Null, r.leaseUntil = Null,
           r.status = "DEAD_LETTER" => r.attempts >= MaxAttempts,
           \A w \in Worker : Held(w)' \subseteq Held(w)
    PROVE  RowsInv'
<1>1. \A k \in Job : rows'[k] = IF k = j THEN r ELSE rows[k]
  BY DEF TypeOK
<1>2. NoStrandedRow'
  BY <1>1 DEF RowsInv, NoStrandedRow
<1>3. TokensIssued'
  BY <1>1 DEF RowsInv, TokensIssued, Null, TypeOK
<1>4. FreshDecision'
  <2> SUFFICES ASSUME NEW w \in Worker, NEW s \in Held(w)', HoldsLease(s)'
               PROVE  /\ rows'[s.job].attempts = s.attempts
                      /\ rows'[s.job].availableAt = s.availableAt
    BY DEF FreshDecision, SnapshotCurrent
  <2>1. s \in Held(w) /\ s \in Snapshot
    BY HeldType
  <2>2. s.job \in Job
    BY <2>1 DEF Snapshot
  <2>3. s.job # j
    BY <1>1, <2>2 DEF HoldsLease
  <2>4. rows'[s.job] = rows[s.job]
    BY <1>1, <2>2, <2>3
  <2>5. HoldsLease(s)
    BY <2>4 DEF HoldsLease
  <2>6. QED
    BY <2>1, <2>4, <2>5 DEF RowsInv, FreshDecision, SnapshotCurrent
<1>5. DeadLetterEarned'
  BY <1>1 DEF RowsInv, DeadLetterEarned
<1>6. QED
  BY <1>2, <1>3, <1>4, <1>5 DEF RowsInv

LEMMA HeldAfterDrop ==
    ASSUME TypeOK, NEW w \in Worker, claimed[w] # << >>,
           claimed' = [claimed EXCEPT ![w] = Tail(@)]
    PROVE  /\ Head(claimed[w]) \in Held(w) /\ Head(claimed[w]) \in Snapshot
           /\ \A v \in Worker : Held(v)' \subseteq Held(v)
<1>1. claimed[w] \in Seq(Snapshot)
  BY DEF TypeOK
<1>2. /\ Head(claimed[w]) \in Snapshot
      /\ Head(claimed[w]) = claimed[w][1] /\ 1 \in 1..Len(claimed[w])
      /\ \A i \in 1..Len(Tail(claimed[w])) :
            \E k \in 1..Len(claimed[w]) : Tail(claimed[w])[i] = claimed[w][k]
  BY <1>1, TailElements
<1>3. \A v \in Worker : claimed'[v] = IF v = w THEN Tail(claimed[w]) ELSE claimed[v]
  BY DEF TypeOK
<1>4. QED
  BY <1>2, <1>3 DEF Held

LEMMA HeldAfterLoss ==
    ASSUME TypeOK, NEW w \in Worker, claimed' = [claimed EXCEPT ![w] = << >>]
    PROVE  \A v \in Worker : Held(v)' \subseteq Held(v)
<1>1. \A v \in Worker : claimed'[v] = IF v = w THEN << >> ELSE claimed[v]
  BY DEF TypeOK
<1>2. QED
  BY <1>1 DEF Held

LEMMA InvClaimRow ==
    ASSUME TypeOK, RowsInv, NEW w \in Worker, ClaimRow(w)
    PROVE  RowsInv'
<1>1. PICK c \in candidates[w] :
        /\ StillClaimable(c[2], batchNow[w])
        /\ rows' = [rows EXCEPT ![c[2]] =
                        LeasedRow(@, nextToken, batchNow[w] + LeaseTicks)]
  BY DEF ClaimRow
<1> DEFINE j == c[2]
<1>2. j \in Job
  BY DEF TypeOK
<1>3. \A k \in Job : rows'[k] = IF k = j THEN LeasedRow(rows[j], nextToken, batchNow[w] + LeaseTicks)
                                         ELSE rows[k]
  BY <1>1, <1>2 DEF TypeOK
<1>4. /\ rows'[j].status = "LEASED"
      /\ rows'[j].leaseToken = nextToken
      /\ rows'[j].leaseUntil = batchNow[w] + LeaseTicks
  <2> DEFINE row == rows[j]
             until == batchNow[w] + LeaseTicks
  <2>1. row \in Row /\ until \in Nat /\ nextToken \in Nat
    BY <1>2, NumbersAssumption DEF TypeOK
  <2>2. rows'[j] = LeasedRow(row, nextToken, until)
    BY <1>2, <1>3
  <2> HIDE DEF row, until
  <2>3. rows'[j].status = "LEASED" /\ rows'[j].leaseToken = nextToken /\ rows'[j].leaseUntil = until
    BY <2>1, <2>2, LeasedRowLease
  <2>4. QED
    BY <2>3 DEF until
<1>5. /\ nextToken' = nextToken + 1 /\ nextToken \in Nat \ {0}
      /\ \A v \in Worker : Held(v)' = Held(v)
      /\ batchNow[w] + LeaseTicks > 0
  BY NumbersAssumption DEF ClaimRow, Held, TypeOK
<1>6. NoStrandedRow'
  <2> SUFFICES ASSUME NEW k \in Job
               PROVE  /\ rows'[k].status = "LEASED" <=> rows'[k].leaseToken # Null
                      /\ rows'[k].status = "LEASED" <=> rows'[k].leaseUntil # Null
    BY DEF NoStrandedRow
  <2>1. CASE k = j
    BY <2>1, <1>4, <1>5 DEF Null
  <2>2. CASE k # j
    BY <2>2, <1>3 DEF RowsInv, NoStrandedRow
  <2>3. QED
    BY <2>1, <2>2
<1>7. TokensIssued'
  <2>1. \A k \in Job : rows'[k].leaseToken < nextToken'
    <3> SUFFICES ASSUME NEW k \in Job PROVE rows'[k].leaseToken < nextToken'
      OBVIOUS
    <3>1. CASE k = j
      BY <3>1, <1>4, <1>5
    <3>2. CASE k # j
      BY <3>2, <1>3, <1>5 DEF RowsInv, TokensIssued, TypeOK, Row
    <3>3. QED
      BY <3>1, <3>2
  <2>2. \A v \in Worker : \A s \in Held(v)' : s.leaseToken < nextToken'
    <3> SUFFICES ASSUME NEW v \in Worker, NEW s \in Held(v)
                 PROVE  s.leaseToken < nextToken'
      BY <1>5
    <3>1. s.leaseToken \in Nat /\ s.leaseToken < nextToken
      BY HeldType DEF RowsInv, TokensIssued
    <3>2. QED
      BY <3>1, <1>5
  <2>3. QED
    BY <2>1, <2>2 DEF TokensIssued
<1>8. FreshDecision'
  <2> SUFFICES ASSUME NEW v \in Worker, NEW s \in Held(v), HoldsLease(s)'
               PROVE  /\ rows'[s.job].attempts = s.attempts
                      /\ rows'[s.job].availableAt = s.availableAt
    BY <1>5 DEF FreshDecision, SnapshotCurrent
  <2>1. s.job \in Job /\ s.leaseToken \in Nat /\ s.leaseToken < nextToken
    BY HeldType DEF RowsInv, TokensIssued
  <2>2. s.job # j
    BY <2>1, <1>4, <1>5 DEF HoldsLease
  <2>3. rows'[s.job] = rows[s.job]
    BY <2>1, <2>2, <1>3
  <2>4. QED
    BY <2>3 DEF HoldsLease, RowsInv, FreshDecision, SnapshotCurrent
<1>9. DeadLetterEarned'
  <2> SUFFICES ASSUME NEW k \in Job, rows'[k].status = "DEAD_LETTER"
               PROVE  rows'[k].attempts >= MaxAttempts
    BY DEF DeadLetterEarned
  <2>1. k # j
    BY <1>4
  <2>2. QED
    BY <2>1, <1>3 DEF RowsInv, DeadLetterEarned
<1>10. QED
  BY <1>6, <1>7, <1>8, <1>9 DEF RowsInv

LEMMA InvRereadRow ==
    ASSUME TypeOK, RowsInv, NEW w \in Worker, RereadRow(w)
    PROVE  RowsInv'
<1> DEFINE j == target[w]
           snapshot == [job |-> j, leaseToken |-> rows[j].leaseToken,
                        attempts |-> rows[j].attempts,
                        availableAt |-> rows[j].availableAt]
<1>1. j \in Job
  BY DEF RereadRow, TypeOK
<1>2. snapshot \in Snapshot /\ snapshot.leaseToken < nextToken
  BY <1>1 DEF TypeOK, Row, Snapshot, RowsInv, TokensIssued
<1>3. SnapshotCurrent(snapshot)
  BY <1>1 DEF SnapshotCurrent
<1>4. rows' = rows /\ nextToken' = nextToken
      /\ claimed' = [claimed EXCEPT ![w] = Append(@, snapshot)]
  BY DEF RereadRow
<1> HIDE DEF snapshot, j
<1>5. \A v \in Worker : \A s \in Held(v)' : s \in Held(v) \/ s = snapshot
  <2>1. \A v \in Worker : claimed'[v] = IF v = w THEN Append(claimed[w], snapshot) ELSE claimed[v]
    BY <1>4 DEF TypeOK
  <2>2. \A i \in 1..Len(Append(claimed[w], snapshot)) :
            \/ Append(claimed[w], snapshot)[i] = snapshot
            \/ \E k \in 1..Len(claimed[w]) : Append(claimed[w], snapshot)[i] = claimed[w][k]
    BY <1>2, AppendedElements DEF TypeOK
  <2>3. ASSUME NEW v \in Worker, NEW s \in Held(v)'
        PROVE  s \in Held(v) \/ s = snapshot
    <3>1. PICK i \in 1..Len(claimed'[v]) : s = claimed'[v][i]
      BY <2>3 DEF Held
    <3>2. CASE v = w
      BY <3>1, <3>2, <2>1, <2>2 DEF Held
    <3>3. CASE v # w
      BY <3>1, <3>3, <2>1 DEF Held
    <3>4. QED
      BY <3>2, <3>3
  <2>4. QED
    BY <2>3
<1>6. TokensIssued'
  BY <1>2, <1>4, <1>5 DEF RowsInv, TokensIssued
<1>7. FreshDecision'
  BY <1>3, <1>4, <1>5 DEF RowsInv, FreshDecision, SnapshotCurrent, HoldsLease
<1>8. QED
  BY <1>4, <1>6, <1>7 DEF RowsInv, NoStrandedRow, DeadLetterEarned

LEMMA InvWorkerStep ==
    ASSUME TypeOK, RowsInv, NEW w \in Worker, WorkerStep(w)
    PROVE  RowsInv'
<1>1. CASE FindCandidates(w)
  BY <1>1, NothingNew DEF FindCandidates, Held
<1>2. CASE ClaimRow(w)
  BY <1>2, InvClaimRow
<1>3. CASE SkipCandidate(w)
  BY <1>3, NothingNew DEF SkipCandidate, Held
<1>4. CASE RereadRow(w)
  BY <1>4, InvRereadRow
<1>5. CASE StartProcessing(w)
  BY <1>5, NothingNew DEF StartProcessing, Held
<1>6. CASE RunHandler(w)
  BY <1>6, NothingNew DEF RunHandler, Held
<1>7. CASE FinishBatch(w)
  BY <1>7, NothingNew DEF FinishBatch, Held
<1>8. CASE CompleteJob(w)
  <2> DEFINE s == Head(claimed[w])
             r == CompletedRow(rows[s.job])
  <2>1. claimed[w] # << >>
    BY <1>8 DEF CompleteJob, TypeOK
  <2>2. s \in Snapshot /\ \A v \in Worker : Held(v)' \subseteq Held(v)
    BY <1>8, <2>1, HeldAfterDrop DEF CompleteJob
  <2>3. s.job \in Job /\ rows[s.job] \in Row
    BY <2>2 DEF Snapshot, TypeOK
  <2>4. /\ r \in Row /\ r.status = "SUCCEEDED"
        /\ r.leaseToken = Null /\ r.leaseUntil = Null
    BY <2>3 DEF CompletedRow, Row, Status, Settled, Null
  <2>5. rows' = [rows EXCEPT ![s.job] = r] /\ nextToken' = nextToken
    BY <1>8 DEF CompleteJob
  <2> HIDE DEF r
  <2>6. QED
    BY <2>2, <2>3, <2>4, <2>5, RowReleased
<1>9. CASE CompleteRefused(w)
  BY <1>9, NothingNew DEF CompleteRefused, Held
<1>10. CASE FailJob(w)
  <2> DEFINE s == Head(claimed[w])
             r == FailedRow(rows[s.job], s, batchNow[w])
  <2>1. claimed[w] # << >>
    BY <1>10 DEF FailJob, TypeOK
  <2>2. /\ s \in Snapshot /\ s \in Held(w)
        /\ \A v \in Worker : Held(v)' \subseteq Held(v)
    BY <1>10, <2>1, HeldAfterDrop DEF FailJob
  <2>3. s.job \in Job /\ rows[s.job] \in Row /\ s.attempts \in Nat
    BY <2>2 DEF Snapshot, TypeOK
  <2>4. rows[s.job].attempts = s.attempts
    BY <1>10, <2>2 DEF FailJob, RowsInv, FreshDecision, SnapshotCurrent
  <2>5. r \in Row
    BY <2>2, <2>3, FailedRowType DEF TypeOK
  <2>6. /\ r.status \in {"DEAD_LETTER", "RETRY_SCHEDULED"}
        /\ r.leaseToken = Null /\ r.leaseUntil = Null
        /\ r.attempts = rows[s.job].attempts
        /\ r.status = "DEAD_LETTER" => s.attempts >= MaxAttempts
    BY <2>3 DEF FailedRow, Row, Null
  <2>7. rows' = [rows EXCEPT ![s.job] = r] /\ nextToken' = nextToken
    BY <1>10 DEF FailJob
  <2> HIDE DEF r
  <2>8. QED
    BY <2>2, <2>3, <2>4, <2>5, <2>6, <2>7, RowReleased
<1>11. CASE AbortBatch(w)
  BY <1>11, NothingNew, HeldAfterLoss DEF AbortBatch
<1>12. QED
  BY <1>1, <1>2, <1>3, <1>4, <1>5, <1>6, <1>7, <1>8, <1>9, <1>10, <1>11 DEF WorkerStep

LEMMA InvRowsStep ==
    ASSUME TypeOK, RowsInv, [Next]_vars
    PROVE  RowsInv'
<1>1. ASSUME NEW j \in Job, Enqueue(j)
      PROVE  RowsInv'
  <2> DEFINE r == [rows[j] EXCEPT !.status = "QUEUED", !.availableAt = clock]
  <2>1. rows[j].leaseToken = Null /\ rows[j].leaseUntil = Null
    BY <1>1 DEF Enqueue, RowsInv, NoStrandedRow
  <2>2. /\ r \in Row /\ r.status = "QUEUED"
        /\ r.leaseToken = Null /\ r.leaseUntil = Null
    BY <2>1 DEF TypeOK, Row, Status, ClaimableStatus
  <2>3. rows' = [rows EXCEPT ![j] = r] /\ nextToken' = nextToken
        /\ \A w \in Worker : Held(w)' \subseteq Held(w)
    BY <1>1 DEF Enqueue, workerVars, Held
  <2> HIDE DEF r
  <2>4. QED
    BY <2>2, <2>3, RowReleased
<1>2. ASSUME NEW j \in Job, RetryDeadLetter(j)
      PROVE  RowsInv'
  <2> DEFINE r == [rows[j] EXCEPT !.status = "QUEUED", !.attempts = 0,
                                  !.availableAt = clock]
  <2>1. rows[j].leaseToken = Null /\ rows[j].leaseUntil = Null
    BY <1>2 DEF RetryDeadLetter, RowsInv, NoStrandedRow
  <2>2. /\ r \in Row /\ r.status = "QUEUED"
        /\ r.leaseToken = Null /\ r.leaseUntil = Null
    BY <2>1 DEF TypeOK, Row, Status, ClaimableStatus
  <2>3. rows' = [rows EXCEPT ![j] = r] /\ nextToken' = nextToken
        /\ \A w \in Worker : Held(w)' \subseteq Held(w)
    BY <1>2 DEF RetryDeadLetter, workerVars, Held
  <2> HIDE DEF r
  <2>4. QED
    BY <2>2, <2>3, RowReleased
<1>3. ASSUME NEW w \in Worker, WorkerStep(w)
      PROVE  RowsInv'
  BY <1>3, InvWorkerStep
<1>4. ASSUME NEW w \in Worker, Crash(w)
      PROVE  RowsInv'
  BY <1>4, NothingNew, HeldAfterLoss DEF Crash
<1>5. CASE Tick
  BY <1>5, NothingNew DEF Tick, workerVars, Held
<1>6. CASE UNCHANGED vars
  BY <1>6, NothingNew DEF vars, Held
<1>7. QED
  BY <1>1, <1>2, <1>3, <1>4, <1>5, <1>6 DEF Next

LEMMA BatchInPastStep ==
    ASSUME TypeOK, BatchInPast, [Next]_vars
    PROVE  BatchInPast'
<1>1. CASE Tick
  BY <1>1 DEF Tick, BatchInPast, TypeOK, workerVars
<1>2. ASSUME NEW w \in Worker, FindCandidates(w)
      PROVE  BatchInPast'
  BY <1>2 DEF FindCandidates, BatchInPast, TypeOK
<1>3. CASE UNCHANGED <<clock, batchNow>>
  BY <1>3 DEF BatchInPast
<1>4. QED
  BY <1>1, <1>2, <1>3
     DEF Next, vars, WorkerStep, Enqueue, RetryDeadLetter, Crash, ClaimRow,
         SkipCandidate, RereadRow, StartProcessing, RunHandler, FinishBatch,
         CompleteJob, CompleteRefused, FailJob, AbortBatch, workerVars, boundVars

LEMMA InvStep == IInv /\ [Next]_vars => IInv'
BY TypeStep, InvRowsStep, BatchInPastStep DEF IInv, RowsInv

LEMMA Inductive == Spec => []IInv
BY InvInit, InvStep, PTL DEF Spec

(* A row holds a lease exactly while it is LEASED, so no job is ever lost  *)
(* to the claim query.                                                     *)
THEOREM NoRowStranded == Spec => []NoStrandedRow
<1>1. IInv => NoStrandedRow
  BY DEF IInv
<1>2. QED
  BY <1>1, Inductive, PTL

(* A worker that still matches a row's token decides from that row's       *)
(* current attempts and availability.                                      *)
THEOREM DecisionsAreFresh == Spec => []FreshDecision
<1>1. IInv => FreshDecision
  BY DEF IInv
<1>2. QED
  BY <1>1, Inductive, PTL

(* No job is given up before MaxAttempts attempts. *)
THEOREM DeadLettersAreEarned == Spec => []DeadLetterEarned
<1>1. IInv => DeadLetterEarned
  BY DEF IInv
<1>2. QED
  BY <1>1, Inductive, PTL

-----------------------------------------------------------------------------
(* Only these steps touch the table at all. *)
LEMMA RowsChangedBy ==
    ASSUME [Next]_vars
    PROVE  \/ rows' = rows
           \/ \E j \in Job : Enqueue(j) \/ RetryDeadLetter(j)
           \/ \E w \in Worker : ClaimRow(w) \/ CompleteJob(w) \/ FailJob(w)
BY DEF Next, vars, WorkerStep, Crash, Tick, FindCandidates, SkipCandidate,
       RereadRow, StartProcessing, RunHandler, FinishBatch, CompleteRefused, AbortBatch

LEMMA SucceededStep ==
    ASSUME TypeOK, [Next]_vars
    PROVE  KeepsSucceeded
<1> SUFFICES ASSUME NEW j \in Job, rows[j].status = "SUCCEEDED"
             PROVE  rows'[j] = rows[j]
  BY DEF KeepsSucceeded
<1>1. ASSUME NEW k \in Job, Enqueue(k) \/ RetryDeadLetter(k)
      PROVE  rows'[j] = rows[j]
  <2>1. k # j
    BY <1>1 DEF Enqueue, RetryDeadLetter
  <2>2. QED
    BY <1>1, <2>1 DEF Enqueue, RetryDeadLetter, TypeOK
<1>2. ASSUME NEW w \in Worker, ClaimRow(w)
      PROVE  rows'[j] = rows[j]
  <2>1. PICK c \in candidates[w] :
          /\ StillClaimable(c[2], batchNow[w])
          /\ rows' = [rows EXCEPT ![c[2]] =
                          LeasedRow(@, nextToken, batchNow[w] + LeaseTicks)]
    BY <1>2 DEF ClaimRow
  <2>2. c[2] # j
    BY <2>1 DEF StillClaimable, ClaimableStatus
  <2>3. QED
    BY <2>1, <2>2 DEF TypeOK
<1>3. ASSUME NEW w \in Worker, CompleteJob(w) \/ FailJob(w)
      PROVE  rows'[j] = rows[j]
  <2>1. Head(claimed[w]).job # j
    BY <1>3 DEF CompleteJob, FailJob, HoldsLease
  <2>2. QED
    BY <1>3, <2>1 DEF CompleteJob, FailJob, TypeOK
<1>4. QED
  BY <1>1, <1>2, <1>3, RowsChangedBy

LEMMA RunningLeaseStep ==
    ASSUME TypeOK, BatchInPast, NoStrandedRow, [Next]_vars
    PROVE  KeepsRunningLease
<1> SUFFICES ASSUME NEW j \in Job, rows[j].status = "LEASED",
                    rows[j].leaseUntil > clock,
                    rows'[j].leaseToken # rows[j].leaseToken
             PROVE  rows'[j].leaseToken = Null
  BY DEF KeepsRunningLease
<1>1. ASSUME NEW k \in Job, Enqueue(k) \/ RetryDeadLetter(k)
      PROVE  rows'[j].leaseToken = Null
  <2>1. k # j
    BY <1>1 DEF Enqueue, RetryDeadLetter
  <2>2. QED
    BY <1>1, <2>1 DEF Enqueue, RetryDeadLetter, TypeOK
<1>2. ASSUME NEW w \in Worker, ClaimRow(w)
      PROVE  rows'[j].leaseToken = Null
  <2>1. PICK c \in candidates[w] :
          /\ StillClaimable(c[2], batchNow[w])
          /\ rows' = [rows EXCEPT ![c[2]] =
                          LeasedRow(@, nextToken, batchNow[w] + LeaseTicks)]
    BY <1>2 DEF ClaimRow
  <2>2. rows[j].leaseUntil # Null /\ rows[j].leaseUntil \in Nat
    BY DEF NoStrandedRow, TypeOK, Row
  <2>3. batchNow[w] <= clock /\ batchNow[w] \in Nat /\ clock \in Nat
    BY DEF BatchInPast, TypeOK
  <2>4. c[2] # j
    BY <2>1, <2>2, <2>3 DEF StillClaimable
  <2>5. QED
    BY <2>1, <2>4 DEF TypeOK
<1>3. ASSUME NEW w \in Worker, CompleteJob(w) \/ FailJob(w)
      PROVE  rows'[j].leaseToken = Null
  <2> DEFINE s == Head(claimed[w])
  <2>1. s.job = j
    BY <1>3 DEF CompleteJob, FailJob, TypeOK
  <2>2. rows[j] \in Row
    BY DEF TypeOK
  <2>3. CASE CompleteJob(w)
    <3>1. rows'[j] = CompletedRow(rows[j])
      BY <2>1, <2>3 DEF CompleteJob, TypeOK
    <3>2. QED
      BY <2>2, <3>1 DEF CompletedRow, Row
  <2>4. CASE FailJob(w)
    <3>1. rows'[j] = FailedRow(rows[j], s, batchNow[w])
      BY <2>1, <2>4 DEF FailJob, TypeOK
    <3>2. QED
      BY <2>2, <3>1 DEF FailedRow, Row
  <2>5. QED
    BY <1>3, <2>3, <2>4
<1>4. QED
  BY <1>1, <1>2, <1>3, RowsChangedBy

(* A job that succeeded is never run, failed or requeued again. *)
THEOREM SuccessIsFinal == Spec => SucceededIsFinal
<1>1. TypeOK /\ [Next]_vars => [KeepsSucceeded]_vars
  BY SucceededStep
<1>2. QED
  BY <1>1, TypeCorrect, PTL DEF Spec, SucceededIsFinal

(* While a lease is running nobody but its holder ends it. *)
THEOREM RunningLeaseRespected == Spec => LeaseRespected
<1>1. IInv /\ [Next]_vars => [KeepsRunningLease]_vars
  BY RunningLeaseStep DEF IInv
<1>2. QED
  BY <1>1, Inductive, PTL DEF Spec, LeaseRespected

(* An attempt never starts before the backoff of the last one has elapsed. *)
THEOREM BackoffIsRespected == Spec => BackoffRespected
<1> DEFINE Kept == \A j \in Job :
             rows'[j].attempts > rows[j].attempts => rows[j].availableAt <= clock
<1>1. IInv /\ [Next]_vars => Kept
  <2> SUFFICES ASSUME IInv, [Next]_vars, NEW j \in Job,
                      rows'[j].attempts > rows[j].attempts
               PROVE  rows[j].availableAt <= clock
    OBVIOUS
  <2>1. TypeOK /\ BatchInPast /\ rows[j] \in Row /\ rows[j].attempts \in Nat
    BY DEF IInv, TypeOK, Row
  <2>2. rows' # rows
    BY <2>1
  <2>3. ASSUME NEW k \in Job, Enqueue(k) \/ RetryDeadLetter(k)
        PROVE  FALSE
    <3> DEFINE q == [rows[k] EXCEPT !.status = "QUEUED", !.availableAt = clock]
               r == [rows[k] EXCEPT !.status = "QUEUED", !.attempts = 0,
                                    !.availableAt = clock]
    <3>1. rows' = [rows EXCEPT ![k] = q] \/ rows' = [rows EXCEPT ![k] = r]
      BY <2>3 DEF Enqueue, RetryDeadLetter
    <3>2. q.attempts = rows[k].attempts /\ r.attempts = 0
      BY <2>1 DEF TypeOK, Row
    <3> HIDE DEF q, r
    <3>3. rows'[j].attempts = rows[j].attempts \/ rows'[j].attempts = 0
      BY <2>1, <3>1, <3>2 DEF TypeOK
    <3>4. QED
      BY <2>1, <3>3
  <2>4. ASSUME NEW w \in Worker, ClaimRow(w)
        PROVE  rows[j].availableAt <= clock
    <3>1. PICK c \in candidates[w] :
            /\ StillClaimable(c[2], batchNow[w])
            /\ rows' = [rows EXCEPT ![c[2]] =
                            LeasedRow(@, nextToken, batchNow[w] + LeaseTicks)]
      BY <2>4 DEF ClaimRow
    <3>2. c[2] = j
      BY <2>1, <3>1 DEF TypeOK
    <3>3. rows[j].availableAt <= batchNow[w] /\ batchNow[w] <= clock
      BY <2>1, <3>1, <3>2 DEF StillClaimable, BatchInPast
    <3>4. rows[j].availableAt \in Nat /\ batchNow[w] \in Nat /\ clock \in Nat
      BY <2>1 DEF TypeOK, Row
    <3>5. QED
      BY <3>3, <3>4
  <2>5. ASSUME NEW w \in Worker, CompleteJob(w) \/ FailJob(w)
        PROVE  FALSE
    <3> DEFINE s == Head(claimed[w])
    <3>1. \/ rows' = [rows EXCEPT ![s.job] = CompletedRow(rows[s.job])]
          \/ rows' = [rows EXCEPT ![s.job] = FailedRow(rows[s.job], s, batchNow[w])]
      BY <2>5 DEF CompleteJob, FailJob
    <3>2. \/ rows'[j] = rows[j]
          \/ rows'[j] = CompletedRow(rows[j])
          \/ rows'[j] = FailedRow(rows[j], s, batchNow[w])
      BY <2>1, <3>1 DEF TypeOK
    <3>3. rows'[j].attempts = rows[j].attempts
      BY <2>1, <3>2 DEF CompletedRow, FailedRow, Row
    <3>4. QED
      BY <2>1, <3>3
  <2>6. QED
    BY <2>2, <2>3, <2>4, <2>5, RowsChangedBy
<1>2. IInv /\ [Next]_vars => [Kept]_vars
  BY <1>1
<1>3. QED
  BY <1>2, Inductive, PTL DEF Spec, BackoffRespected

-----------------------------------------------------------------------------
(* The refinement: what a change of one row is at the level of JobLifecycle.*)
StageOf == [j \in Job |-> Stage(rows[j].status)]
AttemptsOf == [j \in Job |-> rows[j].attempts]

LEMMA StageValues ==
    /\ Stage("ABSENT") = "absent"
    /\ Stage("QUEUED") = "waiting"
    /\ Stage("RETRY_SCHEDULED") = "waiting"
    /\ Stage("LEASED") = "running"
    /\ Stage("SUCCEEDED") = "succeeded"
    /\ Stage("DEAD_LETTER") = "dead"
BY DEF Stage

LEMMA OneRowChanged ==
    ASSUME TypeOK, NEW k \in Job, NEW r, rows' = [rows EXCEPT ![k] = r]
    PROVE  /\ StageOf' = [StageOf EXCEPT ![k] = Stage(r.status)]
           /\ AttemptsOf' = [AttemptsOf EXCEPT ![k] = r.attempts]
           /\ StageOf[k] = Stage(rows[k].status)
           /\ AttemptsOf[k] = rows[k].attempts
BY DEF TypeOK, StageOf, AttemptsOf

LEMMA LifecycleInit == Init => Lifecycle!Init
BY StageValues DEF Init, AbsentRow, Lifecycle!Init

LEMMA LifecycleStep ==
    ASSUME IInv, [Next]_vars
    PROVE  [Lifecycle!Next]_(Lifecycle!jobVars)
<1>1. TypeOK /\ NoStrandedRow /\ FreshDecision
  BY DEF IInv
<1> SUFFICES \/ UNCHANGED <<StageOf, AttemptsOf>>
             \/ \E k \in Job :
                  \/ /\ StageOf[k] = "absent" /\ AttemptsOf' = AttemptsOf
                     /\ StageOf' = [StageOf EXCEPT ![k] = "waiting"]
                  \/ /\ StageOf[k] \in {"waiting", "running"}
                     /\ StageOf' = [StageOf EXCEPT ![k] = "running"]
                     /\ AttemptsOf' = [AttemptsOf EXCEPT ![k] = AttemptsOf[k] + 1]
                  \/ /\ StageOf[k] = "running" /\ AttemptsOf' = AttemptsOf
                     /\ StageOf' = [StageOf EXCEPT ![k] = "succeeded"]
                  \/ /\ StageOf[k] = "running" /\ AttemptsOf' = AttemptsOf
                     /\ AttemptsOf[k] < MaxAttempts
                     /\ StageOf' = [StageOf EXCEPT ![k] = "waiting"]
                  \/ /\ StageOf[k] = "running" /\ AttemptsOf' = AttemptsOf
                     /\ AttemptsOf[k] >= MaxAttempts
                     /\ StageOf' = [StageOf EXCEPT ![k] = "dead"]
                  \/ /\ StageOf[k] = "dead"
                     /\ StageOf' = [StageOf EXCEPT ![k] = "waiting"]
                     /\ AttemptsOf' = [AttemptsOf EXCEPT ![k] = 0]
  BY DEF StageOf, AttemptsOf, Lifecycle!Next, Lifecycle!jobVars, Lifecycle!Move,
         Lifecycle!Create, Lifecycle!Attempt, Lifecycle!Succeed, Lifecycle!Postpone,
         Lifecycle!GiveUp, Lifecycle!StartAfresh
<1>2. CASE rows' = rows
  BY <1>2 DEF StageOf, AttemptsOf
<1>3. ASSUME NEW k \in Job, Enqueue(k)
      PROVE  /\ StageOf[k] = "absent" /\ AttemptsOf' = AttemptsOf
             /\ StageOf' = [StageOf EXCEPT ![k] = "waiting"]
  <2> DEFINE r == [rows[k] EXCEPT !.status = "QUEUED", !.availableAt = clock]
  <2>1. rows' = [rows EXCEPT ![k] = r] /\ rows[k].status = "ABSENT"
    BY <1>3 DEF Enqueue
  <2>2. r.status = "QUEUED" /\ r.attempts = rows[k].attempts
    BY <1>1 DEF TypeOK, Row
  <2> HIDE DEF r
  <2>3. /\ StageOf' = [StageOf EXCEPT ![k] = Stage(r.status)]
        /\ AttemptsOf' = [AttemptsOf EXCEPT ![k] = r.attempts]
        /\ StageOf[k] = Stage(rows[k].status)
        /\ AttemptsOf[k] = rows[k].attempts
    BY <1>1, <2>1, OneRowChanged
  <2>4. AttemptsOf' = AttemptsOf
    BY <2>2, <2>3 DEF AttemptsOf
  <2>5. QED
    BY <2>1, <2>2, <2>3, <2>4, StageValues
<1>4. ASSUME NEW k \in Job, RetryDeadLetter(k)
      PROVE  /\ StageOf[k] = "dead"
             /\ StageOf' = [StageOf EXCEPT ![k] = "waiting"]
             /\ AttemptsOf' = [AttemptsOf EXCEPT ![k] = 0]
  <2> DEFINE r == [rows[k] EXCEPT !.status = "QUEUED", !.attempts = 0,
                                  !.availableAt = clock]
  <2>1. rows' = [rows EXCEPT ![k] = r] /\ rows[k].status = "DEAD_LETTER"
    BY <1>4 DEF RetryDeadLetter
  <2>2. r.status = "QUEUED" /\ r.attempts = 0
    BY <1>1 DEF TypeOK, Row
  <2> HIDE DEF r
  <2>3. /\ StageOf' = [StageOf EXCEPT ![k] = Stage(r.status)]
        /\ AttemptsOf' = [AttemptsOf EXCEPT ![k] = r.attempts]
        /\ StageOf[k] = Stage(rows[k].status)
        /\ AttemptsOf[k] = rows[k].attempts
    BY <1>1, <2>1, OneRowChanged
  <2>4. QED
    BY <2>1, <2>2, <2>3, StageValues
<1>5. ASSUME NEW w \in Worker, ClaimRow(w)
      PROVE  \E k \in Job :
                /\ StageOf[k] \in {"waiting", "running"}
                /\ StageOf' = [StageOf EXCEPT ![k] = "running"]
                /\ AttemptsOf' = [AttemptsOf EXCEPT ![k] = AttemptsOf[k] + 1]
  <2>1. PICK c \in candidates[w] :
          /\ StillClaimable(c[2], batchNow[w])
          /\ rows' = [rows EXCEPT ![c[2]] =
                          LeasedRow(@, nextToken, batchNow[w] + LeaseTicks)]
    BY <1>5 DEF ClaimRow
  <2> DEFINE k == c[2]
             r == LeasedRow(rows[k], nextToken, batchNow[w] + LeaseTicks)
  <2>2. k \in Job
    BY <1>1 DEF TypeOK
  <2>3. rows' = [rows EXCEPT ![k] = r]
    BY <2>1
  <2>4. r.status = "LEASED" /\ r.attempts = rows[k].attempts + 1
    BY <1>1, <2>2 DEF TypeOK, Row, LeasedRow
  <2>5. rows[k].status \in {"QUEUED", "RETRY_SCHEDULED", "LEASED"}
    BY <2>1 DEF StillClaimable, ClaimableStatus
  <2> HIDE DEF r, k
  <2>6. /\ StageOf' = [StageOf EXCEPT ![k] = Stage(r.status)]
        /\ AttemptsOf' = [AttemptsOf EXCEPT ![k] = r.attempts]
        /\ StageOf[k] = Stage(rows[k].status)
        /\ AttemptsOf[k] = rows[k].attempts
    BY <1>1, <2>2, <2>3, OneRowChanged
  <2>7. QED
    BY <2>2, <2>4, <2>5, <2>6, StageValues
<1>6. ASSUME NEW w \in Worker, CompleteJob(w)
      PROVE  \E k \in Job :
                /\ StageOf[k] = "running" /\ AttemptsOf' = AttemptsOf
                /\ StageOf' = [StageOf EXCEPT ![k] = "succeeded"]
  <2> DEFINE k == Head(claimed[w]).job
             r == CompletedRow(rows[k])
  <2>1. claimed[w] # << >>
    BY <1>1, <1>6 DEF CompleteJob, TypeOK
  <2>2. k \in Job
    BY <1>1, <2>1, HeldAfterDrop, <1>6 DEF CompleteJob, Snapshot
  <2>3. rows' = [rows EXCEPT ![k] = r] /\ rows[k].status = "LEASED"
    BY <1>6 DEF CompleteJob, HoldsLease
  <2>4. r.status = "SUCCEEDED" /\ r.attempts = rows[k].attempts
    BY <1>1, <2>2 DEF TypeOK, Row, CompletedRow
  <2> HIDE DEF r, k
  <2>5. /\ StageOf' = [StageOf EXCEPT ![k] = Stage(r.status)]
        /\ AttemptsOf' = [AttemptsOf EXCEPT ![k] = r.attempts]
        /\ StageOf[k] = Stage(rows[k].status)
        /\ AttemptsOf[k] = rows[k].attempts
    BY <1>1, <2>2, <2>3, OneRowChanged
  <2>6. AttemptsOf' = AttemptsOf
    BY <2>2, <2>4, <2>5 DEF AttemptsOf
  <2>7. QED
    BY <2>2, <2>3, <2>4, <2>5, <2>6, StageValues
<1>7. ASSUME NEW w \in Worker, FailJob(w)
      PROVE  \E k \in Job :
                /\ StageOf[k] = "running" /\ AttemptsOf' = AttemptsOf
                /\ \/ /\ AttemptsOf[k] < MaxAttempts
                      /\ StageOf' = [StageOf EXCEPT ![k] = "waiting"]
                   \/ /\ AttemptsOf[k] >= MaxAttempts
                      /\ StageOf' = [StageOf EXCEPT ![k] = "dead"]
  <2> DEFINE s == Head(claimed[w])
             k == s.job
             r == FailedRow(rows[k], s, batchNow[w])
  <2>1. claimed[w] # << >>
    BY <1>1, <1>7 DEF FailJob, TypeOK
  <2>2. s \in Snapshot /\ s \in Held(w) /\ k \in Job /\ s.attempts \in Nat
    BY <1>1, <2>1, HeldAfterDrop, <1>7 DEF FailJob, Snapshot
  <2>3. rows' = [rows EXCEPT ![k] = r] /\ rows[k].status = "LEASED"
    BY <1>7 DEF FailJob, HoldsLease
  <2>4. rows[k].attempts = s.attempts
    BY <1>1, <1>7, <2>2 DEF FailJob, FreshDecision, SnapshotCurrent
  <2>5. rows[k] \in Row
    BY <1>1, <2>2 DEF TypeOK
  <2>6. /\ r.attempts = rows[k].attempts
        /\ s.attempts >= MaxAttempts => r.status = "DEAD_LETTER"
        /\ ~(s.attempts >= MaxAttempts) => r.status = "RETRY_SCHEDULED"
    BY <2>5 DEF Row, FailedRow
  <2> HIDE DEF r, k
  <2>7. /\ StageOf' = [StageOf EXCEPT ![k] = Stage(r.status)]
        /\ AttemptsOf' = [AttemptsOf EXCEPT ![k] = r.attempts]
        /\ StageOf[k] = Stage(rows[k].status)
        /\ AttemptsOf[k] = rows[k].attempts
    BY <1>1, <2>2, <2>3, OneRowChanged
  <2>8. AttemptsOf' = AttemptsOf
    BY <2>2, <2>6, <2>7 DEF AttemptsOf
  <2>9. s.attempts >= MaxAttempts \/ s.attempts < MaxAttempts
    BY <2>2, NumbersAssumption
  <2>10. QED
    BY <2>2, <2>3, <2>4, <2>6, <2>7, <2>8, <2>9, StageValues
<1>8. QED
  BY <1>2, <1>3, <1>4, <1>5, <1>6, <1>7, RowsChangedBy

(* Whatever the workers do to each other, every job lives the life of      *)
(* JobLifecycle: its attempts are counted, success is final, and it is     *)
(* given up only after MaxAttempts.                                        *)
THEOREM QueueImplementsLifecycle == Spec => ImplementsLifecycle
<1>1. IInv /\ [Next]_vars => [Lifecycle!Next]_(Lifecycle!jobVars)
  BY LifecycleStep
<1>2. QED
  BY <1>1, LifecycleInit, Inductive, PTL DEF Spec, ImplementsLifecycle, Lifecycle!Spec

(* No row is out of reach, no decision stale and no dead letter early, for *)
(* any jobs, workers and bounds.                                           *)
THEOREM QueueAlwaysSound == Spec => []QueueSound
<1>1. IInv => QueueSound
  BY DEF IInv, QueueSound
<1>2. QED
  BY <1>1, Inductive, PTL
=============================================================================
