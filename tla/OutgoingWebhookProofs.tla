------------------------ MODULE OutgoingWebhookProofs ------------------------
(***************************************************************************)
(* What holds of OutgoingWebhook for any number of events and dispatchers, *)
(* any cycle length, recovery limit, retry table and claim, and without    *)
(* the bounds of the model (they only remove behaviours). The second half  *)
(* proves that OperationsWorker, the loop that drains the job queue and    *)
(* the deliveries over one clock, keeps what is proved of its two queues,  *)
(* and that what its handlers queue is handed on and never undone.         *)
(***************************************************************************)
EXTENDS OutgoingWebhook, TLAPS

(* A delay is a number of ticks, for every attempt there is. *)
LEMMA RetryDelayType ==
    ASSUME NEW n \in Nat \ {0}
    PROVE  RetryDelay(n) \in Nat
<1>1. Len(RetryDelays) \in Nat /\ Len(RetryDelays) >= 1
  BY DelayAssumption
<1>2. \A i \in 1..Len(RetryDelays) : RetryDelays[i] \in Nat
  BY DelayAssumption
<1>3. (IF n <= Len(RetryDelays) THEN n ELSE Len(RetryDelays)) \in 1..Len(RetryDelays)
  BY <1>1
<1>4. QED
  BY <1>2, <1>3 DEF RetryDelay

(* There is at least one attempt, and a recovery adds exactly one cycle. *)
LEMMA LimitType ==
    ASSUME NEW row \in Row
    PROVE  AttemptLimit(row) \in Nat \ {0}
<1> DEFINE cycles == (IF row.recoveryCount <= MaxRecovery THEN row.recoveryCount
                      ELSE MaxRecovery) + 1
<1>1. cycles \in Nat \ {0}
  BY CycleAssumption DEF Row
<1>2. AttemptLimit(row) = AttemptsPerCycle * cycles
  BY DEF AttemptLimit
<1> HIDE DEF cycles
<1>3. \A a, b \in Nat \ {0} : a * b \in Nat \ {0}
  OBVIOUS
<1>4. QED
  BY <1>1, <1>2, <1>3, CycleAssumption

LEMMA RecoveredRowType ==
    ASSUME NEW row \in Row, NEW now \in Nat
    PROVE  /\ RecoveredRow(row, now) \in Row
           /\ RecoveredRow(row, now).status = "FAILED"
           /\ RecoveredRow(row, now).attemptCount = row.attemptCount
           /\ RecoveredRow(row, now).recoveryCount = row.recoveryCount + 1
           /\ RecoveredRow(row, now).nextAttemptAt = now
<1> DEFINE more == row.recoveryCount + 1
<1>1. more \in Nat
  BY DEF Row
<1> HIDE DEF more
<1>2. LET r == [row EXCEPT !.recoveryCount = more, !.status = "FAILED", !.nextAttemptAt = now]
      IN  /\ r \in Row
          /\ r.status = "FAILED"
          /\ r.attemptCount = row.attemptCount
          /\ r.recoveryCount = more
          /\ r.nextAttemptAt = now
  BY <1>1 DEF Row, Open
<1>3. QED
  BY <1>2 DEF RecoveredRow, more

LEMMA RecoveryAddsOneCycle ==
    ASSUME NEW row \in Row, NEW now \in Nat, row.recoveryCount < MaxRecovery
    PROVE  AttemptLimit(RecoveredRow(row, now)) = AttemptLimit(row) + AttemptsPerCycle
<1>1. row.recoveryCount \in Nat
  BY DEF Row
<1>2. AttemptLimit(row) = AttemptsPerCycle * (row.recoveryCount + 1)
  BY <1>1, CycleAssumption DEF AttemptLimit
<1> DEFINE r == RecoveredRow(row, now)
<1>3. AttemptLimit(r) = AttemptsPerCycle * ((row.recoveryCount + 1) + 1)
  <2>1. r.recoveryCount = row.recoveryCount + 1
    BY RecoveredRowType
  <2> HIDE DEF r
  <2>2. r.recoveryCount <= MaxRecovery
    BY <1>1, <2>1, CycleAssumption
  <2>3. AttemptLimit(r) = AttemptsPerCycle * (r.recoveryCount + 1)
    BY <2>2 DEF AttemptLimit
  <2>4. QED
    BY <2>1, <2>3
<1>4. \A a, b \in Nat : a * (b + 1) = a * b + a
  OBVIOUS
<1>5. QED
  BY <1>1, <1>2, <1>3, <1>4, CycleAssumption

(* A row that is claimed, and one that is queued or rescheduled. *)
LEMMA ClaimedRowType ==
    ASSUME NEW row \in Row, NEW t \in Nat
    PROVE  LET new == [row EXCEPT !.nextAttemptAt = t]
           IN  /\ new \in Row
               /\ new.status = row.status
               /\ new.attemptCount = row.attemptCount
               /\ new.recoveryCount = row.recoveryCount
BY DEF Row

LEMMA RescheduledRowType ==
    ASSUME NEW row \in Row, NEW t \in Nat, NEW s \in {"PENDING", "FAILED"}
    PROVE  LET new == [row EXCEPT !.status = s, !.nextAttemptAt = t]
           IN  /\ new \in Row
               /\ new.status = s
               /\ new.attemptCount = row.attemptCount
               /\ new.recoveryCount = row.recoveryCount
BY DEF Row, Open

LEMMA AttemptedRowType ==
    ASSUME NEW row \in Row, NEW s \in Snapshot, s.number # 0, NEW d \in BOOLEAN, clock \in Nat
    PROVE  /\ AttemptedRow(row, s, d) \in Row
           /\ AttemptedRow(row, s, d).attemptCount = s.number
           /\ AttemptedRow(row, s, d).recoveryCount = row.recoveryCount
           /\ AttemptedRow(row, s, d).status =
                IF d THEN "DELIVERED" ELSE IF s.number >= s.limit THEN "ABANDONED" ELSE "FAILED"
<1> DEFINE next == IF d THEN clock ELSE clock + RetryDelay(s.number)
           status == IF d THEN "DELIVERED"
                     ELSE IF s.number >= s.limit THEN "ABANDONED" ELSE "FAILED"
<1>1. s.number \in Nat \ {0}
  BY DEF Snapshot
<1>2. next \in Nat
  BY <1>1, RetryDelayType
<1>3. status \in Open \union {"ABSENT", "DELIVERED", "ABANDONED"}
  BY DEF Open
<1>4. AttemptedRow(row, s, d) =
        [row EXCEPT !.attemptCount = s.number, !.status = status, !.nextAttemptAt = next]
  BY DEF AttemptedRow
<1>5. QED
  <2> HIDE DEF next, status
  <2>1. /\ AttemptedRow(row, s, d) \in Row
        /\ AttemptedRow(row, s, d).attemptCount = s.number
        /\ AttemptedRow(row, s, d).recoveryCount = row.recoveryCount
        /\ AttemptedRow(row, s, d).status = status
    BY <1>1, <1>2, <1>3, <1>4 DEF Row
  <2>2. QED
    BY <2>1 DEF status

(* The event a dispatcher works on, once it has claimed one. *)
LEMMA CurrentEvent ==
    ASSUME TypeOK, NEW d \in Dispatcher, pc[d] \notin {"idle", "next"}
    PROVE  /\ current[d] \in Event
           /\ event[current[d]] \in Row
           /\ event \in [Event -> Row]
BY DEF TypeOK

(* An attempt that can be recorded is the next one of an open event. *)
LEMMA RecordedAttempt ==
    ASSUME IInv, NEW d \in Dispatcher, RecordAttempt(d)
    PROVE  /\ current[d] \in Event
           /\ event[current[d]] \in Row
           /\ seen[d] \in Snapshot /\ seen[d].number # 0
           /\ (pc[d] = "ok") \in BOOLEAN
           /\ clock \in Nat
           /\ event[current[d]].status \in Open
           /\ seen[d].number = event[current[d]].attemptCount + 1
           /\ seen[d].limit = AttemptLimit(event[current[d]])
           /\ event'[current[d]] = AttemptedRow(event[current[d]], seen[d], pc[d] = "ok")
           /\ \A e \in Event \ {current[d]} : event'[e] = event[e]
<1> DEFINE e == current[d]
<1>1. pc[d] \in {"ok", "failed"} /\ seen[d].number \notin attempts[e]
  BY DEF RecordAttempt
<1>2. e \in Event /\ event[e] \in Row /\ event \in [Event -> Row] /\ seen[d] \in Snapshot
      /\ clock \in Nat
  BY <1>1 DEF IInv, TypeOK
<1>3. attempts[e] = 1..event[e].attemptCount
  BY <1>2 DEF IInv, EvidenceComplete
<1>4. /\ seen[d].number \in 1..(event[e].attemptCount + 1)
      /\ seen[d].number = event[e].attemptCount + 1 =>
            event[e].status \in Open /\ seen[d].limit = AttemptLimit(event[e])
  BY <1>1 DEF IInv, SnapshotUsable
<1>5. event[e].attemptCount \in Nat
  BY <1>2 DEF Row
<1>6. seen[d].number = event[e].attemptCount + 1
  BY <1>1, <1>3, <1>4, <1>5
<1>7. event' = [event EXCEPT ![e] = AttemptedRow(event[e], seen[d], pc[d] = "ok")]
  BY DEF RecordAttempt
<1>8. QED
  BY <1>2, <1>4, <1>5, <1>6, <1>7

-----------------------------------------------------------------------------
LEMMA TypeInit == Init => TypeOK
BY DEF Init, TypeOK, AbsentRow, Nothing, Row, Snapshot, PC, Open, Active

(* A dispatcher's steps, each with the parts of the type it can disturb. *)
LEMMA TypeDispatcherStep ==
    ASSUME IInv, NEW d \in Dispatcher,
           DispatcherStep(d) \/ DatabaseError(d) \/ Crash(d)
    PROVE  TypeOK'
<1>0. TypeOK
  BY DEF IInv
<1> USE <1>0 DEF Goto, dispatcherVars, operatorVars, PC
<1>1. CASE FindDue(d)
  BY <1>1 DEF FindDue, TypeOK
<1>2. ASSUME NEW e \in Event, LockEvent(d, e)
      PROVE  TypeOK'
  <2> DEFINE until == batchNow[d] + LockTicks
  <2>1. until \in Nat /\ event[e] \in Row
    BY DelayAssumption DEF TypeOK
  <2>2. event' = [event EXCEPT ![e] = [event[e] EXCEPT !.nextAttemptAt = until]]
    BY <1>2 DEF LockEvent
  <2> HIDE DEF until
  <2>3. event' \in [Event -> Row]
    BY <2>1, <2>2, ClaimedRowType DEF TypeOK
  <2>4. QED
    BY <1>2, <2>3 DEF LockEvent, TypeOK
<1>3. ASSUME NEW e \in Event, SkipEvent(d, e)
      PROVE  TypeOK'
  BY <1>3 DEF SkipEvent, TypeOK
<1>4. CASE EndBatch(d)
  BY <1>4 DEF EndBatch, TypeOK
<1>5. CASE ReadEvent(d)
  <2> DEFINE row == event[current[d]]
  <2>1. row \in Row /\ current[d] \in Event
    BY <1>5, CurrentEvent DEF ReadEvent
  <2>2. [number |-> row.attemptCount + 1, limit |-> AttemptLimit(row)] \in Snapshot
    BY <2>1, LimitType DEF Snapshot, Row
  <2>3. seen' \in [Dispatcher -> Snapshot]
    BY <1>5, <2>2 DEF ReadEvent, TypeOK
  <2>4. QED
    BY <1>5, <2>1, <2>3 DEF ReadEvent, TypeOK
<1>6. CASE Send(d)
  BY <1>6 DEF Send, TypeOK
<1>7. CASE RecordAttempt(d)
  <2>1. event' \in [Event -> Row]
    BY <1>7, RecordedAttempt, AttemptedRowType DEF RecordAttempt, TypeOK
  <2>2. seen[d].number \in Nat /\ current[d] \in Event
    BY <1>7, RecordedAttempt DEF Snapshot
  <2>3. attempts' \in [Event -> SUBSET Nat]
    BY <1>7, <2>2 DEF RecordAttempt, TypeOK
  <2>4. connection' \in [status : Active \union {"DISCONNECTED", "REVOKED"}, revoked : BOOLEAN]
    <3> DEFINE s == IF pc[d] = "ok" THEN "CONNECTED" ELSE "DEGRADED"
    <3>1. s \in Active
      BY DEF Active
    <3>2. connection' = [connection EXCEPT !.status = s]
      BY <1>7 DEF RecordAttempt
    <3> HIDE DEF s
    <3>3. QED
      BY <3>1, <3>2 DEF TypeOK
  <2>5. /\ pc' = [pc EXCEPT ![d] = "next"]
        /\ UNCHANGED <<clock, batchNow, todo, current, seen, operatorVars, errors, accepted>>
    BY <1>7 DEF RecordAttempt
  <2>6. QED
    BY <2>1, <2>3, <2>4, <2>5 DEF TypeOK
<1>8. CASE RecordRefused(d)
  BY <1>8 DEF RecordRefused, TypeOK
<1>9. CASE NoteError(d)
  <2> DEFINE e == current[d]
             t == batchNow[d] + RetryDelay(1)
             row == [event[e] EXCEPT !.status = "FAILED", !.nextAttemptAt = t]
  <2>1. t \in Nat /\ e \in Event /\ event[e] \in Row
    BY <1>9, RetryDelayType, CurrentEvent DEF NoteError, TypeOK
  <2>2. event' = [event EXCEPT ![e] = row] \/ event' = event
    BY <1>9 DEF NoteError
  <2> HIDE DEF t
  <2>5. row \in Row
    BY <2>1, RescheduledRowType
  <2> HIDE DEF row
  <2>3. event' \in [Event -> Row]
    BY <2>2, <2>5 DEF TypeOK
  <2>4. QED
    BY <1>9, <2>3 DEF NoteError, TypeOK
<1>10. CASE DatabaseError(d)
  BY <1>10 DEF DatabaseError, TypeOK
<1>11. CASE Crash(d)
  BY <1>11 DEF Crash, TypeOK
<1>12. QED
  BY <1>1, <1>2, <1>3, <1>4, <1>5, <1>6, <1>7, <1>8, <1>9, <1>10, <1>11 DEF DispatcherStep

LEMMA TypeStep ==
    ASSUME IInv, [Next]_vars
    PROVE  TypeOK'
<1>0. TypeOK
  BY DEF IInv
<1> USE <1>0 DEF dispatcherVars, operatorVars
<1>1. ASSUME NEW e \in Event, QueueEvent(e)
      PROVE  TypeOK'
  <2>1. event[e] \in Row /\ clock \in Nat
    BY DEF TypeOK
  <2>2. event' = [event EXCEPT ![e] = [event[e] EXCEPT !.status = "PENDING",
                                                      !.nextAttemptAt = clock]]
    BY <1>1 DEF QueueEvent
  <2>3. event' \in [Event -> Row]
    BY <2>1, <2>2, RescheduledRowType DEF TypeOK
  <2>4. QED
    BY <1>1, <2>3 DEF QueueEvent, TypeOK
<1>2. ASSUME NEW d \in Dispatcher, DispatcherStep(d) \/ DatabaseError(d) \/ Crash(d)
      PROVE  TypeOK'
  BY <1>2, TypeDispatcherStep
<1>3. CASE FindAbandoned
  <2>1. \A e \in Event : event[e].recoveryCount \in Nat
    BY DEF TypeOK, Row
  <2>2. \A e \in Event : <<e, event[e].recoveryCount, clock>> \in Event \X Nat \X Nat
    BY <2>1 DEF TypeOK
  <2>3. toRecover \subseteq Event \X Nat \X Nat
    BY DEF TypeOK
  <2>5. toRecover' \subseteq Event \X Nat \X Nat
    BY <1>3, <2>2, <2>3 DEF FindAbandoned
  <2>4. QED
    BY <1>3, <2>5 DEF FindAbandoned, TypeOK, dispatcherVars
<1>4. ASSUME NEW found \in toRecover, RecoverEvent(found[1], found[2], found[3])
      PROVE  TypeOK'
  <2>1. found[1] \in Event /\ found[3] \in Nat /\ event[found[1]] \in Row
    BY DEF TypeOK
  <2>2. event' \in [Event -> Row]
    BY <1>4, <2>1, RecoveredRowType DEF RecoverEvent, TypeOK
  <2>3. QED
    BY <1>4, <2>2 DEF RecoverEvent, TypeOK
<1>5. ASSUME NEW a \in Action, Decide(a)
      PROVE  TypeOK'
  BY <1>5 DEF Decide, TypeOK
<1>6. CASE Apply
  <2>1. connection' \in [status : Active \union {"DISCONNECTED", "REVOKED"}, revoked : BOOLEAN]
    <3>1. decided \in Action
      BY <1>6 DEF Apply, TypeOK
    <3>2. QED
      BY <1>6, <3>1 DEF Apply, TypeOK, Action, Active
  <2>2. QED
    BY <1>6, <2>1 DEF Apply, TypeOK
<1>7. CASE Tick
  BY <1>7 DEF Tick, TypeOK
<1>8. CASE UNCHANGED vars
  BY <1>8 DEF vars, TypeOK
<1>9. QED
  BY <1>1, <1>2, <1>3, <1>4, <1>5, <1>6, <1>7, <1>8 DEF Next, OperatorStep

-----------------------------------------------------------------------------
(* What a step may do to one row and its attempts. *)
Untouched(e) == event'[e] = event[e] /\ attempts'[e] = attempts[e]

SameCounts(row, new) ==
    new.attemptCount = row.attemptCount /\ new.recoveryCount = row.recoveryCount

Rescheduled(e) ==
    /\ \/ event[e].status \in Open /\ event'[e].status \in Open
       \/ event[e].status = "ABSENT" /\ event'[e].status = "PENDING"
    /\ SameCounts(event[e], event'[e])
    /\ attempts'[e] = attempts[e]

Attempted(e) == \E d \in Dispatcher : current[d] = e /\ RecordAttempt(d)

Recovered(e) ==
    /\ event[e].status = "ABANDONED"
    /\ event[e].recoveryCount < MaxRecovery
    /\ \E now \in Nat : event'[e] = RecoveredRow(event[e], now)
    /\ attempts'[e] = attempts[e]

LEMMA RowSteps ==
    ASSUME IInv, [Next]_vars, NEW e \in Event
    PROVE  Untouched(e) \/ Rescheduled(e) \/ Attempted(e) \/ Recovered(e)
<1>0. TypeOK /\ event \in [Event -> Row] /\ event[e] \in Row /\ clock \in Nat
  BY DEF IInv, TypeOK
<1>1. ASSUME NEW x \in Event, QueueEvent(x)
      PROVE  Untouched(e) \/ Rescheduled(e)
  <2> DEFINE row == [event[x] EXCEPT !.status = "PENDING", !.nextAttemptAt = clock]
  <2>1. event' = [event EXCEPT ![x] = row] /\ event[x].status = "ABSENT" /\ attempts' = attempts
    BY <1>1 DEF QueueEvent
  <2>4. event[x] \in Row
    BY <1>0
  <2>2. SameCounts(event[x], row) /\ row.status = "PENDING"
    <3>1. \A old \in Row : \A t \in Nat :
             /\ SameCounts(old, [old EXCEPT !.status = "PENDING", !.nextAttemptAt = t])
             /\ [old EXCEPT !.status = "PENDING", !.nextAttemptAt = t].status = "PENDING"
      BY DEF SameCounts, Row
    <3>2. QED
      BY <1>0, <2>4, <3>1
  <2> HIDE DEF row
  <2>3. QED
    BY <1>0, <2>1, <2>2, <2>4 DEF Untouched, Rescheduled, SameCounts
<1>2. ASSUME NEW d \in Dispatcher, NEW x \in Event, LockEvent(d, x)
      PROVE  Untouched(e) \/ Rescheduled(e)
  <2> DEFINE until == batchNow[d] + LockTicks
             row == [event[x] EXCEPT !.nextAttemptAt = until]
  <2>1. event' = [event EXCEPT ![x] = row] /\ event[x].status \in Open /\ attempts' = attempts
    BY <1>2 DEF LockEvent
  <2>2. until \in Nat /\ event[x] \in Row
    BY <1>0, DelayAssumption DEF TypeOK
  <2> HIDE DEF until
  <2>3. SameCounts(event[x], row) /\ row.status = event[x].status
    <3>1. \A old \in Row : \A t \in Nat :
             /\ SameCounts(old, [old EXCEPT !.nextAttemptAt = t])
             /\ [old EXCEPT !.nextAttemptAt = t].status = old.status
      BY ClaimedRowType DEF SameCounts
    <3>2. QED
      BY <2>2, <3>1
  <2> HIDE DEF row
  <2>4. QED
    BY <1>0, <2>1, <2>3 DEF Untouched, Rescheduled, SameCounts
<1>3. ASSUME NEW d \in Dispatcher, NoteError(d)
      PROVE  Untouched(e) \/ Rescheduled(e)
  <2> DEFINE x == current[d]
             t == batchNow[d] + RetryDelay(1)
             row == [event[x] EXCEPT !.status = "FAILED", !.nextAttemptAt = t]
  <2>1. t \in Nat /\ event[x] \in Row
    BY <1>0, <1>3, RetryDelayType, CurrentEvent DEF TypeOK, NoteError
  <2>2. /\ \/ event[x].status \in Open /\ event' = [event EXCEPT ![x] = row]
           \/ event' = event
        /\ attempts' = attempts
    BY <1>3 DEF NoteError
  <2> HIDE DEF t
  <2>3. SameCounts(event[x], row) /\ row.status \in Open
    BY <2>1, RescheduledRowType DEF SameCounts, Open
  <2> HIDE DEF row
  <2>4. QED
    BY <1>0, <2>2, <2>3 DEF Untouched, Rescheduled, SameCounts
<1>4. ASSUME NEW d \in Dispatcher, RecordAttempt(d)
      PROVE  Untouched(e) \/ Attempted(e)
  <2>1. CASE current[d] = e
    BY <1>4, <2>1 DEF Attempted
  <2>2. CASE current[d] # e
    <3>1. attempts' = [attempts EXCEPT ![current[d]] = attempts[current[d]] \union {seen[d].number}]
      BY <1>4 DEF RecordAttempt
    <3>2. QED
      BY <1>0, <1>4, <2>2, <3>1, RecordedAttempt DEF Untouched, TypeOK
  <2>3. QED
    BY <2>1, <2>2
<1>5. ASSUME NEW found \in toRecover, RecoverEvent(found[1], found[2], found[3])
      PROVE  Untouched(e) \/ Recovered(e)
  <2>1. found[1] \in Event /\ found[3] \in Nat /\ found[2] < MaxRecovery
    BY <1>0 DEF IInv, TypeOK, RecoveriesLeft
  <2>2. /\ \/ /\ event[found[1]].status = "ABANDONED"
              /\ event[found[1]].recoveryCount = found[2]
              /\ event' = [event EXCEPT ![found[1]] = RecoveredRow(event[found[1]], found[3])]
           \/ event' = event
        /\ attempts' = attempts
    BY <1>5 DEF RecoverEvent
  <2>3. QED
    BY <1>0, <2>1, <2>2 DEF Untouched, Recovered
<1>6. ASSUME event' = event, attempts' = attempts
      PROVE  Untouched(e)
  BY <1>6 DEF Untouched
<1>7. QED
  BY <1>1, <1>2, <1>3, <1>4, <1>5, <1>6
     DEF Next, DispatcherStep, OperatorStep, SkipEvent, FindDue, EndBatch, ReadEvent, Send,
         RecordRefused, DatabaseError, Crash, FindAbandoned, Decide, Apply, Tick, vars

(* What is recorded of an attempt. *)
LEMMA AttemptedEvent ==
    ASSUME IInv, NEW e \in Event, Attempted(e)
    PROVE  /\ event[e].status \in Open
           /\ event'[e].attemptCount = event[e].attemptCount + 1
           /\ event'[e].recoveryCount = event[e].recoveryCount
           /\ event'[e].status \in {"DELIVERED", "ABANDONED", "FAILED"}
           /\ event'[e].status = "DELIVERED" => e \in accepted'
           /\ event'[e].status = "ABANDONED" => event'[e].attemptCount >= AttemptLimit(event[e])
           /\ event'[e].status = "FAILED" => event'[e].attemptCount < AttemptLimit(event[e])
           /\ attempts'[e] = attempts[e] \union {event[e].attemptCount + 1}
<1>1. PICK d \in Dispatcher : current[d] = e /\ RecordAttempt(d)
  BY DEF Attempted
<1> DEFINE ok == pc[d] = "ok"
           row == AttemptedRow(event[e], seen[d], ok)
<1>2. /\ event[e].status \in Open
      /\ event[e] \in Row /\ seen[d] \in Snapshot /\ seen[d].number # 0 /\ clock \in Nat
      /\ ok \in BOOLEAN
      /\ seen[d].number = event[e].attemptCount + 1
      /\ seen[d].limit = AttemptLimit(event[e])
      /\ event'[e] = row
  BY <1>1, RecordedAttempt
<1>4. ok => e \in accepted'
  BY <1>1 DEF IInv, SentWhenOk, RecordAttempt
<1>5. attempts'[e] = attempts[e] \union {seen[d].number}
  BY <1>1 DEF RecordAttempt, IInv, TypeOK
<1> HIDE DEF ok
<1>3. /\ row.attemptCount = seen[d].number
      /\ row.recoveryCount = event[e].recoveryCount
      /\ row.status = IF ok THEN "DELIVERED"
                      ELSE IF seen[d].number >= seen[d].limit THEN "ABANDONED" ELSE "FAILED"
  BY <1>2, AttemptedRowType
<1>6. seen[d].number \in Nat /\ seen[d].limit \in Nat
  BY <1>2 DEF Snapshot
<1> HIDE DEF row
<1>7. QED
  BY <1>2, <1>3, <1>4, <1>5, <1>6

-----------------------------------------------------------------------------
LEMMA InvInit == Init => IInv
<1>1. ASSUME Init
      PROVE  IInv
  <2>1. TypeOK
    BY <1>1, TypeInit
  <2>2. \A e \in Event : event[e] = AbsentRow /\ attempts[e] = {}
    BY <1>1 DEF Init
  <2>3. /\ AbsentRow \in Row
        /\ AbsentRow.attemptCount = 0
        /\ AbsentRow.recoveryCount = 0
        /\ AbsentRow.status = "ABSENT"
    BY DEF AbsentRow, Row
  <2>4. AttemptLimit(AbsentRow) \in Nat \ {0}
    BY <2>3, LimitType
  <2>5. NeverQueued /\ DeliveredWasAccepted
    BY <2>2, <2>3 DEF NeverQueued, DeliveredWasAccepted
  <2>6. EvidenceComplete
    <3>1. 1..0 = {}
      OBVIOUS
    <3>2. QED
      BY <2>2, <2>3, <3>1 DEF EvidenceComplete
  <2>7. BudgetRespected
    <3> HIDE DEF AbsentRow
    <3>1. QED
      BY <2>2, <2>3, <2>4, CycleAssumption DEF BudgetRespected, Open
  <2>8. RecoveriesLeft /\ SnapshotUsable /\ SentWhenOk
    BY <1>1 DEF Init, RecoveriesLeft, SnapshotUsable, SentWhenOk
  <2>10. ClaimedExists
    BY <1>1 DEF Init, ClaimedExists
  <2>9. QED
    BY <2>1, <2>5, <2>6, <2>7, <2>8, <2>10 DEF IInv
<1>2. QED
  BY <1>1

(* Rows with the same number of recoveries have the same limit. *)
LEMMA SameLimit ==
    ASSUME NEW row, NEW new, new.recoveryCount = row.recoveryCount
    PROVE  AttemptLimit(new) = AttemptLimit(row)
BY DEF AttemptLimit

(* A row that does not exist yet is empty, and none goes away. *)
LEMMA NeverQueuedStep ==
    ASSUME IInv, [Next]_vars
    PROVE  NeverQueued'
<1> SUFFICES ASSUME NEW e \in Event, event'[e].status = "ABSENT"
             PROVE  event'[e] = AbsentRow
  BY DEF NeverQueued
<1>1. CASE Untouched(e)
  BY <1>1 DEF Untouched, IInv, NeverQueued
<1>2. CASE Rescheduled(e)
  BY <1>2 DEF Rescheduled, Open
<1>3. CASE Attempted(e)
  BY <1>3, AttemptedEvent
<1>4. CASE Recovered(e)
  <2>1. PICK now \in Nat : event'[e] = RecoveredRow(event[e], now)
    BY <1>4 DEF Recovered
  <2>2. event[e] \in Row
    BY DEF IInv, TypeOK
  <2>3. event'[e].status = "FAILED"
    BY <2>1, <2>2, RecoveredRowType
  <2>4. QED
    BY <2>3
<1>5. QED
  BY <1>1, <1>2, <1>3, <1>4, RowSteps

(* The attempts of an event are numbered without gaps. *)
LEMMA EvidenceStep ==
    ASSUME IInv, [Next]_vars
    PROVE  EvidenceComplete'
<1> SUFFICES ASSUME NEW e \in Event
             PROVE  attempts'[e] = 1..event'[e].attemptCount
  BY DEF EvidenceComplete
<1>0. attempts[e] = 1..event[e].attemptCount /\ event[e] \in Row /\ event[e].attemptCount \in Nat
  BY DEF IInv, EvidenceComplete, TypeOK, Row
<1>1. CASE Untouched(e)
  BY <1>0, <1>1 DEF Untouched
<1>2. CASE Rescheduled(e)
  BY <1>0, <1>2 DEF Rescheduled, SameCounts
<1>3. CASE Attempted(e)
  <2>1. \A n \in Nat : (1..n) \union {n + 1} = 1..(n + 1)
    OBVIOUS
  <2>2. QED
    BY <1>0, <1>3, <2>1, AttemptedEvent
<1>4. CASE Recovered(e)
  <2>1. PICK now \in Nat : event'[e] = RecoveredRow(event[e], now)
    BY <1>4 DEF Recovered
  <2>2. event'[e].attemptCount = event[e].attemptCount
    BY <1>0, <2>1, RecoveredRowType
  <2>3. QED
    BY <1>0, <1>4, <2>2 DEF Recovered
<1>5. QED
  BY <1>1, <1>2, <1>3, <1>4, RowSteps

(* The cycles of an event are used up exactly. *)
LEMMA BudgetStep ==
    ASSUME IInv, [Next]_vars
    PROVE  BudgetRespected'
<1> DEFINE Within(row) ==
        /\ row.recoveryCount <= MaxRecovery
        /\ row.attemptCount <= AttemptLimit(row)
        /\ row.status \in Open => row.attemptCount < AttemptLimit(row)
        /\ row.status = "ABANDONED" => row.attemptCount = AttemptLimit(row)
<1> SUFFICES ASSUME NEW e \in Event
             PROVE  Within(event'[e])
  BY DEF BudgetRespected
<1>0. /\ event[e] \in Row
      /\ event[e].attemptCount \in Nat /\ event[e].recoveryCount \in Nat
      /\ AttemptLimit(event[e]) \in Nat \ {0}
      /\ Within(event[e])
  BY LimitType DEF IInv, TypeOK, Row, BudgetRespected
<1>1. CASE Untouched(e)
  BY <1>0, <1>1 DEF Untouched
<1>2. CASE Rescheduled(e)
  <2>1. AttemptLimit(event'[e]) = AttemptLimit(event[e])
    BY <1>2, SameLimit DEF Rescheduled, SameCounts
  <2>2. event[e].status = "ABSENT" => event[e].attemptCount = 0
    BY DEF IInv, NeverQueued, AbsentRow
  <2>3. event[e].attemptCount < AttemptLimit(event[e])
    BY <1>0, <1>2, <2>2 DEF Rescheduled
  <2>4. event'[e].status \in Open /\ SameCounts(event[e], event'[e])
    BY <1>2 DEF Rescheduled, Open
  <2>5. event'[e].status # "ABANDONED"
    BY <2>4 DEF Open
  <2>6. QED
    BY <1>0, <2>1, <2>3, <2>4, <2>5 DEF SameCounts
<1>3. CASE Attempted(e)
  <2>1. AttemptLimit(event'[e]) = AttemptLimit(event[e])
    BY <1>3, AttemptedEvent, SameLimit
  <2>2. event[e].attemptCount < AttemptLimit(event[e])
    BY <1>0, <1>3, AttemptedEvent
  <2>3. /\ event'[e].attemptCount = event[e].attemptCount + 1
        /\ event'[e].recoveryCount = event[e].recoveryCount
        /\ event'[e].status = "ABANDONED" => event'[e].attemptCount >= AttemptLimit(event[e])
        /\ event'[e].status = "FAILED" => event'[e].attemptCount < AttemptLimit(event[e])
    BY <1>3, AttemptedEvent
  <2>4. event'[e].status \in Open => event'[e].status = "FAILED"
    BY <1>3, AttemptedEvent DEF Open
  <2> DEFINE l == AttemptLimit(event[e])
  <2>5. l \in Nat /\ AttemptLimit(event'[e]) = l
    BY <1>0, <2>1
  <2> HIDE DEF l
  <2>6. QED
    BY <1>0, <2>2, <2>3, <2>4, <2>5 DEF l
<1>4. CASE Recovered(e)
  <2>1. PICK now \in Nat : event'[e] = RecoveredRow(event[e], now)
    BY <1>4 DEF Recovered
  <2>2. /\ event[e].status = "ABANDONED"
        /\ event[e].recoveryCount < MaxRecovery
    BY <1>4 DEF Recovered
  <2>3. AttemptLimit(event'[e]) = AttemptLimit(event[e]) + AttemptsPerCycle
    BY <1>0, <2>1, <2>2, RecoveryAddsOneCycle
  <2>4. /\ event'[e].status = "FAILED"
        /\ event'[e].attemptCount = event[e].attemptCount
        /\ event'[e].recoveryCount = event[e].recoveryCount + 1
    <3>1. event[e] \in Row
      BY <1>0
    <3>2. QED
      BY <2>1, <3>1, RecoveredRowType
  <2>5. event[e].attemptCount = AttemptLimit(event[e])
    BY <1>0, <2>2
  <2> DEFINE l == AttemptLimit(event[e])
             m == AttemptLimit(event'[e])
  <2>6. l \in Nat /\ m = l + AttemptsPerCycle /\ event'[e].attemptCount = l
    BY <1>0, <2>3, <2>4, <2>5
  <2> HIDE DEF l, m
  <2>7. event'[e].recoveryCount <= MaxRecovery /\ l < m
    BY <1>0, <2>2, <2>4, <2>6, CycleAssumption
  <2>8. event'[e].attemptCount < m /\ event'[e].attemptCount <= m
    BY <2>6, <2>7, CycleAssumption
  <2>9. QED
    BY <2>4, <2>7, <2>8 DEF m
<1>5. QED
  BY <1>1, <1>2, <1>3, <1>4, RowSteps

-----------------------------------------------------------------------------
(* A dispatcher does nothing for the operators, and nothing is unaccepted. *)
LEMMA DispatcherOnly ==
    ASSUME NEW d \in Dispatcher, DispatcherStep(d) \/ DatabaseError(d) \/ Crash(d)
    PROVE  UNCHANGED operatorVars /\ accepted \subseteq accepted'
<1>1. CASE FindDue(d) \/ (\E e \in Event : LockEvent(d, e) \/ SkipEvent(d, e)) \/ EndBatch(d)
  BY <1>1 DEF FindDue, LockEvent, SkipEvent, EndBatch
<1>2. CASE ReadEvent(d) \/ Send(d)
  BY <1>2 DEF ReadEvent, Send
<1>3. CASE RecordAttempt(d) \/ RecordRefused(d) \/ NoteError(d)
  BY <1>3 DEF RecordAttempt, RecordRefused, NoteError
<1>4. CASE DatabaseError(d) \/ Crash(d)
  BY <1>4 DEF DatabaseError, Crash
<1>5. QED
  BY <1>1, <1>2, <1>3, <1>4 DEF DispatcherStep

(* What an operator has found had a recovery left, and keeps its count.    *)
LEMMA RecoveriesStep ==
    ASSUME IInv, [Next]_vars
    PROVE  RecoveriesLeft'
<1>1. CASE toRecover' \subseteq toRecover
  BY <1>1 DEF IInv, RecoveriesLeft
<1>2. CASE FindAbandoned
  <2>1. \A found \in toRecover : found[2] < MaxRecovery
    BY DEF IInv, RecoveriesLeft
  <2>2. \A found \in toRecover' :
            \/ found \in toRecover
            \/ \E e \in Event : /\ found = <<e, event[e].recoveryCount, clock>>
                                /\ event[e].recoveryCount < MaxRecovery
    BY <1>2 DEF FindAbandoned
  <2>3. \A found \in toRecover' : found[2] < MaxRecovery
    BY <2>1, <2>2
  <2>4. QED
    BY <2>3 DEF RecoveriesLeft
<1>3. ASSUME NEW d \in Dispatcher, DispatcherStep(d) \/ DatabaseError(d) \/ Crash(d)
      PROVE  toRecover' = toRecover
  BY <1>3, DispatcherOnly DEF operatorVars
<1>5. (\E e \in Event : QueueEvent(e)) \/ Tick => toRecover' = toRecover
  BY DEF QueueEvent, Tick, operatorVars
<1>6. OperatorStep => toRecover' \subseteq toRecover \/ FindAbandoned
  BY DEF OperatorStep, RecoverEvent, Decide, Apply
<1>4. QED
  BY <1>1, <1>2, <1>3, <1>5, <1>6 DEF Next, vars, operatorVars

(* What a step may do to one dispatcher's attempt. *)
LEMMA DispatcherSteps ==
    ASSUME IInv, [Next]_vars, NEW d \in Dispatcher, pc'[d] \in {"send", "ok", "failed"}
    PROVE  \/ /\ pc[d] \in {"send", "ok", "failed"} /\ ~RecordAttempt(d)
              /\ current'[d] = current[d] /\ seen'[d] = seen[d]
           \/ ReadEvent(d) /\ pc'[d] = "send"
<1>0. TypeOK /\ pc \in [Dispatcher -> PC]
  BY DEF IInv, TypeOK
<1>1. ASSUME NEW x \in Dispatcher, DispatcherStep(x) \/ DatabaseError(x) \/ Crash(x), x # d
      PROVE  pc'[d] = pc[d] /\ current'[d] = current[d] /\ seen'[d] = seen[d]
  BY <1>0, <1>1
     DEF DispatcherStep, FindDue, LockEvent, SkipEvent, EndBatch, ReadEvent, Send, RecordAttempt,
         RecordRefused, NoteError, DatabaseError, Crash, Goto, TypeOK
<1>2. ASSUME UNCHANGED dispatcherVars
      PROVE  pc'[d] = pc[d] /\ current'[d] = current[d] /\ seen'[d] = seen[d]
  BY <1>2 DEF dispatcherVars
<1>3. CASE DispatcherStep(d) \/ DatabaseError(d) \/ Crash(d)
  <2>1. ReadEvent(d) \/ Send(d)
    BY <1>0, <1>3
       DEF DispatcherStep, FindDue, LockEvent, SkipEvent, EndBatch, RecordAttempt, RecordRefused,
           NoteError, DatabaseError, Crash, Goto
  <2>2. CASE ReadEvent(d)
    BY <1>0, <2>2 DEF ReadEvent, Goto
  <2>3. CASE Send(d)
    BY <1>0, <2>3 DEF Send, RecordAttempt
  <2>4. QED
    BY <2>1, <2>2, <2>3
<1>4. RecordAttempt(d) => pc'[d] = "next"
  BY <1>0 DEF RecordAttempt, Goto
<1>5. QED
  BY <1>1, <1>2, <1>3, <1>4
     DEF Next, OperatorStep, QueueEvent, FindAbandoned, RecoverEvent, Decide, Apply, Tick, vars

(* What a dispatcher has read is usable or refused. *)
LEMMA SnapshotStep ==
    ASSUME IInv, [Next]_vars
    PROVE  SnapshotUsable'
<1> DEFINE Usable(s, row) ==
        /\ s.number \in 1..(row.attemptCount + 1)
        /\ s.number = row.attemptCount + 1 => row.status \in Open /\ s.limit = AttemptLimit(row)
<1> SUFFICES ASSUME NEW d \in Dispatcher, pc'[d] \in {"send", "ok", "failed"}
             PROVE  Usable(seen'[d], event'[current'[d]])
  BY DEF SnapshotUsable
<1> DEFINE e == current[d]
<1>1. CASE /\ pc[d] \in {"send", "ok", "failed"} /\ ~RecordAttempt(d)
           /\ current'[d] = e /\ seen'[d] = seen[d]
  <2>1. e \in Event /\ event[e] \in Row /\ seen[d] \in Snapshot
    BY <1>1, CurrentEvent DEF IInv, TypeOK
  <2>2. Usable(seen[d], event[e])
    BY <1>1 DEF IInv, SnapshotUsable
  <2>3. /\ event[e].attemptCount \in Nat /\ event[e].recoveryCount \in Nat
        /\ seen[d].number \in Nat
    BY <2>1 DEF Row, Snapshot
  <2>4. CASE Untouched(e)
    BY <1>1, <2>2, <2>4 DEF Untouched
  <2>5. CASE Rescheduled(e)
    <3>1. AttemptLimit(event'[e]) = AttemptLimit(event[e])
      BY <2>5, SameLimit DEF Rescheduled, SameCounts
    <3>2. event'[e].attemptCount = event[e].attemptCount /\ event'[e].status \in Open
      BY <2>5 DEF Rescheduled, SameCounts, Open
    <3>3. QED
      BY <1>1, <2>2, <3>1, <3>2
  <2>6. CASE Attempted(e)
    <3>1. event'[e].attemptCount = event[e].attemptCount + 1
      BY <2>1, <2>6, AttemptedEvent
    <3>2. /\ seen[d].number \in 1..(event'[e].attemptCount + 1)
          /\ seen[d].number # event'[e].attemptCount + 1
      BY <2>2, <2>3, <3>1
    <3>3. QED
      BY <1>1, <3>2
  <2>7. CASE Recovered(e)
    <3>1. PICK now \in Nat : event'[e] = RecoveredRow(event[e], now)
      BY <2>7 DEF Recovered
    <3>2. event'[e].attemptCount = event[e].attemptCount
      BY <2>1, <3>1, RecoveredRowType
    <3>3. seen[d].number # event[e].attemptCount + 1
      BY <2>2, <2>7 DEF Recovered, Open
    <3>4. QED
      BY <1>1, <2>2, <3>2, <3>3
  <2>8. QED
    BY <2>1, <2>4, <2>5, <2>6, <2>7, RowSteps
<1>2. CASE ReadEvent(d) /\ pc'[d] = "send"
  <2>1. e \in Event /\ event[e] \in Row /\ pc[d] = "read"
    BY <1>2, CurrentEvent DEF IInv, ReadEvent
  <2>2. /\ event[e].status # "DELIVERED"
        /\ event[e].attemptCount < AttemptLimit(event[e])
        /\ seen' = [seen EXCEPT ![d] = [number |-> event[e].attemptCount + 1,
                                       limit |-> AttemptLimit(event[e])]]
        /\ current' = current /\ event' = event
    BY <1>2 DEF ReadEvent, Goto, IInv, TypeOK
  <2>3. /\ seen'[d].number = event[e].attemptCount + 1
        /\ seen'[d].limit = AttemptLimit(event[e])
    BY <2>2 DEF IInv, TypeOK
  <2>4. event[e].status \in Open
    <3>1. event[e].status # "ABANDONED"
      BY <2>1, <2>2, LimitType DEF IInv, BudgetRespected, Row
    <3>2. event[e].status # "ABSENT"
      BY <1>2, <2>1 DEF IInv, ClaimedExists
    <3>3. QED
      BY <2>1, <2>2, <3>1, <3>2 DEF Row
  <2>5. event[e].attemptCount \in Nat
    BY <2>1 DEF Row
  <2>6. QED
    BY <2>2, <2>3, <2>4, <2>5
<1>3. QED
  BY <1>1, <1>2, DispatcherSteps

(* A row that exists stays. *)
LEMMA RowsStay ==
    ASSUME IInv, [Next]_vars, NEW e \in Event, event[e].status # "ABSENT"
    PROVE  event'[e].status # "ABSENT"
<1>1. CASE Untouched(e)
  BY <1>1 DEF Untouched
<1>2. CASE Rescheduled(e)
  BY <1>2 DEF Rescheduled, Open
<1>3. CASE Attempted(e)
  BY <1>3, AttemptedEvent
<1>4. CASE Recovered(e)
  <2>1. PICK now \in Nat : event'[e] = RecoveredRow(event[e], now)
    BY <1>4 DEF Recovered
  <2>2. event[e] \in Row
    BY DEF IInv, TypeOK
  <2>3. QED
    BY <2>1, <2>2, RecoveredRowType
<1>5. QED
  BY <1>1, <1>2, <1>3, <1>4, RowSteps

LEMMA ClaimedStep ==
    ASSUME IInv, [Next]_vars
    PROVE  ClaimedExists'
<1> SUFFICES ASSUME NEW d \in Dispatcher, pc'[d] \notin {"idle", "next"}
             PROVE  event'[current'[d]].status # "ABSENT"
  BY DEF ClaimedExists
<1>0. TypeOK /\ pc \in [Dispatcher -> PC] /\ current \in [Dispatcher -> Event \union {NoEvent}]
  BY DEF IInv, TypeOK
<1>1. CASE pc[d] \notin {"idle", "next"} /\ current'[d] = current[d]
  BY <1>0, <1>1, CurrentEvent, RowsStay DEF IInv, ClaimedExists
<1>2. ASSUME NEW e \in Event, LockEvent(d, e)
      PROVE  event'[current'[d]].status # "ABSENT"
  <2>1. current'[d] = e /\ event[e].status \in Open
    BY <1>0, <1>2 DEF LockEvent
  <2>2. QED
    BY <2>1, RowsStay DEF Open
<1>3. ASSUME NEW x \in Dispatcher, DispatcherStep(x) \/ DatabaseError(x) \/ Crash(x), x # d
      PROVE  pc'[d] = pc[d] /\ current'[d] = current[d]
  BY <1>0, <1>3
     DEF DispatcherStep, FindDue, LockEvent, SkipEvent, EndBatch, ReadEvent, Send, RecordAttempt,
         RecordRefused, NoteError, DatabaseError, Crash, Goto
<1>4. CASE DispatcherStep(d) \/ DatabaseError(d) \/ Crash(d)
  <2>1. CASE \E e \in Event : LockEvent(d, e)
    BY <1>2, <2>1
  <2>2. CASE FindDue(d) \/ (\E e \in Event : SkipEvent(d, e)) \/ EndBatch(d)
    BY <1>0, <2>2 DEF FindDue, SkipEvent, EndBatch, Goto
  <2>3. CASE ReadEvent(d) \/ Send(d)
    BY <1>0, <1>1, <2>3 DEF ReadEvent, Send
  <2>4. CASE RecordAttempt(d) \/ RecordRefused(d) \/ NoteError(d)
    BY <1>0, <1>1, <2>4 DEF RecordAttempt, RecordRefused, NoteError, Goto
  <2>5. CASE DatabaseError(d) \/ Crash(d)
    BY <1>0, <1>1, <2>5 DEF DatabaseError, Crash, Goto
  <2>6. QED
    BY <1>4, <2>1, <2>2, <2>3, <2>4, <2>5 DEF DispatcherStep
<1>5. ASSUME UNCHANGED dispatcherVars
      PROVE  pc'[d] = pc[d] /\ current'[d] = current[d]
  BY <1>5 DEF dispatcherVars
<1>6. QED
  BY <1>1, <1>3, <1>4, <1>5
     DEF Next, OperatorStep, QueueEvent, FindAbandoned, RecoverEvent, Decide, Apply, Tick, vars

(* A success was accepted by the endpoint. *)
LEMMA AcceptedStep ==
    ASSUME IInv, [Next]_vars
    PROVE  SentWhenOk' /\ DeliveredWasAccepted'
<1>0. accepted \subseteq accepted'
  <2>1. \A d \in Dispatcher : DispatcherStep(d) \/ DatabaseError(d) \/ Crash(d)
                             => accepted \subseteq accepted'
    BY DispatcherOnly
  <2>2. QED
    BY <2>1 DEF Next, OperatorStep, QueueEvent, FindAbandoned, RecoverEvent, Decide, Apply,
       Tick, vars
<1>1. ASSUME NEW d \in Dispatcher, pc'[d] = "ok"
      PROVE  current'[d] \in accepted'
  <2>1. CASE pc[d] = "ok" /\ current'[d] = current[d]
    BY <1>0, <2>1 DEF IInv, SentWhenOk
  <2>2. CASE Send(d)
    BY <1>1, <2>2 DEF Send, Goto, IInv, TypeOK, PC
  <2>3. /\ pc[d] \in {"send", "ok", "failed"} /\ ~RecordAttempt(d)
        /\ current'[d] = current[d]
    BY <1>1, DispatcherSteps
  <2>4. ASSUME pc[d] # "ok"
        PROVE  Send(d)
    <3>0. pc \in [Dispatcher -> PC] /\ pc'[d] # pc[d]
      BY <1>1, <2>4 DEF IInv, TypeOK
    <3>1. ASSUME NEW x \in Dispatcher, DispatcherStep(x) \/ DatabaseError(x) \/ Crash(x)
          PROVE  x = d
      BY <3>0, <3>1
         DEF DispatcherStep, FindDue, LockEvent, SkipEvent, EndBatch, ReadEvent, Send,
             RecordAttempt, RecordRefused, NoteError, DatabaseError, Crash, Goto
    <3>2. pc' # pc
      BY <3>0
    <3>3. DispatcherStep(d) \/ DatabaseError(d) \/ Crash(d)
      BY <3>1, <3>2
         DEF Next, OperatorStep, QueueEvent, FindAbandoned, RecoverEvent, Decide, Apply, Tick, vars,
             dispatcherVars
    <3>4. QED
      BY <1>1, <3>0, <3>3
         DEF DispatcherStep, FindDue, LockEvent, SkipEvent, EndBatch, ReadEvent, RecordAttempt,
             RecordRefused, NoteError, DatabaseError, Crash, Goto
  <2>5. QED
    BY <2>1, <2>2, <2>3, <2>4
<1>2. ASSUME NEW e \in Event, event'[e].status = "DELIVERED"
      PROVE  e \in accepted'
  <2>1. CASE Untouched(e)
    BY <1>0, <1>2, <2>1 DEF Untouched, IInv, DeliveredWasAccepted
  <2>2. CASE Rescheduled(e)
    BY <1>2, <2>2 DEF Rescheduled, Open
  <2>3. CASE Attempted(e)
    BY <1>2, <2>3, AttemptedEvent
  <2>4. CASE Recovered(e)
    <3>1. PICK now \in Nat : event'[e] = RecoveredRow(event[e], now)
      BY <2>4 DEF Recovered
    <3>2. event[e] \in Row
      BY DEF IInv, TypeOK
    <3>3. QED
      BY <1>2, <3>1, <3>2, RecoveredRowType
  <2>5. QED
    BY <2>1, <2>2, <2>3, <2>4, RowSteps
<1>3. QED
  BY <1>1, <1>2 DEF SentWhenOk, DeliveredWasAccepted

LEMMA InvStep == IInv /\ [Next]_vars => IInv'
BY TypeStep, NeverQueuedStep, RecoveriesStep, ClaimedStep, EvidenceStep, BudgetStep,
   SnapshotStep,
   AcceptedStep DEF IInv

LEMMA Inductive == Spec => []IInv
BY InvInit, InvStep, PTL DEF Spec

-----------------------------------------------------------------------------
(* Every reachable state of the delivery queue is well typed. *)
THEOREM WebhookTypeCorrect == Spec => []TypeOK
<1>1. IInv => TypeOK
  BY DEF IInv
<1>2. QED
  BY <1>1, Inductive, PTL

(* The attempts of an event are numbered without gaps. *)
THEOREM EvidenceHasNoGaps == Spec => []EvidenceComplete
<1>1. IInv => EvidenceComplete
  BY DEF IInv
<1>2. QED
  BY <1>1, Inductive, PTL

(* The cycles of an event are used up exactly before it is abandoned. *)
THEOREM CyclesAreUsedUp == Spec => []BudgetRespected
<1>1. IInv => BudgetRespected
  BY DEF IInv
<1>2. QED
  BY <1>1, Inductive, PTL

(* What is called delivered was accepted by the endpoint. *)
THEOREM DeliveredMeansAccepted == Spec => []DeliveredWasAccepted
<1>1. IInv => DeliveredWasAccepted
  BY DEF IInv
<1>2. QED
  BY <1>1, Inductive, PTL

(* No dispatcher, error or recovery opens a delivered event again. *)
THEOREM DeliveryIsFinal == Spec => DeliveredIsFinal
<1>1. ASSUME IInv, [Next]_vars
      PROVE  KeepsDelivered
  <2> SUFFICES ASSUME NEW e \in Event, event[e].status = "DELIVERED"
               PROVE  event'[e] = event[e]
    BY DEF KeepsDelivered
  <2>1. ~Rescheduled(e) /\ ~Attempted(e) /\ ~Recovered(e)
    BY <1>1, AttemptedEvent DEF Rescheduled, Recovered, Open
  <2>2. QED
    BY <1>1, <2>1, RowSteps DEF Untouched
<1>2. IInv /\ [Next]_vars => [KeepsDelivered]_vars
  BY <1>1
<1>3. QED
  BY <1>2, Inductive, PTL DEF Spec, DeliveredIsFinal

(* An abandoned event begins again only with the next recovery. *)
THEOREM AbandonedWaitsForRecovery == Spec => AbandonedUntilRecovered
<1>1. ASSUME IInv, [Next]_vars
      PROVE  KeepsAbandoned
  <2> SUFFICES ASSUME NEW e \in Event, event[e].status = "ABANDONED", event'[e] # event[e]
               PROVE  event'[e] = RecoveredRow(event[e], event'[e].nextAttemptAt)
    BY DEF KeepsAbandoned
  <2>1. ~Rescheduled(e) /\ ~Attempted(e)
    BY <1>1, AttemptedEvent DEF Rescheduled, Open
  <2>2. PICK now \in Nat : event'[e] = RecoveredRow(event[e], now)
    BY <1>1, <2>1, RowSteps DEF Untouched, Recovered
  <2>3. event[e] \in Row
    BY <1>1 DEF IInv, TypeOK
  <2>4. event'[e].nextAttemptAt = now
    BY <2>2, <2>3, RecoveredRowType
  <2>5. QED
    BY <2>2, <2>4
<1>2. IInv /\ [Next]_vars => [KeepsAbandoned]_vars
  BY <1>1
<1>3. QED
  BY <1>2, Inductive, PTL DEF Spec, AbandonedUntilRecovered

(* The records of a delivery in every state, for any events, dispatchers   *)
(* and budgets.                                                            *)
THEOREM DeliveriesAlwaysSound == Spec => []DeliveriesSound
<1>1. IInv => DeliveriesSound
  BY DEF IInv, DeliveriesSound
<1>2. QED
  BY <1>1, Inductive, PTL

-----------------------------------------------------------------------------
(* OperationsWorker: the loop that takes the steps of this queue and of    *)
(* JobQueue.  Q is the job queue in its hands, with what is proved of it.  *)
CONSTANTS BatchSize, LeaseTicks, MaxAttempts, BaseDelay, MaximumDelay, MaxCrashes, MaxRetries

VARIABLES rows, nextToken, jobPc, jobNow, candidates, target, claimed, crashes, retries, phase

W == INSTANCE OperationsWorker WITH
        Job <- Event, Worker <- Dispatcher, hookPc <- pc, hookNow <- batchNow
Q == INSTANCE JobQueueProofs WITH
        Job <- Event, Worker <- Dispatcher, pc <- jobPc, batchNow <- jobNow

(* The queues of the loop are the queues the proofs are about. *)
LEMMA SameQueues ==
    /\ W!Hooks!Init => Init
    /\ W!Jobs!Init => Q!Init
    /\ UNCHANGED W!hookVars => UNCHANGED <<event, attempts, connection, pc, batchNow, todo, current,
                                           seen, toRecover, decided, operations, errors, accepted>>
    /\ UNCHANGED W!jobVars => UNCHANGED <<rows, nextToken, jobPc, jobNow, candidates, target,
                                          claimed, crashes, retries>>
BY DEF W!Hooks!Init, Init, W!Hooks!AbsentRow, AbsentRow, W!Hooks!Nothing, Nothing,
       W!Hooks!NoEvent, NoEvent, W!Jobs!Init, Q!Init, W!Jobs!AbsentRow, Q!AbsentRow,
       W!Jobs!Null, Q!Null, W!hookVars, W!jobVars

LEMMA SameDispatching == W!Hooks!Dispatching <=> Dispatching
BY DEF W!Hooks!Dispatching, Dispatching, W!Hooks!Active, Active

LEMMA SameHookStep ==
    ASSUME NEW w \in Dispatcher,
           \/ W!Hooks!FindDue(w) \/ W!Hooks!EndBatch(w) \/ W!Hooks!ReadEvent(w) \/ W!Hooks!Send(w)
           \/ \E e \in Event : W!Hooks!LockEvent(w, e) \/ W!Hooks!SkipEvent(w, e)
           \/ W!Hooks!RecordAttempt(w) \/ W!Hooks!RecordRefused(w) \/ W!Hooks!NoteError(w)
    PROVE  DispatcherStep(w)
<1> USE DEF DispatcherStep, W!Hooks!Goto, Goto, W!Hooks!operatorVars, operatorVars,
            W!Hooks!Open, Open
<1>1. CASE W!Hooks!FindDue(w)
  BY <1>1, SameDispatching DEF W!Hooks!FindDue, FindDue
<1>2. CASE W!Hooks!EndBatch(w)
  BY <1>2 DEF W!Hooks!EndBatch, EndBatch
<1>3. CASE W!Hooks!ReadEvent(w)
  BY <1>3, SameDispatching DEF W!Hooks!ReadEvent, ReadEvent, W!Hooks!AttemptLimit, AttemptLimit
<1>4. CASE W!Hooks!Send(w)
  BY <1>4 DEF W!Hooks!Send, Send
<1>5. ASSUME NEW e \in Event, W!Hooks!LockEvent(w, e) PROVE LockEvent(w, e)
  BY <1>5 DEF W!Hooks!LockEvent, LockEvent
<1>6. ASSUME NEW e \in Event, W!Hooks!SkipEvent(w, e) PROVE SkipEvent(w, e)
  BY <1>6 DEF W!Hooks!SkipEvent, SkipEvent
<1>7. CASE W!Hooks!RecordAttempt(w)
  BY <1>7 DEF W!Hooks!RecordAttempt, RecordAttempt, W!Hooks!AttemptedRow, AttemptedRow,
              W!Hooks!RetryDelay, RetryDelay
<1>8. CASE W!Hooks!RecordRefused(w)
  BY <1>8 DEF W!Hooks!RecordRefused, RecordRefused
<1>9. CASE W!Hooks!NoteError(w)
  BY <1>9 DEF W!Hooks!NoteError, NoteError, W!Hooks!RetryDelay, RetryDelay
<1>10. QED
  BY <1>1, <1>2, <1>3, <1>4, <1>5, <1>6, <1>7, <1>8, <1>9

LEMMA SameHookEvent ==
    /\ \A e \in Event : W!Hooks!QueueEvent(e) => QueueEvent(e)
    /\ \A w \in Dispatcher : W!Hooks!DatabaseError(w) => DatabaseError(w)
    /\ \A w \in Dispatcher : W!Hooks!Crash(w) => Crash(w)
<1> USE DEF W!Hooks!Goto, Goto, W!Hooks!operatorVars, operatorVars,
            W!Hooks!dispatcherVars, dispatcherVars
<1>1. ASSUME NEW e \in Event, W!Hooks!QueueEvent(e) PROVE QueueEvent(e)
  BY <1>1 DEF W!Hooks!QueueEvent, QueueEvent, W!Hooks!Active, Active
<1>2. ASSUME NEW w \in Dispatcher, W!Hooks!DatabaseError(w) PROVE DatabaseError(w)
  BY <1>2 DEF W!Hooks!DatabaseError, DatabaseError
<1>3. ASSUME NEW w \in Dispatcher, W!Hooks!Crash(w) PROVE Crash(w)
  BY <1>3 DEF W!Hooks!Crash, Crash
<1>4. QED
  BY <1>1, <1>2, <1>3

LEMMA SameJobStep ==
    ASSUME NEW w \in Dispatcher,
           \/ W!Jobs!FindCandidates(w) \/ W!Jobs!ClaimRow(w) \/ W!Jobs!SkipCandidate(w)
           \/ W!Jobs!RereadRow(w) \/ W!Jobs!StartProcessing(w) \/ W!Jobs!RunHandler(w)
           \/ W!Jobs!FinishBatch(w) \/ W!Jobs!CompleteJob(w) \/ W!Jobs!CompleteRefused(w)
           \/ W!Jobs!FailJob(w) \/ W!Jobs!AbortBatch(w)
    PROVE  Q!WorkerStep(w)
<1> USE DEF W!Jobs!Goto, Q!Goto, W!Jobs!Null, Q!Null, W!Jobs!boundVars, Q!boundVars
<1>1. CASE W!Jobs!FindCandidates(w)
  <2>1. {k \in Event : W!Jobs!Eligible(k, clock)} = {k \in Event : Q!Eligible(k, clock)}
    BY DEF W!Jobs!Eligible, Q!Eligible
  <2>2. ASSUME NEW S PROVE W!Jobs!FirstBatch(S) = Q!FirstBatch(S)
    <3>1. \A T : W!Jobs!Cardinality(T) = Q!Cardinality(T)
      BY Zenon DEF W!Jobs!Cardinality, Q!Cardinality
    <3>2. QED
      BY <3>1 DEF W!Jobs!FirstBatch, Q!FirstBatch, W!Jobs!Precedes, Q!Precedes
  <2>3. QED
    BY <1>1, <2>1, <2>2, Zenon DEF W!Jobs!FindCandidates, Q!FindCandidates, Q!WorkerStep
<1>2. CASE W!Jobs!ClaimRow(w)
  <2>1. ASSUME NEW c
        PROVE  /\ W!Jobs!NextCandidate(w, c) <=> Q!NextCandidate(w, c)
               /\ W!Jobs!StillClaimable(c[2], jobNow[w]) <=> Q!StillClaimable(c[2], jobNow[w])
    BY DEF W!Jobs!NextCandidate, Q!NextCandidate, W!Jobs!Precedes, Q!Precedes,
           W!Jobs!StillClaimable, Q!StillClaimable, W!Jobs!ClaimableStatus, Q!ClaimableStatus
  <2>2. ASSUME NEW r, NEW token, NEW until
        PROVE  W!Jobs!LeasedRow(r, token, until) = Q!LeasedRow(r, token, until)
    BY Zenon DEF W!Jobs!LeasedRow, Q!LeasedRow
  <2>3. QED
    BY <1>2, <2>1, <2>2, Zenon DEF W!Jobs!ClaimRow, Q!ClaimRow, Q!WorkerStep
<1>3. CASE W!Jobs!SkipCandidate(w)
  BY <1>3 DEF W!Jobs!SkipCandidate, Q!SkipCandidate, Q!WorkerStep,
              W!Jobs!NextCandidate, Q!NextCandidate, W!Jobs!Precedes, Q!Precedes,
              W!Jobs!StillClaimable, Q!StillClaimable,
              W!Jobs!ClaimableStatus, Q!ClaimableStatus
<1>4. CASE W!Jobs!RereadRow(w)
  BY <1>4 DEF W!Jobs!RereadRow, Q!RereadRow, Q!WorkerStep
<1>5. CASE W!Jobs!StartProcessing(w)
  BY <1>5 DEF W!Jobs!StartProcessing, Q!StartProcessing, Q!WorkerStep
<1>6. CASE W!Jobs!RunHandler(w)
  BY <1>6 DEF W!Jobs!RunHandler, Q!RunHandler, Q!WorkerStep
<1>7. CASE W!Jobs!FinishBatch(w)
  BY <1>7 DEF W!Jobs!FinishBatch, Q!FinishBatch, Q!WorkerStep
<1>8. CASE W!Jobs!CompleteJob(w)
  BY <1>8 DEF W!Jobs!CompleteJob, Q!CompleteJob, Q!WorkerStep,
              W!Jobs!HoldsLease, Q!HoldsLease, W!Jobs!CompletedRow, Q!CompletedRow
<1>9. CASE W!Jobs!CompleteRefused(w)
  BY <1>9 DEF W!Jobs!CompleteRefused, Q!CompleteRefused, Q!WorkerStep,
              W!Jobs!HoldsLease, Q!HoldsLease
<1>10. CASE W!Jobs!FailJob(w)
  BY <1>10 DEF W!Jobs!FailJob, Q!FailJob, Q!WorkerStep,
               W!Jobs!HoldsLease, Q!HoldsLease, W!Jobs!FailedRow, Q!FailedRow,
               W!Jobs!RetryDelay, Q!RetryDelay
<1>11. CASE W!Jobs!AbortBatch(w)
  BY <1>11 DEF W!Jobs!AbortBatch, Q!AbortBatch, Q!WorkerStep,
               W!Jobs!HoldsLease, Q!HoldsLease
<1>12. QED
  BY <1>1, <1>2, <1>3, <1>4, <1>5, <1>6, <1>7, <1>8, <1>9, <1>10, <1>11

LEMMA SameJobEvent ==
    /\ \A j \in Event : W!Jobs!Enqueue(j) => Q!Enqueue(j)
    /\ \A w \in Dispatcher : W!Jobs!Crash(w) => Q!Crash(w)
<1>1. ASSUME NEW j \in Event, W!Jobs!Enqueue(j) PROVE Q!Enqueue(j)
  BY <1>1 DEF W!Jobs!Enqueue, Q!Enqueue, W!Jobs!workerVars, Q!workerVars,
              W!Jobs!boundVars, Q!boundVars
<1>2. ASSUME NEW w \in Dispatcher, W!Jobs!Crash(w) PROVE Q!Crash(w)
  BY <1>2 DEF W!Jobs!Crash, Q!Crash, W!Jobs!Goto, Q!Goto, W!Jobs!Null, Q!Null
<1>3. QED
  BY <1>1, <1>2

-----------------------------------------------------------------------------
(* The clock alone moves on: it may be the other queue that waits for it. *)
Elapses ==
    /\ clock' = clock + 1
    /\ UNCHANGED <<event, attempts, connection, pc, batchNow, todo, current, seen, toRecover,
                   decided, operations, errors, accepted>>
    /\ UNCHANGED <<rows, nextToken, jobPc, jobNow, candidates, target, claimed, crashes, retries>>

LEMMA JobsRest ==
    ASSUME UNCHANGED <<clock, rows, nextToken, jobPc, jobNow, candidates, target, claimed,
                       crashes, retries>>
    PROVE  UNCHANGED Q!vars
BY DEF Q!vars

LEMMA HooksRest ==
    ASSUME UNCHANGED <<clock, event, attempts, connection, pc, batchNow, todo, current, seen,
                       toRecover, decided, operations, errors, accepted>>
    PROVE  UNCHANGED vars
BY DEF vars, dispatcherVars, operatorVars

LEMMA JobsKeepClock ==
    ASSUME NEW w \in Dispatcher, Q!WorkerStep(w) \/ Q!Crash(w)
    PROVE  clock' = clock
BY DEF Q!WorkerStep, Q!FindCandidates, Q!ClaimRow, Q!SkipCandidate, Q!RereadRow,
       Q!StartProcessing, Q!RunHandler, Q!FinishBatch, Q!CompleteJob, Q!CompleteRefused,
       Q!FailJob, Q!AbortBatch, Q!Crash

LEMMA HooksKeepClock ==
    ASSUME NEW w \in Dispatcher, DispatcherStep(w) \/ Crash(w) \/ DatabaseError(w)
    PROVE  clock' = clock
BY DEF DispatcherStep, FindDue, LockEvent, SkipEvent, EndBatch, ReadEvent, Send, RecordAttempt,
       RecordRefused, NoteError, Crash, DatabaseError

LEMMA HeadKnown ==
    ASSUME Q!TypeOK, NEW w \in Dispatcher, claimed[w] # << >>
    PROVE  Head(claimed[w]) \in Q!Held(w) /\ Head(claimed[w]).job \in Event
<1>1. claimed[w] \in Seq(Q!Snapshot)
  BY DEF Q!TypeOK
<1>2. Head(claimed[w]) \in Q!Snapshot /\ Head(claimed[w]) = claimed[w][1] /\ 1 \in 1..Len(claimed[w])
  BY <1>1
<1>3. QED
  BY <1>2 DEF Q!Held, Q!Snapshot

(* A handler's step queues the event of its own job or leaves the second   *)
(* queue alone; every other step of a phase belongs to the queue of that   *)
(* phase.                                                                  *)
LEMMA HandlerStep ==
    ASSUME Q!TypeOK, NEW w \in Dispatcher, W!RunHandler(w)
    PROVE  LET j == Head(claimed[w]).job
           IN  /\ Q!WorkerStep(w) /\ Q!RunHandler(w) /\ j \in Event
               /\ \/ QueueEvent(j)
                  \/ UNCHANGED vars /\ (jobPc'[w] = "fail" \/ event[j].status # "ABSENT")
               /\ UNCHANGED phase
<1>1. Q!WorkerStep(w) /\ W!Jobs!RunHandler(w)
  BY SameJobStep DEF W!RunHandler
<1>2. Q!RunHandler(w)
  BY <1>1 DEF W!Jobs!RunHandler, Q!RunHandler, W!Jobs!Goto, Q!Goto, W!Jobs!boundVars,
     Q!boundVars
<1>3. Head(claimed[w]).job \in Event
  BY <1>2, HeadKnown DEF Q!RunHandler
<1>4. clock' = clock
  BY <1>1, JobsKeepClock
<1>5. QED
  BY <1>1, <1>2, <1>3, <1>4, SameHookEvent, SameQueues, HooksRest DEF W!RunHandler

LEMMA JobPhase ==
    ASSUME Q!TypeOK, NEW w \in Dispatcher, W!JobStep(w)
    PROVE  [Q!Next]_(Q!vars) /\ [Next]_vars
<1>1. CASE W!RunHandler(w)
  BY <1>1, HandlerStep DEF Q!Next, Next
<1>2. ASSUME W!JobStep(w), ~W!RunHandler(w)
      PROVE  (Q!WorkerStep(w) \/ UNCHANGED <<clock, W!jobVars>>) /\ UNCHANGED W!hookVars
  BY <1>2, SameJobStep DEF W!JobStep
<1>3. CASE ~W!RunHandler(w)
  <2>1. clock' = clock
    BY <1>2, <1>3, JobsKeepClock
  <2>2. QED
    BY <1>2, <1>3, <2>1, SameQueues, JobsRest, HooksRest DEF Q!Next
<1>4. QED
  BY <1>1, <1>3

LEMMA HookPhase ==
    ASSUME NEW w \in Dispatcher, W!HookStep(w) \/ W!DeliveryFails(w)
    PROVE  [Q!Next]_(Q!vars) /\ [Next]_vars
<1>1. /\ DispatcherStep(w) \/ DatabaseError(w) \/ UNCHANGED <<clock, W!hookVars>>
      /\ UNCHANGED W!jobVars
  BY SameHookStep, SameHookEvent DEF W!HookStep, W!DeliveryFails
<1>2. clock' = clock
  BY <1>1, HooksKeepClock
<1>3. QED
  BY <1>1, <1>2, SameQueues, JobsRest, HooksRest DEF Next

(* A step of the loop is a step of each queue or leaves it alone, or the   *)
(* clock alone moves on.                                                   *)
LEMMA LoopSteps ==
    ASSUME Q!TypeOK, [W!Next]_(W!vars)
    PROVE  ([Q!Next]_(Q!vars) /\ [Next]_vars) \/ Elapses
<1>1. ASSUME NEW w \in Dispatcher, W!Cycle(w) \/ W!DeliveryFails(w)
      PROVE  [Q!Next]_(Q!vars) /\ [Next]_vars
  <2>1. CASE W!Wake(w) \/ W!Scans(w)
    BY <2>1, SameQueues, JobsRest, HooksRest DEF W!Wake, W!Scans
  <2>2. QED
    BY <1>1, <2>1, JobPhase, HookPhase DEF W!Cycle
<1>2. ASSUME NEW w \in Dispatcher, W!CycleFails(w)
      PROVE  [Q!Next]_(Q!vars) /\ [Next]_vars
  <2>1. CASE W!Jobs!Crash(w) /\ UNCHANGED W!hookVars
    <3>1. Q!Crash(w) /\ clock' = clock
      BY <2>1, SameJobEvent, JobsKeepClock
    <3>2. QED
      BY <2>1, <3>1, SameQueues, HooksRest DEF Q!Next
  <2>2. CASE W!Hooks!Crash(w) /\ UNCHANGED W!jobVars
    <3>1. Crash(w) /\ clock' = clock
      BY <2>2, SameHookEvent, HooksKeepClock
    <3>2. QED
      BY <2>2, <3>1, SameQueues, JobsRest DEF Next
  <2>3. QED
    BY <1>2, <2>1, <2>2 DEF W!CycleFails
<1>3. ASSUME NEW j \in Event, W!Enqueue(j)
      PROVE  [Q!Next]_(Q!vars) /\ [Next]_vars
  <2>1. Q!Enqueue(j) /\ UNCHANGED W!hookVars
    BY <1>3, SameJobEvent DEF W!Enqueue
  <2>2. clock' = clock
    BY <2>1 DEF Q!Enqueue
  <2>3. QED
    BY <2>1, <2>2, SameQueues, HooksRest DEF Q!Next
<1>4. CASE W!Tick
  BY <1>4, SameQueues DEF W!Tick, Elapses
<1>5. CASE UNCHANGED W!vars
  BY <1>5, SameQueues, JobsRest, HooksRest DEF W!vars
<1>6. QED
  BY <1>1, <1>2, <1>3, <1>4, <1>5 DEF W!Next

LEMMA TimeKeepsHooks ==
    ASSUME IInv, Elapses
    PROVE  IInv'
<1>1. TypeOK'
  BY DEF IInv, TypeOK, Elapses
<1>2. NeverQueued' /\ RecoveriesLeft' /\ ClaimedExists' /\ EvidenceComplete'
  BY DEF IInv, Elapses, NeverQueued, RecoveriesLeft, ClaimedExists, EvidenceComplete
<1>3. BudgetRespected'
  BY DEF IInv, Elapses, BudgetRespected
<1>4. SnapshotUsable' /\ SentWhenOk' /\ DeliveredWasAccepted'
  BY DEF IInv, Elapses, SnapshotUsable, SentWhenOk, DeliveredWasAccepted
<1>5. QED
  BY <1>1, <1>2, <1>3, <1>4 DEF IInv

LEMMA TimeKeepsJobs ==
    ASSUME Q!IInv, Elapses
    PROVE  Q!IInv'
<1>1. Q!TypeOK'
  BY DEF Q!IInv, Q!TypeOK, Elapses
<1>2. Q!NoStrandedRow' /\ Q!DeadLetterEarned'
  BY DEF Q!IInv, Elapses, Q!NoStrandedRow, Q!DeadLetterEarned
<1>3. \A w \in Dispatcher : Q!Held(w)' = Q!Held(w)
  BY DEF Elapses, Q!Held
<1>4. Q!TokensIssued' /\ Q!FreshDecision'
  BY <1>3 DEF Q!IInv, Elapses, Q!TokensIssued, Q!FreshDecision, Q!SnapshotCurrent, Q!HoldsLease
<1>5. Q!BatchInPast'
  BY DEF Q!IInv, Q!TypeOK, Q!BatchInPast, Elapses
<1>6. QED
  BY <1>1, <1>2, <1>4, <1>5 DEF Q!IInv

LEMMA QueuesKept ==
    ASSUME W!Configured, IInv, Q!IInv, [W!Next]_(W!vars)
    PROVE  IInv' /\ Q!IInv'
<1>1. Q!TypeOK
  BY DEF Q!IInv
<1>2. CASE Elapses
  BY <1>2, TimeKeepsHooks, TimeKeepsJobs
<1>3. CASE [Q!Next]_(Q!vars) /\ [Next]_vars
  <2>1. IInv'
    BY <1>3, InvStep
  <2>2. Q!IInv'
    BY <1>3, Q!InvStep DEF W!Configured
  <2>3. QED
    BY <2>1, <2>2
<1>4. QED
  BY <1>1, <1>2, <1>3, LoopSteps

-----------------------------------------------------------------------------
(* What the loop itself keeps.  Rows and events that exist stay. *)
LEMMA EventStays ==
    ASSUME IInv, [Next]_vars \/ Elapses, NEW e \in Event, event[e].status # "ABSENT"
    PROVE  event'[e].status # "ABSENT"
<1>1. CASE Elapses
  BY <1>1 DEF Elapses
<1>2. CASE [Next]_vars
  <2>1. event[e] \in Row
    BY DEF IInv, TypeOK
  <2>2. CASE Recovered(e)
    <3>1. PICK now \in Nat : event'[e] = RecoveredRow(event[e], now)
      BY <2>2 DEF Recovered
    <3>2. QED
      BY <2>1, <3>1, RecoveredRowType
  <2>3. QED
    BY <1>2, <2>2, RowSteps, AttemptedEvent DEF Untouched, Rescheduled, Open
<1>3. QED
  BY <1>1, <1>2

LEMMA JobStays ==
    ASSUME W!Configured, Q!TypeOK, [Q!Next]_(Q!vars) \/ Elapses, NEW j \in Event, rows[j].status # "ABSENT"
    PROVE  rows'[j].status # "ABSENT"
<1>1. rows \in [Event -> Q!Row] /\ rows[j] \in Q!Row
  BY DEF Q!TypeOK
<1>2. CASE Elapses
  BY <1>2 DEF Elapses
<1>3. CASE [Q!Next]_(Q!vars)
  <2>1. ASSUME NEW k \in Event, Q!Enqueue(k) \/ Q!RetryDeadLetter(k)
        PROVE  rows'[j].status # "ABSENT"
    BY <1>1, <2>1 DEF Q!Enqueue, Q!RetryDeadLetter, Q!Row
  <2>2. ASSUME NEW w \in Dispatcher, Q!ClaimRow(w)
        PROVE  rows'[j].status # "ABSENT"
    BY <1>1, <2>2 DEF Q!ClaimRow, Q!LeasedRow, Q!Row
  <2>3. ASSUME NEW w \in Dispatcher, Q!CompleteJob(w) \/ Q!FailJob(w)
        PROVE  rows'[j].status # "ABSENT"
    <3>1. CASE Q!CompleteJob(w)
      BY <1>1, <3>1 DEF Q!CompleteJob, Q!CompletedRow, Q!Row
    <3>2. CASE Q!FailJob(w)
      <4> DEFINE s == Head(claimed[w])
                 r == Q!FailedRow(rows[s.job], s, jobNow[w])
      <4>1. rows' = [rows EXCEPT ![s.job] = r]
        BY <3>2 DEF Q!FailJob
      <4>2. s.job = j => r.status # "ABSENT"
        BY <1>1 DEF Q!FailedRow, Q!Row
      <4> HIDE DEF s, r
      <4>3. QED
        BY <1>1, <4>1, <4>2
    <3>3. QED
      BY <2>3, <3>1, <3>2
  <2>4. QED
    BY <1>3, <2>1, <2>2, <2>3, Q!RowsChangedBy DEF W!Configured
<1>4. QED
  BY <1>2, <1>3

(* A job becomes SUCCEEDED only when its handler has returned. *)
LEMMA NewlySucceeded ==
    ASSUME W!Configured, Q!TypeOK, [Q!Next]_(Q!vars) \/ Elapses, NEW j \in Event,
           rows[j].status # "SUCCEEDED", rows'[j].status = "SUCCEEDED"
    PROVE  \E w \in Dispatcher : jobPc[w] = "complete" /\ Head(claimed[w]).job = j
<1>1. rows \in [Event -> Q!Row] /\ rows[j] \in Q!Row
  BY DEF Q!TypeOK
<1>2. ~Elapses
  BY DEF Elapses
<1>3. ASSUME NEW k \in Event, Q!Enqueue(k) \/ Q!RetryDeadLetter(k)
      PROVE  FALSE
  BY <1>1, <1>3 DEF Q!Enqueue, Q!RetryDeadLetter, Q!Row
<1>4. ASSUME NEW w \in Dispatcher, Q!ClaimRow(w) \/ Q!FailJob(w)
      PROVE  FALSE
  <2>1. CASE Q!ClaimRow(w)
    BY <1>1, <2>1 DEF Q!ClaimRow, Q!LeasedRow, Q!Row
  <2>2. CASE Q!FailJob(w)
    BY <1>1, <2>2 DEF Q!FailJob, Q!FailedRow, Q!Row
  <2>3. QED
    BY <1>4, <2>1, <2>2
<1>5. ASSUME NEW w \in Dispatcher, Q!CompleteJob(w)
      PROVE  jobPc[w] = "complete" /\ Head(claimed[w]).job = j
  BY <1>1, <1>5 DEF Q!CompleteJob
<1>6. QED
  BY <1>2, <1>3, <1>4, <1>5, Q!RowsChangedBy DEF W!Configured

(* What a worker of the first queue has claimed exists. *)
JobsKnown ==
    \A w \in Dispatcher :
        /\ jobPc[w] = "reread" => rows[target[w]].status # "ABSENT"
        /\ \A s \in Q!Held(w) : rows[s.job].status # "ABSENT"

LEMMA SameKnown == W!ClaimedExists <=> JobsKnown
BY DEF W!ClaimedExists, JobsKnown, W!Jobs!Held, Q!Held

LEMMA KnownStays ==
    ASSUME W!Configured, Q!IInv, JobsKnown, [Q!Next]_(Q!vars) \/ Elapses
    PROVE  JobsKnown'
<1>0. Q!TypeOK
  BY DEF Q!IInv
<1>1. ASSUME NEW w \in Dispatcher,
             jobPc'[w] = "reread" => jobPc[w] = "reread" /\ target'[w] = target[w],
             Q!Held(w)' \subseteq Q!Held(w)
      PROVE  /\ jobPc'[w] = "reread" => rows'[target'[w]].status # "ABSENT"
             /\ \A s \in Q!Held(w)' : rows'[s.job].status # "ABSENT"
  <2>1. jobPc[w] = "reread" => target[w] \in Event
    BY <1>0 DEF Q!TypeOK
  <2>2. \A s \in Q!Held(w) : s.job \in Event
    BY <1>0, Q!HeldType DEF W!Configured
  <2>3. QED
    BY <1>0, <1>1, <2>1, <2>2, JobStays DEF JobsKnown
<1>2. ASSUME NEW v \in Dispatcher, Q!ClaimRow(v)
      PROVE  JobsKnown'
  <2>1. PICK c \in candidates[v] :
          /\ rows' = [rows EXCEPT ![c[2]] =
                         Q!LeasedRow(rows[c[2]], nextToken, jobNow[v] + LeaseTicks)]
          /\ target' = [target EXCEPT ![v] = c[2]]
    BY <1>2 DEF Q!ClaimRow
  <2>2. c[2] \in Event
    BY <1>0, <2>1 DEF Q!TypeOK
  <2>3. rows'[target'[v]].status = "LEASED"
    BY <1>0, <2>1, <2>2 DEF Q!TypeOK, Q!LeasedRow, Q!Row
  <2>4. \A w \in Dispatcher \ {v} : jobPc'[w] = jobPc[w] /\ target'[w] = target[w]
    BY <1>0, <1>2, <2>1 DEF Q!TypeOK, Q!ClaimRow, Q!Goto
  <2>5. \A w \in Dispatcher : Q!Held(w)' = Q!Held(w)
    BY <1>2 DEF Q!ClaimRow, Q!Held
  <2>6. \A s \in Q!Held(v) : s.job \in Event /\ rows'[s.job].status # "ABSENT"
    <3>1. [Q!Next]_(Q!vars)
      BY <1>2 DEF Q!Next, Q!WorkerStep
    <3>2. QED
      BY <1>0, <3>1, JobStays, Q!HeldType DEF JobsKnown, W!Configured
  <2>7. QED
    BY <1>1, <2>3, <2>4, <2>5, <2>6 DEF JobsKnown
<1>3. ASSUME NEW v \in Dispatcher, Q!RereadRow(v)
      PROVE  JobsKnown'
  <2> DEFINE s == [job |-> target[v], leaseToken |-> rows[target[v]].leaseToken,
                   attempts |-> rows[target[v]].attempts,
                   availableAt |-> rows[target[v]].availableAt]
  <2>1. /\ jobPc[v] = "reread" /\ target[v] \in Event /\ rows' = rows
        /\ jobPc' = [jobPc EXCEPT ![v] = "claim"]
        /\ target' = [target EXCEPT ![v] = Q!Null]
        /\ claimed' = [claimed EXCEPT ![v] = Append(claimed[v], s)]
    BY <1>0, <1>3 DEF Q!RereadRow, Q!Goto, Q!TypeOK
  <2>2. claimed[v] \in Seq(Q!Snapshot) /\ s \in Q!Snapshot
    BY <1>0, <2>1 DEF Q!TypeOK, Q!Snapshot, Q!Row
  <2>3. s.job = target[v]
    OBVIOUS
  <2> HIDE DEF s
  <2>4. \A x \in Q!Held(v)' : x = s \/ x \in Q!Held(v)
    BY <1>0, <2>1, <2>2, Q!AppendedElements DEF Q!Held, Q!TypeOK
  <2>5. \A w \in Dispatcher \ {v} : jobPc'[w] = jobPc[w] /\ target'[w] = target[w]
                                     /\ Q!Held(w)' = Q!Held(w)
    BY <1>0, <2>1 DEF Q!TypeOK, Q!Held
  <2>6. jobPc'[v] = "claim"
    BY <1>0, <2>1 DEF Q!TypeOK
  <2>7. QED
    BY <1>1, <2>1, <2>3, <2>4, <2>5, <2>6 DEF JobsKnown
<1>4. ASSUME NEW v \in Dispatcher, Q!CompleteJob(v) \/ Q!FailJob(v) \/ Q!AbortBatch(v) \/ Q!Crash(v)
      PROVE  JobsKnown'
  <2>1. /\ jobPc' \in {[jobPc EXCEPT ![v] = "run"], [jobPc EXCEPT ![v] = "idle"]}
        /\ target' = target \/ target' = [target EXCEPT ![v] = Q!Null]
    BY <1>4 DEF Q!CompleteJob, Q!FailJob, Q!AbortBatch, Q!Crash, Q!Goto
  <2>2. \A w \in Dispatcher : Q!Held(w)' \subseteq Q!Held(w)
    <3>1. CASE Q!CompleteJob(v) \/ Q!FailJob(v)
      <4>1. claimed[v] # << >> /\ claimed' = [claimed EXCEPT ![v] = Tail(claimed[v])]
        BY <1>0, <3>1 DEF Q!CompleteJob, Q!FailJob, Q!TypeOK
      <4>2. QED
        BY <1>0, <4>1, Q!HeldAfterDrop DEF W!Configured
    <3>2. CASE Q!AbortBatch(v) \/ Q!Crash(v)
      BY <1>0, <3>2, Q!HeldAfterLoss DEF W!Configured, Q!AbortBatch, Q!Crash
    <3>3. QED
      BY <1>4, <3>1, <3>2
  <2>3. \A w \in Dispatcher :
          jobPc'[w] = "reread" => jobPc[w] = "reread" /\ target'[w] = target[w]
    BY <1>0, <2>1 DEF Q!TypeOK
  <2>4. QED
    BY <1>1, <2>2, <2>3 DEF JobsKnown
<1>5. ASSUME NEW v \in Dispatcher,
             \/ Q!FindCandidates(v) \/ Q!SkipCandidate(v) \/ Q!StartProcessing(v)
             \/ Q!RunHandler(v) \/ Q!FinishBatch(v) \/ Q!CompleteRefused(v)
      PROVE  JobsKnown'
  <2>1. UNCHANGED <<target, claimed>>
    BY <1>5 DEF Q!FindCandidates, Q!SkipCandidate, Q!StartProcessing, Q!RunHandler,
                Q!FinishBatch, Q!CompleteRefused
  <2>2. \A w \in Dispatcher : jobPc'[w] = "reread" => jobPc[w] = "reread"
    BY <1>0, <1>5 DEF Q!FindCandidates, Q!SkipCandidate, Q!StartProcessing, Q!RunHandler,
                Q!FinishBatch, Q!CompleteRefused, Q!TypeOK, Q!Goto
  <2>3. \A w \in Dispatcher : Q!Held(w)' = Q!Held(w)
    BY <2>1 DEF Q!Held
  <2>4. QED
    BY <1>1, <2>1, <2>2, <2>3 DEF JobsKnown
<1>6. CASE UNCHANGED <<jobPc, target, claimed>>
  <2>1. \A w \in Dispatcher : Q!Held(w)' = Q!Held(w)
    BY <1>6 DEF Q!Held
  <2>2. QED
    BY <1>1, <1>6, <2>1 DEF JobsKnown
<1>7. QED
  BY <1>2, <1>3, <1>4, <1>5, <1>6
     DEF Q!Next, Q!vars, Q!WorkerStep, Q!Enqueue, Q!RetryDeadLetter, Q!Tick, Q!workerVars, Elapses

(* A step of one worker leaves the others where they are. *)
LEMMA OtherJobs ==
    ASSUME Q!TypeOK, NEW w \in Dispatcher, Q!WorkerStep(w) \/ Q!Crash(w),
           NEW v \in Dispatcher \ {w}
    PROVE  jobPc'[v] = jobPc[v] /\ claimed'[v] = claimed[v]
BY DEF Q!TypeOK, Q!Goto, Q!WorkerStep, Q!Crash, Q!FindCandidates, Q!ClaimRow, Q!SkipCandidate,
       Q!RereadRow, Q!StartProcessing, Q!RunHandler, Q!FinishBatch, Q!CompleteJob,
       Q!CompleteRefused, Q!FailJob, Q!AbortBatch

LEMMA OtherHooks ==
    ASSUME TypeOK, NEW w \in Dispatcher, DispatcherStep(w) \/ DatabaseError(w) \/ Crash(w),
           NEW v \in Dispatcher \ {w}
    PROVE  pc'[v] = pc[v]
BY DEF TypeOK, Goto, DispatcherStep, FindDue, LockEvent, SkipEvent, EndBatch, ReadEvent, Send,
       RecordAttempt, RecordRefused, NoteError, Crash, DatabaseError

(* How the phases of a worker end. *)
LEMMA JobPhaseEnds ==
    ASSUME Q!TypeOK, NEW w \in Dispatcher, W!JobStep(w)
    PROVE  /\ phase[w] = "jobs" /\ pc' = pc
           /\ \/ UNCHANGED phase
              \/ /\ jobPc'[w] = "idle"
                 /\ \E p \in {"webhooks", "sleep"} : phase' = [phase EXCEPT ![w] = p]
           /\ \A v \in Dispatcher \ {w} : jobPc'[v] = jobPc[v]
<1>0. phase[w] = "jobs"
  BY DEF W!JobStep, W!In
<1>1. CASE W!RunHandler(w)
  <2>1. Q!WorkerStep(w) /\ UNCHANGED phase
    BY <1>1, HandlerStep
  <2>2. pc' = pc
    BY <1>1, HandlerStep DEF QueueEvent, dispatcherVars, vars
  <2>3. QED
    BY <1>0, <2>1, <2>2, OtherJobs
<1>2. CASE ~W!RunHandler(w)
  <2>1. pc' = pc
    BY <1>2, SameQueues DEF W!JobStep
  <2>2. \A v \in Dispatcher \ {w} : jobPc'[v] = jobPc[v]
    <3>1. CASE UNCHANGED W!jobVars
      BY <3>1, SameQueues
    <3>2. CASE Q!WorkerStep(w)
      BY <3>2, OtherJobs
    <3>3. QED
      BY <1>2, <3>1, <3>2, SameJobStep DEF W!JobStep
  <2>3. \/ UNCHANGED phase
        \/ /\ jobPc'[w] = "idle"
           /\ \E p \in {"webhooks", "sleep"} : phase' = [phase EXCEPT ![w] = p]
    <3>1. CASE W!Jobs!FinishBatch(w) /\ W!EnterPhase(w, "webhooks")
      BY <3>1 DEF W!Jobs!FinishBatch, W!Jobs!Goto, W!EnterPhase, Q!TypeOK
    <3>2. CASE W!Jobs!AbortBatch(w) /\ W!EnterPhase(w, W!AfterError)
      BY <3>2 DEF W!Jobs!AbortBatch, W!Jobs!Goto, W!EnterPhase, W!AfterError, Q!TypeOK
    <3>3. CASE jobPc[w] = "idle" /\ W!EnterPhase(w, "webhooks") /\ UNCHANGED W!jobVars
      BY <3>3, SameQueues DEF W!EnterPhase
    <3>4. QED
      BY <1>2, <3>1, <3>2, <3>3 DEF W!JobStep
  <2>4. QED
    BY <1>0, <2>1, <2>2, <2>3
<1>3. QED
  BY <1>1, <1>2

LEMMA HookPhaseEnds ==
    ASSUME TypeOK, NEW w \in Dispatcher, W!HookStep(w) \/ W!DeliveryFails(w)
    PROVE  /\ phase[w] = "webhooks" /\ jobPc' = jobPc
           /\ \/ UNCHANGED phase
              \/ pc'[w] = "idle" /\ phase' = [phase EXCEPT ![w] = "scans"]
           /\ \A v \in Dispatcher \ {w} : pc'[v] = pc[v]
<1>1. phase[w] = "webhooks" /\ jobPc' = jobPc
  BY SameQueues DEF W!HookStep, W!DeliveryFails, W!In
<1>2. \A v \in Dispatcher \ {w} : pc'[v] = pc[v]
  <2>1. CASE UNCHANGED W!hookVars
    BY <2>1, SameQueues
  <2>2. CASE DispatcherStep(w) \/ DatabaseError(w)
    BY <2>2, OtherHooks
  <2>3. QED
    BY <2>1, <2>2, SameHookStep, SameHookEvent DEF W!HookStep, W!DeliveryFails
<1>3. \/ UNCHANGED phase
      \/ pc'[w] = "idle" /\ phase' = [phase EXCEPT ![w] = "scans"]
  <2>1. CASE W!Hooks!EndBatch(w) /\ W!EnterPhase(w, "scans")
    BY <2>1 DEF W!Hooks!EndBatch, W!Hooks!Goto, W!EnterPhase, TypeOK
  <2>2. CASE pc[w] = "idle" /\ W!EnterPhase(w, "scans") /\ UNCHANGED W!hookVars
    BY <2>2, SameQueues DEF W!EnterPhase
  <2>3. QED
    BY <2>1, <2>2 DEF W!HookStep, W!DeliveryFails
<1>4. QED
  BY <1>1, <1>2, <1>3

LEMMA FailingEnds ==
    ASSUME Q!TypeOK, TypeOK, NEW w \in Dispatcher, W!CycleFails(w)
    PROVE  /\ phase' = [phase EXCEPT ![w] = "sleep"]
           /\ \/ phase[w] = "jobs" /\ jobPc'[w] = "idle" /\ pc' = pc
              \/ phase[w] = "webhooks" /\ pc'[w] = "idle" /\ jobPc' = jobPc
           /\ \A v \in Dispatcher \ {w} : pc'[v] = pc[v] /\ jobPc'[v] = jobPc[v]
<1>1. CASE W!In(w, "jobs") /\ W!Jobs!Crash(w) /\ UNCHANGED W!hookVars
  BY <1>1, SameQueues
     DEF W!In, W!CycleFails, W!EnterPhase, W!AfterError, W!Jobs!Crash, W!Jobs!Goto, Q!TypeOK
<1>2. CASE W!In(w, "webhooks") /\ W!Hooks!Crash(w) /\ UNCHANGED W!jobVars
  BY <1>2, SameQueues
     DEF W!In, W!CycleFails, W!EnterPhase, W!AfterError, W!Hooks!Crash, W!Hooks!Goto, TypeOK
<1>3. QED
  BY <1>1, <1>2 DEF W!CycleFails

LEMMA PhasesKept ==
    ASSUME Q!TypeOK, TypeOK, W!TypeOK, W!OneBatch, [W!Next]_(W!vars)
    PROVE  W!TypeOK' /\ W!OneBatch'
<1> USE DEF W!TypeOK, W!OneBatch, W!In
<1>1. ASSUME NEW w \in Dispatcher, W!Wake(w) \/ W!Scans(w)
      PROVE  W!TypeOK' /\ W!OneBatch'
  <2>1. jobPc' = jobPc /\ pc' = pc
    BY <1>1, SameQueues DEF W!Wake, W!Scans
  <2>2. /\ phase[w] \in {"sleep", "scans"}
        /\ phase' = [phase EXCEPT ![w] = "jobs"] \/ phase' = [phase EXCEPT ![w] = "sleep"]
    BY <1>1 DEF W!Wake, W!Scans, W!EnterPhase
  <2>3. jobPc[w] = "idle" /\ pc[w] = "idle"
    BY <2>2
  <2>4. \A v \in Dispatcher \ {w} : phase'[v] = phase[v]
    BY <2>2
  <2>5. W!TypeOK'
    BY <2>2
  <2>6. QED
    BY <2>1, <2>3, <2>4, <2>5
<1>2. ASSUME NEW w \in Dispatcher, W!JobStep(w)
      PROVE  W!TypeOK' /\ W!OneBatch'
  BY <1>2, JobPhaseEnds
<1>3. ASSUME NEW w \in Dispatcher, W!HookStep(w) \/ W!DeliveryFails(w)
      PROVE  W!TypeOK' /\ W!OneBatch'
  BY <1>3, HookPhaseEnds
<1>4. ASSUME NEW w \in Dispatcher, W!CycleFails(w)
      PROVE  W!TypeOK' /\ W!OneBatch'
  BY <1>4, FailingEnds
<1>5. ASSUME NEW j \in Event, W!Enqueue(j)
      PROVE  W!TypeOK' /\ W!OneBatch'
  BY <1>5, SameQueues, SameJobEvent DEF W!Enqueue, Q!Enqueue, Q!workerVars
<1>6. CASE W!Tick \/ UNCHANGED W!vars
  BY <1>6, SameQueues DEF W!Tick, W!vars
<1>7. QED
  BY <1>1, <1>2, <1>3, <1>4, <1>5, <1>6 DEF W!Next, W!Cycle

(* An event appears only in the hands of the handler of its job.           *)
LEMMA DispatchersQueueNothing ==
    ASSUME IInv, NEW w \in Dispatcher, DispatcherStep(w) \/ DatabaseError(w) \/ Crash(w),
           NEW e \in Event, event[e].status = "ABSENT"
    PROVE  event'[e].status = "ABSENT"
<1>1. /\ event \in [Event -> Row]
      /\ pc[w] \notin {"idle", "next"} => current[w] \in Event /\ current[w] # e
  BY DEF IInv, TypeOK, ClaimedExists
<1>2. CASE event' = event
  BY <1>2
<1>3. ASSUME NEW x \in Event, LockEvent(w, x) PROVE event'[e].status = "ABSENT"
  BY <1>1, <1>3 DEF LockEvent, Open
<1>4. CASE RecordAttempt(w)
  BY <1>1, <1>4 DEF RecordAttempt
<1>5. CASE NoteError(w)
  BY <1>1, <1>5 DEF NoteError
<1>6. QED
  BY <1>2, <1>3, <1>4, <1>5 DEF DispatcherStep, FindDue, SkipEvent, EndBatch, ReadEvent, Send,
                                RecordRefused, DatabaseError, Crash

LEMMA NewEvent ==
    ASSUME Q!TypeOK, IInv, [W!Next]_(W!vars), NEW e \in Event,
           event[e].status = "ABSENT", event'[e].status # "ABSENT"
    PROVE  \E w \in Dispatcher : W!RunHandler(w) /\ Head(claimed[w]).job = e
<1>0. event \in [Event -> Row]
  BY DEF IInv, TypeOK
<1>1. ASSUME NEW w \in Dispatcher, W!JobStep(w)
      PROVE  W!RunHandler(w) /\ Head(claimed[w]).job = e
  <2>1. W!RunHandler(w)
    BY <1>1, SameQueues DEF W!JobStep
  <2>2. QueueEvent(Head(claimed[w]).job)
    BY <2>1, HandlerStep DEF vars
  <2>3. QED
    BY <1>0, <2>1, <2>2 DEF QueueEvent
<1>2. ASSUME NEW w \in Dispatcher, W!HookStep(w) \/ W!DeliveryFails(w) \/ W!CycleFails(w)
      PROVE  FALSE
  <2>1. ~UNCHANGED W!hookVars
    BY SameQueues
  <2>2. DispatcherStep(w) \/ DatabaseError(w) \/ Crash(w)
    BY <1>2, <2>1, SameHookStep, SameHookEvent DEF W!HookStep, W!DeliveryFails, W!CycleFails
  <2>3. QED
    BY <2>2, DispatchersQueueNothing
<1>3. ASSUME UNCHANGED W!hookVars
      PROVE  FALSE
  BY <1>3, SameQueues
<1>4. QED
  BY <1>1, <1>2, <1>3 DEF W!Next, W!Cycle, W!Wake, W!Scans, W!Enqueue, W!Tick, W!vars

(* A worker is about to complete a job because it was, or because the      *)
(* handler has just returned.                                              *)
LEMMA HandlerReturned ==
    ASSUME Q!TypeOK, [W!Next]_(W!vars), NEW v \in Dispatcher, jobPc'[v] = "complete"
    PROVE  \/ jobPc[v] = "complete" /\ claimed'[v] = claimed[v]
           \/ W!RunHandler(v)
<1>0. jobPc \in [Dispatcher -> Q!PC]
  BY DEF Q!TypeOK
<1>1. CASE UNCHANGED <<jobPc, claimed>>
  BY <1>1
<1>2. ASSUME NEW w \in Dispatcher, w # v, Q!WorkerStep(w) \/ Q!Crash(w)
      PROVE  jobPc[v] = "complete" /\ claimed'[v] = claimed[v]
  BY <1>2, OtherJobs
<1>3. ASSUME NEW w \in Dispatcher, W!JobStep(w)
      PROVE  \/ jobPc[v] = "complete" /\ claimed'[v] = claimed[v]
             \/ W!RunHandler(v)
  <2>1. CASE UNCHANGED W!jobVars
    BY <1>1, <2>1, SameQueues
  <2>2. CASE ~UNCHANGED W!jobVars /\ w # v
    <3>1. Q!WorkerStep(w)
      BY <1>3, <2>2, HandlerStep, SameJobStep DEF W!JobStep
    <3>2. QED
      BY <1>2, <2>2, <3>1
  <2>3. CASE ~UNCHANGED W!jobVars /\ w = v /\ ~W!RunHandler(v)
    <3>1. \/ jobPc' = jobPc /\ jobPc[v] = "claim"
          \/ \E label \in {"idle", "claim", "reread", "run", "fail"} :
                jobPc' = [jobPc EXCEPT ![v] = label]
      BY <1>3, <2>3
         DEF W!JobStep, W!Jobs!FindCandidates, W!Jobs!ClaimRow, W!Jobs!SkipCandidate,
             W!Jobs!NextCandidate, W!Jobs!RereadRow, W!Jobs!StartProcessing, W!Jobs!CompleteJob,
             W!Jobs!CompleteRefused, W!Jobs!FailJob, W!Jobs!FinishBatch, W!Jobs!AbortBatch,
             W!Jobs!Goto
    <3>2. QED
      BY <1>0, <3>1
  <2>4. QED
    BY <2>1, <2>2, <2>3
<1>4. ASSUME NEW w \in Dispatcher, W!CycleFails(w)
      PROVE  jobPc[v] = "complete" /\ claimed'[v] = claimed[v]
  <2>1. CASE UNCHANGED W!jobVars
    BY <1>1, <2>1, SameQueues
  <2>2. CASE W!Jobs!Crash(w)
    <3>1. Q!Crash(w)
      BY <2>2, SameJobEvent
    <3>2. w # v
      BY <1>0, <3>1 DEF Q!Crash, Q!Goto
    <3>3. QED
      BY <1>2, <3>1, <3>2
  <2>3. QED
    BY <1>4, <2>1, <2>2 DEF W!CycleFails
<1>5. ASSUME NEW j \in Event, W!Enqueue(j)
      PROVE  UNCHANGED <<jobPc, claimed>>
  BY <1>5, SameJobEvent DEF W!Enqueue, Q!Enqueue, Q!workerVars
<1>6. CASE UNCHANGED W!jobVars
  BY <1>1, <1>6, SameQueues
<1>7. QED
  BY <1>1, <1>3, <1>4, <1>5, <1>6
     DEF W!Next, W!Cycle, W!Wake, W!Scans, W!HookStep, W!DeliveryFails, W!Tick, W!vars

LEMMA CycleInvInit ==
    ASSUME W!Init
    PROVE  W!CycleInv
<1>1. Q!Init /\ Init /\ phase = [w \in Dispatcher |-> "sleep"]
  BY SameQueues DEF W!Init
<1>2. \A w \in Dispatcher : Q!Held(w) = {}
  BY <1>1 DEF Q!Init, Q!Held
<1>3. W!TypeOK /\ W!OneBatch /\ W!HandingOn
  BY <1>1 DEF Q!Init, Init, W!TypeOK, W!OneBatch, W!HandingOn
<1>4. W!HandedOn /\ W!EventHasJob
  BY <1>1 DEF Q!Init, Init, AbsentRow, Q!AbsentRow, W!HandedOn, W!EventHasJob
<1>5. JobsKnown
  BY <1>1, <1>2 DEF Q!Init, JobsKnown
<1>6. QED
  BY <1>3, <1>4, <1>5, SameKnown DEF W!CycleInv

LEMMA CycleInvStep ==
    ASSUME W!Configured, IInv, Q!IInv, W!CycleInv, [W!Next]_(W!vars)
    PROVE  W!CycleInv'
<1>0. TypeOK /\ Q!TypeOK
  BY DEF IInv, Q!IInv
<1>1. ([Q!Next]_(Q!vars) \/ Elapses) /\ ([Next]_vars \/ Elapses)
  BY <1>0, LoopSteps
<1>2. W!TypeOK' /\ W!OneBatch'
  BY <1>0, PhasesKept DEF W!CycleInv
<1>3. W!HandedOn'
  <2> SUFFICES ASSUME NEW j \in Event, rows'[j].status = "SUCCEEDED"
               PROVE  event'[j].status # "ABSENT"
    BY DEF W!HandedOn
  <2>1. event[j].status # "ABSENT"
    BY <1>0, <1>1, NewlySucceeded DEF W!CycleInv, W!HandedOn, W!HandingOn
  <2>2. QED
    BY <1>1, <2>1, EventStays
<1>4. JobsKnown'
  BY <1>1, KnownStays, SameKnown DEF W!CycleInv
<1>5. W!EventHasJob'
  <2> SUFFICES ASSUME NEW j \in Event, event'[j].status # "ABSENT"
               PROVE  rows'[j].status # "ABSENT"
    BY DEF W!EventHasJob
  <2>1. rows[j].status # "ABSENT"
    <3>1. CASE event[j].status = "ABSENT"
      <4>1. PICK w \in Dispatcher : W!RunHandler(w) /\ Head(claimed[w]).job = j
        BY <1>0, <3>1, NewEvent
      <4>2. claimed[w] # << >>
        BY <1>0, <4>1, HandlerStep DEF Q!RunHandler
      <4>3. QED
        BY <1>0, <4>1, <4>2, HeadKnown, SameKnown DEF W!CycleInv, JobsKnown
    <3>2. QED
      BY <3>1 DEF W!CycleInv, W!EventHasJob
  <2>2. QED
    BY <1>0, <1>1, <2>1, JobStays
<1>6. W!HandingOn'
  <2> SUFFICES ASSUME NEW w \in Dispatcher, jobPc'[w] = "complete"
               PROVE  event'[Head(claimed'[w]).job].status # "ABSENT"
    BY DEF W!HandingOn
  <2>1. CASE jobPc[w] = "complete" /\ claimed'[w] = claimed[w]
    <3>1. claimed[w] # << >>
      BY <1>0, <2>1 DEF Q!TypeOK
    <3>2. QED
      BY <1>0, <1>1, <2>1, <3>1, HeadKnown, EventStays DEF W!CycleInv, W!HandingOn
  <2>2. CASE W!RunHandler(w)
    <3> DEFINE j == Head(claimed[w]).job
    <3>1. /\ j \in Event /\ Q!RunHandler(w)
          /\ QueueEvent(j) \/ event[j].status # "ABSENT"
      BY <1>0, <2>2, HandlerStep
    <3>2. claimed' = claimed
      BY <3>1 DEF Q!RunHandler
    <3> HIDE DEF j
    <3>3. QueueEvent(j) => event'[j].status # "ABSENT"
      BY <1>0, <3>1 DEF QueueEvent, TypeOK, Row
    <3>4. event'[j].status # "ABSENT"
      BY <1>1, <3>1, <3>3, EventStays
    <3>5. QED
      BY <3>2, <3>4 DEF j
  <2>3. QED
    BY <1>0, <2>1, <2>2, HandlerReturned
<1>7. W!ClaimedExists'
  BY <1>4, SameKnown, PTL
<1>8. QED
  BY <1>2, <1>3, <1>5, <1>6, <1>7 DEF W!CycleInv

-----------------------------------------------------------------------------
(* Without operators nothing starts afresh what has ended. *)
LEMMA SettledEventStays ==
    ASSUME IInv, [W!Next]_(W!vars), NEW e \in Event, event[e].status \in {"DELIVERED", "ABANDONED"}
    PROVE  event'[e] = event[e]
<1>1. event \in [Event -> Row] /\ event[e].status \notin Open \union {"ABSENT"}
  BY DEF IInv, TypeOK, Open
<1>2. CASE event' = event
  BY <1>2
<1>3. ASSUME NEW x \in Event, QueueEvent(x) PROVE event'[e] = event[e]
  BY <1>1, <1>3 DEF QueueEvent
<1>4. ASSUME NEW w \in Dispatcher, DispatcherStep(w) \/ DatabaseError(w) \/ Crash(w)
      PROVE  event'[e] = event[e]
  <2>1. ASSUME NEW x \in Event, LockEvent(w, x) PROVE event'[e] = event[e]
    BY <1>1, <2>1 DEF LockEvent
  <2>2. CASE RecordAttempt(w)
    <3>1. current[w] # e
      BY <1>1, <2>2, AttemptedEvent DEF Attempted
    <3>2. QED
      BY <1>1, <2>2, <3>1 DEF RecordAttempt
  <2>3. CASE NoteError(w)
    BY <1>1, <2>3 DEF NoteError
  <2>4. QED
    BY <1>2, <1>4, <2>1, <2>2, <2>3
       DEF DispatcherStep, FindDue, SkipEvent, EndBatch, ReadEvent, Send, RecordRefused,
           DatabaseError, Crash
<1>5. ASSUME NEW w \in Dispatcher, W!JobStep(w), ~UNCHANGED W!hookVars
      PROVE  W!Hooks!QueueEvent(Head(claimed[w]).job)
  BY <1>5 DEF W!JobStep, W!RunHandler
<1>6. ASSUME NEW w \in Dispatcher, W!Hooks!QueueEvent(Head(claimed[w]).job)
      PROVE  event'[e] = event[e]
  BY <1>1, <1>6 DEF W!Hooks!QueueEvent
<1>7. ASSUME NEW w \in Dispatcher, W!HookStep(w) \/ W!DeliveryFails(w) \/ W!CycleFails(w)
      PROVE  event'[e] = event[e]
  BY <1>2, <1>4, <1>7, SameQueues, SameHookStep, SameHookEvent
     DEF W!HookStep, W!DeliveryFails, W!CycleFails
<1>8. CASE UNCHANGED W!hookVars
  BY <1>2, <1>8, SameQueues
<1>9. QED
  BY <1>5, <1>6, <1>7, <1>8
     DEF W!Next, W!Cycle, W!Wake, W!Scans, W!Enqueue, W!Tick, W!vars

LEMMA SettledJobStays ==
    ASSUME W!Configured, Q!TypeOK, [W!Next]_(W!vars), NEW j \in Event,
           rows[j].status \in {"SUCCEEDED", "DEAD_LETTER"}
    PROVE  rows'[j] = rows[j]
<1>1. rows \in [Event -> Q!Row]
  BY DEF Q!TypeOK
<1>2. ASSUME NEW k \in Event, Q!Enqueue(k) PROVE rows'[j] = rows[j]
  BY <1>1, <1>2 DEF Q!Enqueue
<1>3. ASSUME NEW w \in Dispatcher, Q!WorkerStep(w) \/ Q!Crash(w) PROVE rows'[j] = rows[j]
  <2>1. CASE Q!ClaimRow(w)
    BY <1>1, <2>1 DEF Q!ClaimRow, Q!StillClaimable, Q!ClaimableStatus
  <2>2. CASE Q!CompleteJob(w) \/ Q!FailJob(w)
    <3>1. Head(claimed[w]).job # j
      BY <2>2 DEF Q!CompleteJob, Q!FailJob, Q!HoldsLease
    <3>2. QED
      BY <1>1, <2>2, <3>1 DEF Q!CompleteJob, Q!FailJob
  <2>3. QED
    BY <1>3, <2>1, <2>2
       DEF Q!WorkerStep, Q!Crash, Q!FindCandidates, Q!SkipCandidate, Q!RereadRow,
           Q!StartProcessing, Q!RunHandler, Q!FinishBatch, Q!CompleteRefused, Q!AbortBatch
<1>4. CASE UNCHANGED W!jobVars
  BY <1>4, SameQueues
<1>5. ASSUME NEW w \in Dispatcher, W!JobStep(w) PROVE rows'[j] = rows[j]
  BY <1>3, <1>4, <1>5, HandlerStep, SameJobStep DEF W!JobStep
<1>6. ASSUME NEW w \in Dispatcher, W!CycleFails(w) PROVE rows'[j] = rows[j]
  BY <1>3, <1>4, <1>6, SameJobEvent DEF W!CycleFails
<1>7. ASSUME NEW k \in Event, W!Enqueue(k) PROVE rows'[j] = rows[j]
  BY <1>2, <1>7, SameJobEvent DEF W!Enqueue
<1>8. QED
  BY <1>4, <1>5, <1>6, <1>7
     DEF W!Next, W!Cycle, W!Wake, W!Scans, W!HookStep, W!DeliveryFails, W!Tick, W!vars

LEMMA LoopInvAlways ==
    ASSUME W!Configured
    PROVE  W!Spec => [](IInv /\ Q!IInv /\ W!CycleInv)
<1> DEFINE LoopInv == IInv /\ Q!IInv /\ W!CycleInv
<1>1. W!Init => LoopInv
  <2>1. W!Init => Q!Init /\ Init
    BY SameQueues DEF W!Init
  <2>2. QED
    BY <2>1, InvInit, Q!InvInit, CycleInvInit DEF W!Configured
<1>2. LoopInv /\ [W!Next]_(W!vars) => LoopInv'
  BY QueuesKept, CycleInvStep
<1>3. QED
  BY <1>1, <1>2, PTL DEF W!Spec

(* In the loop both queues are as sound as they are alone, for any number  *)
(* of workers, although their batches end each other's cycles and share a  *)
(* clock.                                                                  *)
THEOREM LoopKeepsQueuesSound ==
    ASSUME W!Configured
    PROVE  W!Spec => [](Q!QueueSound /\ DeliveriesSound)
<1>1. IInv /\ Q!IInv => Q!QueueSound /\ DeliveriesSound
  BY DEF IInv, DeliveriesSound, Q!IInv, Q!QueueSound
<1>2. QED
  BY <1>1, LoopInvAlways, PTL

(* Nothing is lost or invented between the queues: a job that has          *)
(* succeeded has left its event in the second one, an event there has its  *)
(* job in the first, and a worker is only ever in one batch.               *)
THEOREM LoopHandsOn ==
    ASSUME W!Configured
    PROVE  W!Spec => [](W!HandedOn /\ W!EventHasJob /\ W!OneBatch)
<1>1. W!CycleInv => W!HandedOn /\ W!EventHasJob /\ W!OneBatch
  BY DEF W!CycleInv
<1>2. QED
  BY <1>1, LoopInvAlways, PTL

(* What EndToEnd promises to reach is never left again. *)
THEOREM EndedIsEnded ==
    ASSUME W!Configured
    PROVE  W!Spec => [][\A j \in Event : W!Ended(j) => W!Ended(j)']_(W!vars)
<1>1. ASSUME IInv, Q!IInv, [W!Next]_(W!vars)
      PROVE  \A j \in Event : W!Ended(j) => W!Ended(j)'
  BY <1>1, SettledEventStays, SettledJobStays DEF W!Ended, Q!IInv
<1>2. IInv /\ Q!IInv /\ [W!Next]_(W!vars)
          => [\A j \in Event : W!Ended(j) => W!Ended(j)']_(W!vars)
  BY <1>1
<1>3. QED
  BY <1>2, LoopInvAlways, PTL DEF W!Spec

(* The jobs of the loop live the life of JobLifecycle. *)
THEOREM LoopImplementsLifecycle ==
    ASSUME W!Configured
    PROVE  W!Spec => Q!ImplementsLifecycle
<1>1. ASSUME Q!IInv, [W!Next]_(W!vars)
      PROVE  [Q!Lifecycle!Next]_(Q!Lifecycle!jobVars)
  <2>1. CASE [Q!Next]_(Q!vars)
    BY <1>1, <2>1, Q!LifecycleStep DEF W!Configured
  <2>2. CASE Elapses
    BY <2>2 DEF Elapses, Q!Lifecycle!jobVars
  <2>3. QED
    BY <1>1, <2>1, <2>2, LoopSteps DEF Q!IInv
<1>2. W!Init => Q!Lifecycle!Init
  BY SameQueues, Q!LifecycleInit DEF W!Init, W!Configured
<1>3. Q!IInv /\ [W!Next]_(W!vars) => [Q!Lifecycle!Next]_(Q!Lifecycle!jobVars)
  BY <1>1
<1>4. QED
  BY <1>2, <1>3, LoopInvAlways, PTL DEF W!Spec, Q!ImplementsLifecycle, Q!Lifecycle!Spec
=============================================================================
