--------------------------- MODULE OutgoingWebhook ---------------------------
(***************************************************************************)
(* The delivery queue of one outgoing webhook connection                   *)
(* (lib/outgoing-webhook-service.js) and the operators who disconnect,     *)
(* reconnect, revoke and recover it.                                       *)
(*                                                                         *)
(* Several dispatchers may work on the queue: the operations worker, and   *)
(* every operator who presses "deliver due".  A dispatcher claims an event *)
(* by pushing its nextAttemptAt into the future, reckoned from the instant *)
(* its batch began, so a slow batch holds claims that have already lapsed. *)
(* What keeps the evidence in order is the unique attempt number.          *)
(***************************************************************************)
EXTENDS Integers, Sequences, FiniteSets

CONSTANTS
    Event,             \* events of the connection
    Dispatcher,        \* batches that may run at the same time
    AttemptsPerCycle,  \* ATTEMPTS_PER_CYCLE
    MaxRecovery,       \* MAX_RECOVERY_CYCLES
    RetryDelays,       \* RETRY_DELAYS_MS, in ticks
    LockTicks,         \* the two minutes of a claim, in ticks
    \* bounds of the model
    MaxClock,          \* the clock stops here
    MaxBatchTicks,     \* how long a batch may be stuck
    MaxErrors,         \* database errors and lost processes
    MaxOperations      \* operator actions on the connection

ASSUME CycleAssumption == AttemptsPerCycle \in Nat \ {0} /\ MaxRecovery \in Nat
ASSUME DelayAssumption ==
    /\ RetryDelays \in Seq(Nat) /\ RetryDelays # << >>
    /\ LockTicks \in Nat

VARIABLES
    clock,
    event,       \* OutgoingWebhookEvent rows
    attempts,    \* numbers of the WebhookDeliveryAttempt rows of an event
    connection,  \* status and revokedAt of the IntegrationConnection
    pc,          \* where each dispatcher is
    batchNow,    \* the instant its batch began
    todo,        \* events found due and not reached yet
    current,     \* the event it has claimed
    seen,        \* attempt number and limit computed from the event as read
    toRecover,   \* abandoned events the operators' requests have found
    decided,     \* an operator's action between its check and its update
    errors,      \* errors so far (bounded)
    operations,  \* operator actions so far (bounded)
    accepted     \* history: events the endpoint has accepted

dispatcherVars == <<pc, batchNow, todo, current, seen>>
operatorVars == <<toRecover, decided, operations>>
vars == <<clock, event, attempts, connection, dispatcherVars, operatorVars, errors, accepted>>

-----------------------------------------------------------------------------
Active == {"CONNECTED", "DEGRADED"}
Open == {"PENDING", "FAILED"}
PC == {"idle", "next", "read", "send", "ok", "failed", "error"}
Action == {"disconnect", "reconnect", "revoke", "rotate_secret"}

Row == [status : Open \union {"ABSENT", "DELIVERED", "ABANDONED"},
        attemptCount : Nat, recoveryCount : Nat, nextAttemptAt : Nat]
AbsentRow == [status |-> "ABSENT", attemptCount |-> 0, recoveryCount |-> 0,
              nextAttemptAt |-> 0]
Snapshot == [number : Nat, limit : Nat]
Nothing == [number |-> 0, limit |-> 0]
NoEvent == "none"

(* retryDelayMs: the table's last entry is used from then on. *)
RetryDelay(n) == RetryDelays[IF n <= Len(RetryDelays) THEN n ELSE Len(RetryDelays)]

(* deliveryAttemptLimit *)
AttemptLimit(row) ==
    AttemptsPerCycle *
        ((IF row.recoveryCount <= MaxRecovery THEN row.recoveryCount ELSE MaxRecovery) + 1)

Dispatching == connection.status \in Active /\ ~connection.revoked

Goto(d, label) == pc' = [pc EXCEPT ![d] = label]

-----------------------------------------------------------------------------
Init ==
    /\ clock = 1
    /\ event = [e \in Event |-> AbsentRow]
    /\ attempts = [e \in Event |-> {}]
    /\ connection = [status |-> "CONNECTED", revoked |-> FALSE]
    /\ pc = [d \in Dispatcher |-> "idle"]
    /\ batchNow = [d \in Dispatcher |-> 0]
    /\ todo = [d \in Dispatcher |-> {}]
    /\ current = [d \in Dispatcher |-> NoEvent]
    /\ seen = [d \in Dispatcher |-> Nothing]
    /\ toRecover = {}
    /\ decided = "none"
    /\ errors = 0
    /\ operations = 0
    /\ accepted = {}

(* queueOutgoingWebhookEvent: only the status is looked at, and an event   *)
(* that is already queued stays as it is.                                  *)
QueueEvent(e) ==
    /\ connection.status \in Active
    /\ event[e].status = "ABSENT"
    /\ event' = [event EXCEPT ![e] = [@ EXCEPT !.status = "PENDING",
                                               !.nextAttemptAt = clock]]
    /\ UNCHANGED <<clock, attempts, connection, dispatcherVars, operatorVars, errors, accepted>>

(* The query that opens a batch. *)
FindDue(d) ==
    LET due == {e \in Event : event[e].status \in Open /\ event[e].nextAttemptAt <= clock}
    IN  /\ pc[d] = "idle"
        /\ Dispatching
        /\ due # {}
        /\ batchNow' = [batchNow EXCEPT ![d] = clock]
        /\ todo' = [todo EXCEPT ![d] = due]
        /\ Goto(d, "next")
        /\ UNCHANGED <<clock, event, attempts, connection, current, seen, operatorVars,
                       errors, accepted>>

(* The claim: a guarded update that keeps other batches away for a while. *)
LockEvent(d, e) ==
    /\ pc[d] = "next"
    /\ e \in todo[d]
    /\ event[e].status \in Open
    /\ event[e].nextAttemptAt <= batchNow[d]
    /\ event' = [event EXCEPT ![e].nextAttemptAt = batchNow[d] + LockTicks]
    /\ todo' = [todo EXCEPT ![d] = @ \ {e}]
    /\ current' = [current EXCEPT ![d] = e]
    /\ Goto(d, "read")
    /\ UNCHANGED <<clock, attempts, connection, batchNow, seen, operatorVars, errors, accepted>>

(* The claim matched no row. *)
SkipEvent(d, e) ==
    /\ pc[d] = "next"
    /\ e \in todo[d]
    /\ event[e].status \notin Open \/ event[e].nextAttemptAt > batchNow[d]
    /\ todo' = [todo EXCEPT ![d] = @ \ {e}]
    /\ UNCHANGED <<clock, event, attempts, connection, pc, batchNow, current, seen,
                   operatorVars, errors, accepted>>

EndBatch(d) ==
    /\ pc[d] = "next"
    /\ todo[d] = {}
    /\ Goto(d, "idle")
    /\ UNCHANGED <<clock, event, attempts, connection, batchNow, todo, current, seen,
                   operatorVars, errors, accepted>>

(* deliverWebhookEvent reads the event and its connection: nothing is left *)
(* to do, or it throws, or the number of this attempt follows from the row.*)
ReadEvent(d) ==
    LET row == event[current[d]]
    IN  /\ pc[d] = "read"
        /\ \/ row.status = "DELIVERED" /\ Goto(d, "next") /\ UNCHANGED seen
           \/ /\ row.status # "DELIVERED"
              /\ ~Dispatching \/ row.attemptCount >= AttemptLimit(row)
              /\ Goto(d, "error") /\ UNCHANGED seen
           \/ /\ row.status # "DELIVERED"
              /\ Dispatching /\ row.attemptCount < AttemptLimit(row)
              /\ seen' = [seen EXCEPT ![d] = [number |-> row.attemptCount + 1,
                                              limit |-> AttemptLimit(row)]]
              /\ Goto(d, "send")
        /\ UNCHANGED <<clock, event, attempts, connection, batchNow, todo, current,
                       operatorVars, errors, accepted>>

(* The request: accepted; accepted with the answer lost; or not accepted,  *)
(* which includes a request that could not be built.                       *)
Send(d) ==
    /\ pc[d] = "send"
    /\ \/ accepted' = accepted \union {current[d]} /\ (Goto(d, "ok") \/ Goto(d, "failed"))
       \/ UNCHANGED accepted /\ Goto(d, "failed")
    /\ UNCHANGED <<clock, event, attempts, connection, batchNow, todo, current, seen,
                   operatorVars, errors>>

(* The event row after an attempt. *)
AttemptedRow(row, s, delivered) ==
    [row EXCEPT !.attemptCount = s.number,
                !.status = IF delivered THEN "DELIVERED"
                           ELSE IF s.number >= s.limit THEN "ABANDONED" ELSE "FAILED",
                !.nextAttemptAt = IF delivered THEN clock ELSE clock + RetryDelay(s.number)]

(* Fault: the attempt number is not unique. *)
RecordAttempt_NotUnique(d) ==
    LET e == current[d]
    IN  /\ pc[d] \in {"ok", "failed"}
        /\ attempts' = [attempts EXCEPT ![e] = @ \union {seen[d].number}]
        /\ event' = [event EXCEPT ![e] = AttemptedRow(@, seen[d], pc[d] = "ok")]
        /\ connection' = [connection EXCEPT !.status =
                              IF pc[d] = "ok" THEN "CONNECTED" ELSE "DEGRADED"]
        /\ Goto(d, "next")
        /\ UNCHANGED <<clock, batchNow, todo, current, seen, operatorVars, errors, accepted>>

(* The final transaction: the attempt, the event and the connection.  The  *)
(* connection is written whatever an operator has made of it meanwhile.    *)
RecordAttempt(d) ==
    LET e == current[d]
    IN  /\ pc[d] \in {"ok", "failed"}
        /\ seen[d].number \notin attempts[e]
        /\ attempts' = [attempts EXCEPT ![e] = @ \union {seen[d].number}]
        /\ event' = [event EXCEPT ![e] = AttemptedRow(@, seen[d], pc[d] = "ok")]
        /\ connection' = [connection EXCEPT !.status =
                              IF pc[d] = "ok" THEN "CONNECTED" ELSE "DEGRADED"]
        /\ Goto(d, "next")
        /\ UNCHANGED <<clock, batchNow, todo, current, seen, operatorVars, errors, accepted>>

(* The attempt number exists already: the transaction is rolled back. *)
RecordRefused(d) ==
    /\ pc[d] \in {"ok", "failed"}
    /\ seen[d].number \in attempts[current[d]]
    /\ Goto(d, "error")
    /\ UNCHANGED <<clock, event, attempts, connection, batchNow, todo, current, seen,
                   operatorVars, errors, accepted>>

(* Fault: the event is rescheduled whatever has become of it. *)
NoteError_AnyStatus(d) ==
    LET e == current[d]
    IN  /\ pc[d] = "error"
        /\ event' = [event EXCEPT ![e] = [@ EXCEPT !.status = "FAILED",
                                                   !.nextAttemptAt = batchNow[d] + RetryDelay(1)]]
        /\ Goto(d, "next")
        /\ UNCHANGED <<clock, attempts, connection, batchNow, todo, current, seen,
                       operatorVars, errors, accepted>>

(* WEBHOOK_WORKER_ERROR: an event that is still open is rescheduled, from  *)
(* the batch instant and with the first delay.                             *)
NoteError(d) ==
    LET e == current[d]
    IN  /\ pc[d] = "error"
        /\ event' = IF event[e].status \in Open
                    THEN [event EXCEPT ![e] = [@ EXCEPT !.status = "FAILED",
                              !.nextAttemptAt = batchNow[d] + RetryDelay(1)]]
                    ELSE event
        /\ Goto(d, "next")
        /\ UNCHANGED <<clock, attempts, connection, batchNow, todo, current, seen,
                       operatorVars, errors, accepted>>

(* A statement of the delivery fails, or the one that notes the failure.   *)
DatabaseError(d) ==
    /\ errors < MaxErrors
    /\ errors' = errors + 1
    /\ \/ pc[d] \in {"read", "ok", "failed"} /\ Goto(d, "error")
       \/ pc[d] = "error" /\ Goto(d, "next")
    /\ UNCHANGED <<clock, event, attempts, connection, batchNow, todo, current, seen,
                   operatorVars, accepted>>

(* The process dies, or a claim fails and ends the batch. *)
Crash(d) ==
    /\ pc[d] # "idle"
    /\ errors < MaxErrors
    /\ errors' = errors + 1
    /\ Goto(d, "idle")
    /\ todo' = [todo EXCEPT ![d] = {}]
    /\ UNCHANGED <<clock, event, attempts, connection, batchNow, current, seen,
                   operatorVars, accepted>>

-----------------------------------------------------------------------------
(* recoverAbandonedWebhookEvents reads what may be recovered ... *)
FindAbandoned ==
    /\ Dispatching
    /\ toRecover' = toRecover \union
          {<<e, event[e].recoveryCount, clock>> : e \in
              {x \in Event : /\ event[x].status = "ABANDONED"
                             /\ event[x].recoveryCount < MaxRecovery}}
    /\ UNCHANGED <<clock, event, attempts, connection, dispatcherVars, decided, operations,
                   errors, accepted>>

RecoveredRow(row, now) ==
    [row EXCEPT !.recoveryCount = @ + 1, !.status = "FAILED", !.nextAttemptAt = now]

(* ... and starts a new cycle for each row that is still as it was. *)
RecoverEvent(e, count, now) ==
    /\ <<e, count, now>> \in toRecover
    /\ toRecover' = toRecover \ {<<e, count, now>>}
    /\ event' = IF event[e].status = "ABANDONED" /\ event[e].recoveryCount = count
                THEN [event EXCEPT ![e] = RecoveredRow(@, now)]
                ELSE event
    /\ UNCHANGED <<clock, attempts, connection, dispatcherVars, decided, operations, errors,
                   accepted>>

(* An operator's action on the connection passes its check ... *)
Decide(a) ==
    /\ decided = "none"
    /\ operations < MaxOperations
    /\ connection.status # "REVOKED" \/ a = "revoke"
    /\ decided' = a
    /\ operations' = operations + 1
    /\ UNCHANGED <<clock, event, attempts, connection, dispatcherVars, toRecover, errors,
                   accepted>>

(* ... and updates the row by its id. *)
Apply ==
    /\ decided # "none"
    /\ connection' =
          CASE decided = "disconnect"    -> [connection EXCEPT !.status = "DISCONNECTED"]
            [] decided = "reconnect"     -> [connection EXCEPT !.status = "CONNECTED"]
            [] decided = "revoke"        -> [status |-> "REVOKED", revoked |-> TRUE]
            [] decided = "rotate_secret" -> [status |-> "CONNECTED", revoked |-> FALSE]
    /\ decided' = "none"
    /\ UNCHANGED <<clock, event, attempts, dispatcherVars, toRecover, operations, errors,
                   accepted>>

TimeMatters ==
    \/ \E e \in Event : event[e].status \in Open /\ event[e].nextAttemptAt > clock
    \/ \E d \in Dispatcher : pc[d] # "idle" /\ clock < batchNow[d] + MaxBatchTicks

Tick ==
    /\ clock < MaxClock
    /\ TimeMatters
    /\ clock' = clock + 1
    /\ UNCHANGED <<event, attempts, connection, dispatcherVars, operatorVars, errors, accepted>>

DispatcherStep(d) ==
    \/ FindDue(d)
    \/ \E e \in Event : LockEvent(d, e) \/ SkipEvent(d, e)
    \/ EndBatch(d)
    \/ ReadEvent(d)
    \/ Send(d)
    \/ RecordAttempt(d)
    \/ RecordRefused(d)
    \/ NoteError(d)

OperatorStep ==
    \/ FindAbandoned
    \/ \E found \in toRecover : RecoverEvent(found[1], found[2], found[3])
    \/ \E a \in Action : Decide(a)
    \/ Apply

Next ==
    \/ \E e \in Event : QueueEvent(e)
    \/ \E d \in Dispatcher : DispatcherStep(d) \/ DatabaseError(d) \/ Crash(d)
    \/ OperatorStep
    \/ Tick

Spec == Init /\ [][Next]_vars

-----------------------------------------------------------------------------
(* A dispatcher past the claim has an event, and past the read a number.   *)
TypeOK ==
    /\ clock \in Nat
    /\ event \in [Event -> Row]
    /\ attempts \in [Event -> SUBSET Nat]
    /\ connection \in [status : Active \union {"DISCONNECTED", "REVOKED"}, revoked : BOOLEAN]
    /\ pc \in [Dispatcher -> PC]
    /\ batchNow \in [Dispatcher -> Nat]
    /\ todo \in [Dispatcher -> SUBSET Event]
    /\ current \in [Dispatcher -> Event \union {NoEvent}]
    /\ seen \in [Dispatcher -> Snapshot]
    /\ \A d \in Dispatcher : pc[d] \notin {"idle", "next"} => current[d] \in Event
    /\ toRecover \subseteq Event \X Nat \X Nat
    /\ decided \in Action \union {"none"}
    /\ errors \in Nat /\ operations \in Nat
    /\ accepted \subseteq Event

(* docs/phase-12b: every attempt keeps its evidence.  The attempts of an   *)
(* event are numbered without gaps up to its attemptCount, although several*)
(* dispatchers may be at the same attempt.                                 *)
EvidenceComplete == \A e \in Event : attempts[e] = 1..event[e].attemptCount

(* docs/phase-12b: five attempts per cycle, then the event stops until it  *)
(* is recovered, at most three times.  An event is abandoned exactly when  *)
(* the attempts of its cycles are used up; an open one always has attempts *)
(* left, or every batch would claim it again only to fail.                 *)
BudgetRespected ==
    \A e \in Event :
        LET row == event[e]
        IN  /\ row.recoveryCount <= MaxRecovery
            /\ row.attemptCount <= AttemptLimit(row)
            /\ row.status \in Open => row.attemptCount < AttemptLimit(row)
            /\ row.status = "ABANDONED" => row.attemptCount = AttemptLimit(row)

(* An event is DELIVERED only if the endpoint has accepted it, also when   *)
(* answers are lost and dispatchers overtake each other.                   *)
DeliveredWasAccepted ==
    \A e \in Event : event[e].status = "DELIVERED" => e \in accepted

(* A delivered event stays delivered: neither a slower dispatcher, nor its *)
(* error path, nor an operator's recovery opens it again.                  *)
KeepsDelivered == \A e \in Event : event[e].status = "DELIVERED" => event'[e] = event[e]

DeliveredIsFinal == [][KeepsDelivered]_vars

(* docs/phase-12b: an abandoned event starts again only as the next cycle. *)
KeepsAbandoned ==
    \A e \in Event :
        event[e].status = "ABANDONED" =>
            \/ event'[e] = event[e]
            \/ event'[e] = RecoveredRow(event[e], event'[e].nextAttemptAt)

AbandonedUntilRecovered == [][KeepsAbandoned]_vars

(* What a dispatcher has read is the row as it is, unless the number of    *)
(* its attempt has been taken meanwhile.                                   *)
SnapshotUsable ==
    \A d \in Dispatcher : pc[d] \in {"send", "ok", "failed"} =>
        LET row == event[current[d]]
        IN  /\ seen[d].number \in 1..(row.attemptCount + 1)
            /\ seen[d].number = row.attemptCount + 1 =>
                  row.status \in Open /\ seen[d].limit = AttemptLimit(row)

SentWhenOk == \A d \in Dispatcher : pc[d] = "ok" => current[d] \in accepted

NeverQueued == \A e \in Event : event[e].status = "ABSENT" => event[e] = AbsentRow

(* What an operator has found may still be recovered once more. *)
RecoveriesLeft == \A found \in toRecover : found[2] < MaxRecovery

ClaimedExists ==
    \A d \in Dispatcher : pc[d] \notin {"idle", "next"} => event[current[d]].status # "ABSENT"

(* The inductive invariant of the proofs in OutgoingWebhookProofs. *)
IInv ==
    /\ TypeOK
    /\ NeverQueued
    /\ RecoveriesLeft
    /\ ClaimedExists
    /\ EvidenceComplete
    /\ BudgetRespected
    /\ SnapshotUsable
    /\ SentWhenOk
    /\ DeliveredWasAccepted

(* What a delivery's records are worth in every state: an attempt left its *)
(* evidence, no cycle exceeds its budget, DELIVERED means an answer.       *)
DeliveriesSound == EvidenceComplete /\ BudgetRespected /\ DeliveredWasAccepted
=============================================================================
