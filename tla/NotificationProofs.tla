------------------------- MODULE NotificationProofs -------------------------
(***************************************************************************)
(* What holds of NotificationDelivery for any number of workers, events    *)
(* and members, in particular when two workers have the same event.        *)
(***************************************************************************)
EXTENDS NotificationDelivery, TLAPS

QueueProofs == INSTANCE JobQueueProofs

(* The queue of the composition is the queue of JobQueueProofs. *)
LEMMA SameType == Queue!TypeOK <=> QueueProofs!TypeOK
BY DEF Queue!TypeOK, QueueProofs!TypeOK, Queue!Row, QueueProofs!Row,
       Queue!Status, QueueProofs!Status, Queue!PC, QueueProofs!PC,
       Queue!Snapshot, QueueProofs!Snapshot, Queue!Null, QueueProofs!Null,
       Queue!ClaimableStatus, QueueProofs!ClaimableStatus,
       Queue!Settled, QueueProofs!Settled

LEMMA SameVars ==
    /\ UNCHANGED Queue!vars => UNCHANGED QueueProofs!vars
    /\ UNCHANGED queueVars => UNCHANGED Queue!vars
BY DEF Queue!vars, QueueProofs!vars, queueVars

LEMMA SameWorkerStep ==
    ASSUME NEW w \in Worker, Queue!WorkerStep(w)
    PROVE  QueueProofs!WorkerStep(w)
<1> USE DEF Queue!Goto, QueueProofs!Goto, Queue!Null, QueueProofs!Null,
            Queue!boundVars, QueueProofs!boundVars
<1>1. CASE Queue!FindCandidates(w)
  <2>1. {k \in Job : Queue!Eligible(k, clock)} = {k \in Job : QueueProofs!Eligible(k, clock)}
    BY DEF Queue!Eligible, QueueProofs!Eligible
  <2>2. ASSUME NEW S PROVE Queue!FirstBatch(S) = QueueProofs!FirstBatch(S)
    <3>1. \A T : Queue!Cardinality(T) = QueueProofs!Cardinality(T)
      BY Zenon DEF Queue!Cardinality, QueueProofs!Cardinality
    <3>2. QED
      BY <3>1 DEF Queue!FirstBatch, QueueProofs!FirstBatch, Queue!Precedes, QueueProofs!Precedes
  <2>3. QED
    BY <1>1, <2>1, <2>2, Zenon DEF Queue!FindCandidates, QueueProofs!FindCandidates, QueueProofs!WorkerStep
<1>2. CASE Queue!ClaimRow(w)
  BY <1>2 DEF Queue!ClaimRow, QueueProofs!ClaimRow, QueueProofs!WorkerStep,
              Queue!NextCandidate, QueueProofs!NextCandidate, Queue!Precedes, QueueProofs!Precedes,
              Queue!StillClaimable, QueueProofs!StillClaimable,
              Queue!ClaimableStatus, QueueProofs!ClaimableStatus,
              Queue!LeasedRow, QueueProofs!LeasedRow
<1>3. CASE Queue!SkipCandidate(w)
  BY <1>3 DEF Queue!SkipCandidate, QueueProofs!SkipCandidate, QueueProofs!WorkerStep,
              Queue!NextCandidate, QueueProofs!NextCandidate, Queue!Precedes, QueueProofs!Precedes,
              Queue!StillClaimable, QueueProofs!StillClaimable,
              Queue!ClaimableStatus, QueueProofs!ClaimableStatus
<1>4. CASE Queue!RereadRow(w)
  BY <1>4 DEF Queue!RereadRow, QueueProofs!RereadRow, QueueProofs!WorkerStep
<1>5. CASE Queue!StartProcessing(w)
  BY <1>5 DEF Queue!StartProcessing, QueueProofs!StartProcessing, QueueProofs!WorkerStep
<1>6. CASE Queue!RunHandler(w)
  BY <1>6 DEF Queue!RunHandler, QueueProofs!RunHandler, QueueProofs!WorkerStep
<1>7. CASE Queue!FinishBatch(w)
  BY <1>7 DEF Queue!FinishBatch, QueueProofs!FinishBatch, QueueProofs!WorkerStep
<1>8. CASE Queue!CompleteJob(w)
  BY <1>8 DEF Queue!CompleteJob, QueueProofs!CompleteJob, QueueProofs!WorkerStep,
              Queue!HoldsLease, QueueProofs!HoldsLease,
              Queue!CompletedRow, QueueProofs!CompletedRow
<1>9. CASE Queue!CompleteRefused(w)
  BY <1>9 DEF Queue!CompleteRefused, QueueProofs!CompleteRefused, QueueProofs!WorkerStep,
              Queue!HoldsLease, QueueProofs!HoldsLease
<1>10. CASE Queue!FailJob(w)
  BY <1>10 DEF Queue!FailJob, QueueProofs!FailJob, QueueProofs!WorkerStep,
               Queue!HoldsLease, QueueProofs!HoldsLease, Queue!FailedRow, QueueProofs!FailedRow,
               Queue!RetryDelay, QueueProofs!RetryDelay
<1>11. CASE Queue!AbortBatch(w)
  BY <1>11 DEF Queue!AbortBatch, QueueProofs!AbortBatch, QueueProofs!WorkerStep,
               Queue!HoldsLease, QueueProofs!HoldsLease
<1>12. QED
  BY <1>1, <1>2, <1>3, <1>4, <1>5, <1>6, <1>7, <1>8, <1>9, <1>10, <1>11 DEF Queue!WorkerStep

LEMMA SameNext ==
    ASSUME [Queue!Next]_(Queue!vars)
    PROVE  [QueueProofs!Next]_(QueueProofs!vars)
<1>1. ASSUME NEW j \in Job, Queue!Enqueue(j) PROVE QueueProofs!Enqueue(j)
  BY <1>1 DEF Queue!Enqueue, QueueProofs!Enqueue, Queue!workerVars, QueueProofs!workerVars,
              Queue!boundVars, QueueProofs!boundVars
<1>2. ASSUME NEW j \in Job, Queue!RetryDeadLetter(j) PROVE QueueProofs!RetryDeadLetter(j)
  BY <1>2 DEF Queue!RetryDeadLetter, QueueProofs!RetryDeadLetter,
              Queue!workerVars, QueueProofs!workerVars
<1>3. ASSUME NEW w \in Worker, Queue!Crash(w) PROVE QueueProofs!Crash(w)
  BY <1>3 DEF Queue!Crash, QueueProofs!Crash, Queue!Goto, QueueProofs!Goto,
              Queue!Null, QueueProofs!Null
<1>4. ASSUME Queue!Tick PROVE QueueProofs!Tick
  BY <1>4 DEF Queue!Tick, QueueProofs!Tick, Queue!TimeMatters, QueueProofs!TimeMatters,
              Queue!workerVars, QueueProofs!workerVars, Queue!boundVars, QueueProofs!boundVars
<1>5. QED
  BY <1>1, <1>2, <1>3, <1>4, SameWorkerStep, SameVars DEF Queue!Next, QueueProofs!Next

-----------------------------------------------------------------------------
(* Every step of a worker, of its handler and of a member is a step of the *)
(* queue or leaves the queue alone.                                        *)
LEMMA LeaveRuns ==
    ASSUME NEW w \in Worker, NEW outcome, Leave(w, outcome)
    PROVE  Queue!WorkerStep(w)
BY DEF Leave, Queue!WorkerStep

LEMMA HandlerIsQueueStep ==
    ASSUME NEW w \in Worker, HandlerStep(w)
    PROVE  Queue!WorkerStep(w) \/ UNCHANGED queueVars
BY LeaveRuns DEF HandlerStep, AlreadyDispatched, ReadEvent, CreateInApp, NextRecipient, SendEmail,
       RecordOutcome, RecordFailure, QueueWebhook, MarkDispatched, HandlerThrows, Then

LEMMA MemberLeavesQueue ==
    ASSUME MemberStep
    PROVE  UNCHANGED <<queueVars, handlerVars, historyVars, email, webhook, dispatched>>
BY DEF MemberStep, SetPreference, BulkUpdate, ReadInApp, DismissInApp, evidenceVars

LEMMA StepImplements ==
    ASSUME [Next]_vars
    PROVE  [Queue!Next]_(Queue!vars)
<1>1. ASSUME NEW w \in Worker, HandlerStep(w) PROVE [Queue!Next]_(Queue!vars)
  BY <1>1, HandlerIsQueueStep, SameVars DEF Queue!Next
<1>2. ASSUME NEW w \in Worker, QueueStep(w) PROVE Queue!Next
  BY <1>2 DEF QueueStep, Queue!Next, Queue!WorkerStep
<1>3. ASSUME NEW w \in Worker, CrashWorker(w) PROVE Queue!Next
  BY <1>3 DEF CrashWorker, Queue!Next
<1>4. ASSUME OutsideStep PROVE Queue!Next
  BY <1>4 DEF OutsideStep, Queue!Next
<1>5. ASSUME MemberStep \/ UNCHANGED vars PROVE UNCHANGED queueVars
  BY <1>5, MemberLeavesQueue DEF vars
<1>6. QED
  BY <1>1, <1>2, <1>3, <1>4, <1>5, SameVars DEF Next

LEMMA QueueTypeInit == Queue!Init => Queue!TypeOK
BY DEF Queue!Init, Queue!TypeOK, Queue!Row, Queue!Status, Queue!PC, Queue!Snapshot, Queue!Null,
       Queue!ClaimableStatus, Queue!Settled, Queue!AbsentRow

LEMMA QueueTypeStep ==
    ASSUME Queue!TypeOK, [Next]_vars
    PROVE  Queue!TypeOK'
<1>1. QueueProofs!TypeOK /\ [QueueProofs!Next]_(QueueProofs!vars)
  BY StepImplements, SameNext, SameType
<1>2. QueueProofs!TypeOK'
  BY <1>1, QueueProofs!TypeStep, QueueAssumption
<1>3. QED
  BY <1>2, SameType, PTL

-----------------------------------------------------------------------------
(* What an inductive step needs: evidence only grows, and a worker's step  *)
(* leaves the others where they are.                                       *)
EvidenceGrows ==
    /\ \A j \in Job, r \in Recipient :
          /\ inApp[j][r] # "none" => inApp'[j][r] # "none"
          /\ email[j][r] # "none" => email'[j][r] # "none"
          /\ accepted[j][r] > 0 => accepted'[j][r] > 0
    /\ webhook \subseteq webhook' /\ dispatched \subseteq dispatched'

Stays(v) ==
    /\ phase'[v] = phase[v] /\ pc'[v] = pc[v] /\ claimed'[v] = claimed[v]
    /\ mailTo'[v] = mailTo[v] /\ toMail'[v] = toMail[v] /\ mailing'[v] = mailing[v]

LEMMA EventType ==
    ASSUME Queue!TypeOK, NEW w \in Worker, claimed[w] # << >>
    PROVE  Event(w) \in Job
<1>1. claimed[w] \in Seq(Queue!Snapshot)
  BY DEF Queue!TypeOK
<1>2. Head(claimed[w]) \in Queue!Snapshot
  BY <1>1
<1>3. QED
  BY <1>2 DEF Event, Queue!Snapshot

(* A worker in the handler, or about to complete, has an event. *)
LEMMA Busy ==
    ASSUME IInv, NEW w \in Worker, phase[w] # "off" \/ pc[w] \in {"complete", "fail"}
    PROVE  claimed[w] # << >> /\ Event(w) \in Job
<1>1. claimed[w] # << >>
  BY DEF IInv, HandlerInv, TypeOK, Queue!TypeOK
<1>2. QED
  BY <1>1, EventType DEF IInv, TypeOK

LEMMA StayingKeepsInv ==
    ASSUME IInv, NEW v \in Worker, Stays(v), EvidenceGrows
    PROVE  HandlerInv(v)'
<1>1. Event(v)' = Event(v)
  BY DEF Stays, Event
<1>2. HandlerInv(v)
  BY DEF IInv
<1>3. (phase[v] # "off" \/ pc[v] = "complete") => Event(v) \in Job
  BY Busy
<1>4. phase[v] = "sent" => mailing[v] \in Recipient
  BY DEF IInv, TypeOK
<1>5. mailTo[v] \subseteq Recipient
  BY DEF IInv, TypeOK
<1>6. QED
  BY <1>1, <1>2, <1>3, <1>4, <1>5 DEF HandlerInv, Stays, EvidenceGrows

(* Steps that do not dispatch. *)
LEMMA GrowingKeepsDispatched ==
    ASSUME DispatchedIsComplete, PromisesKept, TypeOK, EvidenceGrows,
           UNCHANGED <<dispatched, promised>>
    PROVE  DispatchedIsComplete' /\ PromisesKept'
BY DEF DispatchedIsComplete, PromisesKept, TypeOK, EvidenceGrows

(* One step of a handler: its own part of the invariant, and what it does  *)
(* to the evidence.                                                        *)
HandlerEffect(w) ==
    /\ HandlerInv(w)'
    /\ \A v \in Worker \ {w} : Stays(v)
    /\ EvidenceGrows
    /\ EvidenceOfMail'
    /\ DispatchedIsComplete' /\ PromisesKept'
    /\ UNCHANGED <<rows, claimed>>
    /\ TypeOK'

LEMMA Leaving ==
    ASSUME IInv, NEW w \in Worker, NEW outcome \in {"complete", "fail"}, Leave(w, outcome),
           outcome = "complete" => Event(w) \in dispatched'
    PROVE  /\ HandlerInv(w)'
           /\ \A v \in Worker \ {w} : Stays(v)
           /\ UNCHANGED <<rows, claimed>>
           /\ pc[w] = "run" /\ claimed[w] # << >>
           /\ phase' \in [Worker -> Phase]
           /\ mailTo' \in [Worker -> SUBSET Recipient]
           /\ toMail' \in [Worker -> SUBSET Recipient]
           /\ muteSeen' \in [Worker -> SUBSET Recipient]
           /\ mailing' \in [Worker -> Recipient \union {Nobody}]
           /\ \A v \in Worker :
                /\ phase'[v] # "off" => pc'[v] = "run"
                /\ phase'[v] \in {"send", "sent", "refused", "unavailable"} <=> mailing'[v] # Nobody
<1>1. /\ pc \in [Worker -> Queue!PC] /\ TypeOK
  BY DEF IInv, TypeOK, Queue!TypeOK
<1>2. /\ pc[w] = "run" /\ claimed[w] # << >> /\ UNCHANGED <<rows, claimed>>
      /\ pc' = [pc EXCEPT ![w] = outcome]
      /\ phase' = [phase EXCEPT ![w] = "off"] /\ mailTo' = [mailTo EXCEPT ![w] = {}]
      /\ toMail' = [toMail EXCEPT ![w] = {}] /\ muteSeen' = [muteSeen EXCEPT ![w] = {}]
      /\ mailing' = [mailing EXCEPT ![w] = Nobody]
  BY DEF Leave, Queue!RunHandler
<1>3. Event(w)' = Event(w)
  BY <1>2 DEF Event
<1>4. phase'[w] = "off" /\ pc'[w] = outcome
  BY <1>1, <1>2 DEF TypeOK
<1>5. HandlerInv(w)'
  BY <1>3, <1>4 DEF HandlerInv
<1>6. \A v \in Worker \ {w} : Stays(v)
  BY <1>1, <1>2 DEF Stays
<1>7. QED
  BY <1>1, <1>2, <1>5, <1>6 DEF TypeOK, Phase

LEMMA Continuing ==
    ASSUME IInv, NEW w \in Worker, NEW label \in Phase \ {"off"},
           pc[w] = "run", claimed[w] # << >>, Then(w, label)
    PROVE  /\ UNCHANGED <<rows, claimed, pc>> /\ Event(w)' = Event(w) /\ Event(w) \in Job
           /\ phase' \in [Worker -> Phase] /\ phase'[w] = label
           /\ \A v \in Worker \ {w} : phase'[v] = phase[v]
<1>1. UNCHANGED <<rows, claimed, pc>> /\ phase' = [phase EXCEPT ![w] = label]
  BY DEF Then, queueVars
<1>2. Event(w)' = Event(w) /\ Event(w) \in Job
  BY <1>1, EventType DEF Event, IInv, TypeOK
<1>3. QED
  BY <1>1, <1>2 DEF IInv, TypeOK

LEMMA AlreadyDispatchedEffect ==
    ASSUME IInv, NEW w \in Worker, AlreadyDispatched(w), Queue!TypeOK'
    PROVE  HandlerEffect(w)
<1>1. /\ Leave(w, "complete") /\ Event(w) \in dispatched
      /\ UNCHANGED <<preferenceVars, evidenceVars, historyVars>>
  BY DEF AlreadyDispatched
<1>2. /\ EvidenceGrows /\ dispatched' = dispatched
  BY <1>1 DEF EvidenceGrows, evidenceVars, historyVars
<1>3. EvidenceOfMail' /\ DispatchedIsComplete' /\ PromisesKept'
  BY <1>1 DEF IInv, EvidenceOfMail, DispatchedIsComplete, PromisesKept, evidenceVars, historyVars
<1>4. TypeOK'
  BY <1>1, <1>2, Leaving DEF IInv, TypeOK, preferenceVars, evidenceVars, historyVars
<1>5. QED
  BY <1>1, <1>2, <1>3, <1>4, Leaving DEF HandlerEffect

LEMMA HandlerThrowsEffect ==
    ASSUME IInv, NEW w \in Worker, HandlerThrows(w), Queue!TypeOK'
    PROVE  HandlerEffect(w)
<1>1. /\ Leave(w, "fail")
      /\ UNCHANGED <<preferenceVars, evidenceVars, historyVars>>
  BY DEF HandlerThrows
<1>2. /\ EvidenceGrows /\ dispatched' = dispatched
  BY <1>1 DEF EvidenceGrows, evidenceVars, historyVars
<1>3. EvidenceOfMail' /\ DispatchedIsComplete' /\ PromisesKept'
  BY <1>1 DEF IInv, EvidenceOfMail, DispatchedIsComplete, PromisesKept, evidenceVars, historyVars
<1>4. TypeOK'
  BY <1>1, <1>2, Leaving DEF IInv, TypeOK, preferenceVars, evidenceVars, historyVars
<1>5. QED
  BY <1>1, <1>2, <1>3, <1>4, Leaving DEF HandlerEffect

LEMMA RecordFailureEffect ==
    ASSUME IInv, NEW w \in Worker, RecordFailure(w), Queue!TypeOK'
    PROVE  HandlerEffect(w)
<1>1. /\ Leave(w, "fail") /\ phase[w] = "refused"
      /\ email' = [email EXCEPT ![Event(w)][mailing[w]] = "FAILED"]
      /\ UNCHANGED <<preferenceVars, inApp, webhook, dispatched, historyVars>>
  BY DEF RecordFailure, At, RecordEmail
<1>2. Event(w) \in Job /\ mailing[w] \in Recipient
  BY <1>1, Busy DEF IInv, TypeOK
<1>3. email' \in [Job -> [Recipient -> EmailRow]]
  BY <1>1, <1>2 DEF IInv, TypeOK, EmailRow
<1>4. \A j \in Job, r \in Recipient :
        email'[j][r] = IF j = Event(w) /\ r = mailing[w] THEN "FAILED" ELSE email[j][r]
  BY <1>1, <1>2 DEF IInv, TypeOK
<1>5. /\ EvidenceGrows /\ dispatched' = dispatched
  BY <1>1, <1>4 DEF EvidenceGrows, historyVars
<1>6. EvidenceOfMail'
  BY <1>1, <1>4 DEF IInv, EvidenceOfMail, historyVars
<1>7. DispatchedIsComplete' /\ PromisesKept'
  BY <1>1, <1>5, GrowingKeepsDispatched DEF IInv, historyVars
<1>8. TypeOK'
  BY <1>1, <1>3, Leaving DEF IInv, TypeOK, preferenceVars, historyVars
<1>9. QED
  BY <1>1, <1>5, <1>6, <1>7, <1>8, Leaving DEF HandlerEffect

LEMMA MarkDispatchedEffect ==
    ASSUME IInv, NEW w \in Worker, MarkDispatched(w), Queue!TypeOK'
    PROVE  HandlerEffect(w)
<1>1. /\ Leave(w, "complete") /\ phase[w] = "dispatch"
      /\ dispatched' = dispatched \union {Event(w)}
      /\ promised' = [promised EXCEPT ![Event(w)] = @ \union mailTo[w]]
      /\ UNCHANGED <<preferenceVars, inApp, email, webhook, accepted>>
  BY DEF MarkDispatched, At
<1>2. Event(w) \in Job /\ mailTo[w] \subseteq Recipient
  BY <1>1, Busy DEF IInv, TypeOK
<1>3. \A j \in Job : promised'[j] = IF j = Event(w) THEN promised[j] \union mailTo[w] ELSE promised[j]
  BY <1>1, <1>2 DEF IInv, TypeOK
<1>4. EvidenceGrows
  BY <1>1 DEF EvidenceGrows
<1>5. EvidenceOfMail'
  BY <1>1 DEF IInv, EvidenceOfMail
<1>6. /\ Event(w) \in webhook /\ mailing[w] = Nobody
      /\ \A r \in Recipient : inApp[Event(w)][r] # "none"
      /\ \A r \in mailTo[w] : email[Event(w)][r] # "none"
  BY <1>1, <1>2, RecipientAssumption DEF IInv, HandlerInv, TypeOK
<1>7. PromisesKept'
  BY <1>1, <1>3, <1>6 DEF IInv, PromisesKept
<1>8. dispatched \subseteq Job
  BY DEF IInv, TypeOK
<1>9. ASSUME NEW j \in dispatched'
       PROVE  /\ j \in webhook' /\ \A r \in Recipient : inApp'[j][r] # "none"
              /\ \A r \in promised'[j] : email'[j][r] # "none"
  <2>1. j \in Job /\ (j = Event(w) \/ j \in dispatched)
    BY <1>1, <1>2, <1>8, <1>9
  <2>2. \A r \in promised'[j] : email'[j][r] # "none"
    BY <1>7, <2>1 DEF PromisesKept
  <2>3. QED
    BY <1>1, <1>6, <2>1, <2>2 DEF IInv, DispatchedIsComplete
<1>10. DispatchedIsComplete' /\ PromisesKept'
  BY <1>7, <1>9 DEF DispatchedIsComplete
<1>11. promised' \in [Job -> SUBSET Recipient] /\ dispatched' \subseteq Job
  BY <1>1, <1>2 DEF IInv, TypeOK
<1>12. TypeOK'
  BY <1>1, <1>11, Leaving DEF IInv, TypeOK, preferenceVars
<1>13. QED
  BY <1>1, <1>4, <1>5, <1>10, <1>12, Leaving DEF HandlerEffect

(* The steps that go on inside the handler. *)
LEMMA ReadEventEffect ==
    ASSUME IInv, NEW w \in Worker, ReadEvent(w), Queue!TypeOK'
    PROVE  HandlerEffect(w)
<1>1. /\ pc[w] = "run" /\ claimed[w] # << >> /\ Then(w, "inApp")
      /\ mailTo' = [mailTo EXCEPT ![w] = optedIn] /\ toMail' = [toMail EXCEPT ![w] = optedIn]
      /\ muteSeen' = [muteSeen EXCEPT ![w] = muted]
      /\ UNCHANGED <<preferenceVars, evidenceVars, mailing, historyVars>>
  BY DEF ReadEvent, At
<1>2. "inApp" \in Phase \ {"off"}
  BY DEF Phase
<1>3. /\ UNCHANGED <<rows, claimed, pc>> /\ phase' \in [Worker -> Phase] /\ phase'[w] = "inApp"
      /\ \A v \in Worker \ {w} : phase'[v] = phase[v]
  BY <1>1, <1>2, Continuing
<1>4. mailTo'[w] = optedIn /\ toMail'[w] = optedIn
  BY <1>1 DEF IInv, TypeOK
<1>5. HandlerInv(w)'
  BY <1>1, <1>3, <1>4 DEF HandlerInv
<1>6. \A v \in Worker \ {w} : Stays(v)
  BY <1>1, <1>3 DEF IInv, TypeOK, Stays
<1>7. EvidenceGrows
  BY <1>1 DEF EvidenceGrows, evidenceVars, historyVars
<1>8. EvidenceOfMail' /\ DispatchedIsComplete' /\ PromisesKept'
  BY <1>1 DEF IInv, EvidenceOfMail, DispatchedIsComplete, PromisesKept, evidenceVars, historyVars
<1>9. mailing[w] = Nobody
  <2>1. phase[w] = "off"
    BY DEF ReadEvent, At
  <2>2. QED
    BY <2>1 DEF IInv, TypeOK
<1>10. TypeOK'
  BY <1>1, <1>3, <1>9 DEF IInv, TypeOK, preferenceVars, evidenceVars, historyVars
<1>11. QED
  BY <1>3, <1>5, <1>6, <1>7, <1>8, <1>10 DEF HandlerEffect

LEMMA CreateInAppEffect ==
    ASSUME IInv, NEW w \in Worker, CreateInApp(w), Queue!TypeOK'
    PROVE  HandlerEffect(w)
<1>1. /\ pc[w] = "run" /\ claimed[w] # << >> /\ phase[w] = "inApp" /\ Then(w, "next")
      /\ inApp' = [inApp EXCEPT ![Event(w)] = [r \in Recipient |->
              IF @[r] # "none" THEN @[r]
              ELSE IF r \in muteSeen[w] THEN "SKIPPED" ELSE "unread"]]
      /\ UNCHANGED <<preferenceVars, email, webhook, dispatched, mailTo, toMail, muteSeen,
                     mailing, historyVars>>
  BY DEF CreateInApp, At
<1>2. "next" \in Phase \ {"off"}
  BY DEF Phase
<1>3. /\ UNCHANGED <<rows, claimed, pc>> /\ phase' \in [Worker -> Phase] /\ phase'[w] = "next"
      /\ \A v \in Worker \ {w} : phase'[v] = phase[v]
      /\ Event(w)' = Event(w) /\ Event(w) \in Job
  BY <1>1, <1>2, Continuing
<1>4. inApp' \in [Job -> [Recipient -> InAppRow]]
  BY <1>1, <1>3 DEF IInv, TypeOK, InAppRow
<1>5. \A j \in Job, r \in Recipient :
        /\ inApp[j][r] # "none" => inApp'[j][r] # "none"
        /\ inApp'[Event(w)][r] # "none"
  BY <1>1, <1>3 DEF IInv, TypeOK
<1>6. HandlerInv(w)'
  BY <1>1, <1>3, <1>5 DEF IInv, HandlerInv, historyVars
<1>7. \A v \in Worker \ {w} : Stays(v)
  BY <1>1, <1>3 DEF Stays
<1>8. EvidenceGrows
  BY <1>1, <1>5 DEF EvidenceGrows, historyVars
<1>9. EvidenceOfMail'
  BY <1>1 DEF IInv, EvidenceOfMail, historyVars
<1>10. DispatchedIsComplete' /\ PromisesKept'
  BY <1>1, <1>8, GrowingKeepsDispatched DEF IInv, historyVars
<1>11. TypeOK'
  BY <1>1, <1>3, <1>4 DEF IInv, TypeOK, preferenceVars, historyVars
<1>12. QED
  BY <1>3, <1>6, <1>7, <1>8, <1>9, <1>10, <1>11 DEF HandlerEffect

LEMMA NextRecipientEffect ==
    ASSUME IInv, NEW w \in Worker, NextRecipient(w), Queue!TypeOK'
    PROVE  HandlerEffect(w)
<1>1. PICK r \in toMail[w] :
        /\ toMail' = [toMail EXCEPT ![w] = @ \ {r}]
        /\ \/ email[Event(w)][r] = "DELIVERED" /\ Then(w, "next") /\ UNCHANGED mailing
           \/ Then(w, "send") /\ mailing' = [mailing EXCEPT ![w] = r]
  BY DEF NextRecipient
<1>2. /\ pc[w] = "run" /\ claimed[w] # << >> /\ phase[w] = "next"
      /\ UNCHANGED <<preferenceVars, evidenceVars, mailTo, muteSeen, historyVars>>
  BY DEF NextRecipient, At
<1>3. PICK label \in {"next", "send"} :
        /\ Then(w, label)
        /\ label = "next" => email[Event(w)][r] = "DELIVERED" /\ UNCHANGED mailing
        /\ label = "send" => mailing' = [mailing EXCEPT ![w] = r]
  BY <1>1
<1>4. label \in Phase \ {"off"}
  BY <1>3 DEF Phase
<1>5. /\ UNCHANGED <<rows, claimed, pc>> /\ phase' \in [Worker -> Phase] /\ phase'[w] = label
      /\ \A v \in Worker \ {w} : phase'[v] = phase[v]
      /\ Event(w)' = Event(w) /\ Event(w) \in Job
  BY <1>2, <1>3, <1>4, Continuing
<1>6. toMail[w] \subseteq Recipient /\ r \in Recipient /\ r # Nobody
  BY <1>1, RecipientAssumption DEF IInv, TypeOK
<1>7. mailing[w] = Nobody
  BY <1>2 DEF IInv, TypeOK
<1>8. /\ toMail' \in [Worker -> SUBSET Recipient] /\ toMail'[w] = toMail[w] \ {r}
      /\ mailing' \in [Worker -> Recipient \union {Nobody}]
      /\ mailing'[w] = IF label = "send" THEN r ELSE Nobody
      /\ \A v \in Worker \ {w} : mailing'[v] = mailing[v] /\ toMail'[v] = toMail[v]
  BY <1>1, <1>3, <1>6, <1>7 DEF IInv, TypeOK
<1>9. HandlerInv(w)
  BY DEF IInv
<1>10. HandlerInv(w)'
  <2>1. \A q \in mailTo[w] : q # Nobody
    BY RecipientAssumption DEF IInv, TypeOK
  <2>2. \A q \in mailTo[w] : q \in toMail[w] \/ email[Event(w)][q] # "none"
    BY <1>2, <1>7, <1>9, <2>1 DEF HandlerInv
  <2>3. \A q \in mailTo[w] : q \in toMail'[w] \/ q = mailing'[w] \/ email[Event(w)][q] # "none"
    BY <1>3, <1>8, <2>2
  <2>4. QED
    BY <1>2, <1>3, <1>5, <1>9, <2>3 DEF HandlerInv, evidenceVars
<1>11. \A v \in Worker \ {w} : Stays(v)
  BY <1>2, <1>5, <1>8 DEF Stays
<1>12. EvidenceGrows
  BY <1>2 DEF EvidenceGrows, evidenceVars, historyVars
<1>13. EvidenceOfMail' /\ DispatchedIsComplete' /\ PromisesKept'
  BY <1>2 DEF IInv, EvidenceOfMail, DispatchedIsComplete, PromisesKept, evidenceVars, historyVars
<1>14. TypeOK'
  <2>1. \A v \in Worker :
          /\ phase'[v] # "off" => pc'[v] = "run"
          /\ phase'[v] \in {"send", "sent", "refused", "unavailable"} <=> mailing'[v] # Nobody
    BY <1>2, <1>3, <1>5, <1>6, <1>8 DEF IInv, TypeOK
  <2>2. QED
    BY <1>2, <1>5, <1>8, <2>1 DEF IInv, TypeOK, preferenceVars, evidenceVars, historyVars
<1>15. QED
  BY <1>5, <1>10, <1>11, <1>12, <1>13, <1>14 DEF HandlerEffect

LEMMA SendEmailEffect ==
    ASSUME IInv, NEW w \in Worker, SendEmail(w), Queue!TypeOK'
    PROVE  HandlerEffect(w)
<1>1. /\ pc[w] = "run" /\ claimed[w] # << >> /\ phase[w] = "send"
      /\ UNCHANGED <<preferenceVars, evidenceVars, mailTo, toMail, muteSeen, mailing, promised>>
  BY DEF SendEmail, At
<1>2. PICK label \in {"sent", "refused", "unavailable"} :
        /\ Then(w, label)
        /\ \/ accepted' = [accepted EXCEPT ![Event(w)][mailing[w]] = @ + 1]
           \/ label # "sent" /\ UNCHANGED accepted
  BY DEF SendEmail
<1>3. label \in Phase \ {"off"}
  BY DEF Phase
<1>4. /\ UNCHANGED <<rows, claimed, pc>> /\ phase' \in [Worker -> Phase] /\ phase'[w] = label
      /\ \A v \in Worker \ {w} : phase'[v] = phase[v]
      /\ Event(w)' = Event(w) /\ Event(w) \in Job
  BY <1>1, <1>2, <1>3, Continuing
<1>5. mailing[w] \in Recipient
  BY <1>1 DEF IInv, TypeOK
<1>6. /\ accepted' \in [Job -> [Recipient -> Nat]]
      /\ \A j \in Job, r \in Recipient : accepted[j][r] > 0 => accepted'[j][r] > 0
      /\ label = "sent" => accepted'[Event(w)][mailing[w]] > 0
  <2>1. accepted \in [Job -> [Recipient -> Nat]]
    BY DEF IInv, TypeOK
  <2>2. CASE accepted' = [accepted EXCEPT ![Event(w)][mailing[w]] = @ + 1]
    <3>1. accepted[Event(w)][mailing[w]] \in Nat
      BY <1>4, <1>5, <2>1
    <3>2. \A j \in Job, r \in Recipient :
            accepted'[j][r] = IF j = Event(w) /\ r = mailing[w]
                              THEN accepted[j][r] + 1 ELSE accepted[j][r]
      BY <1>4, <1>5, <2>1, <2>2
    <3>3. accepted' \in [Job -> [Recipient -> Nat]]
      BY <1>4, <1>5, <2>1, <2>2, <3>1
    <3>4. QED
      BY <1>4, <1>5, <2>1, <3>1, <3>2, <3>3
  <2>3. CASE label # "sent" /\ UNCHANGED accepted
    BY <2>1, <2>3
  <2>4. QED
    BY <1>2, <2>2, <2>3
<1>7. HandlerInv(w)'
  BY <1>1, <1>2, <1>4, <1>6 DEF IInv, HandlerInv, evidenceVars
<1>8. \A v \in Worker \ {w} : Stays(v)
  BY <1>1, <1>4 DEF Stays
<1>9. EvidenceGrows
  BY <1>1, <1>6 DEF EvidenceGrows, evidenceVars
<1>10. EvidenceOfMail'
  BY <1>1, <1>6 DEF IInv, EvidenceOfMail, evidenceVars
<1>11. DispatchedIsComplete' /\ PromisesKept'
  BY <1>1, <1>9, GrowingKeepsDispatched DEF IInv, evidenceVars
<1>12. TypeOK'
  BY <1>1, <1>2, <1>4, <1>6 DEF IInv, TypeOK, preferenceVars, evidenceVars
<1>13. QED
  BY <1>4, <1>7, <1>8, <1>9, <1>10, <1>11, <1>12 DEF HandlerEffect

LEMMA RecordOutcomeEffect ==
    ASSUME IInv, NEW w \in Worker, RecordOutcome(w), Queue!TypeOK'
    PROVE  HandlerEffect(w)
<1>1. PICK status \in {"DELIVERED", "SKIPPED"} :
        /\ phase[w] = IF status = "DELIVERED" THEN "sent" ELSE "unavailable"
        /\ email' = [email EXCEPT ![Event(w)][mailing[w]] = status]
  BY DEF RecordOutcome, At, RecordEmail
<1>2. /\ pc[w] = "run" /\ claimed[w] # << >> /\ Then(w, "next")
      /\ mailing' = [mailing EXCEPT ![w] = Nobody]
      /\ UNCHANGED <<preferenceVars, inApp, webhook, dispatched, mailTo, toMail, muteSeen,
                     historyVars>>
  BY DEF RecordOutcome, At
<1>3. "next" \in Phase \ {"off"}
  BY DEF Phase
<1>4. /\ UNCHANGED <<rows, claimed, pc>> /\ phase' \in [Worker -> Phase] /\ phase'[w] = "next"
      /\ \A v \in Worker \ {w} : phase'[v] = phase[v]
      /\ Event(w)' = Event(w) /\ Event(w) \in Job
  BY <1>2, <1>3, Continuing
<1>5. mailing[w] \in Recipient
  BY <1>1 DEF IInv, TypeOK
<1>6. email' \in [Job -> [Recipient -> EmailRow]]
  BY <1>1, <1>4, <1>5 DEF IInv, TypeOK, EmailRow
<1>7. \A j \in Job, r \in Recipient :
        email'[j][r] = IF j = Event(w) /\ r = mailing[w] THEN status ELSE email[j][r]
  BY <1>1, <1>4, <1>5 DEF IInv, TypeOK
<1>8. /\ mailing' \in [Worker -> Recipient \union {Nobody}] /\ mailing'[w] = Nobody
      /\ \A v \in Worker \ {w} : mailing'[v] = mailing[v]
  BY <1>2 DEF IInv, TypeOK
<1>9. HandlerInv(w)'
  <2>1. \A q \in mailTo[w] : q \in toMail[w] \/ email'[Event(w)][q] # "none"
    <3>1. mailTo[w] \subseteq Recipient /\ phase[w] # "off"
      BY <1>1 DEF IInv, TypeOK
    <3>2. \A q \in mailTo[w] : q \in toMail[w] \/ q = mailing[w] \/ email[Event(w)][q] # "none"
      BY <3>1 DEF IInv, HandlerInv
    <3>3. QED
      BY <1>4, <1>7, <3>1, <3>2
  <2>2. \A r \in Recipient : inApp[Event(w)][r] # "none"
    BY <1>1 DEF IInv, HandlerInv
  <2>3. QED
    BY <1>2, <1>4, <2>1, <2>2 DEF HandlerInv
<1>10. \A v \in Worker \ {w} : Stays(v)
  BY <1>2, <1>4, <1>8 DEF Stays
<1>11. EvidenceGrows
  BY <1>2, <1>7 DEF EvidenceGrows, historyVars
<1>12. EvidenceOfMail'
  <2>1. status = "DELIVERED" => accepted[Event(w)][mailing[w]] > 0
    BY <1>1 DEF IInv, HandlerInv
  <2>2. QED
    BY <1>2, <1>7, <2>1 DEF IInv, EvidenceOfMail, historyVars
<1>13. DispatchedIsComplete' /\ PromisesKept'
  BY <1>2, <1>11, GrowingKeepsDispatched DEF IInv, historyVars
<1>14. TypeOK'
  <2>1. \A v \in Worker :
          /\ phase'[v] # "off" => pc'[v] = "run"
          /\ phase'[v] \in {"send", "sent", "refused", "unavailable"} <=> mailing'[v] # Nobody
    BY <1>2, <1>4, <1>8 DEF IInv, TypeOK
  <2>2. QED
    BY <1>2, <1>4, <1>6, <1>8, <2>1 DEF IInv, TypeOK, preferenceVars, historyVars
<1>15. QED
  BY <1>4, <1>9, <1>10, <1>11, <1>12, <1>13, <1>14 DEF HandlerEffect

LEMMA QueueWebhookEffect ==
    ASSUME IInv, NEW w \in Worker, QueueWebhook(w), Queue!TypeOK'
    PROVE  HandlerEffect(w)
<1>1. /\ pc[w] = "run" /\ claimed[w] # << >> /\ phase[w] = "next" /\ toMail[w] = {}
      /\ Then(w, "dispatch") /\ webhook' = webhook \union {Event(w)}
      /\ UNCHANGED <<preferenceVars, inApp, email, dispatched, mailTo, toMail, muteSeen,
                     mailing, historyVars>>
  BY DEF QueueWebhook, At
<1>2. "dispatch" \in Phase \ {"off"}
  BY DEF Phase
<1>3. /\ UNCHANGED <<rows, claimed, pc>> /\ phase' \in [Worker -> Phase] /\ phase'[w] = "dispatch"
      /\ \A v \in Worker \ {w} : phase'[v] = phase[v]
      /\ Event(w)' = Event(w) /\ Event(w) \in Job
  BY <1>1, <1>2, Continuing
<1>4. HandlerInv(w)'
  BY <1>1, <1>3 DEF IInv, HandlerInv, historyVars
<1>5. \A v \in Worker \ {w} : Stays(v)
  BY <1>1, <1>3 DEF Stays
<1>6. EvidenceGrows
  BY <1>1 DEF EvidenceGrows, historyVars
<1>7. EvidenceOfMail'
  BY <1>1 DEF IInv, EvidenceOfMail, historyVars
<1>8. DispatchedIsComplete' /\ PromisesKept'
  BY <1>1, <1>6, GrowingKeepsDispatched DEF IInv, historyVars
<1>9. webhook' \subseteq Job
  BY <1>1, <1>3 DEF IInv, TypeOK
<1>10. TypeOK'
  BY <1>1, <1>3, <1>9 DEF IInv, TypeOK, preferenceVars, historyVars
<1>11. QED
  BY <1>3, <1>4, <1>5, <1>6, <1>7, <1>8, <1>10 DEF HandlerEffect

(* The handler's steps together; none of them settles a job. *)
LEMMA HandlerStepEffect ==
    ASSUME IInv, NEW w \in Worker, HandlerStep(w), Queue!TypeOK'
    PROVE  IInv'
<1>1. HandlerEffect(w)
  BY AlreadyDispatchedEffect, ReadEventEffect, CreateInAppEffect, NextRecipientEffect,
     SendEmailEffect, RecordOutcomeEffect, RecordFailureEffect, QueueWebhookEffect,
     MarkDispatchedEffect, HandlerThrowsEffect DEF HandlerStep
<1>2. \A v \in Worker : HandlerInv(v)'
  BY <1>1, StayingKeepsInv DEF HandlerEffect
<1>3. SucceededMeansDispatched'
  BY <1>1 DEF IInv, SucceededMeansDispatched, HandlerEffect, EvidenceGrows
<1>4. QED
  BY <1>1, <1>2, <1>3 DEF IInv, HandlerEffect

-----------------------------------------------------------------------------
(* The steps that leave everything but the queue alone. *)
LEMMA QueueAloneKeepsType ==
    ASSUME TypeOK, UNCHANGED localVars, Queue!TypeOK',
           \A v \in Worker : phase[v] # "off" => pc'[v] = "run"
    PROVE  TypeOK'
BY DEF TypeOK, localVars, preferenceVars, evidenceVars, handlerVars, historyVars

LEMMA QueueAloneKeepsEvidence ==
    ASSUME IInv, UNCHANGED localVars
    PROVE  EvidenceGrows /\ EvidenceOfMail' /\ DispatchedIsComplete' /\ PromisesKept'
BY DEF IInv, EvidenceGrows, EvidenceOfMail, DispatchedIsComplete, PromisesKept,
       localVars, preferenceVars, evidenceVars, handlerVars, historyVars

LEMMA QueueStepFrame ==
    ASSUME IInv, NEW w \in Worker, QueueStep(w)
    PROVE  /\ phase[w] = "off"
           /\ pc'[w] # "complete"
           /\ \A v \in Worker \ {w} : pc'[v] = pc[v] /\ claimed'[v] = claimed[v]
<1> USE DEF Queue!Goto
<1>1. pc \in [Worker -> Queue!PC] /\ claimed \in [Worker -> Seq(Queue!Snapshot)]
  BY DEF IInv, TypeOK, Queue!TypeOK
<1>2. phase[w] # "off" => pc[w] = "run" /\ claimed[w] # << >>
  BY DEF IInv, HandlerInv
<1>3. CASE Queue!FindCandidates(w)
  BY <1>1, <1>2, <1>3 DEF Queue!FindCandidates
<1>4. CASE Queue!ClaimRow(w)
  BY <1>1, <1>2, <1>4 DEF Queue!ClaimRow, Queue!NextCandidate
<1>5. CASE Queue!SkipCandidate(w)
  BY <1>1, <1>2, <1>5 DEF Queue!SkipCandidate, Queue!NextCandidate
<1>6. CASE Queue!RereadRow(w)
  BY <1>1, <1>2, <1>6 DEF Queue!RereadRow
<1>7. CASE Queue!StartProcessing(w)
  BY <1>1, <1>2, <1>7 DEF Queue!StartProcessing
<1>8. CASE Queue!FinishBatch(w)
  BY <1>1, <1>2, <1>8 DEF Queue!FinishBatch
<1>9. CASE Queue!CompleteJob(w)
  BY <1>1, <1>2, <1>9 DEF Queue!CompleteJob
<1>10. CASE Queue!CompleteRefused(w)
  BY <1>1, <1>2, <1>10 DEF Queue!CompleteRefused
<1>11. CASE Queue!FailJob(w)
  BY <1>1, <1>2, <1>11 DEF Queue!FailJob
<1>12. CASE Queue!AbortBatch(w)
  BY <1>1, <1>2, <1>12 DEF Queue!AbortBatch
<1>13. QED
  BY <1>3, <1>4, <1>5, <1>6, <1>7, <1>8, <1>9, <1>10, <1>11, <1>12 DEF QueueStep

(* Only completeJob makes a row SUCCEEDED, and only in the hands of a      *)
(* worker whose handler has returned.                                      *)
LEMMA QueueStepSettles ==
    ASSUME IInv, NEW w \in Worker, QueueStep(w), NEW j \in Job,
           rows'[j].status = "SUCCEEDED"
    PROVE  j \in dispatched
<1>1. rows \in [Job -> Queue!Row]
  BY DEF IInv, TypeOK, Queue!TypeOK
<1>2. ASSUME rows'[j].status = rows[j].status PROVE j \in dispatched
  BY <1>2 DEF IInv, SucceededMeansDispatched
<1>3. CASE Queue!ClaimRow(w)
  BY <1>1, <1>2, <1>3 DEF Queue!ClaimRow, Queue!LeasedRow, Queue!Row
<1>4. CASE Queue!CompleteJob(w)
  <2>1. Event(w) \in dispatched
    BY <1>4 DEF IInv, HandlerInv, Queue!CompleteJob
  <2>2. rows' = [rows EXCEPT ![Event(w)] = Queue!CompletedRow(@)]
    BY <1>4 DEF Queue!CompleteJob, Event
  <2>3. j # Event(w) => rows'[j] = rows[j]
    BY <1>1, <2>2
  <2>4. QED
    BY <1>2, <2>1, <2>3
<1>5. CASE Queue!FailJob(w)
  <2>1. rows' = [rows EXCEPT ![Event(w)] = Queue!FailedRow(@, Head(claimed[w]), batchNow[w])]
    BY <1>5 DEF Queue!FailJob, Event
  <2>2. Queue!FailedRow(rows[j], Head(claimed[w]), batchNow[w]).status
            \in {"DEAD_LETTER", "RETRY_SCHEDULED"}
    <3>1. ASSUME NEW delay
          PROVE  [rows[j] EXCEPT !.status = "RETRY_SCHEDULED", !.availableAt = delay,
                     !.leaseToken = Queue!Null, !.leaseUntil = Queue!Null].status
                     = "RETRY_SCHEDULED"
      BY <1>1 DEF Queue!Row
    <3>2. QED
      BY <1>1, <3>1 DEF Queue!FailedRow, Queue!Row
  <2>3. j # Event(w)
    BY <1>1, <2>1, <2>2
  <2>4. QED
    BY <1>1, <1>2, <2>1, <2>3
<1>6. CASE UNCHANGED rows
  BY <1>2, <1>6
<1>7. QED
  BY <1>3, <1>4, <1>5, <1>6 DEF QueueStep, Queue!FindCandidates, Queue!SkipCandidate,
     Queue!RereadRow, Queue!StartProcessing, Queue!FinishBatch, Queue!CompleteRefused,
     Queue!AbortBatch

LEMMA QueueStepEffect ==
    ASSUME IInv, NEW w \in Worker, QueueStep(w), Queue!TypeOK'
    PROVE  IInv'
<1>1. UNCHANGED localVars
  BY DEF QueueStep
<1>2. UNCHANGED <<phase, mailTo, toMail, mailing, dispatched>>
  BY <1>1 DEF localVars, handlerVars, evidenceVars
<1>3. EvidenceGrows /\ EvidenceOfMail' /\ DispatchedIsComplete' /\ PromisesKept'
  BY <1>1, QueueAloneKeepsEvidence
<1>4. \A v \in Worker \ {w} : Stays(v)
  BY <1>2, QueueStepFrame DEF Stays
<1>5. HandlerInv(w)'
  BY <1>2, QueueStepFrame DEF HandlerInv
<1>6. \A v \in Worker : HandlerInv(v)'
  BY <1>3, <1>4, <1>5, StayingKeepsInv
<1>7. TypeOK'
  <2>1. \A v \in Worker : phase[v] # "off" => pc'[v] = "run"
    BY QueueStepFrame DEF IInv, TypeOK
  <2>2. QED
    BY <1>1, <2>1, QueueAloneKeepsType DEF IInv
<1>8. SucceededMeansDispatched'
  BY <1>2, QueueStepSettles DEF SucceededMeansDispatched
<1>9. QED
  BY <1>3, <1>6, <1>7, <1>8 DEF IInv

LEMMA CrashEffect ==
    ASSUME IInv, NEW w \in Worker, CrashWorker(w), Queue!TypeOK'
    PROVE  IInv'
<1>1. /\ pc' = [pc EXCEPT ![w] = "idle"] /\ claimed' = [claimed EXCEPT ![w] = << >>]
      /\ phase' = [phase EXCEPT ![w] = "off"] /\ mailTo' = [mailTo EXCEPT ![w] = {}]
      /\ toMail' = [toMail EXCEPT ![w] = {}] /\ muteSeen' = [muteSeen EXCEPT ![w] = {}]
      /\ mailing' = [mailing EXCEPT ![w] = Nobody]
      /\ UNCHANGED <<rows, preferenceVars, evidenceVars, historyVars>>
  BY DEF CrashWorker, Queue!Crash, Queue!Goto
<1>2. TypeOK /\ pc \in [Worker -> Queue!PC] /\ claimed \in [Worker -> Seq(Queue!Snapshot)]
  BY DEF IInv, TypeOK, Queue!TypeOK
<1>3. EvidenceGrows /\ EvidenceOfMail' /\ DispatchedIsComplete' /\ PromisesKept'
  BY <1>1 DEF IInv, EvidenceGrows, EvidenceOfMail, DispatchedIsComplete, PromisesKept,
              evidenceVars, historyVars
<1>4. \A v \in Worker \ {w} : Stays(v)
  BY <1>1, <1>2 DEF TypeOK, Stays
<1>5. phase'[w] = "off" /\ pc'[w] = "idle"
  BY <1>1, <1>2 DEF TypeOK
<1>6. HandlerInv(w)'
  BY <1>5 DEF HandlerInv
<1>7. \A v \in Worker : HandlerInv(v)'
  BY <1>3, <1>4, <1>6, StayingKeepsInv
<1>8. SucceededMeansDispatched'
  BY <1>1 DEF IInv, SucceededMeansDispatched, evidenceVars
<1>9. TypeOK'
  BY <1>1, <1>2 DEF TypeOK, Phase, preferenceVars, evidenceVars, historyVars
<1>10. QED
  BY <1>3, <1>7, <1>8, <1>9 DEF IInv

(* A preference is changed, a notification is read, time passes, an event  *)
(* is enqueued or a dead letter is sent back: no handler moves.            *)
LEMMA OutsideEffect ==
    ASSUME IInv, OutsideStep, Queue!TypeOK'
    PROVE  IInv'
<1>1. UNCHANGED localVars /\ UNCHANGED <<pc, claimed>>
  BY DEF OutsideStep, Queue!Tick, Queue!Enqueue, Queue!RetryDeadLetter, Queue!workerVars
<1>2. UNCHANGED <<phase, mailTo, toMail, mailing, dispatched>>
  BY <1>1 DEF localVars, handlerVars, evidenceVars
<1>3. EvidenceGrows /\ EvidenceOfMail' /\ DispatchedIsComplete' /\ PromisesKept'
  BY <1>1, QueueAloneKeepsEvidence
<1>4. \A v \in Worker : HandlerInv(v)'
  BY <1>1, <1>2, <1>3, StayingKeepsInv DEF Stays
<1>5. rows \in [Job -> Queue!Row]
  BY DEF IInv, TypeOK, Queue!TypeOK
<1>6. \A j \in Job : rows'[j].status = "SUCCEEDED" => rows[j].status = "SUCCEEDED"
  BY <1>5 DEF OutsideStep, Queue!Tick, Queue!Enqueue, Queue!RetryDeadLetter, Queue!Row
<1>7. SucceededMeansDispatched'
  BY <1>2, <1>6 DEF IInv, SucceededMeansDispatched
<1>8. TypeOK'
  BY <1>1, QueueAloneKeepsType DEF IInv, TypeOK
<1>9. QED
  BY <1>3, <1>4, <1>7, <1>8 DEF IInv

LEMMA MemberEffect ==
    ASSUME IInv, MemberStep, Queue!TypeOK'
    PROVE  IInv'
<1>1. UNCHANGED <<queueVars, handlerVars, historyVars, email, webhook, dispatched>>
  BY MemberLeavesQueue
<1>2. inApp \in [Job -> [Recipient -> InAppRow]]
  BY DEF IInv, TypeOK
<1>3. /\ inApp' \in [Job -> [Recipient -> InAppRow]]
      /\ \A j \in Job, r \in Recipient : inApp[j][r] # "none" => inApp'[j][r] # "none"
  BY <1>2 DEF MemberStep, SetPreference, BulkUpdate, ReadInApp, DismissInApp, evidenceVars,
              InAppRow
<1>4. optedIn' \subseteq Recipient /\ muted' \subseteq Recipient
  BY DEF IInv, TypeOK, MemberStep, SetPreference, BulkUpdate, ReadInApp, DismissInApp,
         preferenceVars
<1>5. EvidenceGrows
  BY <1>1, <1>3 DEF EvidenceGrows, historyVars
<1>6. EvidenceOfMail'
  BY <1>1 DEF IInv, EvidenceOfMail, historyVars
<1>7. DispatchedIsComplete' /\ PromisesKept'
  BY <1>1, <1>5, GrowingKeepsDispatched DEF IInv, historyVars
<1>8. \A v \in Worker : HandlerInv(v)'
  BY <1>1, <1>5, StayingKeepsInv DEF Stays, queueVars, handlerVars
<1>9. SucceededMeansDispatched'
  BY <1>1 DEF IInv, SucceededMeansDispatched, queueVars
<1>10. TypeOK'
  BY <1>1, <1>3, <1>4 DEF IInv, TypeOK, queueVars, handlerVars, historyVars
<1>11. QED
  BY <1>6, <1>7, <1>8, <1>9, <1>10 DEF IInv

-----------------------------------------------------------------------------
LEMMA InvInit == Init => IInv
<1> SUFFICES ASSUME Init PROVE IInv
  OBVIOUS
<1>1. Queue!TypeOK
  BY QueueTypeInit DEF Init
<1>2. TypeOK
  BY <1>1 DEF Init, TypeOK, Phase, InAppRow, EmailRow, Nobody, Queue!Init
<1>3. SucceededMeansDispatched
  BY DEF Init, SucceededMeansDispatched, Queue!Init, Queue!AbsentRow
<1>4. \A w \in Worker : HandlerInv(w)
  BY DEF Init, HandlerInv, Queue!Init
<1>5. QED
  BY <1>2, <1>3, <1>4 DEF Init, IInv, PromisesKept, EvidenceOfMail, DispatchedIsComplete

LEMMA InvStep == IInv /\ [Next]_vars => IInv'
<1> SUFFICES ASSUME IInv, [Next]_vars PROVE IInv'
  OBVIOUS
<1>1. Queue!TypeOK'
  BY QueueTypeStep DEF IInv, TypeOK
<1>2. ASSUME NEW w \in Worker, HandlerStep(w) PROVE IInv'
  BY <1>1, <1>2, HandlerStepEffect
<1>3. ASSUME NEW w \in Worker, QueueStep(w) PROVE IInv'
  BY <1>1, <1>3, QueueStepEffect
<1>4. ASSUME NEW w \in Worker, CrashWorker(w) PROVE IInv'
  BY <1>1, <1>4, CrashEffect
<1>5. CASE OutsideStep
  BY <1>1, <1>5, OutsideEffect
<1>6. CASE MemberStep
  BY <1>1, <1>6, MemberEffect
<1>7. CASE UNCHANGED vars
  <2>1. /\ UNCHANGED <<rows, pc, claimed>> /\ UNCHANGED localVars
    BY <1>7 DEF vars, queueVars, localVars
  <2>2. EvidenceGrows /\ EvidenceOfMail' /\ DispatchedIsComplete' /\ PromisesKept'
    BY <2>1, QueueAloneKeepsEvidence
  <2>3. \A v \in Worker : HandlerInv(v)'
    BY <2>1, <2>2, StayingKeepsInv DEF Stays, localVars, handlerVars
  <2>4. SucceededMeansDispatched'
    BY <2>1 DEF IInv, SucceededMeansDispatched, localVars, evidenceVars
  <2>5. TypeOK'
    BY <1>1, <2>1, QueueAloneKeepsType DEF IInv, TypeOK
  <2>6. QED
    BY <2>2, <2>3, <2>4, <2>5 DEF IInv
<1>8. QED
  BY <1>2, <1>3, <1>4, <1>5, <1>6, <1>7 DEF Next

(* IInv holds throughout: what each worker has already done for its event  *)
(* is on record, whoever else has the event, crashes or retries.           *)
THEOREM InvAlways == Spec => []IInv
<1>1. QED
  BY InvInit, InvStep, PTL DEF Spec

(* The queue, the evidence and every handler keep their types. *)
THEOREM TypeCorrect == Spec => []TypeOK
<1>1. IInv => TypeOK
  BY DEF IInv
<1>2. QED
  BY <1>1, InvAlways, PTL

(* Email recorded as delivered was accepted by the provider, for any       *)
(* number of workers that run the same job.                                *)
THEOREM EvidenceOfMailAlways == Spec => []EvidenceOfMail
<1>1. IInv => EvidenceOfMail
  BY DEF IInv
<1>2. QED
  BY <1>1, InvAlways, PTL

(* A job that succeeded has dispatched its event. *)
THEOREM SucceededAlwaysDispatched == Spec => []SucceededMeansDispatched
<1>1. IInv => SucceededMeansDispatched
  BY DEF IInv
<1>2. QED
  BY <1>1, InvAlways, PTL

(* dispatchedAt closes an event only when nothing is left to do for it. *)
THEOREM DispatchedAlwaysComplete == Spec => []DispatchedIsComplete
<1>1. IInv => DispatchedIsComplete
  BY DEF IInv
<1>2. QED
  BY <1>1, InvAlways, PTL

(* What a member read or dismissed stays so through every retry. *)
LEMMA ReadStateStep ==
    ASSUME TypeOK, [Next]_vars
    PROVE  KeepsReadState
<1>1. inApp \in [Job -> [Recipient -> InAppRow]]
  BY DEF TypeOK
<1>2. CASE UNCHANGED inApp
  BY <1>2 DEF KeepsReadState
<1>3. ASSUME NEW w \in Worker, HandlerStep(w) PROVE KeepsReadState
  <2>1. CASE CreateInApp(w)
    <3>1. inApp' = [inApp EXCEPT ![Event(w)] = [r \in Recipient |->
            IF @[r] # "none" THEN @[r]
            ELSE IF r \in muteSeen[w] THEN "SKIPPED" ELSE "unread"]]
      BY <2>1 DEF CreateInApp
    <3>2. QED
      BY <1>1, <3>1 DEF KeepsReadState
  <2>2. CASE ~CreateInApp(w)
    <3>1. UNCHANGED inApp
      BY <1>3, <2>2 DEF HandlerStep, AlreadyDispatched, ReadEvent, NextRecipient, SendEmail,
             RecordOutcome, RecordFailure, QueueWebhook, MarkDispatched, HandlerThrows,
             evidenceVars
    <3>2. QED
      BY <1>2, <3>1
  <2>3. QED
    BY <2>1, <2>2
<1>4. ASSUME NEW w \in Worker, QueueStep(w) \/ CrashWorker(w) PROVE UNCHANGED inApp
  BY <1>4 DEF QueueStep, CrashWorker, localVars, evidenceVars
<1>5. CASE OutsideStep \/ UNCHANGED vars
  BY <1>2, <1>5 DEF OutsideStep, vars, localVars, evidenceVars
<1>6. CASE MemberStep
  BY <1>1, <1>6 DEF MemberStep, SetPreference, BulkUpdate, ReadInApp, DismissInApp,
         evidenceVars, KeepsReadState
<1>7. QED
  BY <1>2, <1>3, <1>4, <1>5, <1>6 DEF Next

(* What a member has read or dismissed is never unread again, however      *)
(* often the handler runs.                                                 *)
THEOREM ReadStateAlwaysSurvives == Spec => ReadStateSurvivesRetry
<1>1. TypeOK /\ [Next]_vars => [KeepsReadState]_vars
  BY ReadStateStep
<1>2. QED
  BY <1>1, TypeCorrect, PTL DEF Spec, ReadStateSurvivesRetry

(* Mail evidence and the completeness of a dispatched event, for any       *)
(* members, jobs and workers.                                              *)
THEOREM EvidenceAlwaysSound == Spec => []EvidenceSound
<1>1. IInv => EvidenceSound
  BY DEF IInv, EvidenceSound
<1>2. QED
  BY <1>1, InvAlways, PTL
-----------------------------------------------------------------------------
(* One worker: an event is closed once, by the run that mailed everybody,  *)
(* and a row that says DELIVERED is never mailed again.                    *)
LEMMA SoleEvidenceType ==
    ASSUME IInv
    PROVE  /\ email \in [Job -> [Recipient -> EmailRow]] /\ dispatched \subseteq Job
           /\ accepted \in [Job -> [Recipient -> Nat]]
           /\ promised \in [Job -> SUBSET Recipient] /\ phase \in [Worker -> Phase]
           /\ mailTo \in [Worker -> SUBSET Recipient] /\ toMail \in [Worker -> SUBSET Recipient]
           /\ mailing \in [Worker -> Recipient \union {Nobody}]
BY DEF IInv, TypeOK

(* A run that stops, or has not begun, owes the invariant nothing. *)
LEMMA RunEnds ==
    ASSUME IInv, OneWorker, OneWorkerInv, NEW w \in Worker, phase'[w] = "off",
           UNCHANGED <<email, accepted, dispatched, promised>>
    PROVE  OneWorkerInv' /\ KeepsMailEvidence
<1>1. \A v \in Worker : phase'[v] = "off"
  BY DEF OneWorker
<1>2. NoFailureClosed' /\ \A j \in Job \ dispatched' : promised'[j] = {}
  BY DEF OneWorkerInv, NoFailureClosed
<1>3. OneWorkerInv'
  BY <1>1, <1>2 DEF OneWorkerInv
<1>4. QED
  BY <1>3 DEF KeepsMailEvidence

(* Nor does a step that leaves the handler where it is. *)
LEMMA RunWaits ==
    ASSUME OneWorkerInv,
           UNCHANGED <<email, accepted, dispatched, promised, phase, mailTo, toMail, mailing, claimed>>
    PROVE  OneWorkerInv' /\ KeepsMailEvidence
BY DEF OneWorkerInv, NoFailureClosed, KeepsMailEvidence, SoleRun, Event

(* A run that goes on over unchanged rows. *)
LEMMA RunGoesOn ==
    ASSUME IInv, OneWorker, OneWorkerInv, NEW w \in Worker, SoleRun(w)',
           UNCHANGED <<email, dispatched, promised>>, KeepsMailEvidence
    PROVE  OneWorkerInv' /\ KeepsMailEvidence
<1>1. NoFailureClosed' /\ \A j \in Job \ dispatched' : promised'[j] = {}
  BY DEF OneWorkerInv, NoFailureClosed
<1>2. \A v \in Worker : v = w
  BY DEF OneWorker
<1>3. OneWorkerInv'
  BY <1>1, <1>2 DEF OneWorkerInv
<1>4. QED
  BY <1>3

LEMMA SoleReadEvent ==
    ASSUME IInv, OneWorker, OneWorkerInv, NEW w \in Worker, ReadEvent(w)
    PROVE  OneWorkerInv' /\ KeepsMailEvidence
<1>1. /\ Event(w) \notin dispatched /\ phase[w] = "off"
      /\ mailTo' = [mailTo EXCEPT ![w] = optedIn] /\ toMail' = [toMail EXCEPT ![w] = optedIn]
      /\ UNCHANGED <<evidenceVars, mailing, historyVars, claimed>>
  BY DEF ReadEvent, At, Then, queueVars
<1>2. mailing[w] = Nobody
  BY <1>1 DEF IInv, TypeOK
<1>3. mailTo'[w] = optedIn /\ toMail'[w] = optedIn /\ Event(w)' = Event(w)
  BY <1>1, SoleEvidenceType DEF Event
<1>4. SoleRun(w)'
  BY <1>1, <1>2, <1>3 DEF SoleRun, evidenceVars
<1>5. KeepsMailEvidence
  BY <1>1 DEF KeepsMailEvidence, evidenceVars, historyVars
<1>6. QED
  BY <1>1, <1>4, <1>5, RunGoesOn DEF evidenceVars, historyVars

LEMMA SoleCreateInApp ==
    ASSUME IInv, OneWorker, OneWorkerInv, NEW w \in Worker, CreateInApp(w) \/ QueueWebhook(w)
    PROVE  OneWorkerInv' /\ KeepsMailEvidence
<1>1. /\ phase[w] # "off"
      /\ UNCHANGED <<email, dispatched, mailTo, toMail, mailing, historyVars, claimed>>
  BY DEF CreateInApp, QueueWebhook, At, Then, queueVars
<1>2. SoleRun(w)
  BY <1>1 DEF OneWorkerInv
<1>3. SoleRun(w)'
  BY <1>1, <1>2 DEF SoleRun, Event
<1>4. KeepsMailEvidence
  BY <1>1 DEF KeepsMailEvidence, historyVars
<1>5. QED
  BY <1>1, <1>3, <1>4, RunGoesOn DEF historyVars

(* The lookup of earlier evidence: a DELIVERED row is passed over. *)
LEMMA SoleNextRecipient ==
    ASSUME IInv, OneWorker, OneWorkerInv, NEW w \in Worker, NextRecipient(w)
    PROVE  OneWorkerInv' /\ KeepsMailEvidence
<1>1. /\ phase[w] = "next"
      /\ UNCHANGED <<evidenceVars, mailTo, historyVars, claimed>>
  BY DEF NextRecipient, At, Then, queueVars
<1>2. PICK r \in toMail[w] :
        /\ toMail' = [toMail EXCEPT ![w] = @ \ {r}]
        /\ IF email[Event(w)][r] = "DELIVERED"
           THEN UNCHANGED mailing ELSE mailing' = [mailing EXCEPT ![w] = r]
  BY DEF NextRecipient
<1>3. mailing[w] = Nobody
  BY <1>1 DEF IInv, TypeOK
<1>4. r # Nobody
  BY <1>2, SoleEvidenceType, RecipientAssumption
<1>5. /\ toMail'[w] = toMail[w] \ {r} /\ Event(w)' = Event(w)
      /\ mailing'[w] = IF email[Event(w)][r] = "DELIVERED" THEN Nobody ELSE r
  BY <1>1, <1>2, <1>3, SoleEvidenceType DEF Event
<1>6. SoleRun(w)
  BY <1>1 DEF OneWorkerInv
<1>7. \A q \in mailTo[w] : q # Nobody
  BY SoleEvidenceType, RecipientAssumption
<1>8. SoleRun(w)'
  BY <1>1, <1>3, <1>4, <1>5, <1>6, <1>7 DEF SoleRun, evidenceVars
<1>9. KeepsMailEvidence
  BY <1>1 DEF KeepsMailEvidence, evidenceVars, historyVars
<1>10. QED
  BY <1>1, <1>8, <1>9, RunGoesOn DEF evidenceVars, historyVars

(* Only a member without a DELIVERED row is mailed. *)
LEMMA SoleSendEmail ==
    ASSUME IInv, OneWorker, OneWorkerInv, NEW w \in Worker, SendEmail(w)
    PROVE  OneWorkerInv' /\ KeepsMailEvidence
<1>1. /\ phase[w] = "send"
      /\ UNCHANGED <<evidenceVars, mailTo, toMail, mailing, promised, claimed>>
      /\ accepted' = [accepted EXCEPT ![Event(w)][mailing[w]] = @ + 1] \/ UNCHANGED accepted
  BY DEF SendEmail, At, Then, queueVars
<1>2. SoleRun(w)
  BY <1>1 DEF OneWorkerInv
<1>3. SoleRun(w)'
  BY <1>1, <1>2 DEF SoleRun, Event, evidenceVars
<1>4. email[Event(w)][mailing[w]] # "DELIVERED"
  BY <1>1, <1>2 DEF SoleRun, IInv, TypeOK
<1>5. \A j \in Job, r \in Recipient :
        j # Event(w) \/ r # mailing[w] => accepted'[j][r] = accepted[j][r]
  BY <1>1, SoleEvidenceType
<1>6. KeepsMailEvidence
  BY <1>1, <1>4, <1>5 DEF KeepsMailEvidence, evidenceVars
<1>7. QED
  BY <1>1, <1>3, <1>6, RunGoesOn DEF evidenceVars

(* A row is written for an event that is still open, over no DELIVERED one.*)
LEMMA SoleRow ==
    ASSUME IInv, OneWorker, OneWorkerInv, NEW w \in Worker, NEW status,
           phase[w] \in {"sent", "refused", "unavailable"},
           RecordEmail(w, status), UNCHANGED <<dispatched, historyVars>>
    PROVE  /\ NoFailureClosed' /\ \A j \in Job \ dispatched' : promised'[j] = {}
           /\ KeepsMailEvidence
           /\ Event(w) \notin dispatched /\ mailing[w] # Nobody /\ mailing[w] \in Recipient
           /\ \A r \in Recipient :
                email'[Event(w)][r] = IF r = mailing[w] THEN status ELSE email[Event(w)][r]
<1>1. SoleRun(w) /\ mailing[w] # Nobody
  BY DEF OneWorkerInv, IInv, TypeOK
<1>2. Event(w) \notin dispatched /\ email[Event(w)][mailing[w]] # "DELIVERED"
  BY <1>1 DEF SoleRun
<1>3. Event(w) \in Job /\ mailing[w] \in Recipient
  BY <1>1, Busy, SoleEvidenceType
<1>4. \A j \in Job : \A r \in Recipient :
        email'[j][r] = IF j = Event(w) /\ r = mailing[w] THEN status ELSE email[j][r]
  BY <1>3, SoleEvidenceType DEF RecordEmail
<1>5. \A j \in Job : promised[j] \subseteq Recipient
  BY SoleEvidenceType
<1>6. NoFailureClosed'
  BY <1>2, <1>4, <1>5, SoleEvidenceType DEF OneWorkerInv, NoFailureClosed, historyVars
<1>7. \A j \in Job \ dispatched' : promised'[j] = {}
  BY DEF OneWorkerInv, historyVars
<1>8. KeepsMailEvidence
  BY <1>2, <1>4 DEF KeepsMailEvidence, historyVars
<1>9. QED
  BY <1>1, <1>2, <1>3, <1>4, <1>6, <1>7, <1>8

LEMMA SoleRecordOutcome ==
    ASSUME IInv, OneWorker, OneWorkerInv, NEW w \in Worker, RecordOutcome(w)
    PROVE  OneWorkerInv' /\ KeepsMailEvidence
<1>1. PICK status \in {"DELIVERED", "SKIPPED"} :
        phase[w] \in {"sent", "unavailable"} /\ RecordEmail(w, status)
  BY DEF RecordOutcome, At
<1>2. /\ mailing' = [mailing EXCEPT ![w] = Nobody]
      /\ UNCHANGED <<dispatched, mailTo, toMail, historyVars, claimed>>
  BY DEF RecordOutcome, Then, queueVars
<1>3. /\ NoFailureClosed' /\ \A j \in Job \ dispatched' : promised'[j] = {}
      /\ KeepsMailEvidence
      /\ Event(w) \notin dispatched /\ mailing[w] # Nobody /\ mailing[w] \in Recipient
      /\ \A r \in Recipient :
           email'[Event(w)][r] = IF r = mailing[w] THEN status ELSE email[Event(w)][r]
  BY <1>1, <1>2, SoleRow
<1>4. SoleRun(w)
  BY <1>1 DEF OneWorkerInv
<1>5. mailing'[w] = Nobody /\ Event(w)' = Event(w) /\ mailTo[w] \subseteq Recipient
  BY <1>2, SoleEvidenceType DEF Event
<1>6. SoleRun(w)'
  BY <1>1, <1>2, <1>3, <1>4, <1>5 DEF SoleRun
<1>7. \A v \in Worker : v = w
  BY DEF OneWorker
<1>8. QED
  BY <1>3, <1>6, <1>7 DEF OneWorkerInv

LEMMA SoleRecordFailure ==
    ASSUME IInv, OneWorker, OneWorkerInv, NEW w \in Worker, RecordFailure(w)
    PROVE  OneWorkerInv' /\ KeepsMailEvidence
<1>1. /\ phase[w] = "refused" /\ RecordEmail(w, "FAILED")
      /\ phase' = [phase EXCEPT ![w] = "off"] /\ UNCHANGED <<dispatched, historyVars>>
  BY DEF RecordFailure, At, Leave
<1>2. \A v \in Worker : phase'[v] = "off"
  BY <1>1, SoleEvidenceType DEF OneWorker
<1>3. QED
  BY <1>1, <1>2, SoleRow DEF OneWorkerInv

(* The loop is over: everybody it had to mail has a row that is final. *)
LEMMA SoleMarkDispatched ==
    ASSUME IInv, OneWorker, OneWorkerInv, NEW w \in Worker, MarkDispatched(w)
    PROVE  OneWorkerInv' /\ KeepsMailEvidence
<1>1. /\ phase[w] = "dispatch" /\ dispatched' = dispatched \union {Event(w)}
      /\ promised' = [promised EXCEPT ![Event(w)] = @ \union mailTo[w]]
      /\ phase' = [phase EXCEPT ![w] = "off"] /\ UNCHANGED <<email, accepted>>
  BY DEF MarkDispatched, At, Leave
<1>2. SoleRun(w) /\ toMail[w] = {} /\ mailing[w] = Nobody
  BY <1>1 DEF OneWorkerInv, IInv, HandlerInv, TypeOK
<1>3. \A r \in mailTo[w] : email[Event(w)][r] \in {"DELIVERED", "SKIPPED"}
  BY <1>2, SoleEvidenceType, RecipientAssumption DEF SoleRun
<1>4. Event(w) \in Job /\ Event(w) \notin dispatched
  BY <1>1, <1>2, Busy DEF SoleRun
<1>5. /\ promised[Event(w)] = {}
      /\ \A j \in Job : promised'[j] = IF j = Event(w) THEN mailTo[w] ELSE promised[j]
  BY <1>1, <1>4, SoleEvidenceType DEF OneWorkerInv
<1>6. NoFailureClosed'
  BY <1>1, <1>3, <1>5, SoleEvidenceType DEF OneWorkerInv, NoFailureClosed
<1>7. \A j \in Job \ dispatched' : promised'[j] = {}
  BY <1>1, <1>5 DEF OneWorkerInv
<1>8. \A v \in Worker : phase'[v] = "off"
  BY <1>1, SoleEvidenceType DEF OneWorker
<1>9. KeepsMailEvidence
  BY <1>1 DEF KeepsMailEvidence
<1>10. QED
  BY <1>6, <1>7, <1>8, <1>9 DEF OneWorkerInv

LEMMA OneWorkerInit == Init => OneWorkerInv
BY DEF Init, OneWorkerInv, NoFailureClosed

LEMMA OneWorkerStep ==
    ASSUME IInv, OneWorker, OneWorkerInv, [Next]_vars
    PROVE  OneWorkerInv' /\ KeepsMailEvidence
<1>1. ASSUME NEW w \in Worker, AlreadyDispatched(w) \/ HandlerThrows(w) \/ CrashWorker(w)
      PROVE  OneWorkerInv' /\ KeepsMailEvidence
  <2>1. /\ phase' = [phase EXCEPT ![w] = "off"]
        /\ UNCHANGED <<email, accepted, dispatched, promised>>
    BY <1>1 DEF AlreadyDispatched, HandlerThrows, CrashWorker, Leave, evidenceVars, historyVars
  <2>2. phase'[w] = "off"
    BY <2>1, SoleEvidenceType
  <2>3. QED
    BY <2>1, <2>2, RunEnds
<1>2. ASSUME NEW w \in Worker, HandlerStep(w) PROVE OneWorkerInv' /\ KeepsMailEvidence
  BY <1>1, <1>2, SoleReadEvent, SoleCreateInApp, SoleNextRecipient, SoleSendEmail,
     SoleRecordOutcome, SoleRecordFailure, SoleMarkDispatched DEF HandlerStep
<1>3. ASSUME NEW w \in Worker, QueueStep(w) PROVE OneWorkerInv' /\ KeepsMailEvidence
  <2>1. phase[w] = "off" /\ UNCHANGED localVars
    BY <1>3, QueueStepFrame DEF QueueStep
  <2>2. QED
    BY <2>1, RunEnds DEF localVars, evidenceVars, handlerVars, historyVars
<1>4. CASE OutsideStep
  <2>1. UNCHANGED localVars /\ UNCHANGED claimed
    BY <1>4, Zenon DEF OutsideStep, Queue!Tick, Queue!Enqueue, Queue!RetryDeadLetter, Queue!workerVars
  <2>2. UNCHANGED <<email, accepted, dispatched, promised, phase, mailTo, toMail, mailing, claimed>>
    BY <2>1 DEF localVars, evidenceVars, handlerVars, historyVars
  <2>3. QED
    BY <2>2, RunWaits
<1>5. CASE MemberStep
  BY <1>5, MemberLeavesQueue, RunWaits DEF queueVars, handlerVars, historyVars
<1>6. CASE UNCHANGED vars
  BY <1>6, RunWaits DEF vars, queueVars, evidenceVars, handlerVars, historyVars
<1>7. QED
  BY <1>1, <1>2, <1>3, <1>4, <1>5, <1>6 DEF Next

(* With one worker, the event of a running handler is open and every       *)
(* member it has dealt with is on record as DELIVERED or SKIPPED.          *)
THEOREM OneWorkerInvAlways == ASSUME OneWorker PROVE Spec => []OneWorkerInv
<1>1. IInv /\ OneWorkerInv /\ [Next]_vars => OneWorkerInv'
  BY OneWorkerStep
<1>2. QED
  BY <1>1, OneWorkerInit, InvAlways, PTL DEF Spec

(* In the deployment the documentation prescribes, whatever crashes, times *)
(* out or is retried, an event is closed only over members whose mail was  *)
(* delivered or could not be sent for want of a provider.                  *)
THEOREM NoFailureEverClosed == ASSUME OneWorker PROVE Spec => []NoFailureClosed
<1>1. OneWorkerInv => NoFailureClosed
  BY DEF OneWorkerInv
<1>2. QED
  BY <1>1, OneWorkerInvAlways, PTL

(* And a row that says DELIVERED stays so, and is never mailed again. *)
THEOREM MailEvidenceAlwaysFinal == ASSUME OneWorker PROVE Spec => MailEvidenceIsFinal
<1>1. IInv /\ OneWorkerInv /\ [Next]_vars => [KeepsMailEvidence]_vars
  BY OneWorkerStep
<1>2. QED
  BY <1>1, OneWorkerInvAlways, InvAlways, PTL DEF Spec, MailEvidenceIsFinal
=============================================================================
