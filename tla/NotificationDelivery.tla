------------------------ MODULE NotificationDelivery ------------------------
(***************************************************************************)
(* The only job type the queue runs: deliverNotificationEvent, inside the  *)
(* workers of JobQueue.  Job j carries notification event j.               *)
(*                                                                         *)
(* The handler is a sequence of separate statements around calls to an     *)
(* email provider, so two workers with the same job interleave, a crash or *)
(* a database error may follow any of them, and members change their       *)
(* preferences and read their notifications meanwhile.  Everything the     *)
(* queue does is taken from JobQueue; its RunHandler is the last step here.*)
(***************************************************************************)
EXTENDS Integers, Sequences, FiniteSets

CONSTANTS
    Job, Worker, BatchSize, LeaseTicks, MaxAttempts, BaseDelay, MaximumDelay,
    MaxClock, MaxBatchTicks, MaxCrashes, MaxRetries,
    Recipient,      \* members addressed by an event, after the role filters
    \* bounds of the model
    MaxChanges      \* preference changes made by members

(* What JobQueue assumes of its constants. *)
ASSUME QueueAssumption ==
    /\ Job \subseteq Nat
    /\ {BatchSize, LeaseTicks, MaxAttempts} \subseteq Nat \ {0}
    /\ {BaseDelay, MaximumDelay} \subseteq Nat

VARIABLES
    \* the queue
    clock, rows, nextToken, pc, batchNow, candidates, target, claimed,
    crashes, retries,
    \* preferences
    optedIn,     \* members with the EMAIL preference switched on
    muted,       \* members with the IN_APP preference switched off
    changes,     \* preference changes so far (bounded)
    \* evidence: NotificationDelivery rows and the event row
    inApp,       \* IN_APP row of an event and a member, with what was read
    email,       \* EMAIL row of an event and a member
    webhook,     \* events queued for the outgoing webhooks
    dispatched,  \* events with dispatchedAt set
    \* the handler in each worker
    phase,       \* next statement of the handler
    mailTo,      \* EMAIL preferences as read by this run
    toMail,      \* recipients of mailTo the loop has not reached
    muteSeen,    \* IN_APP preferences as read by this run
    mailing,     \* the recipient the loop is at
    \* history, not in the program
    accepted,    \* messages the provider accepted, per event and member
    promised     \* members the run that set dispatchedAt had to mail

queueVars == <<clock, rows, nextToken, pc, batchNow, candidates, target,
               claimed, crashes, retries>>
preferenceVars == <<optedIn, muted, changes>>
evidenceVars == <<inApp, email, webhook, dispatched>>
handlerVars == <<phase, mailTo, toMail, muteSeen, mailing>>
historyVars == <<accepted, promised>>
localVars == <<preferenceVars, evidenceVars, handlerVars, historyVars>>
vars == <<queueVars, preferenceVars, evidenceVars, handlerVars, historyVars>>

Queue == INSTANCE JobQueue

-----------------------------------------------------------------------------
Phase == {"off", "inApp", "next", "send", "sent", "refused", "unavailable", "dispatch"}
InAppRow == {"none", "SKIPPED", "unread", "read", "dismissed"}
EmailRow == {"none", "DELIVERED", "FAILED", "SKIPPED"}
Nobody == "nobody"
ASSUME RecipientAssumption == Nobody \notin Recipient

(* The event of the job a worker is processing. *)
Event(w) == Head(claimed[w]).job

Init ==
    /\ Queue!Init
    /\ optedIn \in SUBSET Recipient
    /\ muted \in SUBSET Recipient
    /\ changes = 0
    /\ inApp = [j \in Job |-> [r \in Recipient |-> "none"]]
    /\ email = [j \in Job |-> [r \in Recipient |-> "none"]]
    /\ webhook = {}
    /\ dispatched = {}
    /\ phase = [w \in Worker |-> "off"]
    /\ mailTo = [w \in Worker |-> {}]
    /\ toMail = [w \in Worker |-> {}]
    /\ muteSeen = [w \in Worker |-> {}]
    /\ mailing = [w \in Worker |-> Nobody]
    /\ accepted = [j \in Job |-> [r \in Recipient |-> 0]]
    /\ promised = [j \in Job |-> {}]

(* Between two statements of the handler nothing of the queue changes. *)
At(w, label) ==
    /\ pc[w] = "run"
    /\ claimed[w] # << >>
    /\ phase[w] = label

Then(w, label) ==
    /\ phase' = [phase EXCEPT ![w] = label]
    /\ UNCHANGED queueVars

(* The handler returns or throws: the step of the queue that it implements.*)
Leave(w, outcome) ==
    /\ Queue!RunHandler(w)
    /\ pc' = [pc EXCEPT ![w] = outcome]
    /\ phase' = [phase EXCEPT ![w] = "off"]
    /\ mailTo' = [mailTo EXCEPT ![w] = {}]
    /\ toMail' = [toMail EXCEPT ![w] = {}]
    /\ muteSeen' = [muteSeen EXCEPT ![w] = {}]
    /\ mailing' = [mailing EXCEPT ![w] = Nobody]

(* event.dispatchedAt is set: alreadyDispatched, nothing is repeated. *)
AlreadyDispatched(w) ==
    /\ At(w, "off")
    /\ Event(w) \in dispatched
    /\ Leave(w, "complete")
    /\ UNCHANGED <<preferenceVars, evidenceVars, historyVars>>

(* The event, the members and their preferences are read. *)
ReadEvent(w) ==
    /\ At(w, "off")
    /\ Event(w) \notin dispatched
    /\ mailTo' = [mailTo EXCEPT ![w] = optedIn]
    /\ toMail' = [toMail EXCEPT ![w] = optedIn]
    /\ muteSeen' = [muteSeen EXCEPT ![w] = muted]
    /\ Then(w, "inApp")
    /\ UNCHANGED <<preferenceVars, evidenceVars, mailing, historyVars>>

(* Fault: the rows are written again on every attempt. *)
CreateInApp_Upserts(w) ==
    /\ At(w, "inApp")
    /\ inApp' = [inApp EXCEPT ![Event(w)] = [r \in Recipient |->
            IF r \in muteSeen[w] THEN "SKIPPED" ELSE "unread"]]
    /\ Then(w, "next")
    /\ UNCHANGED <<preferenceVars, email, webhook, dispatched, mailTo, toMail, muteSeen,
                   mailing, historyVars>>

(* createMany with skipDuplicates: rows that exist stay as they are. *)
CreateInApp(w) ==
    /\ At(w, "inApp")
    /\ inApp' = [inApp EXCEPT ![Event(w)] = [r \in Recipient |->
            IF @[r] # "none" THEN @[r]
            ELSE IF r \in muteSeen[w] THEN "SKIPPED" ELSE "unread"]]
    /\ Then(w, "next")
    /\ UNCHANGED <<preferenceVars, email, webhook, dispatched, mailTo, toMail, muteSeen,
                   mailing, historyVars>>

(* Fault: earlier evidence is not looked up. *)
NextRecipient_NoLookup(w) ==
    /\ At(w, "next")
    /\ \E r \in toMail[w] :
          /\ toMail' = [toMail EXCEPT ![w] = @ \ {r}]
          /\ mailing' = [mailing EXCEPT ![w] = r]
    /\ Then(w, "send")
    /\ UNCHANGED <<preferenceVars, evidenceVars, mailTo, muteSeen, historyVars>>

(* The loop takes the next opted-in recipient, unless DELIVERED evidence   *)
(* already exists for the member.                                          *)
NextRecipient(w) ==
    /\ At(w, "next")
    /\ \E r \in toMail[w] :
          /\ toMail' = [toMail EXCEPT ![w] = @ \ {r}]
          /\ IF email[Event(w)][r] = "DELIVERED"
             THEN Then(w, "next") /\ UNCHANGED mailing
             ELSE Then(w, "send") /\ mailing' = [mailing EXCEPT ![w] = r]
    /\ UNCHANGED <<preferenceVars, evidenceVars, mailTo, muteSeen, historyVars>>

(* The provider call: accepted; rejected, or lost with or without having   *)
(* been accepted (a timeout); or no provider is configured.                *)
SendEmail(w) ==
    /\ At(w, "send")
    /\ \/ /\ accepted' = [accepted EXCEPT ![Event(w)][mailing[w]] = @ + 1]
          /\ Then(w, "sent") \/ Then(w, "refused")
       \/ /\ UNCHANGED accepted
          /\ Then(w, "refused") \/ Then(w, "unavailable")
    /\ UNCHANGED <<preferenceVars, evidenceVars, mailTo, toMail, muteSeen, mailing, promised>>

RecordEmail(w, status) ==
    email' = [email EXCEPT ![Event(w)][mailing[w]] = status]

(* The upsert after an accepted message, or after none could be sent. *)
RecordOutcome(w) ==
    /\ \/ At(w, "sent") /\ RecordEmail(w, "DELIVERED")
       \/ At(w, "unavailable") /\ RecordEmail(w, "SKIPPED")
    /\ mailing' = [mailing EXCEPT ![w] = Nobody]
    /\ Then(w, "next")
    /\ UNCHANGED <<preferenceVars, inApp, webhook, dispatched, mailTo, toMail, muteSeen,
                   historyVars>>

(* Fault: the exception is recorded and swallowed. *)
RecordFailure_Continues(w) ==
    /\ At(w, "refused")
    /\ RecordEmail(w, "FAILED")
    /\ mailing' = [mailing EXCEPT ![w] = Nobody]
    /\ Then(w, "next")
    /\ UNCHANGED <<preferenceVars, inApp, webhook, dispatched, mailTo, toMail, muteSeen,
                   historyVars>>

(* The upsert after an exception, which is then thrown on. *)
RecordFailure(w) ==
    /\ At(w, "refused")
    /\ RecordEmail(w, "FAILED")
    /\ Leave(w, "fail")
    /\ UNCHANGED <<preferenceVars, inApp, webhook, dispatched, historyVars>>

(* Fault: the webhook step does not wait for the mail loop. *)
QueueWebhook_Early(w) ==
    /\ At(w, "next")
    /\ webhook' = webhook \union {Event(w)}
    /\ Then(w, "dispatch")
    /\ UNCHANGED <<preferenceVars, inApp, email, dispatched, mailTo, toMail, muteSeen,
                   mailing, historyVars>>

(* queueOutgoingWebhookEvent, idempotent by its key. *)
QueueWebhook(w) ==
    /\ At(w, "next")
    /\ toMail[w] = {}
    /\ webhook' = webhook \union {Event(w)}
    /\ Then(w, "dispatch")
    /\ UNCHANGED <<preferenceVars, inApp, email, dispatched, mailTo, toMail, muteSeen,
                   mailing, historyVars>>

(* dispatchedAt is written and the handler returns. *)
MarkDispatched(w) ==
    /\ At(w, "dispatch")
    /\ dispatched' = dispatched \union {Event(w)}
    /\ promised' = [promised EXCEPT ![Event(w)] = @ \union mailTo[w]]
    /\ Leave(w, "complete")
    /\ UNCHANGED <<preferenceVars, inApp, email, webhook, accepted>>

(* Any statement may raise a database error; the handler throws it on. *)
HandlerThrows(w) ==
    /\ pc[w] = "run"
    /\ claimed[w] # << >>
    /\ Leave(w, "fail")
    /\ UNCHANGED <<preferenceVars, evidenceVars, historyVars>>

HandlerStep(w) ==
    \/ AlreadyDispatched(w)
    \/ ReadEvent(w)
    \/ CreateInApp(w)
    \/ NextRecipient(w)
    \/ SendEmail(w)
    \/ RecordOutcome(w)
    \/ RecordFailure(w)
    \/ QueueWebhook(w)
    \/ MarkDispatched(w)
    \/ HandlerThrows(w)

(* The process dies; what its handler knew dies with it. *)
CrashWorker(w) ==
    /\ Queue!Crash(w)
    /\ phase' = [phase EXCEPT ![w] = "off"]
    /\ mailTo' = [mailTo EXCEPT ![w] = {}]
    /\ toMail' = [toMail EXCEPT ![w] = {}]
    /\ muteSeen' = [muteSeen EXCEPT ![w] = {}]
    /\ mailing' = [mailing EXCEPT ![w] = Nobody]
    /\ UNCHANGED <<preferenceVars, evidenceVars, historyVars>>

(* The steps of the queue that are not the handler's. *)
QueueStep(w) ==
    /\ \/ Queue!FindCandidates(w)
       \/ Queue!ClaimRow(w)
       \/ Queue!SkipCandidate(w)
       \/ Queue!RereadRow(w)
       \/ Queue!StartProcessing(w)
       \/ Queue!FinishBatch(w)
       \/ Queue!CompleteJob(w)
       \/ Queue!CompleteRefused(w)
       \/ Queue!FailJob(w)
       \/ Queue!AbortBatch(w)
    /\ UNCHANGED localVars

OutsideStep ==
    /\ Queue!Tick \/ \E j \in Job : Queue!Enqueue(j) \/ Queue!RetryDeadLetter(j)
    /\ UNCHANGED localVars

-----------------------------------------------------------------------------
(* setNotificationPreference by a member, on either channel. *)
SetPreference(r) ==
    /\ changes < MaxChanges
    /\ changes' = changes + 1
    /\ \/ /\ optedIn' = IF r \in optedIn THEN optedIn \ {r} ELSE optedIn \union {r}
          /\ UNCHANGED muted
       \/ /\ muted' = IF r \in muted THEN muted \ {r} ELSE muted \union {r}
          /\ UNCHANGED optedIn
    /\ UNCHANGED <<queueVars, evidenceVars, handlerVars, historyVars>>

(* updateInAppDelivery: only a DELIVERED row matches, and marking a        *)
(* dismissed one as read leaves it dismissed.                              *)
ReadInApp(j, r) ==
    /\ inApp[j][r] = "unread"
    /\ inApp' = [inApp EXCEPT ![j][r] = "read"]
    /\ UNCHANGED <<queueVars, preferenceVars, email, webhook, dispatched,
                   handlerVars, historyVars>>

DismissInApp(j, r) ==
    /\ inApp[j][r] \in {"unread", "read"}
    /\ inApp' = [inApp EXCEPT ![j][r] = "dismissed"]
    /\ UNCHANGED <<queueVars, preferenceVars, email, webhook, dispatched,
                   handlerVars, historyVars>>

(* bulkUpdateSubscriberNotifications: read everything, or dismiss what has *)
(* been read, over all the member's notifications.                         *)
BulkUpdate(r) ==
    /\ \E from, to \in InAppRow :
          /\ <<from, to>> \in {<<"unread", "read">>, <<"read", "dismissed">>}
          /\ \E j \in Job : inApp[j][r] = from
          /\ inApp' = [j \in Job |->
                [inApp[j] EXCEPT ![r] = IF @ = from THEN to ELSE @]]
    /\ UNCHANGED <<queueVars, preferenceVars, email, webhook, dispatched,
                   handlerVars, historyVars>>

MemberStep ==
    \E r \in Recipient :
        \/ SetPreference(r)
        \/ BulkUpdate(r)
        \/ \E j \in Job : ReadInApp(j, r) \/ DismissInApp(j, r)

Next ==
    \/ \E w \in Worker : HandlerStep(w) \/ QueueStep(w) \/ CrashWorker(w)
    \/ OutsideStep
    \/ MemberStep

Spec == Init /\ [][Next]_vars

-----------------------------------------------------------------------------
(* The handler's variables agree with the queue's program counter. *)
TypeOK ==
    /\ Queue!TypeOK
    /\ optedIn \subseteq Recipient /\ muted \subseteq Recipient
    /\ inApp \in [Job -> [Recipient -> InAppRow]]
    /\ email \in [Job -> [Recipient -> EmailRow]]
    /\ webhook \subseteq Job /\ dispatched \subseteq Job
    /\ phase \in [Worker -> Phase]
    /\ mailTo \in [Worker -> SUBSET Recipient]
    /\ toMail \in [Worker -> SUBSET Recipient]
    /\ muteSeen \in [Worker -> SUBSET Recipient]
    /\ mailing \in [Worker -> Recipient \union {Nobody}]
    /\ accepted \in [Job -> [Recipient -> Nat]]
    /\ promised \in [Job -> SUBSET Recipient]
    /\ \A w \in Worker :
          /\ phase[w] # "off" => pc[w] = "run"
          /\ phase[w] \in {"send", "sent", "refused", "unavailable"} <=> mailing[w] # Nobody

(* A DELIVERED email row is never written for a message no provider has    *)
(* accepted, whichever workers and failures were involved.                 *)
EvidenceOfMail ==
    \A j \in Job, r \in Recipient : email[j][r] = "DELIVERED" => accepted[j][r] > 0

(* A job reported as SUCCEEDED has really dispatched its event, even when  *)
(* the run that completed it was not the one that dispatched.              *)
SucceededMeansDispatched ==
    \A j \in Job : rows[j].status = "SUCCEEDED" => j \in dispatched

(* dispatchedAt stops every later run, so it may only be set when nothing  *)
(* is left to do: the webhook is queued, every member has an in-app row,   *)
(* and everybody whose opt-in the run had read has an email row.           *)
DispatchedIsComplete ==
    \A j \in dispatched :
        /\ j \in webhook
        /\ \A r \in Recipient : inApp[j][r] # "none"
        /\ \A r \in promised[j] : email[j][r] # "none"

(* What a worker inside the handler has already done for its event; the    *)
(* inductive invariant of NotificationProofs.                              *)
HandlerInv(w) ==
    /\ phase[w] # "off" => pc[w] = "run" /\ claimed[w] # << >>
    /\ pc[w] = "complete" => Event(w) \in dispatched
    /\ phase[w] = "sent" => accepted[Event(w)][mailing[w]] > 0
    /\ phase[w] \notin {"off", "inApp"} =>
          \A r \in Recipient : inApp[Event(w)][r] # "none"
    /\ phase[w] # "off" =>
          \A r \in mailTo[w] : r \in toMail[w] \/ r = mailing[w] \/ email[Event(w)][r] # "none"
    /\ phase[w] = "dispatch" => toMail[w] = {} /\ Event(w) \in webhook

PromisesKept == \A j \in Job : \A r \in promised[j] : email[j][r] # "none"

IInv ==
    /\ TypeOK
    /\ PromisesKept
    /\ EvidenceOfMail
    /\ SucceededMeansDispatched
    /\ DispatchedIsComplete
    /\ \A w \in Worker : HandlerInv(w)

(* A redelivery after a retry never brings back what the member has read   *)
(* or dismissed in the meantime.                                           *)
KeepsReadState ==
    \A j \in Job, r \in Recipient :
        /\ inApp[j][r] = "dismissed" => inApp'[j][r] = "dismissed"
        /\ inApp[j][r] = "read" => inApp'[j][r] \in {"read", "dismissed"}

ReadStateSurvivesRetry == [][KeepsReadState]_vars

(* With the one worker the documentation prescribes, DELIVERED evidence is *)
(* final: no later attempt mails the member again or downgrades the row,   *)
(* also after a crash anywhere in the handler.                             *)
KeepsMailEvidence ==
    \A j \in Job, r \in Recipient :
        email[j][r] = "DELIVERED" =>
            /\ email'[j][r] = "DELIVERED"
            /\ accepted'[j][r] = accepted[j][r]

MailEvidenceIsFinal == [][KeepsMailEvidence]_vars

(* With one worker an event is not closed over a member whose mail failed. *)
NoFailureClosed ==
    \A j \in dispatched : \A r \in promised[j] : email[j][r] \in {"DELIVERED", "SKIPPED"}

(* What the only worker knows of its run: nothing of the event changes      *)
(* under it, and the member it is about to mail has no DELIVERED row.      *)
SoleRun(w) ==
    /\ Event(w) \notin dispatched
    /\ mailing[w] # Nobody => email[Event(w)][mailing[w]] # "DELIVERED"
    /\ \A r \in mailTo[w] :
          \/ r \in toMail[w] \/ r = mailing[w]
          \/ email[Event(w)][r] \in {"DELIVERED", "SKIPPED"}

(* The one worker of the documented deployment, and its invariant.         *)
OneWorker == \A v, w \in Worker : v = w

OneWorkerInv ==
    /\ NoFailureClosed
    /\ \A j \in Job \ dispatched : promised[j] = {}
    /\ \A w \in Worker : phase[w] # "off" => SoleRun(w)

(* What the records of a notification are worth in every state: mail is    *)
(* recorded as delivered only when the provider took it, and a job that    *)
(* succeeded left an outcome for each member and its webhook event.        *)
EvidenceSound == EvidenceOfMail /\ SucceededMeansDispatched /\ DispatchedIsComplete
=============================================================================
